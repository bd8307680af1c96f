--------------------------- MODULE ReleaseProtocol ---------------------------
(***************************************************************************)
(* Who releases a native object, and when (AppKitBridge.mm).  Three paths  *)
(* end a handle: da_release on the main thread, da_release_async or the    *)
(* Dart finalizer on any thread, which only claims the handle and hands    *)
(* the teardown to the main queue, and ShutdownBridge, which sweeps what   *)
(* is left.  The paths race through the registry mutex, two atomics and    *)
(* the main dispatch queue.                                                *)
(*                                                                         *)
(* Main-thread code is one sequential process: its program counter records *)
(* how far a release or the shutdown sweep has come.                       *)
(***************************************************************************)
EXTENDS ObjectRegistry

CONSTANTS
  MaxResets       \* how often ResetBridgeForTesting may re-open the bridge

ASSUME ResetAssumption == MaxResets \in Nat

Releaser == Thread \ {Main}

VARIABLES
  accepting,   \* g_accept_async_releases
  epoch,       \* g_async_release_epoch
  caller,      \* EnqueueAsyncRelease in progress on each other thread
  mainQueue,   \* blocks dispatched to the main queue
  mainPc,      \* what the main thread is executing
  current,     \* the handle it is completing
  sweep,       \* handles the shutdown loop has yet to visit
  resets,      \* bridge incarnations so far
  prepared     \* history: Prepare calls per handle since the last reset

protocolVars ==
  <<accepting, epoch, caller, mainQueue, mainPc, current, sweep, resets,
    prepared>>
vars == <<registryVars, protocolVars>>

\* The main queue holds the claimed handle and the epoch it was claimed in.
Idle == [pc |-> "idle", handle |-> InvalidHandle, epoch |-> 0]

Init ==
  /\ RegistryInit
  /\ accepting = TRUE
  /\ epoch = 1
  /\ caller = [t \in Releaser |-> Idle]
  /\ mainQueue = <<>>
  /\ mainPc = "idle"
  /\ current = InvalidHandle
  /\ sweep = {}
  /\ resets = 0
  /\ prepared = [h \in Handle |-> 0]

-----------------------------------------------------------------------------
(* EnqueueAsyncRelease, on any thread.  Dart may pass any handle it ever   *)
(* received, so stale handles are among the inputs.                        *)

LoadEpoch(t, h) ==
  /\ caller[t].pc = "idle"
  /\ caller' = [caller EXCEPT ![t] =
                  [pc |-> "loaded", handle |-> h, epoch |-> epoch]]
  /\ UNCHANGED <<registryVars, accepting, epoch, mainQueue, mainPc, current,
                 sweep, resets, prepared>>

\* A bridge that is shutting down refuses: the call returns SHUTTING_DOWN.
CheckAccepting(t) ==
  /\ caller[t].pc = "loaded"
  /\ caller' = [caller EXCEPT ![t] =
                  IF accepting THEN [@ EXCEPT !.pc = "checked"] ELSE Idle]
  /\ UNCHANGED <<registryVars, accepting, epoch, mainQueue, mainPc, current,
                 sweep, resets, prepared>>

\* A handle that is no longer live makes the call return INVALID_HANDLE.
ClaimAsync(t) ==
  /\ caller[t].pc = "checked"
  /\ IF Validated(caller[t].handle, "live")
     THEN /\ BeginRelease(caller[t].handle)
          /\ caller' = [caller EXCEPT ![t].pc = "claimed"]
     ELSE /\ caller' = [caller EXCEPT ![t] = Idle]
          /\ UNCHANGED registryVars
  /\ UNCHANGED <<accepting, epoch, mainQueue, mainPc, current, sweep, resets,
                 prepared>>

\* Mutant: the block is queued without the epoch of its claim.
DispatchWithoutEpoch(t) ==
  /\ caller[t].pc = "claimed"
  /\ mainQueue' = Append(mainQueue, [handle |-> caller[t].handle,
                                     epoch |-> 0])
  /\ caller' = [caller EXCEPT ![t] = Idle]
  /\ UNCHANGED <<registryVars, accepting, epoch, mainPc, current, sweep,
                 resets, prepared>>

DispatchCompletion(t) ==
  /\ caller[t].pc = "claimed"
  /\ mainQueue' = Append(mainQueue, [handle |-> caller[t].handle,
                                     epoch |-> caller[t].epoch])
  /\ caller' = [caller EXCEPT ![t] = Idle]
  /\ UNCHANGED <<registryVars, accepting, epoch, mainPc, current, sweep,
                 resets, prepared>>

-----------------------------------------------------------------------------
(* The main thread.                                                        *)

\* A da_*_create call registers an object for Dart.
Create(o, k) ==
  /\ mainPc = "idle"
  /\ Insert(Main, o, k)
  /\ UNCHANGED protocolVars

\* da_release claims and goes on to CompletePendingRelease.
ReleaseNow(h) ==
  /\ mainPc = "idle"
  /\ BeginRelease(h)
  /\ current' = h
  /\ mainPc' = "complete"
  /\ UNCHANGED <<accepting, epoch, caller, mainQueue, sweep, resets, prepared>>

\* Mutant: the block trusts the accepting flag and forgets the epoch.
RunBlockAnyEpoch ==
  /\ mainPc \in {"idle", "down"}
  /\ mainQueue # <<>>
  /\ mainQueue' = Tail(mainQueue)
  /\ IF accepting
     THEN current' = Head(mainQueue).handle /\ mainPc' = "complete"
     ELSE UNCHANGED <<current, mainPc>>
  /\ UNCHANGED <<registryVars, accepting, epoch, caller, sweep, resets,
                 prepared>>

\* The dispatched block completes a claim of its own epoch.
RunBlock ==
  /\ mainPc \in {"idle", "down"}
  /\ mainQueue # <<>>
  /\ mainQueue' = Tail(mainQueue)
  /\ IF accepting /\ epoch = Head(mainQueue).epoch
     THEN current' = Head(mainQueue).handle /\ mainPc' = "complete"
     ELSE UNCHANGED <<current, mainPc>>
  /\ UNCHANGED <<registryVars, accepting, epoch, caller, sweep, resets,
                 prepared>>

\* Where the main thread goes when CompletePendingRelease returns.
Resume == IF accepting THEN "idle" ELSE "sweep"

\* CompletePendingRelease finds the claimed object and runs the teardown of
\* its kind outside the registry mutex; without a claimed object it returns.
Prepare ==
  /\ mainPc = "complete"
  /\ IF Validated(current, "releasePending")
     THEN /\ prepared' = [prepared EXCEPT ![current] = @ + 1]
          /\ mainPc' = "finish"
          /\ UNCHANGED current
     ELSE /\ mainPc' = Resume
          /\ current' = InvalidHandle
          /\ UNCHANGED prepared
  /\ UNCHANGED <<registryVars, accepting, epoch, caller, mainQueue, sweep,
                 resets>>

Finish ==
  /\ mainPc = "finish"
  /\ \/ CompleteRelease(Main, current)
     \/ ~Validated(current, "releasePending") /\ UNCHANGED registryVars
  /\ mainPc' = Resume
  /\ current' = InvalidHandle
  /\ UNCHANGED <<accepting, epoch, caller, mainQueue, sweep, resets, prepared>>

-----------------------------------------------------------------------------
(* ShutdownBridge.                                                         *)

StopAccepting ==
  /\ mainPc = "idle"
  /\ accepting' = FALSE
  /\ mainPc' = "closing"
  /\ UNCHANGED <<registryVars, epoch, caller, mainQueue, current, sweep,
                 resets, prepared>>

AdvanceEpoch ==
  /\ mainPc = "closing"
  /\ epoch' = epoch + 1
  /\ mainPc' = "snapshot"
  /\ UNCHANGED <<registryVars, accepting, caller, mainQueue, current, sweep,
                 resets, prepared>>

SnapshotHandles ==
  /\ mainPc = "snapshot"
  /\ sweep' = LiveHandles
  /\ mainPc' = "sweep"
  /\ UNCHANGED <<registryVars, accepting, epoch, caller, mainQueue, current,
                 resets, prepared>>

\* The loop visits the handles in index order.
IsNext(h) == h \in sweep /\ \A g \in sweep : h[1] <= g[1]

\* Mutant: the sweep completes only the handles it claimed itself.
SweepHandleOwnClaims(h) ==
  /\ mainPc = "sweep"
  /\ IsNext(h)
  /\ sweep' = sweep \ {h}
  /\ IF Validated(h, "live")
     THEN BeginRelease(h) /\ mainPc' = "complete" /\ current' = h
     ELSE UNCHANGED <<registryVars, mainPc, current>>
  /\ UNCHANGED <<accepting, epoch, caller, mainQueue, resets, prepared>>

\* The sweep claims each handle, or completes the claim another thread made.
SweepHandle(h) ==
  /\ mainPc = "sweep"
  /\ IsNext(h)
  /\ sweep' = sweep \ {h}
  /\ current' = h
  /\ mainPc' = "complete"
  /\ \/ BeginRelease(h)
     \/ ~Validated(h, "live") /\ UNCHANGED registryVars
  /\ UNCHANGED <<accepting, epoch, caller, mainQueue, resets, prepared>>

ClearRegistry ==
  /\ mainPc = "sweep"
  /\ sweep = {}
  /\ Clear
  /\ mainPc' = "down"
  /\ UNCHANGED <<accepting, epoch, caller, mainQueue, current, sweep, resets,
                 prepared>>

\* ResetBridgeForTesting re-opens a bridge that has been shut down.
Reset ==
  /\ mainPc = "down"
  /\ resets < MaxResets
  /\ accepting' = TRUE
  /\ cleared' = FALSE
  /\ resets' = resets + 1
  /\ mainPc' = "idle"
  /\ prepared' = [h \in Handle |-> 0]
  /\ UNCHANGED <<size, slotVars, freeIndices, liveCount, epoch, caller,
                 mainQueue, current, sweep>>

-----------------------------------------------------------------------------
AsyncStep(t) == CheckAccepting(t) \/ ClaimAsync(t) \/ DispatchCompletion(t)

MainStep ==
  \/ RunBlock
  \/ Prepare
  \/ Finish
  \/ AdvanceEpoch
  \/ SnapshotHandles
  \/ \E h \in sweep : SweepHandle(h)
  \/ ClearRegistry

Next ==
  \/ \E t \in Releaser : AsyncStep(t) \/ \E h \in Handle : LoadEpoch(t, h)
  \/ \E o \in Object, k \in Kind : Create(o, k)
  \/ \E h \in Handle : ReleaseNow(h)
  \/ StopAccepting
  \/ Reset
  \/ MainStep

Spec == Init /\ [][Next]_vars

\* Threads inside EnqueueAsyncRelease keep running, and the main run loop
\* keeps executing what it has started and what is queued on it.
FairSpec ==
  /\ Spec
  /\ \A t \in Releaser : WF_vars(AsyncStep(t))
  /\ WF_vars(MainStep)

-----------------------------------------------------------------------------
(* Properties.                                                             *)

\* However finalizers, explicit releases and the shutdown sweep interleave,
\* the teardown of an object runs at most once: window close, hot-key
\* unregistration and the like are not idempotent.
TornDownAtMostOnce == \A h \in Handle : prepared[h] <= 1

\* When the sweep ends, the registry Clear is about to drop is already empty:
\* no object loses its handle without its teardown, not even one a finalizer
\* claimed while the bridge was closing.
SweepLeavesNothing ==
  mainPc = "sweep" /\ sweep = {} => \A i \in Index : ~Occupied(i)

\* A queued block belongs to a claim made since the last re-opening or is
\* never completed: an object registered after ResetBridgeForTesting under a
\* recycled handle value is not torn down by a block of the previous bridge.
BlocksStayInTheirEpoch ==
  [][(/\ mainPc \in {"idle", "down"}
       /\ mainPc' = "complete"
       /\ mainQueue' # mainQueue) => Head(mainQueue).epoch > resets]_vars

\* A handle claimed in the life of a bridge is eventually torn down, by its
\* block or by the sweep.  Only a call that began before ResetBridgeForTesting
\* and claims after it is left out: its block belongs to the old epoch, and the
\* claim waits for the next shutdown.
ClaimsComplete ==
  \A h \in Handle :
    LeaseStage(h) = "claimed" /\ resets = 0 ~> LeaseStage(h) = "dead"
=============================================================================
