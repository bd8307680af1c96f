---------------------------- MODULE SystemGrants ----------------------------
(***************************************************************************)
(* Two things the bridge obtains from the system and must give back        *)
(* exactly: exclusive global hot keys (DaGlobalHotKeyOwner) and the Secure *)
(* Event Input reference (DaSecureEventInputOwner), both in                *)
(* AppKitBridge.mm.  Carbon may refuse any request.  A key press waits in  *)
(* the event queue, so it may be dispatched after its key was released;    *)
(* the application's activation changes a moment before AppKit says so.    *)
(*                                                                         *)
(* Everything runs on the main thread: a call is one action.  A handle of  *)
(* the registry is a number that is not used again.                        *)
(***************************************************************************)
EXTENDS Naturals, Sequences, Functions

CONSTANTS
  Chord,          \* key combinations
  MaxKeys,        \* bound on registrations
  MaxPresses,     \* bound on presses in the event queue
  MaxStranded     \* bound on references left behind

GrantsAssumption == {MaxKeys, MaxPresses, MaxStranded} \subseteq Nat

NoReport == [pressed |-> "none", bound |-> "none"]

VARIABLES
  handler,        \* g_global_hot_key_event_handler is installed
  handles,        \* g_global_hot_key_handles: identifier to handle
  nextIdentifier, \* g_next_global_hot_key_identifier
  keys,           \* live owners: handle to identifier and chord
  nextHandle,     \* handles given out
  carbon,         \* Carbon: registered hot keys
  presses,        \* Carbon: presses not dispatched yet
  report,         \* history: the chord of the last press dispatched and that
                  \* of the key it was posted for
  lease,          \* the secure input owner, with _desired, _ownedEnabled and
                  \* _lastOSStatus
  active,         \* NSApp is active
  notice,         \* AppKit is about to post that this changed
  held,           \* Carbon: secure input references this process holds
  stranded        \* history: references that no owner knows any more

keyVars == <<handler, handles, nextIdentifier, keys, nextHandle, carbon,
             presses, report>>
leaseVars == <<lease, active, notice, held, stranded>>
grantsVars == <<keyVars, leaseVars>>

NoLease == [exists |-> FALSE, desired |-> FALSE, owned |-> FALSE,
            last |-> "ok"]
NewLease == [NoLease EXCEPT !.exists = TRUE]

GrantsInit ==
  /\ handler = FALSE
  /\ handles = <<>>
  /\ nextIdentifier = 1
  /\ keys = <<>>
  /\ nextHandle = 1
  /\ carbon = {}
  /\ presses = <<>>
  /\ report = NoReport
  /\ lease = NoLease
  /\ active \in BOOLEAN
  /\ notice = FALSE
  /\ held = 0
  /\ stranded = 0

-----------------------------------------------------------------------------
(* Global hot keys.                                                        *)

With(f, x, y) == [z \in DOMAIN f \cup {x} |-> IF z = x THEN y ELSE f[z]]
Without(f, x) == Restrict(f, DOMAIN f \ {x})

\* StopGlobalHotKeyEventHandlerIfUnused, after the handles have become m.
HandlerFor(m) == DOMAIN m # {}

MayRegister == nextIdentifier <= MaxKeys

\* Mutant: a failure takes the shared handler down whoever else uses it.
RegistrationFailsForAll ==
  /\ MayRegister
  /\ handler' = FALSE
  /\ nextIdentifier' \in {nextIdentifier, nextIdentifier + 1}
  /\ UNCHANGED <<handles, keys, nextHandle, carbon, presses, report, leaseVars>>

\* da_global_hot_key_register: the event handler cannot be installed; Carbon
\* refuses the chord; or the registry is full and the key is given back.  An
\* identifier that was used is not used again.
RegistrationFails ==
  /\ MayRegister
  /\ \/ handler = FALSE /\ UNCHANGED <<handler, nextIdentifier>>
     \/ /\ nextIdentifier' = nextIdentifier + 1
        /\ handler' = HandlerFor(handles)
  /\ UNCHANGED <<handles, keys, nextHandle, carbon, presses, report, leaseVars>>

\* Carbon grants a chord to one exclusive registration.
RegisterKey(chord) ==
  /\ MayRegister
  /\ \A k \in carbon : k.chord # chord
  /\ handler' = TRUE
  /\ nextIdentifier' = nextIdentifier + 1
  /\ carbon' = carbon \cup {[identifier |-> nextIdentifier, chord |-> chord]}
  /\ nextHandle' = nextHandle + 1
  /\ handles' = With(handles, nextIdentifier, nextHandle)
  /\ keys' = With(keys, nextHandle,
                  [identifier |-> nextIdentifier, chord |-> chord])
  /\ UNCHANGED <<presses, report, leaseVars>>

\* daPrepareForRelease, and the release of the handle.
ReleaseKey(h) ==
  /\ h \in DOMAIN keys
  /\ handles' = Without(handles, keys[h].identifier)
  /\ carbon' = {k \in carbon : k.identifier # keys[h].identifier}
  /\ handler' = HandlerFor(handles')
  /\ keys' = Without(keys, h)
  /\ UNCHANGED <<nextIdentifier, nextHandle, presses, report, leaseVars>>

UserPresses(key) ==
  /\ key \in carbon
  /\ Len(presses) < MaxPresses
  /\ presses' = Append(presses, key)
  /\ UNCHANGED <<handler, handles, nextIdentifier, keys, nextHandle, carbon,
                 report, leaseVars>>

ChordOf(h) == IF h \in DOMAIN keys THEN keys[h].chord ELSE "none"

\* HandleGlobalHotKeyEvent posts for the handle its identifier stands for.
DispatchPress ==
  /\ presses # <<>>
  /\ presses' = Tail(presses)
  /\ LET press == Head(presses)
     IN  report' = IF handler /\ press.identifier \in DOMAIN handles
                   THEN [pressed |-> press.chord,
                         bound |-> ChordOf(handles[press.identifier])]
                   ELSE NoReport
  /\ UNCHANGED <<handler, handles, nextIdentifier, keys, nextHandle, carbon,
                 leaseVars>>

-----------------------------------------------------------------------------
(* Secure Event Input.                                                     *)

CreateLease ==
  /\ ~lease.exists
  /\ lease' = NewLease
  /\ UNCHANGED <<keyVars, active, notice, held, stranded>>

\* Carbon counts the references each process holds.
Refer(target) == held' = IF target THEN held + 1 ELSE held - 1

\* Mutant: the application's activity is not asked for.
ApplyDesired(desired) ==
  LET target == desired
  IN  \/ /\ target = lease.owned
         /\ lease' = [lease EXCEPT !.desired = desired, !.last = "ok"]
         /\ UNCHANGED held
      \/ /\ target # lease.owned
         /\ lease' = [lease EXCEPT !.desired = desired, !.last = "failed"]
         /\ UNCHANGED held
      \/ /\ target # lease.owned
         /\ lease' = [lease EXCEPT !.desired = desired, !.last = "ok",
                                   !.owned = target]
         /\ Refer(target)

\* daApplyForCurrentApplicationActivity, once the request is recorded.
ApplyForActivity(desired) ==
  LET target == desired /\ active
  IN  \/ /\ target = lease.owned
         /\ lease' = [lease EXCEPT !.desired = desired, !.last = "ok"]
         /\ UNCHANGED held
      \/ /\ target # lease.owned
         /\ lease' = [lease EXCEPT !.desired = desired, !.last = "failed"]
         /\ UNCHANGED held
      \/ /\ target # lease.owned
         /\ lease' = [lease EXCEPT !.desired = desired, !.last = "ok",
                                   !.owned = target]
         /\ Refer(target)

SetDesired(desired) ==
  /\ lease.exists
  /\ ApplyForActivity(desired)
  /\ UNCHANGED <<keyVars, active, notice, stranded>>

\* The application becomes active or resigns; AppKit posts it thereafter.
ActivationChanges ==
  /\ ~notice
  /\ active' = ~active
  /\ notice' = TRUE
  /\ UNCHANGED <<keyVars, lease, held, stranded>>

\* daApplicationActivationChanged:
ActivationNoticed ==
  /\ notice
  /\ notice' = FALSE
  /\ IF lease.exists THEN ApplyForActivity(lease.desired)
                     ELSE UNCHANGED <<lease, held>>
  /\ UNCHANGED <<keyVars, active, stranded>>

\* daPrepareForRelease: when Carbon refuses, the reference is forgotten.
ReleaseLease ==
  /\ lease.exists
  /\ lease' = NoLease
  /\ \/ ~lease.owned /\ UNCHANGED <<held, stranded>>
     \/ lease.owned /\ Refer(FALSE) /\ UNCHANGED stranded
     \/ /\ lease.owned /\ stranded < MaxStranded
        /\ stranded' = stranded + 1
        /\ UNCHANGED held
  /\ UNCHANGED <<keyVars, active, notice>>

GrantsNext ==
  \/ RegistrationFails
  \/ \E chord \in Chord : RegisterKey(chord)
  \/ \E h \in DOMAIN keys : ReleaseKey(h)
  \/ \E key \in carbon : UserPresses(key)
  \/ DispatchPress
  \/ CreateLease
  \/ \E desired \in BOOLEAN : SetDesired(desired)
  \/ ActivationChanges
  \/ ActivationNoticed
  \/ ReleaseLease

GrantsSpec == GrantsInit /\ [][GrantsNext]_grantsVars

-----------------------------------------------------------------------------
(* Properties.                                                             *)

\* Carbon, the identifier map and the live owners always agree on the hot
\* keys, through failed registrations too; the shared event handler is there
\* exactly while one of them is; and a press is posted for no key but a live
\* one with the chord that was pressed, however late it is dispatched.
HotKeysAreExact ==
  /\ {k.identifier : k \in carbon} = DOMAIN handles
  /\ \A h \in DOMAIN keys : /\ keys[h] \in carbon
                            /\ handles[keys[h].identifier] = h
  /\ {handles[i] : i \in DOMAIN handles} = DOMAIN keys
  /\ handler <=> DOMAIN keys # {}
  /\ report.bound = report.pressed

\* The process holds the secure input reference its owner records, and no
\* other but those a failed release left behind; once the last call to Carbon
\* succeeded and AppKit has said what changed, that is one exactly while it is
\* desired and the application is active.
LeaseFollowsRequest ==
  /\ held = (IF lease.owned THEN 1 ELSE 0) + stranded
  /\ lease.exists /\ lease.last = "ok" /\ ~notice =>
       lease.owned = (lease.desired /\ active)
=============================================================================
