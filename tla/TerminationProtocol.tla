------------------------- MODULE TerminationProtocol -------------------------
(***************************************************************************)
(* Who decides that the application ends (AppKitBridge.mm, application     *)
(* .dart, RuntimeLifecycle.mm, DartHost.mm).  AppKit asks its delegate     *)
(* synchronously; the bridge answers "later", posts an event to Dart and   *)
(* waits for a reply that carries the operation id.  Meanwhile a user may  *)
(* quit again, Dart may terminate the application itself, and an unhandled *)
(* error or the runtime API may queue a termination of its own.            *)
(*                                                                         *)
(* Everything here runs on the main thread, so every action is atomic; the *)
(* main dispatch queue and the Dart event port separate the actions.       *)
(***************************************************************************)
EXTENDS Integers, Sequences, SequencesExt

CONSTANTS
  ExitCode,     \* non-zero process results
  MaxOps        \* operation ids after which the user quits no more

TerminationAssumption ==
  /\ ExitCode \subseteq Nat \ {0}
  /\ MaxOps \in Nat

NoOp == 0       \* no operation pending
NoCode == 0     \* no process result recorded

VARIABLES
  defers,        \* g_defers_application_termination_requests
  pending,       \* g_pending_application_termination_operation_id
  programmatic,  \* g_programmatic_application_termination
  nextOp,        \* g_next_operation_id
  asking,        \* AppKit: not asking, waiting for a reply, or terminating
  blocks,        \* blocks on the main dispatch queue
  dart,          \* the Dart application object and its event port
  dartDefers,    \* _defersTerminationRequests
  inbox,         \* operations posted to the port and not yet delivered
  known,         \* operations Dart has received
  exitCode,      \* requested_exit_code
  requested,     \* termination_requested
  fatal,         \* fatal_error_ is set
  consent,       \* history: Dart allowed the pending request or terminated
  lastRequest    \* history: the runtime request served last

nativeVars == <<defers, pending, programmatic, nextOp>>
dartVars == <<dart, dartDefers, inbox, known>>
runtimeVars == <<exitCode, requested, fatal, lastRequest>>
terminationVars ==
  <<nativeVars, asking, blocks, dartVars, runtimeVars, consent>>

NoRequest == [code |-> NoCode, fresh |-> FALSE]

TerminationInit ==
  /\ defers = FALSE
  /\ pending = NoOp
  /\ programmatic = FALSE
  /\ nextOp = 1
  /\ asking = "no"
  /\ blocks = <<>>
  /\ dart = "starting"
  /\ dartDefers = FALSE
  /\ inbox = <<>>
  /\ known = {}
  /\ exitCode = NoCode
  /\ requested = FALSE
  /\ fatal = FALSE
  /\ consent = FALSE
  /\ lastRequest = NoRequest

Alive == asking # "terminating"
PortOpen == dart \in {"attached", "detaching"}

-----------------------------------------------------------------------------
(* HandleApplicationShouldTerminate, called by AppKit's terminate:.        *)

TerminateNow ==
  \/ programmatic
  \/ ~defers
  \/ pending = NoOp /\ ~PortOpen

\* Mutant: a duplicate request of the user is let through.
ShouldTerminateTwice ==
  IF TerminateNow \/ pending # NoOp
  THEN /\ asking' = "terminating"
       /\ programmatic' = FALSE
       /\ UNCHANGED <<pending, nextOp, inbox>>
  ELSE /\ asking' = "waiting"
       /\ nextOp' = nextOp + 1
       /\ pending' = nextOp
       /\ inbox' = Append(inbox, nextOp)
       /\ UNCHANGED programmatic

\* Terminate now: a programmatic request, no deferral, or a port that does
\* not take the event.  Later: one operation is outstanding, and repeated
\* requests join it.
ShouldTerminate ==
  IF TerminateNow
  THEN /\ asking' = "terminating"
       /\ programmatic' = FALSE
       /\ pending' = IF programmatic THEN NoOp ELSE pending
       /\ nextOp' = IF programmatic \/ ~defers THEN nextOp ELSE nextOp + 1
       /\ UNCHANGED inbox
  ELSE /\ asking' = "waiting"
       /\ IF pending # NoOp
          THEN UNCHANGED <<pending, nextOp, inbox>>
          ELSE /\ nextOp' = nextOp + 1
               /\ pending' = nextOp
               /\ inbox' = Append(inbox, nextOp)
       /\ UNCHANGED programmatic

\* The user picks Quit, or the last window closes.
UserQuit ==
  /\ Alive
  /\ nextOp <= MaxOps
  /\ ShouldTerminate
  /\ UNCHANGED <<defers, blocks, dart, dartDefers, known, runtimeVars,
                 consent>>

\* A queued [NSApp terminate:nil].
RunTerminateBlock ==
  /\ Alive
  /\ blocks # <<>>
  /\ Head(blocks) = "terminate"
  /\ blocks' = Tail(blocks)
  /\ ShouldTerminate
  /\ UNCHANGED <<defers, dart, dartDefers, known, runtimeVars, consent>>

\* A queued replyToApplicationShouldTerminate:YES; AppKit ignores an answer
\* to a question it is not asking.
RunReplyBlock ==
  /\ Alive
  /\ blocks # <<>>
  /\ Head(blocks) = "replyYes"
  /\ blocks' = Tail(blocks)
  /\ asking' = IF asking = "waiting" THEN "terminating" ELSE asking
  /\ UNCHANGED <<nativeVars, dartVars, runtimeVars, consent>>

-----------------------------------------------------------------------------
(* The Dart application object.                                            *)

\* AppKitApplication.attach registers the event port.
Attach ==
  /\ Alive
  /\ dart = "starting"
  /\ dart' = "attached"
  /\ UNCHANGED <<nativeVars, asking, blocks, dartDefers, inbox, known,
                 runtimeVars, consent>>

\* The event loop delivers the next event; a terminating object drops it.
DeliverRequest ==
  /\ Alive
  /\ inbox # <<>>
  /\ inbox' = Tail(inbox)
  /\ known' = IF dart = "attached" THEN known \cup {Head(inbox)} ELSE known
  /\ UNCHANGED <<nativeVars, asking, blocks, dart, dartDefers, runtimeVars,
                 consent>>

\* set defersTerminationRequests; a repeated value is not sent, and the
\* bridge refuses to stop deferring while a request is pending.
SetDeferral(enabled) ==
  /\ Alive
  /\ dart = "attached"
  /\ enabled # dartDefers
  /\ enabled \/ pending = NoOp
  /\ defers' = enabled
  /\ dartDefers' = enabled
  /\ UNCHANGED <<pending, programmatic, nextOp, asking, blocks, dart, inbox,
                 known, runtimeVars, consent>>

\* replyToTerminationRequest; an operation that is not pending is rejected.
Reply(op, allow) ==
  /\ Alive
  /\ dart = "attached"
  /\ op \in known
  /\ op = pending
  /\ pending' = NoOp
  /\ asking' = IF allow THEN "terminating" ELSE "no"
  /\ consent' = (consent \/ (allow /\ op = pending))
  /\ UNCHANGED <<defers, programmatic, nextOp, blocks, dartVars, runtimeVars>>

\* Mutant: termination always goes through the delegate and its deferral.
TerminateThroughDelegate ==
  /\ Alive
  /\ dart = "attached"
  /\ blocks' = Append(blocks, "terminate")
  /\ dart' = "detaching"
  /\ consent' = TRUE
  /\ UNCHANGED <<nativeVars, asking, dartDefers, inbox, known, runtimeVars>>

\* Mutant: the pending request is forgotten without its answer.
TerminateForgetsReply ==
  /\ Alive
  /\ dart = "attached"
  /\ pending' = NoOp
  /\ programmatic' = TRUE
  /\ blocks' = Append(blocks, "terminate")
  /\ dart' = "detaching"
  /\ consent' = TRUE
  /\ UNCHANGED <<defers, nextOp, asking, dartDefers, inbox, known, runtimeVars>>

\* AppKitApplication.terminate and da_application_terminate: answer the
\* pending request, or terminate past the deferral.
Terminate ==
  /\ Alive
  /\ dart = "attached"
  /\ IF pending # NoOp
     THEN /\ pending' = NoOp
          /\ blocks' = Append(blocks, "replyYes")
          /\ UNCHANGED programmatic
     ELSE /\ programmatic' = TRUE
          /\ blocks' = Append(blocks, "terminate")
          /\ UNCHANGED pending
  /\ dart' = "detaching"
  /\ consent' = TRUE
  /\ UNCHANGED <<defers, nextOp, asking, dartDefers, inbox, known, runtimeVars>>

\* terminate goes on after its first await: the port closes.
ClosePort ==
  /\ Alive
  /\ dart = "detaching"
  /\ dart' = "closed"
  /\ inbox' = <<>>
  /\ dartDefers' = FALSE
  /\ UNCHANGED <<nativeVars, asking, blocks, known, runtimeVars, consent>>

-----------------------------------------------------------------------------
(* Terminations the host queues.                                           *)

\* RecordExitCode: the first result wins, repeating it is accepted.
MayRecord(code) == exitCode \in {NoCode, code}

\* dmr_runtime_set_exit_code; a conflicting result is refused.
SetExitCode(code) ==
  /\ Alive
  /\ MayRecord(code)
  /\ exitCode' = code
  /\ UNCHANGED <<nativeVars, asking, blocks, dartVars, requested, fatal,
                 lastRequest, consent>>

\* dmr_runtime_request_termination; a conflicting result is refused.
RequestTermination(code) ==
  /\ Alive
  /\ code # NoCode => MayRecord(code)
  /\ exitCode' = IF code # NoCode THEN code ELSE exitCode
  /\ requested' = TRUE
  /\ blocks' = IF requested THEN blocks ELSE Append(blocks, "terminate")
  /\ lastRequest' = [code |-> code,
                     fresh |-> ~requested \/ exitCode' # exitCode]
  /\ UNCHANGED <<nativeVars, asking, dartVars, fatal, consent>>

\* DartHost::RecordFatalError after an unhandled error of a Dart message.
FatalError ==
  /\ Alive
  /\ ~fatal
  /\ fatal' = TRUE
  /\ blocks' = Append(blocks, "terminate")
  /\ UNCHANGED <<nativeVars, asking, dartVars, exitCode, requested,
                 lastRequest, consent>>

-----------------------------------------------------------------------------
MainQueue == RunTerminateBlock \/ RunReplyBlock

TerminationNext ==
  \/ UserQuit
  \/ MainQueue
  \/ Attach
  \/ DeliverRequest
  \/ \E enabled \in BOOLEAN : SetDeferral(enabled)
  \/ \E op \in known, allow \in BOOLEAN : Reply(op, allow)
  \/ Terminate
  \/ ClosePort
  \/ \E code \in ExitCode : SetExitCode(code)
  \/ \E code \in ExitCode \cup {NoCode} : RequestTermination(code)
  \/ FatalError

TerminationSpec == TerminationInit /\ [][TerminationNext]_terminationVars

\* The main run loop keeps executing its dispatch queue.
Fairness == WF_terminationVars(MainQueue)

FairTerminationSpec == TerminationSpec /\ Fairness

-----------------------------------------------------------------------------
(* Properties.                                                             *)

\* AppKit never waits for an answer nobody can give: the operation is on its
\* way to Dart or in Dart's hands, or the answer is already queued.
WaitIsAnswerable ==
  asking = "waiting" =>
    \/ Contains(blocks, "replyYes")
    \/ /\ dart = "attached"
       /\ pending \in known \cup ToSet(inbox)

\* While Dart defers termination, the application does not end before Dart
\* has allowed it or has terminated it: not by a second Quit, nor by a
\* termination the runtime or an unhandled error has queued.
EndsOnlyWithConsent == asking = "terminating" /\ dartDefers => consent

\* Once Dart terminates the application it does end, whatever was pending,
\* although nobody listens to the event port any more.
TerminateTakesEffect == dart \in {"detaching", "closed"} ~> ~Alive

\* A request accepted by dmr_runtime_request_termination that does not repeat
\* an earlier one leaves AppKit asked, or about to be asked, to terminate
\* ("asynchronously asks NSApplication to terminate. ... Repeating the same
\* request is idempotent", dart_macos_runtime.h).
NewRequestAsksAppKit ==
  [][lastRequest' # lastRequest /\ lastRequest'.fresh =>
       \/ Contains(blocks', "terminate")
       \/ Contains(blocks', "replyYes")
       \/ asking' # "no"]_terminationVars
=============================================================================
