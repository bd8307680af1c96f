---------------------------- MODULE HostLifecycle ----------------------------
(***************************************************************************)
(* The life of a host process: the Runner (runner/main.mm, AppDelegate.mm, *)
(* DartHost.mm), the developer and the release runtime (DeveloperJitRunner *)
(* .mm, ReleaseAotRunner.mm, ReleaseAotHost.mm) and the command host       *)
(* (AotCommandRunner.cc).  The main thread reads its arguments, starts the *)
(* message pump and the Dart Engine, invokes Dart's main, runs the AppKit  *)
(* loop and shuts everything down, while threads of the Engine schedule    *)
(* messages on the pump.                                                   *)
(*                                                                         *)
(* The pump is the module MessagePump; here it is started once and stopped *)
(* once, and its turns run where the AppKit loop runs.  Who may postpone   *)
(* [NSApp terminate:] is the subject of TerminationProtocol.               *)
(***************************************************************************)
EXTENDS MessagePump, RunnerArguments

CONSTANTS
  Flavor,           \* the hosts considered, among those named below
  ManifestLimit,    \* message_pump_limits.max_messages_per_turn, as manifested
  DefaultLimit,     \* kDefaultDartMessagesPerTurn
  MaxTerminates     \* bound on terminate: blocks on the main queue

Arguments == {"runner", "developer"}    \* hosts that parse a Runner line
Runtimes == {"developer", "release"}    \* hosts of dart_macos_runtime
AppKitHosts == {"runner"} \cup Runtimes

\* The limit each host gives its pump: the release delegate passes none.
PumpLimit(f) == IF f = "release" THEN DefaultLimit ELSE ManifestLimit

ASSUME HostAssumption ==
  /\ Flavor \subseteq AppKitHosts \cup {"command"}
  /\ \A f \in Flavor \cap AppKitHosts : MaxPerTurn = PumpLimit(f)
  /\ MaxTerminates \in Nat

UsageStatus == 64
InputStatus == 66
SoftwareStatus == 70
DartErrorStatus == 255
ApplicationStatus == 9     \* a result the application may record
Success == 0
NotExited == -1

VARIABLES
  flavor,       \* which host this is
  stage,        \* what the main thread is about to do
  engine,       \* the Dart Engine: "off", "on" or "down"
  entered,      \* the root isolate is acquired by InvokeMain
  installed,    \* active_host_ and the event poster are set
  fatal,        \* fatal_error_ is not empty
  terminates,   \* terminate: blocks on the main queue
  delegateCode, \* exit_code_ of the delegate
  requestedCode,\* requested_exit_code
  status,       \* the exit status of the process
  faults        \* history: the classes of failures that happened

hostVars == <<flavor, stage, engine, entered, installed, fatal, terminates,
              delegateCode, requestedCode, status, faults>>
vars == <<pumpVars, parseVars, hostVars>>

HostInit ==
  /\ Init
  /\ ParseInit
  /\ flavor \in Flavor
  /\ stage = "preflight"
  /\ engine = "off"
  /\ entered = FALSE
  /\ installed = FALSE
  /\ fatal = FALSE
  /\ terminates = 0
  /\ delegateCode = Success
  /\ requestedCode = Success
  /\ status = NotExited
  /\ faults = {}

Queue == terminates' = terminates + 1

\* The process returns from main, or calls exit.
Exits(code) ==
  /\ stage' = "exited"
  /\ status' = code

ExitsAfter(fault, code) ==
  /\ Exits(code)
  /\ faults' = faults \cup {fault}

-----------------------------------------------------------------------------
(* main, up to the AppKit run loop.                                        *)

earlyUnchanged == <<pumpVars, flavor, engine, entered, installed, fatal,
                    terminates, delegateCode, requestedCode>>

\* Diagnostics of a runtime cannot start, or a test asks for the failure.
PreflightFails ==
  /\ stage = "preflight" /\ flavor \in Runtimes
  /\ ExitsAfter("startup", SoftwareStatus)
  /\ UNCHANGED <<earlyUnchanged, parseVars>>

Preflight ==
  /\ stage = "preflight"
  /\ stage' = IF flavor \in Arguments THEN "arguments" ELSE "checks"
  /\ UNCHANGED <<earlyUnchanged, parseVars, status, faults>>

ReadArguments ==
  /\ stage = "arguments"
  /\ ParseRunnerArguments
  /\ UNCHANGED <<earlyUnchanged, stage, status, faults>>

\* The parser is done with the line; it is of no further interest.
ArgumentsRead ==
  /\ stage = "arguments"
  /\ \/ /\ parse.at = "accepted"
        /\ stage' = "checks"
        /\ UNCHANGED <<status, faults>>
     \/ /\ parse.at \in {"refused", "missing"}
        /\ ExitsAfter("usage", UsageStatus)
  /\ argv' = <<>>
  /\ parse' = Unparsed
  /\ UNCHANGED earlyUnchanged

\* No such Kernel or snapshot, or an invalid Runner configuration; the AppKit
\* application rejects its activation policy.
ChecksFail ==
  /\ stage = "checks" /\ flavor \in AppKitHosts
  /\ \/ ExitsAfter("input", InputStatus)
     \/ ExitsAfter("startup", SoftwareStatus)
  /\ UNCHANGED <<earlyUnchanged, parseVars>>

RunApplication ==
  /\ stage = "checks" /\ flavor \in AppKitHosts
  /\ stage' = "launching"
  /\ UNCHANGED <<earlyUnchanged, parseVars, status, faults>>

-----------------------------------------------------------------------------
(* applicationDidFinishLaunching and the Start of the host.                *)

\* Start shuts down what it began, the delegate records 70 and queues a
\* termination; the pump, if it runs, is left running.
StartFails ==
  /\ stage' = "failed"
  /\ delegateCode' = SoftwareStatus
  /\ faults' = faults \cup {"startup"}
  /\ Queue

launchUnchanged == <<parseVars, flavor, fatal, requestedCode, status>>

PumpDoesNotStart ==
  /\ stage = "launching"
  /\ StartFails
  /\ UNCHANGED <<pumpVars, launchUnchanged, engine, entered, installed>>

PumpStarts ==
  /\ stage = "launching"
  /\ Start
  /\ stage' = "starting"
  /\ UNCHANGED <<launchUnchanged, engine, entered, installed, terminates,
                 delegateCode, faults>>

\* A version that does not match, or an Engine that cannot be initialized; a
\* snapshot or a root isolate that cannot be created, after which the Engine
\* is shut down again.
EngineFails ==
  /\ stage = "starting"
  /\ engine' \in {"off", "down"}
  /\ StartFails
  /\ UNCHANGED <<pumpVars, launchUnchanged, entered, installed>>

EngineStarts ==
  /\ stage = "starting"
  /\ engine' = "on"
  /\ installed' = TRUE
  /\ entered' = TRUE
  /\ stage' = "main"
  /\ UNCHANGED <<pumpVars, launchUnchanged, terminates, delegateCode, faults>>

MainSucceeds ==
  /\ stage = "main" /\ frames = <<>>
  /\ entered' = FALSE
  /\ stage' = "running"
  /\ UNCHANGED <<pumpVars, launchUnchanged, engine, installed, terminates,
                 delegateCode, faults>>

\* Dart's main or its microtasks end with an error.
MainFails ==
  /\ stage = "main" /\ frames = <<>>
  /\ entered' = FALSE
  /\ installed' = FALSE
  /\ engine' = "down"
  /\ StartFails
  /\ UNCHANGED <<pumpVars, launchUnchanged>>

-----------------------------------------------------------------------------
(* The AppKit loop.                                                        *)

loopUnchanged == <<parseVars, flavor, stage, engine, entered, installed,
                   delegateCode, status>>

LoopRuns == stage \in {"main", "running", "failed"}

\* Dart code runs on the main thread: in main, or in the handler of a message.
DartRuns ==
  /\ engine = "on"
  /\ \/ stage = "main" /\ frames = <<>>
     \/ LoopRuns /\ frames # <<>> /\ Top.pc = "handling"

\* Threads of the Engine schedule messages while it lives.
EngineSchedules(p) ==
  /\ engine = "on"
  /\ Enqueue(p)
  /\ UNCHANGED hostVars /\ UNCHANGED parseVars

SchedulingEnds(p) ==
  /\ stage # "exited"
  /\ SignalAndWake(p)
  /\ UNCHANGED hostVars /\ UNCHANGED parseVars

\* A turn of the pump; main may run a nested loop, a modal panel, and so may a
\* handler.
PumpTurn ==
  /\ LoopRuns
  /\ PerformSource \/ TakeMessage \/ EndTurn \/ Resignal
  /\ UNCHANGED hostVars /\ UNCHANGED parseVars

\* RecordFatalError keeps the first error and queues a termination.
HandleMessageError ==
  /\ fatal' = (fatal \/ installed)
  /\ faults' = IF installed THEN faults \cup {"message"} ELSE faults
  /\ IF installed /\ ~fatal THEN Queue ELSE UNCHANGED terminates

MessageHandled ==
  /\ LoopRuns
  /\ HandlerReturns
  /\ \/ UNCHANGED <<fatal, faults, terminates>>
     \/ /\ engine = "on"
        /\ HandleMessageError
  /\ UNCHANGED <<loopUnchanged, requestedCode>>

\* dmr_runtime_set_exit_code: the first result is kept.
SetExitCode ==
  /\ DartRuns /\ flavor \in Runtimes
  /\ requestedCode' = ApplicationStatus
  /\ UNCHANGED <<pumpVars, loopUnchanged, fatal, terminates, faults>>

\* da_application_terminate, or dmr_runtime_request_termination, which records
\* a result as well.
RequestTermination ==
  /\ DartRuns
  /\ terminates < MaxTerminates
  /\ Queue
  /\ requestedCode' \in
       {requestedCode}
         \cup (IF flavor \in Runtimes THEN {ApplicationStatus} ELSE {})
  /\ UNCHANGED <<pumpVars, loopUnchanged, fatal, faults>>

\* applicationShouldTerminate answers "now" when nobody listens to the event
\* port; otherwise the application may postpone or refuse.
ShouldTerminate ==
  stage' \in IF installed THEN {"terminating", stage} ELSE {"terminating"}

\* The main queue and the user are served wherever the loop runs, which may be
\* a modal one that main or a handler has opened.
RunTerminateBlock ==
  /\ LoopRuns /\ MainThreadFree
  /\ terminates > 0
  /\ terminates' = terminates - 1
  /\ ShouldTerminate
  /\ UNCHANGED <<pumpVars, launchUnchanged, engine, entered, installed,
                 delegateCode, faults>>

UserQuits ==
  /\ LoopRuns /\ MainThreadFree
  /\ ShouldTerminate
  /\ UNCHANGED <<pumpVars, launchUnchanged, engine, entered, installed,
                 terminates, delegateCode, faults>>

-----------------------------------------------------------------------------
(* applicationWillTerminate, once, and the end of the process.  Begun in a  *)
(* nested loop it runs on the stack of main or of a handler, which nothing  *)
(* returns to.                                                              *)

endUnchanged == <<parseVars, flavor, entered, fatal, terminates,
                  requestedCode>>

\* A fatal error decides the exit code; so do live handles, for the release
\* delegate.  Then the bridge shuts down, and with it the event poster.
JudgeExit ==
  /\ stage = "terminating"
  /\ stage' = "stopping"
  /\ installed' = FALSE
  /\ \E leaked \in BOOLEAN :
       LET spills == leaked /\ flavor = "release"
       IN  /\ delegateCode' = IF fatal \/ spills THEN SoftwareStatus
                              ELSE delegateCode
           /\ faults' = faults \cup (IF spills THEN {"leak"} ELSE {})
  /\ UNCHANGED <<pumpVars, endUnchanged, engine, status>>

\* Mutant: the Engine ends while the pump still takes its messages.
StopPumpLast ==
  /\ stage = "stopping"
  /\ engine' = IF engine = "on" THEN "down" ELSE engine
  /\ stage' = "shutdown"
  /\ UNCHANGED <<pumpVars, endUnchanged, installed, delegateCode, status,
                 faults>>

StopPump ==
  /\ stage = "stopping"
  /\ stage' = "shutdown"
  /\ \/ Stop
     \/ /\ ~running
        /\ UNCHANGED pumpVars
  /\ UNCHANGED <<endUnchanged, engine, installed, delegateCode, status,
                 faults>>

ShutdownHost ==
  /\ stage = "shutdown"
  /\ stage' = "complete"
  /\ engine' = IF engine = "on" THEN "down" ELSE engine
  /\ UNCHANGED <<pumpVars, endUnchanged, installed, delegateCode, status,
                 faults>>

\* Mutant: the result the application recorded comes first.
EffectiveRequestedFirst ==
  IF requestedCode # Success THEN requestedCode ELSE delegateCode

EffectiveExitCode ==
  IF delegateCode # Success THEN delegateCode ELSE requestedCode

\* CompleteApplicationTermination leaves with a failure itself; otherwise
\* AppKit ends the process, and application.run never returns to main.
Complete ==
  /\ stage = "complete"
  /\ Exits(IF flavor \in Runtimes THEN EffectiveExitCode ELSE Success)
  /\ UNCHANGED <<pumpVars, endUnchanged, engine, installed, delegateCode,
                 faults>>

-----------------------------------------------------------------------------
(* The command host: no AppKit, no pump; Dart_RunLoop serves the messages. *)

commandUnchanged == <<pumpVars, parseVars, flavor, installed, fatal,
                      terminates, requestedCode>>

\* No snapshot is named; the version does not match, or no Engine starts.
CommandRefuses ==
  /\ flavor = "command" /\ stage = "checks"
  /\ \/ ExitsAfter("usage", UsageStatus)
     \/ ExitsAfter("startup", SoftwareStatus)
  /\ UNCHANGED <<commandUnchanged, engine, entered, delegateCode>>

CommandInitializes ==
  /\ flavor = "command" /\ stage = "checks"
  /\ engine' = "on"
  /\ stage' = "loading"
  /\ UNCHANGED <<commandUnchanged, entered, delegateCode, status, faults>>

\* No snapshot can be loaded or no isolate created.
CommandLoadFails ==
  /\ stage = "loading"
  /\ delegateCode' = SoftwareStatus
  /\ faults' = faults \cup {"startup"}
  /\ stage' = "leaving"
  /\ UNCHANGED <<commandUnchanged, engine, entered, status>>

CommandEnters ==
  /\ stage = "loading"
  /\ entered' = TRUE
  /\ stage' = "invoking"
  /\ UNCHANGED <<commandUnchanged, engine, delegateCode, status, faults>>

\* main, its microtasks and the message loop, of which one may fail; then the
\* isolate is released.
CommandInvokes ==
  /\ stage = "invoking"
  /\ entered' = FALSE
  /\ stage' = "leaving"
  /\ \/ UNCHANGED <<delegateCode, faults>>
     \/ /\ delegateCode' = DartErrorStatus
        /\ faults' = faults \cup {"dart"}
  /\ UNCHANGED <<commandUnchanged, engine, status>>

CommandLeaves ==
  /\ stage = "leaving"
  /\ engine' = "down"
  /\ Exits(delegateCode)
  /\ UNCHANGED <<commandUnchanged, entered, delegateCode, faults>>

-----------------------------------------------------------------------------

BeforeLoop ==
  \/ PreflightFails \/ Preflight \/ ReadArguments \/ ArgumentsRead
  \/ ChecksFail \/ RunApplication

Launch ==
  \/ PumpDoesNotStart \/ PumpStarts \/ EngineFails \/ EngineStarts
  \/ MainSucceeds \/ MainFails

WillTerminate == JudgeExit \/ StopPump \/ ShutdownHost \/ Complete

Command ==
  \/ CommandRefuses \/ CommandInitializes \/ CommandLoadFails
  \/ CommandEnters \/ CommandInvokes \/ CommandLeaves

HostNext ==
  \/ BeforeLoop \/ Launch
  \/ \E p \in Producer : EngineSchedules(p) \/ SchedulingEnds(p)
  \/ PumpTurn \/ MessageHandled
  \/ SetExitCode \/ RequestTermination
  \/ RunTerminateBlock \/ UserQuits
  \/ WillTerminate
  \/ Command

HostSpec == HostInit /\ [][HostNext]_vars

\* The main thread goes on, handlers and main return, scheduling threads
\* finish and the run loop serves its source and its queue.
HostFairSpec ==
  /\ HostSpec
  /\ WF_vars(Launch) /\ WF_vars(WillTerminate)
  /\ \A p \in Producer : WF_vars(SchedulingEnds(p))
  /\ WF_vars(PumpTurn) /\ WF_vars(MessageHandled)
  /\ WF_vars(RunTerminateBlock)

-----------------------------------------------------------------------------
(* Properties.                                                             *)

Started == "startup" \notin faults

\* Dart code is on the stack of the main thread, in main or in a handler.
InDart == entered \/ \E d \in 1 .. Depth : frames[d].pc = "handling"

\* The Engine has been shut down for good: what is on the stack stays there
\* until the process is gone.
Ended == stage \in {"complete", "exited"}

\* Dart code on the stack has a running Engine under it until the very end of
\* the process, the Engine stops only after the pump, and neither is left when
\* the process exits.  A failed start is the exception, as it shuts the Engine
\* down under a running pump.  The end itself may come under Dart code, see
\* NoShutdownWhileEntered.
EngineOutlivesItsUse ==
  /\ entered /\ ~Ended => engine = "on"
  /\ Started /\ ~Ended =>
       \A d \in 1 .. Depth : frames[d].pc = "handling" => engine = "on"
  /\ engine = "down" /\ running => ~Started
  /\ stage = "exited" => engine # "on" /\ ~running

\* The Engine is never shut down under Dart code: a termination goes by the
\* main queue, which "preserves the no-re-entry and no-shutdown-while-entered
\* invariants" (docs/WORKLOG.md).  A modal panel that main or a handler has
\* opened serves that queue, and the Quit menu, before Dart has returned.
NoShutdownWhileEntered ==
  [][engine = "on" /\ engine' = "down" => ~InDart']_vars

DueStatus ==
  CASE "usage" \in faults -> UsageStatus
    [] "input" \in faults -> InputStatus
    [] faults \cap {"startup", "message", "leak"} # {} -> SoftwareStatus
    [] "dart" \in faults -> DartErrorStatus
    [] OTHER -> requestedCode

\* The exit status tells what went wrong: 64 for usage, 66 for missing input,
\* 70 for startup failures, unhandled message errors and handles left at a
\* release shutdown, 255 for a Dart error of a command; without a failure it
\* is the result the application recorded, which never hides one.  Of the
\* plain Runner only its own refusals are judged here.
StatusTellsFailure ==
  stage = "exited"
    /\ (flavor # "runner" \/ faults \cap {"usage", "input"} # {})
      => status = DueStatus

\* The same of every host: "Unhandled Dart message errors and startup failures
\* return software error 70" (docs/ARCHITECTURE.md).  The exit code of the
\* plain Runner's delegate is lost, as AppKit ends the process.
EveryStatusTellsFailure == stage = "exited" => status = DueStatus

\* No turn handles more messages than the manifest grants it.
TurnsKeepManifestLimit ==
  \A d \in 1 .. Depth : frames[d].handled <= ManifestLimit
=============================================================================
