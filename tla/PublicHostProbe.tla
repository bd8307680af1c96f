--------------------------- MODULE PublicHostProbe ---------------------------
(***************************************************************************)
(* The conformance host that drives one root isolate through the public    *)
(* Dart C API only (native/runner/PublicDartApiHostProbe.cc).  The main    *)
(* thread starts the VM, runs four probes, and shuts down.  Threads of the *)
(* VM call back at the same time: a notification for every message posted  *)
(* to the root isolate, a report from Dart code, and the lifecycle of the  *)
(* child isolates.                                                         *)
(*                                                                         *)
(* The VM is external: its threads, its isolates and the Dart program the  *)
(* probes call are modelled by what the host's callbacks can see of them.  *)
(***************************************************************************)
EXTENDS Integers, Sequences, FiniteSets, SequencesExt

CONSTANTS
  Poster,        \* VM threads that post messages to the root isolate
  Child,         \* isolates the Dart program may spawn
  MaxMessages    \* bound on messages posted to the root isolate

ASSUME ProbeAssumption ==
  /\ IsFiniteSet(Poster) /\ IsFiniteSet(Child)
  /\ MaxMessages \in Nat

Mode == {"jit", "aot"}
Phase == {"microtask", "lifecycle"}
NoPhase == "none"

\* What a report carries: its kind and whether its detail starts with "ok;".
Report == [kind : Phase, ok : BOOLEAN]
NoReport == [kind |-> NoPhase, ok |-> FALSE]

\* What Start acquires in each mode, in order; a step may fail.
Steps(m) ==
  IF m = "jit"
  THEN <<"platform", "flags", "vm", "application", "root", "script", "port">>
  ELSE <<"flags", "vm", "snapshot", "symbols", "root", "port">>

\* The members of the host that Shutdown gives back.
Resource == {"vm", "snapshot", "root", "port"}

VARIABLES
  pc,          \* where the main thread is
  mode,        \* is_aot_
  held,        \* the resources Start acquired and Shutdown has not released
  published,   \* g_probe_state # nullptr
  cleanup,     \* shutdown_error_: "none" yet, "ok" or "failed"
  phase,       \* the probe under way
  expired,     \* Clock::now() >= deadline
  outcome,     \* the results of the probes that main prints
  tokens,      \* root_messages
  reported,    \* report_received, report_kind and report_detail
  failure,     \* message_error is not empty
  counts       \* the four counters of ProbeState

mainVars == <<pc, mode, held, published, cleanup, phase, expired, outcome>>
stateVars == <<tokens, reported, failure, counts>>

VARIABLES
  mailbox,     \* messages queued for the root isolate
  poster,      \* RootMessageNotify on each VM thread
  reporter,    \* HandleNativeReport on the thread of the report port
  outbox,      \* reports the Dart program sent to the report port
  owed,        \* reports the Dart program has yet to send
  child,       \* each child isolate: "none", "live" or "gone"
  childStates, \* children whose IsolateState is allocated
  group        \* the isolate group of the root: "none", "live" or "gone"

vmVars == <<mailbox, poster, reporter, outbox, owed, child, childStates, group>>

VARIABLES
  sent,        \* history: the reports the Dart program sent
  faults       \* history: "start", "dart", "deadline" or "cleanup" failed
history == <<sent, faults>>

vars == <<mainVars, stateVars, vmVars, history>>

AtRest == "rest"
Waiting == [at |-> "rest", report |-> NoReport]
NoCounts == [initializations |-> 0, shutdowns |-> 0, cleanups |-> 0,
             groups |-> 0]
Probes == {"started", "synchronous", "platform"} \cup Phase

Init ==
  /\ pc = "start"
  /\ mode \in Mode
  /\ held = {}
  /\ published = FALSE
  /\ cleanup = "none"
  /\ phase = NoPhase
  /\ expired = FALSE
  /\ outcome = [p \in Probes |-> FALSE]
  /\ tokens = 0
  /\ reported = NoReport
  /\ failure = FALSE
  /\ counts = NoCounts
  /\ mailbox = 0
  /\ poster = [w \in Poster |-> AtRest]
  /\ reporter = Waiting
  /\ outbox = <<>>
  /\ owed = {}
  /\ child = [c \in Child |-> "none"]
  /\ childStates = {}
  /\ group = "none"
  /\ sent = {}
  /\ faults = {}

-----------------------------------------------------------------------------
(* Start.                                                                  *)

Acquired(steps) == Resource \cap ToSet(steps)

\* Every isolate reports its shutdown and its cleanup; the last one of a group
\* reports the group.  Nothing is counted once g_probe_state is cleared.
CountEnd(counting, last) ==
  counts' = IF counting
            THEN [counts EXCEPT !.shutdowns = @ + 1, !.cleanups = @ + 1,
                                !.groups = @ + (IF last THEN 1 ELSE 0)]
            ELSE counts

\* main goes on to Shutdown when Start fails at the k-th step.  A script that
\* cannot be loaded takes the root isolate with it.
StartFails(k) ==
  /\ pc = "start"
  /\ published' = TRUE
  /\ pc' = "closePort"
  /\ held' = Acquired(SubSeq(Steps(mode), 1, k - 1))
             \ (IF Steps(mode)[k] = "script" THEN {"root"} ELSE {})
  /\ IF Steps(mode)[k] = "script"
     THEN /\ group' = "gone"
          /\ CountEnd(TRUE, TRUE)
     ELSE /\ group' = IF "root" \in held' THEN "live" ELSE "none"
          /\ UNCHANGED counts
  /\ faults' = faults \cup {"start"}
  /\ UNCHANGED <<mode, cleanup, phase, expired, outcome, tokens, reported,
                 failure, mailbox, poster, reporter, outbox, owed, child,
                 childStates, sent>>

StartSucceeds ==
  /\ pc = "start"
  /\ published' = TRUE
  /\ held' = Acquired(Steps(mode))
  /\ group' = "live"
  /\ outcome' = [outcome EXCEPT !["started"] = TRUE]
  /\ pc' = "synchronous"
  /\ UNCHANGED <<mode, cleanup, phase, expired, stateVars, mailbox, poster,
                 reporter, outbox, owed, child, childStates,
                 history>>

-----------------------------------------------------------------------------
(* The four probes.  The Dart program runs on the main thread while one is *)
(* invoked or a message is handled; it may then post a message to itself   *)
(* and send a report it owes.                                              *)

DartRuns(taken, owing) ==
  /\ \E posted \in {0, 1} :
       /\ mailbox - taken + posted <= MaxMessages
       /\ mailbox' = mailbox - taken + posted
       /\ tokens' = tokens + posted
  /\ \/ owed' = owing /\ UNCHANGED <<outbox, sent>>
     \/ \E r \in Report :
          /\ r.kind \in owing
          /\ r.ok => r.kind = "lifecycle"
          /\ owed' = owing \ {r.kind}
          /\ outbox' = Append(outbox, r)
          /\ sent' = sent \cup {r}

\* A probe that returns its result at once: main goes on to the next one.
InvokeNow(probe, next) ==
  /\ pc = probe
  /\ pc' = next
  /\ \E success \in BOOLEAN :
       /\ outcome' = [outcome EXCEPT ![probe] = success]
       /\ faults' = faults \cup (IF success THEN {} ELSE {"dart"})
  /\ UNCHANGED <<mode, held, published, cleanup, phase, expired, stateVars,
                 vmVars, sent>>

InvokeSynchronous == InvokeNow("synchronous", "platform")
InvokePlatformScript == InvokeNow("platform", "microtask")

\* Mutant: a report of an earlier probe stays.
ResetKeepsReport == failure' = FALSE /\ UNCHANGED reported

\* Notifications of waiting messages are kept.
ResetReport ==
  /\ reported' = NoReport
  /\ failure' = FALSE

After == [microtask |-> "lifecycle", lifecycle |-> "closePort"]

\* A probe, or a handler below, that fails may have posted and reported first.
InvokeProbe(p) ==
  /\ pc = p
  /\ ResetReport
  /\ phase' = p
  /\ expired' = FALSE
  /\ DartRuns(0, owed \cup {p})
  /\ \/ pc' = After[p] /\ faults' = faults \cup {"dart"}
     \/ pc' = "loop" /\ UNCHANGED faults
  /\ UNCHANGED <<mode, held, published, cleanup, outcome, counts, poster,
                 reporter, child, childStates, group>>

InvokeMicrotask == InvokeProbe("microtask")
InvokeLifecycle == InvokeProbe("lifecycle")

-----------------------------------------------------------------------------
(* PumpUntilReport.                                                        *)

pumpUnchanged == <<mode, held, published, cleanup, phase, expired, outcome,
                   reported, counts, poster, reporter, child, childStates, group>>
dartUnchanged == <<mailbox, owed, outbox, sent, faults, failure>>

TakeToken ==
  /\ tokens > 0
  /\ tokens' = tokens - 1
  /\ pc' = "handling"

NoToken(next) ==
  /\ tokens = 0
  /\ pc' = next
  /\ UNCHANGED tokens

PumpLoop ==
  /\ pc = "loop"
  /\ IF expired \/ reported # NoReport \/ failure
     THEN pc' = "judge" /\ UNCHANGED tokens
     ELSE TakeToken \/ NoToken("waiting")
  /\ UNCHANGED <<pumpUnchanged, dartUnchanged>>

\* The wait ends with the mutex held: a token is taken if there is one.
Woken ==
  /\ pc = "woken"
  /\ TakeToken \/ NoToken("loop")
  /\ UNCHANGED <<pumpUnchanged, dartUnchanged>>

\* Mutant: the wait has no deadline.
WaitWithoutDeadline ==
  /\ pc = "waiting"
  /\ expired
  /\ tokens > 0
  /\ pc' = "woken"
  /\ UNCHANGED <<pumpUnchanged, dartUnchanged, tokens>>

WaitTimesOut ==
  /\ pc = "waiting"
  /\ expired
  /\ pc' = "woken"
  /\ UNCHANGED <<pumpUnchanged, dartUnchanged, tokens>>

\* A condition variable may wake its waiter for no reason.
WakeSpuriously ==
  /\ pc = "waiting"
  /\ pc' = "woken"
  /\ UNCHANGED <<pumpUnchanged, dartUnchanged, tokens>>

HandleMessage ==
  /\ pc = "handling"
  /\ pc' = "loop"
  /\ DartRuns(1, owed)
  /\ \/ failure' = TRUE /\ faults' = faults \cup {"dart"}
     \/ UNCHANGED <<failure, faults>>
  /\ UNCHANGED pumpUnchanged

\* Whatever arrived since the loop ended counts.
Judge ==
  /\ pc = "judge"
  /\ outcome' = [outcome EXCEPT ![phase] =
                   /\ ~failure
                   /\ reported.kind = phase
                   /\ phase = "lifecycle" => reported.ok]
  /\ pc' = After[phase]
  /\ faults' = faults \cup
       (IF phase = "lifecycle" /\ [kind |-> phase, ok |-> FALSE] \in sent
        THEN {"dart"} ELSE {})
  /\ UNCHANGED <<mode, held, published, cleanup, phase, expired, stateVars,
                 vmVars, sent>>

\* The clock reaches the deadline of the probe under way.
DeadlinePasses ==
  /\ pc \in {"loop", "waiting", "woken", "handling"}
  /\ ~expired
  /\ expired' = TRUE
  /\ faults' = faults \cup {"deadline"}
  /\ UNCHANGED <<pc, mode, held, published, cleanup, phase, outcome,
                 stateVars, vmVars, sent>>

-----------------------------------------------------------------------------
(* The callbacks, on threads of the VM.  It runs from Dart_Initialize to   *)
(* the end of Dart_Cleanup, and on when that fails.                        *)

VmRuns == "vm" \in held \/ cleanup = "failed"

Wake == pc' = IF pc = "waiting" THEN "woken" ELSE pc

\* RootMessageNotify, as a message is queued: it reads g_probe_state.
Post(w) ==
  /\ poster[w] = AtRest
  /\ "root" \in held
  /\ mailbox < MaxMessages
  /\ mailbox' = mailbox + 1
  /\ poster' = [poster EXCEPT ![w] = IF published THEN "store" ELSE AtRest]
  /\ UNCHANGED <<mainVars, stateVars, reporter, outbox, owed, child,
                 childStates, group, history>>

\* Mutant: a message is not announced while another one is.
StoreSingleToken(w) ==
  /\ poster[w] = "store"
  /\ tokens' = 1
  /\ poster' = [poster EXCEPT ![w] = "notify"]
  /\ UNCHANGED <<mainVars, reported, failure, counts, mailbox, reporter,
                 outbox, owed, child, childStates, group, history>>

StoreToken(w) ==
  /\ poster[w] = "store"
  /\ tokens' = tokens + 1
  /\ poster' = [poster EXCEPT ![w] = "notify"]
  /\ UNCHANGED <<mainVars, reported, failure, counts, mailbox, reporter,
                 outbox, owed, child, childStates, group, history>>

NotifyToken(w) ==
  /\ poster[w] = "notify"
  /\ Wake
  /\ poster' = [poster EXCEPT ![w] = AtRest]
  /\ UNCHANGED <<mode, held, published, cleanup, phase, expired, outcome,
                 stateVars, mailbox, reporter, outbox, owed, child,
                 childStates, group, history>>

\* HandleNativeReport: the port hands over one report at a time.
ReceiveReport ==
  /\ reporter = Waiting
  /\ outbox # <<>>
  /\ outbox' = Tail(outbox)
  /\ reporter' = IF published THEN [at |-> "store", report |-> Head(outbox)]
                              ELSE Waiting
  /\ UNCHANGED <<mainVars, stateVars, mailbox, poster, owed, child,
                 childStates, group, history>>

\* Mutant: a report wakes nobody.
StoreReportSilently ==
  /\ reporter.at = "store"
  /\ reported' = reporter.report
  /\ reporter' = Waiting
  /\ UNCHANGED <<mainVars, tokens, failure, counts, mailbox, poster, outbox,
                 owed, child, childStates, group, history>>

StoreReport ==
  /\ reporter.at = "store"
  /\ reported' = reporter.report
  /\ reporter' = [reporter EXCEPT !.at = "notify"]
  /\ UNCHANGED <<mainVars, tokens, failure, counts, mailbox, poster, outbox,
                 owed, child, childStates, group, history>>

NotifyReport ==
  /\ reporter.at = "notify"
  /\ Wake
  /\ reporter' = Waiting
  /\ UNCHANGED <<mode, held, published, cleanup, phase, expired, outcome,
                 stateVars, mailbox, poster, outbox, owed, child,
                 childStates, group, history>>

\* InitializeChild, as the Dart program spawns an isolate into the group.
InitializeChild(c) ==
  /\ pc # "exited"
  /\ "root" \in held
  /\ owed # {} \/ sent # {}
  /\ child[c] = "none"
  /\ child' = [child EXCEPT ![c] = "live"]
  /\ childStates' = childStates \cup {c}
  /\ counts' = IF published
               THEN [counts EXCEPT !.initializations = @ + 1] ELSE counts
  /\ UNCHANGED <<mainVars, tokens, reported, failure, mailbox, poster,
                 reporter, outbox, owed, group, history>>

OthersAlive(c) ==
  "root" \in held \/ \E d \in Child \ {c} : child[d] = "live"

\* ShutdownIsolate, CleanupIsolate and, for the last one, CleanupGroup.
EndChild(c) ==
  /\ pc # "exited"
  /\ VmRuns
  /\ child[c] = "live"
  /\ child' = [child EXCEPT ![c] = "gone"]
  /\ childStates' = childStates \ {c}
  /\ group' = IF OthersAlive(c) THEN group ELSE "gone"
  /\ CountEnd(published, ~OthersAlive(c))
  /\ UNCHANGED <<mainVars, tokens, reported, failure, mailbox, poster,
                 reporter, outbox, owed, history>>

-----------------------------------------------------------------------------
(* Shutdown; main calls it a second time, which changes nothing.           *)

shutdownUnchanged == <<mode, phase, expired, outcome, tokens, reported,
                       failure, poster, reporter, owed, child, childStates,
                       sent>>

\* Mutant: the callbacks lose their state before the VM ends.
ClosePortAndState ==
  /\ pc = "closePort"
  /\ held' = held \ {"port"}
  /\ outbox' = IF "port" \in held THEN <<>> ELSE outbox
  /\ published' = FALSE
  /\ pc' = "shutdownRoot"
  /\ UNCHANGED <<shutdownUnchanged, cleanup, counts, mailbox,
                 group, faults>>

ClosePort ==
  /\ pc = "closePort"
  /\ held' = held \ {"port"}
  /\ outbox' = IF "port" \in held THEN <<>> ELSE outbox
  /\ pc' = "shutdownRoot"
  /\ UNCHANGED <<shutdownUnchanged, published, cleanup, counts, mailbox, group, faults>>

NoChildLives == \A c \in Child : child[c] # "live"

\* Mutant: the snapshot is closed with the root isolate.
ShutdownRootUnloads ==
  /\ pc = "shutdownRoot"
  /\ held' = held \ {"root", "snapshot"}
  /\ pc' = "cleanup"
  /\ UNCHANGED published
  /\ IF "root" \in held
     THEN /\ mailbox' = 0
          /\ group' = IF NoChildLives THEN "gone" ELSE group
          /\ CountEnd(published, NoChildLives)
     ELSE UNCHANGED <<mailbox, group, counts>>
  /\ UNCHANGED <<shutdownUnchanged, cleanup, outbox, faults>>

\* The root isolate ends with its callbacks, its own state being a member of
\* the host, and with the messages it has not handled.
ShutdownRoot ==
  /\ pc = "shutdownRoot"
  /\ held' = held \ {"root"}
  /\ pc' = "cleanup"
  /\ UNCHANGED published
  /\ IF "root" \in held
     THEN /\ mailbox' = 0
          /\ group' = IF NoChildLives THEN "gone" ELSE group
          /\ CountEnd(published, NoChildLives)
     ELSE UNCHANGED <<mailbox, group, counts>>
  /\ UNCHANGED <<shutdownUnchanged, cleanup, outbox, faults>>

VmQuiet ==
  /\ NoChildLives
  /\ \A w \in Poster : poster[w] = AtRest
  /\ reporter = Waiting

\* Dart_Cleanup ends the isolates that still run and joins the threads of the
\* VM, or fails.
CleanUpVm ==
  /\ pc = "cleanup"
  /\ IF "vm" \in held
     THEN \/ VmQuiet /\ cleanup' = "ok" /\ UNCHANGED faults
          \/ cleanup' = "failed" /\ faults' = faults \cup {"cleanup"}
     ELSE cleanup' = "ok" /\ UNCHANGED faults
  /\ held' = held \ {"vm"}
  /\ pc' = "unload"
  /\ UNCHANGED <<shutdownUnchanged, published, counts, mailbox, outbox, group>>

Unload ==
  /\ pc = "unload"
  /\ held' = held \ {"snapshot"}
  /\ pc' = "clear"
  /\ UNCHANGED <<shutdownUnchanged, published, cleanup, counts, mailbox,
                 outbox, group, faults>>

\* main returns once the second call has returned, and the host is gone.
Exit ==
  /\ pc = "clear"
  /\ published' = FALSE
  /\ pc' = "exited"
  /\ UNCHANGED <<shutdownUnchanged, held, cleanup, counts, mailbox, outbox, group, faults>>

-----------------------------------------------------------------------------

StartStep ==
  \/ StartSucceeds
  \/ \E k \in 1 .. Len(Steps(mode)) : StartFails(k)

ProbeStep ==
  \/ InvokeSynchronous \/ InvokePlatformScript
  \/ InvokeMicrotask \/ InvokeLifecycle

PumpStep == PumpLoop \/ Woken \/ WaitTimesOut \/ HandleMessage \/ Judge

ShutdownStep == ClosePort \/ ShutdownRoot \/ CleanUpVm \/ Unload \/ Exit

VmStep ==
  \/ \E w \in Poster : StoreToken(w) \/ NotifyToken(w)
  \/ ReceiveReport \/ StoreReport \/ NotifyReport
  \/ \E c \in Child : EndChild(c)

Next ==
  \/ StartStep \/ ProbeStep \/ PumpStep \/ ShutdownStep
  \/ WakeSpuriously
  \/ DeadlinePasses
  \/ \E w \in Poster : Post(w)
  \/ \E c \in Child : InitializeChild(c)
  \/ VmStep

Spec == Init /\ [][Next]_vars

\* The main thread runs, the clock advances, callbacks return and the VM ends
\* its isolates.
FairSpec ==
  /\ Spec
  /\ WF_vars(StartStep) /\ WF_vars(ProbeStep) /\ WF_vars(PumpStep)
  /\ WF_vars(ShutdownStep)
  /\ WF_vars(DeadlinePasses)
  /\ \A w \in Poster : WF_vars(StoreToken(w)) /\ WF_vars(NotifyToken(w))
  /\ WF_vars(StoreReport) /\ WF_vars(NotifyReport)
  /\ \A c \in Child : WF_vars(EndChild(c))

-----------------------------------------------------------------------------
(* Properties.                                                             *)

\* As long as the root isolate lives, each message queued for it has exactly
\* one notification: stored, being handled or on its way.  A probe that ends
\* early, or the reset of the next one, strands no message.
TokensMatchMessages ==
  "root" \in held /\ published =>
    mailbox = tokens + Cardinality({w \in Poster : poster[w] = "store"})
              + (IF pc = "handling" THEN 1 ELSE 0)

\* The main thread never sleeps on a report or a message that is there unless
\* a callback is about to wake it, so no probe waits for its deadline in vain,
\* and no notification of a message is lost before the wait sees it.
WaitIsWoken ==
  /\ TokensMatchMessages
  /\ pc = "waiting" /\ (reported # NoReport \/ tokens > 0) =>
       \/ \E w \in Poster : poster[w] = "notify"
       \/ reporter.at = "notify"

\* The verdict main prints.
Supported ==
  /\ \A p \in Probes : outcome[p]
  /\ cleanup = "ok"

\* A host is called supported only when the Dart program did send both reports
\* and nothing failed, and is called so whenever nothing failed and no
\* deadline passed.  This is of the verdict as a whole: once the microtask probe
\* has timed out, its late report does end the lifecycle probe as failed.
VerdictIsJust ==
  pc = "exited" =>
    /\ Supported =>
         /\ {r.kind : r \in sent} = Phase
         /\ faults \subseteq {"deadline"}
    /\ faults = {} => Supported

\* Nothing is taken from under its users: no isolate outlives the VM or the
\* snapshot it executes, and no callback runs on a host that is gone, unless
\* Dart_Cleanup reported that it could not end them.
UsersComeFirst ==
  cleanup # "failed" =>
    /\ "root" \in held \/ ~NoChildLives =>
         /\ "vm" \in held
         /\ mode = "aot" => "snapshot" \in held
    /\ ~VmQuiet => published /\ pc # "exited"

\* Whatever step of Start failed, at exit nothing it acquired is left, every
\* isolate that began was counted as it ended, and each child state was freed;
\* on the way there nothing was taken from under its users.
TeardownIsOrderly ==
  /\ UsersComeFirst
  /\ pc = "exited" =>
       /\ held = {}
       /\ cleanup = "ok" =>
            LET spawned == Cardinality({c \in Child : child[c] # "none"})
                groups == IF group = "none" THEN 0 ELSE 1
            IN  /\ childStates = {}
                /\ counts = [initializations |-> spawned,
                             shutdowns |-> spawned + groups,
                             cleanups |-> spawned + groups,
                             groups |-> groups]

\* The probe ends: no report that never comes keeps it.
ProbeEnds == <>(pc = "exited")
=============================================================================
