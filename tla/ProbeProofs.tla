----------------------------- MODULE ProbeProofs -----------------------------
(* For any number of VM threads, child isolates and messages, the main       *)
(* thread of the probe never sleeps on what is there, its verdict is just,   *)
(* and the teardown takes nothing from under its users.                      *)
EXTENDS PublicHostProbe, TLAPS, FiniteSetTheorems, SequenceTheorems

Pump == {"loop", "waiting", "woken", "handling", "judge"}
Running == {"synchronous", "platform", "microtask", "lifecycle"} \cup Pump
Stopping == {"closePort", "shutdownRoot", "cleanup", "unload", "clear"}

ProbeTypeOK ==
  /\ pc \in {"start", "exited"} \cup Running \cup Stopping
  /\ mode \in Mode /\ held \subseteq Resource
  /\ cleanup \in {"none", "ok", "failed"}
  /\ phase \in Phase \cup {NoPhase}
  /\ poster \in [Poster -> {AtRest, "store", "notify"}]
  /\ reporter \in {Waiting} \cup [at : {"store", "notify"}, report : Report]
  /\ outbox \in Seq(Report) /\ sent \subseteq Report /\ owed \subseteq Phase
  /\ child \in [Child -> {"none", "live", "gone"}]

\* Before Start everything is as Init leaves it.
Untouched ==
  /\ held = {} /\ VmQuiet
  /\ outcome = [p \in Probes |-> FALSE]
  /\ tokens = 0 /\ mailbox = 0
  /\ reported = NoReport /\ failure = FALSE /\ counts = NoCounts
  /\ outbox = <<>> /\ owed = {} /\ sent = {} /\ faults = {}
  /\ child = [c \in Child |-> "none"] /\ childStates = {} /\ group = "none"

\* Where the main thread is tells which probe is under way.
PositionOK ==
  /\ pc = "start" => Untouched
  /\ pc \in {"start", "synchronous", "platform", "microtask"} =>
       phase = NoPhase
  /\ pc \in Pump => phase \in Phase
  /\ pc = "lifecycle" => phase = "microtask"
  /\ published <=> pc \notin {"start", "exited"}
  /\ cleanup = "none" <=> pc \notin {"unload", "clear", "exited"}

\* What is held is given back in the order opposite to its use.
HeldOK ==
  /\ pc \in Running => {"vm", "root", "port"} \subseteq held
  /\ "port" \in held => pc \in Running \cup {"closePort"}
  /\ "root" \in held => pc \in Running \cup {"closePort", "shutdownRoot"}
  /\ "vm" \in held => pc \notin {"unload", "clear", "exited"}
  /\ "snapshot" \in held => pc \notin {"clear", "exited"}
  /\ "root" \in held =>
       "vm" \in held /\ (mode = "aot" => "snapshot" \in held)
  /\ "port" \notin held => outbox = <<>>

PlaceInv == ProbeTypeOK /\ PositionOK /\ HeldOK

Acquisition == {"platform", "flags", "vm", "application", "snapshot",
                "symbols", "root", "script", "port"}

\* Every resource is acquired after those it needs.
LEMMA AcquiredInOrder ==
  ASSUME NEW m \in Mode, NEW k \in 1 .. Len(Steps(m))
  PROVE  /\ Acquired(SubSeq(Steps(m), 1, k - 1)) \subseteq Resource \ {"port"}
         /\ "root" \in Acquired(SubSeq(Steps(m), 1, k - 1)) =>
              /\ "vm" \in Acquired(SubSeq(Steps(m), 1, k - 1))
              /\ m = "aot" =>
                   "snapshot" \in Acquired(SubSeq(Steps(m), 1, k - 1))
         /\ {"vm", "root", "port"} \subseteq Acquired(Steps(m))
         /\ m = "aot" => "snapshot" \in Acquired(Steps(m))
<1> DEFINE s == Steps(m)
           t == SubSeq(s, 1, k - 1)
<1>1. /\ s \in Seq(Acquisition) /\ Len(s) \in 6 .. 7 /\ Len(s) \in Nat
      /\ \A i \in 1 .. Len(s) : s[i] = "port" <=> i = Len(s)
      /\ \A i \in 1 .. Len(s) : s[i] = "root" => i = 5
      /\ s[5] = "root" /\ s[Len(s)] = "port"
      /\ \E i \in 1 .. 4 : s[i] = "vm"
      /\ m = "aot" => \E i \in 1 .. 4 : s[i] = "snapshot"
  <2>1. CASE m = "jit"
    <3>1. s = <<"platform", "flags", "vm", "application", "root", "script",
                "port">>
      BY <2>1 DEF Steps
    <3>2. <<"platform", "flags", "vm", "application", "root", "script",
              "port">> \in Seq(Acquisition)
      BY DEF Acquisition
    <3>3. s \in Seq(Acquisition)
      BY <3>1, <3>2
    <3>4. /\ Len(s) = 7
          /\ s[1] = "platform" /\ s[2] = "flags" /\ s[3] = "vm"
          /\ s[4] = "application" /\ s[5] = "root" /\ s[6] = "script"
          /\ s[7] = "port"
      BY <3>1
    <3> HIDE DEF s
    <3>5. /\ \A i \in 1 .. 7 : s[i] = "port" <=> i = 7
          /\ \A i \in 1 .. 7 : s[i] = "root" => i = 5
      BY <3>4
    <3>6. QED
      BY <2>1, <3>3, <3>4, <3>5
  <2>2. CASE m = "aot"
    <3>1. s = <<"flags", "vm", "snapshot", "symbols", "root", "port">>
      BY <2>2 DEF Steps
    <3>2. <<"flags", "vm", "snapshot", "symbols", "root", "port">>
              \in Seq(Acquisition)
      BY DEF Acquisition
    <3>3. s \in Seq(Acquisition)
      BY <3>1, <3>2
    <3>4. /\ Len(s) = 6
          /\ s[1] = "flags" /\ s[2] = "vm" /\ s[3] = "snapshot"
          /\ s[4] = "symbols" /\ s[5] = "root" /\ s[6] = "port"
      BY <3>1
    <3> HIDE DEF s
    <3>5. /\ \A i \in 1 .. 6 : s[i] = "port" <=> i = 6
          /\ \A i \in 1 .. 6 : s[i] = "root" => i = 5
      BY <3>4
    <3>6. QED
      BY <2>2, <3>3, <3>4, <3>5
  <2>3. QED
    BY <2>1, <2>2 DEF Mode
<1> HIDE DEF s
<1>2. ToSet(s) = {s[i] : i \in 1 .. Len(s)}
  BY <1>1 DEF ToSet
<1>3. ToSet(t) = {s[i] : i \in 1 .. k - 1}
  <2>1. /\ t \in Seq(Acquisition) /\ Len(t) = k - 1
        /\ \A i \in 1 .. k - 1 : t[i] = s[i]
    BY <1>1, SubSeqProperties DEF s
  <2>2. DOMAIN t = 1 .. k - 1
    BY <2>1
  <2>3. QED
    BY <2>1, <2>2 DEF ToSet
<1>4. k - 1 < Len(s) /\ k \in Int
  BY <1>1 DEF s
<1>5. QED
  BY <1>1, <1>2, <1>3, <1>4 DEF Acquired, Resource, s

LEMMA DartRunsTyped ==
  ASSUME ProbeTypeOK, NEW taken, NEW owing \in SUBSET Phase,
         DartRuns(taken, owing)
  PROVE  outbox' \in Seq(Report) /\ sent' \subseteq Report
         /\ owed' \subseteq Phase
BY DEF DartRuns, ProbeTypeOK

LEMMA PlaceStep == PlaceInv /\ [Next]_vars => PlaceInv'
<1> SUFFICES ASSUME PlaceInv, [Next]_vars PROVE PlaceInv'
  OBVIOUS
<1> USE DEF PlaceInv
<1>1. ASSUME NEW k \in 1 .. Len(Steps(mode)), StartFails(k)
      PROVE  PlaceInv'
  <2> DEFINE got == Acquired(SubSeq(Steps(mode), 1, k - 1))
  <2>1. /\ pc = "start" /\ pc' = "closePort" /\ published'
        /\ held' \subseteq got
        /\ "vm" \in got => "vm" \in held'
        /\ "snapshot" \in got => "snapshot" \in held'
        /\ UNCHANGED <<mode, cleanup, phase, poster, reporter, outbox, owed,
                       child, sent>>
    BY <1>1 DEF StartFails
  <2>2. /\ got \subseteq Resource \ {"port"}
        /\ "root" \in got =>
             "vm" \in got /\ (mode = "aot" => "snapshot" \in got)
    BY AcquiredInOrder DEF ProbeTypeOK
  <2> HIDE DEF got
  <2>3. outbox = <<>>
    BY <2>1 DEF PositionOK, Untouched
  <2>4. ProbeTypeOK'
    BY <2>1, <2>2 DEF ProbeTypeOK, Running, Stopping, Pump
  <2>5. PositionOK'
    BY <2>1 DEF PositionOK, Pump
  <2>6. HeldOK'
    BY <2>1, <2>2, <2>3 DEF HeldOK, Running, Pump
  <2>7. QED
    BY <2>4, <2>5, <2>6
<1>2. CASE StartSucceeds
  <2>1. /\ pc = "start" /\ pc' = "synchronous" /\ published'
        /\ held' = Acquired(Steps(mode))
        /\ UNCHANGED <<mode, cleanup, phase, poster, reporter, outbox, owed,
                       child, sent>>
    BY <1>2 DEF StartSucceeds, history
  <2>2. /\ {"vm", "root", "port"} \subseteq held'
        /\ mode = "aot" => "snapshot" \in held'
        /\ held' \subseteq Resource
    <3>1. 1 \in 1 .. Len(Steps(mode))
      BY DEF ProbeTypeOK, Mode, Steps
    <3>2. QED
      BY <2>1, <3>1, AcquiredInOrder DEF ProbeTypeOK, Acquired
  <2>3. ProbeTypeOK'
    BY <2>1, <2>2 DEF ProbeTypeOK, Running
  <2>4. PositionOK'
    BY <2>1 DEF PositionOK, Pump
  <2>5. HeldOK'
    BY <2>1, <2>2 DEF HeldOK, Running, Pump
  <2>6. QED
    BY <2>3, <2>4, <2>5
<1>3. ASSUME NEW p \in {"synchronous", "platform"},
             NEW next \in {"platform", "microtask"},
             InvokeNow(p, next)
      PROVE  PlaceInv'
  BY <1>3
  DEF InvokeNow, stateVars, vmVars, ProbeTypeOK, PositionOK, HeldOK, Running,
      Stopping, Pump
<1>4. ASSUME NEW p \in Phase, InvokeProbe(p)
      PROVE  PlaceInv'
  <2>1. /\ pc = p /\ phase' = p /\ pc' \in {After[p], "loop"}
        /\ UNCHANGED <<mode, held, published, cleanup, poster, reporter,
                       child>>
    BY <1>4 DEF InvokeProbe
  <2>2. outbox' \in Seq(Report) /\ sent' \subseteq Report
        /\ owed' \subseteq Phase
    BY <1>4, DartRunsTyped DEF InvokeProbe, ProbeTypeOK
  <2>3. ProbeTypeOK'
    BY <2>1, <2>2 DEF ProbeTypeOK, Running, Stopping, Pump, Phase, After
  <2>4. PositionOK'
    BY <2>1 DEF PositionOK, Pump, Phase, After
  <2>5. HeldOK'
    BY <2>1 DEF HeldOK, Running, Stopping, Pump, Phase, After
  <2>6. QED
    BY <2>3, <2>4, <2>5
<1>5. ASSUME pc \in Pump, pc' \in Pump,
             UNCHANGED <<mode, held, published, cleanup, phase, poster,
                         reporter, child, outbox, sent, owed>>
      PROVE  PlaceInv'
  BY <1>5
  DEF ProbeTypeOK, PositionOK, HeldOK, Running, Stopping, Pump
<1>6. CASE PumpLoop \/ Woken \/ WaitTimesOut \/ WakeSpuriously
  BY <1>5, <1>6
  DEF PumpLoop, Woken, WaitTimesOut, WakeSpuriously, TakeToken, NoToken, Pump,
      pumpUnchanged, dartUnchanged
<1>7. CASE HandleMessage
  <2>1. /\ pc = "handling" /\ pc' = "loop" /\ UNCHANGED pumpUnchanged
    BY <1>7 DEF HandleMessage
  <2>2. outbox' \in Seq(Report) /\ sent' \subseteq Report
        /\ owed' \subseteq Phase
    BY <1>7, DartRunsTyped DEF HandleMessage, ProbeTypeOK
  <2>3. QED
    BY <2>1, <2>2
    DEF pumpUnchanged, ProbeTypeOK, PositionOK, HeldOK, Running, Stopping,
        Pump
<1>8. CASE Judge
  <2>1. /\ pc = "judge" /\ pc' = After[phase] /\ phase \in Phase
        /\ UNCHANGED <<mode, held, published, cleanup, phase, poster,
                       reporter, child, outbox, sent, owed>>
    BY <1>8 DEF Judge, vmVars, PositionOK, Pump
  <2>2. \/ phase = "microtask" /\ pc' = "lifecycle"
        \/ phase = "lifecycle" /\ pc' = "closePort"
    BY <2>1 DEF Phase, After
  <2>3. QED
    BY <2>1, <2>2
    DEF ProbeTypeOK, PositionOK, HeldOK, Running, Stopping, Pump
<1>9. CASE DeadlinePasses
  BY <1>5, <1>9 DEF DeadlinePasses, stateVars, vmVars, Pump
\* The callbacks.
<1>10. ASSUME \/ UNCHANGED pc
              \/ pc = "waiting" /\ pc' = "woken",
              pc # "start",
              UNCHANGED <<mode, held, published, cleanup, phase, owed, sent>>,
              outbox' \in {outbox, Tail(outbox)},
              "port" \notin held => UNCHANGED outbox,
              outbox = <<>> => UNCHANGED outbox,
              poster' \in [Poster -> {AtRest, "store", "notify"}],
              reporter' \in {Waiting}
                              \cup [at : {"store", "notify"}, report : Report],
              child' \in [Child -> {"none", "live", "gone"}]
       PROVE  PlaceInv'
  <2>1. outbox' \in Seq(Report)
    <3>1. CASE UNCHANGED outbox
      BY <3>1 DEF ProbeTypeOK
    <3>2. CASE outbox' = Tail(outbox) /\ outbox # <<>>
      <4>1. outbox \in Seq(Report)
        BY DEF ProbeTypeOK
      <4>2. QED
        BY <3>2, <4>1, HeadTailProperties
    <3>3. QED
      BY <1>10, <3>1, <3>2
  <2>2. QED
    BY <1>10, <2>1
    DEF ProbeTypeOK, PositionOK, HeldOK, Running, Stopping, Pump
<1>11. ASSUME NEW w \in Poster, Post(w) PROVE PlaceInv'
  <2>1. poster' \in [Poster -> {AtRest, "store", "notify"}] /\ pc # "start"
    BY <1>11 DEF Post, ProbeTypeOK, PositionOK, Untouched
  <2>2. QED
    BY <1>10, <1>11, <2>1
    DEF Post, mainVars, stateVars, history, ProbeTypeOK
<1>12. ASSUME NEW w \in Poster, StoreToken(w) \/ NotifyToken(w)
       PROVE  PlaceInv'
  <2>1. poster' \in [Poster -> {AtRest, "store", "notify"}]
        /\ poster[w] # AtRest
    BY <1>12 DEF StoreToken, NotifyToken, ProbeTypeOK, AtRest
  <2>2. pc # "start"
    BY <2>1 DEF PositionOK, Untouched, VmQuiet
  <2>3. QED
    BY <1>10, <1>12, <2>1, <2>2
    DEF StoreToken, NotifyToken, Wake, mainVars, stateVars, history,
        ProbeTypeOK
<1>13. CASE ReceiveReport
  <2>1. /\ outbox # <<>> /\ pc # "start" /\ "port" \in held
        /\ outbox' = Tail(outbox)
    BY <1>13 DEF ReceiveReport, HeldOK, PositionOK, Untouched
  <2>2. reporter' \in {Waiting}
                       \cup [at : {"store", "notify"}, report : Report]
    BY <1>13, <2>1, HeadTailProperties DEF ReceiveReport, ProbeTypeOK
  <2>3. QED
    BY <1>10, <1>13, <2>1, <2>2
    DEF ReceiveReport, mainVars, stateVars, history, ProbeTypeOK
<1>14. CASE StoreReport \/ NotifyReport
  <2>1. reporter # Waiting /\ pc # "start"
    BY <1>14
    DEF StoreReport, NotifyReport, Waiting, PositionOK, Untouched, VmQuiet
  <2>2. reporter' \in {Waiting}
                       \cup [at : {"store", "notify"}, report : Report]
    BY <1>14, <2>1 DEF StoreReport, NotifyReport, ProbeTypeOK
  <2>3. QED
    BY <1>10, <1>14, <2>1, <2>2
    DEF StoreReport, NotifyReport, Wake, mainVars, stateVars, history,
        ProbeTypeOK
<1>15. ASSUME NEW c \in Child, InitializeChild(c) \/ EndChild(c)
       PROVE  PlaceInv'
  <2>1. child' \in [Child -> {"none", "live", "gone"}]
    BY <1>15 DEF InitializeChild, EndChild, ProbeTypeOK
  <2>2. pc # "start"
    BY <1>15
    DEF InitializeChild, EndChild, PositionOK, Untouched
  <2>3. QED
    BY <1>10, <1>15, <2>1, <2>2
    DEF InitializeChild, EndChild, mainVars, stateVars, history, ProbeTypeOK
<1>16. CASE ClosePort
  BY <1>16
  DEF ClosePort, shutdownUnchanged, ProbeTypeOK, PositionOK, HeldOK, Running,
      Stopping, Pump
<1>17. CASE ShutdownRoot
  BY <1>17
  DEF ShutdownRoot, shutdownUnchanged, ProbeTypeOK, PositionOK, HeldOK,
      Running, Stopping, Pump
<1>18. CASE CleanUpVm
  BY <1>18
  DEF CleanUpVm, shutdownUnchanged, ProbeTypeOK, PositionOK, HeldOK, Running,
      Stopping, Pump
<1>19. CASE Unload
  BY <1>19
  DEF Unload, shutdownUnchanged, ProbeTypeOK, PositionOK, HeldOK, Running,
      Stopping, Pump
<1>20. CASE Exit
  BY <1>20
  DEF Exit, shutdownUnchanged, ProbeTypeOK, PositionOK, HeldOK, Running,
      Stopping, Pump
<1>21. CASE UNCHANGED vars
  BY <1>21
  DEF vars, mainVars, stateVars, vmVars, history, ProbeTypeOK, PositionOK,
      HeldOK, Untouched, VmQuiet, NoChildLives
<1>22. QED
  <2>1. CASE InvokeSynchronous \/ InvokePlatformScript
    BY <1>3, <2>1 DEF InvokeSynchronous, InvokePlatformScript
  <2>2. CASE InvokeMicrotask \/ InvokeLifecycle
    BY <1>4, <2>2 DEF InvokeMicrotask, InvokeLifecycle, Phase
  <2>3. QED
    BY <1>1, <1>2, <1>6, <1>7, <1>8, <1>9, <1>11, <1>12, <1>13, <1>14, <1>15,
       <1>16, <1>17, <1>18, <1>19, <1>20, <1>21, <2>1, <2>2
    DEF Next, StartStep, ProbeStep, PumpStep, ShutdownStep, VmStep

-----------------------------------------------------------------------------
(* Messages and the wait.                                                    *)

Stored == {w \in Poster : poster[w] = "store"}

TokensInv == tokens \in Nat /\ mailbox \in Nat /\ WaitIsWoken

LEMMA StoredChanges ==
  ASSUME ProbeTypeOK, NEW w \in Poster, NEW at,
         poster' = [poster EXCEPT ![w] = at]
  PROVE  /\ Cardinality(Stored) \in Nat /\ Cardinality(Stored') \in Nat
         /\ poster[w] # "store" /\ at = "store" =>
              Cardinality(Stored') = Cardinality(Stored) + 1
         /\ poster[w] = "store" /\ at # "store" =>
              /\ Cardinality(Stored) > 0
              /\ Cardinality(Stored') = Cardinality(Stored) - 1
         /\ poster[w] # "store" /\ at # "store" =>
              Cardinality(Stored') = Cardinality(Stored)
<1>1. /\ IsFiniteSet(Stored) /\ IsFiniteSet(Stored')
      /\ Cardinality(Stored) \in Nat /\ Cardinality(Stored') \in Nat
  <2>1. Stored \subseteq Poster /\ Stored' \subseteq Poster
    BY DEF Stored
  <2>2. IsFiniteSet(Poster)
    BY ProbeAssumption
  <2>3. QED
    BY <2>1, <2>2, FS_Subset, FS_CardinalityType
<1>2. Stored' = IF at = "store" THEN Stored \cup {w} ELSE Stored \ {w}
  BY DEF Stored, ProbeTypeOK
<1>3. w \in Stored <=> poster[w] = "store"
  BY DEF Stored
<1>4. CASE poster[w] # "store" /\ at = "store"
  BY <1>1, <1>2, <1>3, <1>4, FS_AddElement
<1>5. CASE poster[w] = "store" /\ at # "store"
  <2>1. Cardinality(Stored') = Cardinality(Stored) - 1
    BY <1>1, <1>2, <1>3, <1>5, FS_RemoveElement
  <2>2. QED
    BY <1>1, <1>5, <2>1
<1>6. CASE (poster[w] = "store") = (at = "store")
  <2>1. Stored' = Stored
    BY <1>2, <1>3, <1>6
  <2>2. QED
    BY <1>1, <1>6, <2>1
<1>7. QED
  BY <1>4, <1>5, <1>6

LEMMA TokensStep == PlaceInv /\ TokensInv /\ [Next]_vars => TokensInv'
<1> SUFFICES ASSUME PlaceInv, TokensInv, [Next]_vars PROVE TokensInv'
  OBVIOUS
<1> DEFINE handling == IF pc = "handling" THEN 1 ELSE 0
<1>1. /\ ProbeTypeOK /\ PositionOK /\ HeldOK
      /\ tokens \in Nat /\ mailbox \in Nat
      /\ pc \in Pump => "root" \in held /\ published
      /\ "root" \in held => pc # "start" /\ pc # "exited" /\ published
  BY DEF PlaceInv, TokensInv, PositionOK, HeldOK, Running, Pump
<1>2. Cardinality(Stored) \in Nat
  <2>1. Stored \subseteq Poster
    BY DEF Stored
  <2>2. QED
    BY <2>1, ProbeAssumption, FS_Subset, FS_CardinalityType
<1>3. "root" \in held /\ published =>
        mailbox = tokens + Cardinality(Stored) + handling
  BY DEF TokensInv, WaitIsWoken, TokensMatchMessages, Stored
<1>4. pc = "handling" => mailbox > 0
  BY <1>1, <1>2, <1>3 DEF Pump
\* What a step has to show.
<1>5. ASSUME tokens' \in Nat, mailbox' \in Nat,
             "root" \in held' /\ published' =>
               mailbox' = tokens' + Cardinality(Stored') + handling',
             pc' # "waiting"
      PROVE  TokensInv'
  BY <1>5 DEF TokensInv, WaitIsWoken, TokensMatchMessages, Stored
<1>6. ASSUME NEW k \in 1 .. Len(Steps(mode)), StartFails(k)
      PROVE  TokensInv'
  <2>1. /\ pc' = "closePort" /\ UNCHANGED <<tokens, mailbox, poster>>
        /\ tokens = 0 /\ mailbox = 0 /\ VmQuiet
    BY <1>1, <1>6 DEF StartFails, PositionOK, Untouched
  <2>2. Stored' = {} /\ Cardinality(Stored') = 0
    BY <2>1, FS_EmptySet DEF VmQuiet, Stored, AtRest
  <2>3. QED
    BY <1>5, <2>1, <2>2
<1>7. CASE StartSucceeds
  <2>1. /\ pc' = "synchronous" /\ UNCHANGED <<tokens, mailbox, poster>>
        /\ tokens = 0 /\ mailbox = 0 /\ VmQuiet
    BY <1>1, <1>7 DEF StartSucceeds, stateVars, PositionOK, Untouched
  <2>2. Stored' = {} /\ Cardinality(Stored') = 0
    BY <2>1, FS_EmptySet DEF VmQuiet, Stored, AtRest
  <2>3. QED
    BY <1>5, <2>1, <2>2
\* Steps of the main thread that handle no message.
<1>8. ASSUME pc # "handling", pc' \notin {"handling", "waiting"},
             UNCHANGED <<held, published, tokens, mailbox, poster>>
      PROVE  TokensInv'
  BY <1>1, <1>3, <1>5, <1>8 DEF Stored
<1>9. CASE InvokeSynchronous \/ InvokePlatformScript
  BY <1>8, <1>9
  DEF InvokeSynchronous, InvokePlatformScript, InvokeNow, stateVars, vmVars
<1>10. ASSUME NEW p \in Phase, InvokeProbe(p) PROVE TokensInv'
  <2>1. PICK posted \in {0, 1} : mailbox' = mailbox - 0 + posted
                                /\ tokens' = tokens + posted
    BY <1>10 DEF InvokeProbe, DartRuns
  <2>2. /\ pc # "handling" /\ pc' \notin {"handling", "waiting"}
        /\ UNCHANGED <<held, published, poster>>
    BY <1>10 DEF InvokeProbe, Phase, After
  <2>3. QED
    BY <1>1, <1>2, <1>3, <1>5, <2>1, <2>2 DEF Stored
<1>11. CASE PumpLoop
  <2>1. /\ pc = "loop" /\ UNCHANGED <<held, published, mailbox, poster,
                                      reported, reporter>>
    BY <1>11 DEF PumpLoop, pumpUnchanged, dartUnchanged
  <2>2. \/ pc' = "judge" /\ UNCHANGED tokens
        \/ TakeToken
        \/ pc' = "waiting" /\ tokens = 0 /\ reported = NoReport
             /\ UNCHANGED tokens
    BY <1>11 DEF PumpLoop, NoToken
  <2>3. CASE pc' = "judge" /\ UNCHANGED tokens
    BY <1>8, <2>1, <2>3
  <2>4. CASE TakeToken
    BY <1>1, <1>2, <1>3, <1>5, <2>1, <2>4 DEF TakeToken, Stored
  <2>5. CASE pc' = "waiting" /\ tokens = 0 /\ reported = NoReport
             /\ UNCHANGED tokens
    BY <1>1, <1>3, <2>1, <2>5
    DEF TokensInv, WaitIsWoken, TokensMatchMessages, Stored
  <2>6. QED
    BY <2>2, <2>3, <2>4, <2>5
<1>12. CASE Woken
  <2>1. /\ pc = "woken" /\ UNCHANGED <<held, published, mailbox, poster>>
        /\ \/ pc' = "loop" /\ UNCHANGED tokens
           \/ TakeToken
    BY <1>12 DEF Woken, NoToken, pumpUnchanged, dartUnchanged
  <2>2. CASE pc' = "loop" /\ UNCHANGED tokens
    BY <1>8, <2>1, <2>2
  <2>3. CASE TakeToken
    BY <1>1, <1>2, <1>3, <1>5, <2>1, <2>3 DEF TakeToken, Stored
  <2>4. QED
    BY <2>1, <2>2, <2>3
<1>13. CASE WaitTimesOut \/ WakeSpuriously
  BY <1>8, <1>13
  DEF WaitTimesOut, WakeSpuriously, pumpUnchanged, dartUnchanged
<1>14. CASE HandleMessage
  <2>1. /\ pc = "handling" /\ pc' = "loop"
        /\ UNCHANGED <<held, published, poster>>
    BY <1>14 DEF HandleMessage, pumpUnchanged
  <2>2. PICK posted \in {0, 1} : mailbox' = mailbox - 1 + posted
                                /\ tokens' = tokens + posted
    BY <1>14 DEF HandleMessage, DartRuns
  <2>3. QED
    BY <1>1, <1>2, <1>3, <1>4, <1>5, <2>1, <2>2 DEF Stored
<1>15. CASE Judge
  BY <1>8, <1>15, <1>1
  DEF Judge, stateVars, vmVars, PositionOK, Pump, Phase, After
<1>16. CASE DeadlinePasses
  BY <1>1, <1>16
  DEF DeadlinePasses, stateVars, vmVars, TokensInv, WaitIsWoken,
      TokensMatchMessages
<1>17. ASSUME NEW w \in Poster, Post(w) PROVE TokensInv'
  <2>1. /\ poster[w] = AtRest /\ "root" \in held /\ mailbox' = mailbox + 1
        /\ poster' = [poster EXCEPT ![w] = "store"]
        /\ UNCHANGED <<pc, held, published, tokens, reported, reporter>>
    BY <1>1, <1>17 DEF Post, mainVars, stateVars
  <2>2. Cardinality(Stored') = Cardinality(Stored) + 1
    BY <1>1, <2>1, StoredChanges DEF AtRest
  <2>3. \A v \in Poster : poster[v] = "notify" => poster'[v] = "notify"
    BY <1>1, <2>1 DEF ProbeTypeOK, AtRest
  <2>4. QED
    BY <1>1, <1>2, <1>3, <2>1, <2>2, <2>3
    DEF TokensInv, WaitIsWoken, TokensMatchMessages, Stored
<1>18. ASSUME NEW w \in Poster, StoreToken(w) PROVE TokensInv'
  <2>1. /\ poster[w] = "store" /\ tokens' = tokens + 1
        /\ poster' = [poster EXCEPT ![w] = "notify"]
        /\ UNCHANGED <<pc, held, published, mailbox>>
    BY <1>18 DEF StoreToken, mainVars
  <2>2. Cardinality(Stored') = Cardinality(Stored) - 1
    <3>1. PICK at : at = "notify"
      OBVIOUS
    <3>2. poster' = [poster EXCEPT ![w] = at] /\ at # "store"
      BY <2>1, <3>1
    <3>3. QED
      BY <1>1, <2>1, <3>2, StoredChanges
  <2>3. poster'[w] = "notify"
    BY <1>1, <2>1 DEF ProbeTypeOK
  <2>4. QED
    BY <1>1, <1>2, <1>3, <2>1, <2>2, <2>3
    DEF TokensInv, WaitIsWoken, TokensMatchMessages, Stored
<1>19. ASSUME NEW w \in Poster, NotifyToken(w) PROVE TokensInv'
  <2>1. /\ poster[w] = "notify" /\ Wake
        /\ poster' = [poster EXCEPT ![w] = AtRest]
        /\ UNCHANGED <<held, published, mailbox, tokens>>
    BY <1>19 DEF NotifyToken, stateVars
  <2>2. Cardinality(Stored') = Cardinality(Stored)
    <3>1. PICK at : at = AtRest
      OBVIOUS
    <3>2. poster' = [poster EXCEPT ![w] = at] /\ at # "store"
      BY <2>1, <3>1 DEF AtRest
    <3>3. QED
      BY <1>1, <2>1, <3>2, StoredChanges
  <2>3. pc' # "waiting" /\ (pc' = "handling" <=> pc = "handling")
    BY <2>1 DEF Wake
  <2>4. QED
    BY <1>1, <1>3, <1>5, <2>1, <2>2, <2>3
<1>20. CASE ReceiveReport
  <2>1. UNCHANGED <<pc, held, published, mailbox, tokens, poster, reported>>
        /\ reporter.at # "notify"
    BY <1>20 DEF ReceiveReport, mainVars, stateVars, Waiting
  <2>2. QED
    BY <1>1, <2>1 DEF TokensInv, WaitIsWoken, TokensMatchMessages
<1>21. CASE StoreReport
  <2>1. UNCHANGED <<pc, held, published, mailbox, tokens, poster>>
        /\ reporter' = [reporter EXCEPT !.at = "notify"]
        /\ reporter # Waiting
    BY <1>21 DEF StoreReport, mainVars, Waiting
  <2>2. reporter'.at = "notify"
    BY <1>1, <2>1 DEF ProbeTypeOK
  <2>3. QED
    BY <1>1, <2>1, <2>2 DEF TokensInv, WaitIsWoken, TokensMatchMessages
<1>22. CASE NotifyReport
  <2>1. UNCHANGED <<held, published, mailbox, tokens, poster>> /\ Wake
    BY <1>22 DEF NotifyReport, stateVars
  <2>2. pc' # "waiting" /\ (pc' = "handling" <=> pc = "handling")
    BY <2>1 DEF Wake
  <2>3. QED
    BY <1>1, <1>3, <1>5, <2>1, <2>2 DEF Stored
<1>23. ASSUME NEW c \in Child, InitializeChild(c) \/ EndChild(c)
       PROVE  TokensInv'
  <2>1. UNCHANGED <<pc, held, published, mailbox, tokens, poster, reported,
                    reporter>>
    BY <1>23 DEF InitializeChild, EndChild, mainVars
  <2>2. QED
    BY <1>1, <2>1 DEF TokensInv, WaitIsWoken, TokensMatchMessages
<1>24. ASSUME pc \in Stopping, pc' \notin {"handling", "waiting"},
              "root" \in held' => "root" \in held /\ UNCHANGED mailbox,
              published' => published, mailbox' \in Nat,
              UNCHANGED <<tokens, poster>>
       PROVE  TokensInv'
  BY <1>1, <1>3, <1>5, <1>24 DEF Stopping, Stored
<1>25. CASE ClosePort \/ CleanUpVm \/ Unload \/ Exit
  BY <1>1, <1>24, <1>25
  DEF ClosePort, CleanUpVm, Unload, Exit, shutdownUnchanged, Stopping
<1>26. CASE ShutdownRoot
  BY <1>1, <1>24, <1>26 DEF ShutdownRoot, shutdownUnchanged, Stopping
<1>27. CASE UNCHANGED vars
  BY <1>1, <1>27
  DEF vars, mainVars, stateVars, vmVars, TokensInv, WaitIsWoken,
      TokensMatchMessages
<1>28. QED
  <2>1. CASE InvokeMicrotask \/ InvokeLifecycle
    BY <1>10, <2>1 DEF InvokeMicrotask, InvokeLifecycle, Phase
  <2>2. QED
    BY <1>6, <1>7, <1>9, <1>11, <1>12, <1>13, <1>14, <1>15, <1>16, <1>17,
       <1>18, <1>19, <1>20, <1>21, <1>22, <1>23, <1>25, <1>26, <1>27, <2>1
    DEF Next, StartStep, ProbeStep, PumpStep, ShutdownStep, VmStep

-----------------------------------------------------------------------------
(* Reports.                                                                  *)

KindsSent == {r.kind : r \in sent}

\* A report of kind k can still be stored.
OnTheWay(k) ==
  \/ k \in owed
  \/ \E n \in 1 .. Len(outbox) : outbox[n].kind = k
  \/ reporter.at = "store" /\ reporter.report.kind = k

\* The Dart program sends one report of each kind, and each is in one place.
SentOnce ==
  /\ reported \in sent \cup {NoReport}
  /\ \A n \in 1 .. Len(outbox) : outbox[n] \in sent
  /\ reporter # Waiting => reporter.report \in sent
  /\ \A r, s \in sent : r.kind = s.kind => r = s
  /\ owed \cap KindsSent = {}
  /\ \A m, n \in 1 .. Len(outbox) : outbox[m].kind = outbox[n].kind => m = n
  /\ reporter.at = "store" =>
       \A n \in 1 .. Len(outbox) : outbox[n].kind # reporter.report.kind
  /\ reported # NoReport => ~OnTheWay(reported.kind)

\* No report is of a probe that has not begun.
BegunOK ==
  /\ phase = NoPhase => owed = {} /\ sent = {}
  /\ phase = "microtask" => "lifecycle" \notin owed \cup KindsSent

ReportsInv == SentOnce /\ BegunOK

LEMMA DartSends ==
  ASSUME ProbeTypeOK, SentOnce, NEW taken, NEW owing \in SUBSET Phase,
         DartRuns(taken, owing), owed \subseteq owing,
         owing \cap KindsSent = {},
         UNCHANGED reporter, reported' \in {reported, NoReport}
  PROVE  /\ SentOnce'
         /\ (owed \cup KindsSent)' = owing \cup KindsSent
         /\ sent \subseteq sent'
         /\ \A k : ~OnTheWay(k) /\ k \notin owing => ~OnTheWay(k)'
<1>1. CASE owed' = owing /\ UNCHANGED <<outbox, sent>>
  BY <1>1 DEF SentOnce, OnTheWay, KindsSent
<1>2. ASSUME NEW r \in Report, r.kind \in owing,
             owed' = owing \ {r.kind}, outbox' = Append(outbox, r),
             sent' = sent \cup {r}
      PROVE  /\ SentOnce'
             /\ (owed \cup KindsSent)' = owing \cup KindsSent
             /\ sent \subseteq sent'
             /\ \A k : ~OnTheWay(k) /\ k \notin owing => ~OnTheWay(k)'
  <2>1. /\ outbox \in Seq(Report) /\ Len(outbox) \in Nat
        /\ Len(outbox') = Len(outbox) + 1
        /\ outbox'[Len(outbox) + 1] = r
        /\ \A n \in 1 .. Len(outbox) : outbox'[n] = outbox[n]
    BY <1>2 DEF ProbeTypeOK
  <2>2. KindsSent' = KindsSent \cup {r.kind} /\ r.kind \notin KindsSent
    BY <1>2 DEF KindsSent
  <2>3. \A s \in sent : s.kind # r.kind
    BY <2>2 DEF KindsSent
  <2>4. \A n \in 1 .. Len(outbox') :
          \/ n = Len(outbox) + 1 /\ outbox'[n] = r
          \/ n \in 1 .. Len(outbox) /\ outbox'[n] = outbox[n]
    BY <2>1
  <2>5. \A k : OnTheWay(k)' => OnTheWay(k) \/ k \in owing
    BY <1>2, <2>4 DEF OnTheWay
  <2>6. ASSUME reported' # NoReport PROVE ~OnTheWay(reported.kind)'
    <3>1. reported' = reported /\ reported \in sent
      BY <2>6 DEF SentOnce
    <3>2. PICK k : k = reported.kind
      OBVIOUS
    <3>3. ~OnTheWay(k) /\ k \in KindsSent /\ k \notin owing
      BY <2>6, <3>1, <3>2 DEF SentOnce, KindsSent
    <3>4. ~OnTheWay(k)'
      BY <2>5, <3>3
    <3>5. QED
      BY <3>1, <3>2, <3>4 DEF OnTheWay
  <2>7. \A n \in 1 .. Len(outbox') : outbox'[n] \in sent'
    BY <1>2, <2>4 DEF SentOnce
  <2>8. \A m, n \in 1 .. Len(outbox') :
          outbox'[m].kind = outbox'[n].kind => m = n
    BY <2>3, <2>4 DEF SentOnce
  <2>9. reporter'.at = "store" =>
          \A n \in 1 .. Len(outbox') :
            outbox'[n].kind # reporter'.report.kind
    <3>1. reporter.at = "store" => reporter.report \in sent
      BY DEF SentOnce, Waiting, AtRest
    <3>2. QED
      BY <2>3, <2>4, <3>1 DEF SentOnce
  <2>10. \A s, u \in sent' : s.kind = u.kind => s = u
    BY <1>2, <2>3 DEF SentOnce
  <2>11. /\ (owed \cup KindsSent)' = owing \cup KindsSent
         /\ owed' \cap KindsSent' = {}
    BY <1>2, <2>2
  <2>12. SentOnce'
    <3>1. reported' \in sent' \cup {NoReport}
      BY <1>2 DEF SentOnce
    <3>2. reporter' # Waiting => reporter'.report \in sent'
      BY <1>2 DEF SentOnce
    <3>3. QED
      BY <2>6, <2>7, <2>8, <2>9, <2>10, <2>11, <3>1, <3>2 DEF SentOnce
  <2>13. QED
    BY <1>2, <2>5, <2>11, <2>12
<1>3. QED
  BY <1>1, <1>2 DEF DartRuns

LEMMA ReportsStep == PlaceInv /\ ReportsInv /\ [Next]_vars => ReportsInv'
<1> SUFFICES ASSUME PlaceInv, ReportsInv, [Next]_vars PROVE ReportsInv'
  OBVIOUS
<1>1. /\ ProbeTypeOK /\ PositionOK /\ HeldOK /\ SentOnce /\ BegunOK
      /\ outbox \in Seq(Report) /\ Len(outbox) \in Nat
  BY DEF PlaceInv, ReportsInv, ProbeTypeOK
\* Steps that move no report.
<1>2. ASSUME UNCHANGED <<owed, outbox, reporter, sent, phase, reported>>
      PROVE  ReportsInv'
  BY <1>1, <1>2 DEF ReportsInv, SentOnce, BegunOK, OnTheWay, KindsSent
<1>3. ASSUME NEW p \in Phase, InvokeProbe(p) PROVE ReportsInv'
  <2>1. /\ pc = p /\ phase' = p /\ reported' = NoReport /\ UNCHANGED reporter
        /\ DartRuns(0, owed \cup {p})
    BY <1>3 DEF InvokeProbe, ResetReport
  <2>2. p \notin owed \cup KindsSent
    BY <1>1, <2>1 DEF PositionOK, BegunOK, KindsSent, Phase
  <2>3. p = "microtask" => "lifecycle" \notin owed \cup KindsSent
    BY <1>1, <2>1 DEF PositionOK, BegunOK, KindsSent
  <2> DEFINE owing == owed \cup {p}
  <2>4. /\ owing \in SUBSET Phase /\ owed \subseteq owing
        /\ owing \cap KindsSent = {}
    BY <1>1, <2>2 DEF ProbeTypeOK, SentOnce
  <2>5. SentOnce' /\ (owed \cup KindsSent)' = owing \cup KindsSent
    BY <1>1, <2>1, <2>4, DartSends
  <2>6. BegunOK'
    BY <2>1, <2>3, <2>5 DEF BegunOK, Phase, NoPhase
  <2>7. QED
    BY <2>5, <2>6 DEF ReportsInv
<1>4. CASE HandleMessage
  <2>1. /\ pc = "handling" /\ phase \in Phase
        /\ UNCHANGED <<phase, reporter, reported>>
        /\ DartRuns(1, owed)
    BY <1>1, <1>4 DEF HandleMessage, pumpUnchanged, PositionOK, Pump
  <2>2. owed \in SUBSET Phase /\ owed \cap KindsSent = {}
    BY <1>1 DEF ProbeTypeOK, SentOnce
  <2>3. SentOnce' /\ (owed \cup KindsSent)' = owed \cup KindsSent
    BY <1>1, <2>1, <2>2, DartSends
  <2>4. BegunOK'
    BY <1>1, <2>1, <2>3 DEF BegunOK, Phase, NoPhase
  <2>5. QED
    BY <2>3, <2>4 DEF ReportsInv
<1>5. CASE ReceiveReport
  <2>1. /\ reporter = Waiting /\ outbox # <<>> /\ outbox' = Tail(outbox)
        /\ UNCHANGED <<owed, sent, phase, reported>>
        /\ \/ reporter' = [at |-> "store", report |-> outbox[1]]
           \/ reporter' = Waiting
    BY <1>1, <1>5, HeadTailProperties
    DEF ReceiveReport, mainVars, stateVars, history
  <2>2. /\ Len(outbox) > 0 /\ Len(outbox') = Len(outbox) - 1
        /\ \A n \in 1 .. Len(outbox') : outbox'[n] = outbox[n + 1]
    BY <1>1, <2>1, HeadTailProperties
  <2>3. \A n \in 1 .. Len(outbox') :
          n + 1 \in 1 .. Len(outbox) /\ outbox'[n] = outbox[n + 1]
    BY <1>1, <2>2
  <2>4. 1 \in 1 .. Len(outbox) /\ outbox[1] \in sent
    BY <1>1, <2>2 DEF SentOnce
  <2>5. /\ reporter' # Waiting => reporter'.report = outbox[1]
        /\ reporter'.at = "store" => reporter'.report = outbox[1]
    BY <2>1 DEF Waiting, AtRest
  <2>6. \A k : OnTheWay(k)' => OnTheWay(k)
    BY <2>1, <2>3, <2>4, <2>5 DEF OnTheWay
  <2>7. ASSUME reported' # NoReport PROVE ~OnTheWay(reported.kind)'
    BY <1>1, <2>1, <2>3, <2>4, <2>5, <2>7 DEF SentOnce, OnTheWay
  <2>8. \A m, n \in 1 .. Len(outbox') :
          outbox'[m].kind = outbox'[n].kind => m = n
    <3>1. SUFFICES ASSUME NEW m \in 1 .. Len(outbox'),
                          NEW n \in 1 .. Len(outbox'),
                          outbox'[m].kind = outbox'[n].kind
                   PROVE  m = n
      OBVIOUS
    <3>2. /\ m + 1 \in 1 .. Len(outbox) /\ n + 1 \in 1 .. Len(outbox)
          /\ outbox[m + 1].kind = outbox[n + 1].kind
      BY <2>3, <3>1
    <3>3. m + 1 = n + 1
      BY <1>1, <3>2 DEF SentOnce
    <3>4. QED
      BY <3>3
  <2>9. reporter'.at = "store" =>
          \A n \in 1 .. Len(outbox') :
            outbox'[n].kind # reporter'.report.kind
    <3>1. SUFFICES ASSUME NEW n \in 1 .. Len(outbox'),
                          outbox'[n].kind = outbox[1].kind
                   PROVE  FALSE
      BY <2>5
    <3>2. n + 1 = 1
      BY <1>1, <2>3, <2>4, <3>1 DEF SentOnce
    <3>3. QED
      BY <3>2
  <2>10. SentOnce'
    BY <1>1, <2>1, <2>3, <2>4, <2>5, <2>7, <2>8, <2>9 DEF SentOnce, KindsSent
  <2>11. BegunOK'
    BY <1>1, <2>1 DEF BegunOK, KindsSent
  <2>12. QED
    BY <2>10, <2>11 DEF ReportsInv
<1>6. CASE StoreReport
  <2>1. /\ reporter.at = "store" /\ reporter # Waiting
        /\ reported' = reporter.report
        /\ reporter' = [reporter EXCEPT !.at = "notify"]
        /\ UNCHANGED <<owed, outbox, sent, phase>>
    BY <1>6 DEF StoreReport, mainVars, history, Waiting, AtRest
  <2>2. reporter'.at = "notify" /\ reporter'.report = reporter.report
    BY <1>1, <2>1 DEF ProbeTypeOK
  <2>3. reporter.report \in sent /\ reporter.report.kind \in KindsSent
    BY <1>1, <2>1 DEF SentOnce, KindsSent
  <2>4. ~OnTheWay(reported.kind)'
    BY <1>1, <2>1, <2>2, <2>3 DEF SentOnce, OnTheWay
  <2>5. SentOnce'
    BY <1>1, <2>1, <2>2, <2>3, <2>4 DEF SentOnce, KindsSent
  <2>6. BegunOK'
    BY <1>1, <2>1 DEF BegunOK, KindsSent
  <2>7. QED
    BY <2>5, <2>6 DEF ReportsInv
<1>7. CASE NotifyReport
  <2>1. /\ reporter.at = "notify" /\ reporter' = Waiting
        /\ UNCHANGED <<owed, outbox, sent, phase, reported>>
    BY <1>7 DEF NotifyReport, stateVars, history
  <2>2. reporter'.at # "store"
    BY <2>1 DEF Waiting, AtRest
  <2>3. reported # NoReport => ~OnTheWay(reported.kind)'
    BY <1>1, <2>1, <2>2 DEF SentOnce, OnTheWay
  <2>4. SentOnce'
    BY <1>1, <2>1, <2>2, <2>3 DEF SentOnce, KindsSent
  <2>5. BegunOK'
    BY <1>1, <2>1 DEF BegunOK, KindsSent
  <2>6. QED
    BY <2>4, <2>5 DEF ReportsInv
<1>8. CASE ClosePort
  <2>1. /\ outbox' = <<>>
        /\ UNCHANGED <<owed, sent, phase, reported, reporter>>
    BY <1>1, <1>8 DEF ClosePort, shutdownUnchanged, HeldOK
  <2>2. Len(outbox') = 0
    BY <2>1
  <2>3. reported # NoReport => ~OnTheWay(reported.kind)'
    BY <1>1, <2>1, <2>2 DEF SentOnce, OnTheWay
  <2>4. SentOnce'
    BY <1>1, <2>1, <2>2, <2>3 DEF SentOnce, KindsSent
  <2>5. BegunOK'
    BY <1>1, <2>1 DEF BegunOK, KindsSent
  <2>6. QED
    BY <2>4, <2>5 DEF ReportsInv
<1>9. QED
  <2>1. CASE StartStep
    BY <1>2, <2>1 DEF StartStep, StartFails, StartSucceeds, stateVars, history
  <2>2. CASE InvokeSynchronous \/ InvokePlatformScript
    BY <1>2, <2>2
    DEF InvokeSynchronous, InvokePlatformScript, InvokeNow, stateVars, vmVars
  <2>3. CASE InvokeMicrotask \/ InvokeLifecycle
    BY <1>3, <2>3 DEF InvokeMicrotask, InvokeLifecycle, Phase
  <2>4. CASE PumpLoop \/ Woken \/ WaitTimesOut \/ WakeSpuriously
    BY <1>2, <2>4
    DEF PumpLoop, Woken, WaitTimesOut, WakeSpuriously, pumpUnchanged,
        dartUnchanged
  <2>5. CASE Judge \/ DeadlinePasses
    BY <1>2, <2>5 DEF Judge, DeadlinePasses, stateVars, vmVars
  <2>6. ASSUME NEW w \in Poster, Post(w) \/ StoreToken(w) \/ NotifyToken(w)
        PROVE  ReportsInv'
    BY <1>2, <2>6
    DEF Post, StoreToken, NotifyToken, mainVars, stateVars, history
  <2>7. ASSUME NEW c \in Child, InitializeChild(c) \/ EndChild(c)
        PROVE  ReportsInv'
    BY <1>2, <2>7 DEF InitializeChild, EndChild, mainVars, history
  <2>8. CASE ShutdownRoot \/ CleanUpVm \/ Unload \/ Exit
    BY <1>2, <2>8
    DEF ShutdownRoot, CleanUpVm, Unload, Exit, shutdownUnchanged
  <2>9. CASE UNCHANGED vars
    BY <1>2, <2>9 DEF vars, mainVars, stateVars, vmVars, history
  <2>10. QED
    BY <1>4, <1>5, <1>6, <1>7, <1>8, <2>1, <2>2, <2>3, <2>4, <2>5, <2>6,
       <2>7, <2>8, <2>9
    DEF Next, ProbeStep, PumpStep, ShutdownStep, VmStep

-----------------------------------------------------------------------------
(* The verdict.                                                              *)

\* The probes whose result is not known yet.
Open ==
  {p \in Probes :
     \/ pc = "start"
     \/ pc = "synchronous" /\ p # "started"
     \/ pc = "platform" /\ p \notin {"started", "synchronous"}
     \/ pc = "microtask" /\ p \in Phase
     \/ pc \in Pump /\ phase = "microtask" /\ p \in Phase
     \/ pc = "lifecycle" /\ p = "lifecycle"
     \/ pc \in Pump /\ phase = "lifecycle" /\ p = "lifecycle"}

\* A probe that passed was reported.
OutcomeOK ==
  /\ outcome \in [Probes -> BOOLEAN]
  /\ \A p \in Open : ~outcome[p]
  /\ \A p \in Phase : outcome[p] => p \in KindsSent

\* Whatever went wrong shows: in a probe that failed, in one that is about to
\* be judged so, or in what Shutdown returns.
FaultsOK ==
  /\ faults \subseteq {"start", "dart", "deadline", "cleanup"}
  /\ "start" \in faults =>
       ~outcome["started"] /\ pc \in Stopping \cup {"exited"}
  /\ "cleanup" \in faults <=> cleanup = "failed"
  /\ failure => "dart" \in faults
  /\ expired => "deadline" \in faults
  /\ "dart" \in faults => \/ \E p \in Probes \ Open : ~outcome[p]
                          \/ pc \in Pump /\ failure
  /\ pc = "judge" => expired \/ reported # NoReport \/ failure

\* While nothing went wrong each probe passes, on a report of its own.
FaultlessOK ==
  faults = {} =>
    /\ \A p \in Probes \ Open : outcome[p]
    /\ pc = "lifecycle" \/ phase = "lifecycle" => ~OnTheWay("microtask")
    /\ phase = "lifecycle" /\ reported # NoReport =>
         reported.kind = "lifecycle"

VerdictInv == OutcomeOK /\ FaultsOK /\ FaultlessOK

LEMMA ReportsDrain ==
  ASSUME PlaceInv, ReportsInv,
         ReceiveReport \/ StoreReport \/ NotifyReport \/ ClosePort
  PROVE  \A k : OnTheWay(k)' => OnTheWay(k)
<1>1. /\ outbox \in Seq(Report) /\ Len(outbox) \in Nat
      /\ reporter \in {Waiting} \cup [at : {"store", "notify"},
                                      report : Report]
      /\ "port" \notin held => outbox = <<>>
  BY DEF PlaceInv, ProbeTypeOK, HeldOK
<1>2. CASE ReceiveReport
  <2>1. /\ outbox # <<>> /\ outbox' = Tail(outbox) /\ UNCHANGED owed
        /\ \/ reporter' = [at |-> "store", report |-> outbox[1]]
           \/ reporter' = Waiting
    BY <1>1, <1>2, HeadTailProperties DEF ReceiveReport
  <2>2. /\ 1 \in 1 .. Len(outbox)
        /\ \A n \in 1 .. Len(outbox') :
             n + 1 \in 1 .. Len(outbox) /\ outbox'[n] = outbox[n + 1]
    BY <1>1, <2>1, HeadTailProperties
  <2>3. reporter'.at = "store" => reporter'.report = outbox[1]
    BY <2>1 DEF Waiting, AtRest
  <2>4. QED
    BY <2>1, <2>2, <2>3 DEF OnTheWay
<1>3. CASE StoreReport
  <2>1. UNCHANGED <<owed, outbox>> /\ reporter'.at = "notify"
    BY <1>1, <1>3 DEF StoreReport, Waiting, AtRest
  <2>2. QED
    BY <2>1 DEF OnTheWay
<1>4. CASE NotifyReport
  <2>1. UNCHANGED <<owed, outbox>> /\ reporter'.at # "store"
    BY <1>4 DEF NotifyReport, Waiting, AtRest
  <2>2. QED
    BY <2>1 DEF OnTheWay
<1>5. CASE ClosePort
  <2>1. UNCHANGED <<owed, reporter>> /\ outbox' = <<>>
    BY <1>1, <1>5 DEF ClosePort, shutdownUnchanged
  <2>2. Len(outbox') = 0
    BY <2>1
  <2>3. QED
    BY <2>1, <2>2 DEF OnTheWay
<1>6. QED
  BY <1>2, <1>3, <1>4, <1>5

LEMMA VerdictStep ==
  PlaceInv /\ ReportsInv /\ VerdictInv /\ [Next]_vars => VerdictInv'
<1> SUFFICES ASSUME PlaceInv, ReportsInv, VerdictInv, [Next]_vars
             PROVE  VerdictInv'
  OBVIOUS
<1>1. /\ ProbeTypeOK /\ PositionOK /\ HeldOK /\ SentOnce /\ BegunOK
      /\ OutcomeOK /\ FaultsOK /\ FaultlessOK
  BY DEF PlaceInv, ReportsInv, VerdictInv
\* Steps that decide nothing.
<1>2. ASSUME UNCHANGED <<outcome, faults, cleanup, failure, expired, phase,
                         sent>>,
             Open' = Open,
             pc' = pc \/ ({pc, pc'} \subseteq Pump)
                      \/ ({pc, pc'} \subseteq Stopping \cup {"exited"}),
             pc' = "judge" =>
               pc = "judge" \/ expired \/ reported # NoReport \/ failure,
             \/ UNCHANGED reported
             \/ reporter.at = "store" /\ reported' = reporter.report,
             \A k : OnTheWay(k)' => OnTheWay(k)
      PROVE  VerdictInv'
  <2>1. KindsSent' = KindsSent /\ (pc' \in Pump <=> pc \in Pump)
    BY <1>2 DEF KindsSent, Pump, Stopping
  <2>2. OutcomeOK'
    BY <1>1, <1>2, <2>1 DEF OutcomeOK
  <2>3. reported # NoReport => reported' # NoReport
    <3>1. reporter.at = "store" => reporter.report \in Report
      BY <1>1 DEF ProbeTypeOK, Waiting, AtRest
    <3>2. QED
      BY <1>2, <3>1 DEF Report, Phase, NoReport, NoPhase
  <2>4. FaultsOK'
    BY <1>1, <1>2, <2>1, <2>3 DEF FaultsOK, Pump, Stopping
  <2>5. ASSUME faults' = {}
        PROVE  /\ \A p \in Probes \ Open' : outcome'[p]
               /\ pc' = "lifecycle" \/ phase' = "lifecycle" =>
                    ~OnTheWay("microtask")'
               /\ phase' = "lifecycle" /\ reported' # NoReport =>
                    reported'.kind = "lifecycle"
    <3>1. pc' = "lifecycle" => pc = "lifecycle"
      BY <1>2 DEF Pump, Stopping
    <3>2. reporter.at = "store" =>
            reporter.report.kind \in Phase /\ OnTheWay(reporter.report.kind)
      BY <1>1 DEF ProbeTypeOK, Waiting, AtRest, Report, OnTheWay
    <3>3. QED
      BY <1>1, <1>2, <2>5, <3>1, <3>2 DEF FaultlessOK, Phase
  <2>6. QED
    BY <2>2, <2>4, <2>5 DEF VerdictInv, FaultlessOK
<1>3. ASSUME UNCHANGED <<owed, outbox, reporter>>
      PROVE  \A k : OnTheWay(k)' <=> OnTheWay(k)
  BY <1>3 DEF OnTheWay
<1>4. ASSUME NEW k \in 1 .. Len(Steps(mode)), StartFails(k)
      PROVE  VerdictInv'
  <2>1. /\ pc = "start" /\ pc' = "closePort" /\ faults' = {"start"}
        /\ Untouched /\ phase = NoPhase /\ cleanup = "none" /\ Open' = {}
        /\ UNCHANGED <<cleanup, phase, expired, outcome, failure, sent>>
    BY <1>1, <1>4 DEF StartFails, PositionOK, Untouched, Open, Pump, Phase,
       NoPhase
  <2>2. ~expired /\ ~failure /\ outcome = [p \in Probes |-> FALSE]
    BY <1>1, <2>1 DEF FaultsOK, Untouched
  <2>3. OutcomeOK'
    BY <2>1, <2>2 DEF OutcomeOK, Probes, Phase
  <2>4. FaultsOK'
    BY <2>1, <2>2 DEF FaultsOK, Probes, Stopping
  <2>5. QED
    BY <2>1, <2>3, <2>4 DEF VerdictInv, FaultlessOK
<1>5. CASE StartSucceeds
  <2>1. /\ pc = "start" /\ pc' = "synchronous" /\ Untouched
        /\ phase = NoPhase /\ cleanup = "none"
        /\ Open' = Probes \ {"started"}
        /\ outcome' = [outcome EXCEPT !["started"] = TRUE]
        /\ UNCHANGED <<cleanup, phase, expired, failure, faults, sent>>
    BY <1>1, <1>5
    DEF StartSucceeds, PositionOK, Open, Pump, stateVars, history
  <2>2. /\ ~expired /\ ~failure /\ faults = {}
        /\ outcome = [p \in Probes |-> FALSE]
    BY <1>1, <2>1 DEF FaultsOK, Untouched
  <2>3. /\ outcome' \in [Probes -> BOOLEAN] /\ outcome'["started"]
        /\ \A p \in Probes \ {"started"} : ~outcome'[p]
    BY <2>1, <2>2 DEF Probes
  <2>4. OutcomeOK'
    BY <2>1, <2>3 DEF OutcomeOK, Probes, Phase
  <2>5. FaultsOK'
    BY <2>1, <2>2 DEF FaultsOK
  <2>6. FaultlessOK'
    BY <2>1, <2>3 DEF FaultlessOK, NoPhase
  <2>7. QED
    BY <2>4, <2>5, <2>6 DEF VerdictInv
<1>6. ASSUME NEW p \in {"synchronous", "platform"},
             NEW next \in {"platform", "microtask"},
             <<p, next>> \in {<<"synchronous", "platform">>,
                              <<"platform", "microtask">>},
             InvokeNow(p, next)
      PROVE  VerdictInv'
  <2>1. PICK success \in BOOLEAN :
          /\ outcome' = [outcome EXCEPT ![p] = success]
          /\ faults' = faults \cup (IF success THEN {} ELSE {"dart"})
    BY <1>6 DEF InvokeNow
  <2>2. /\ pc = p /\ pc' = next /\ p \in Open /\ Open' = Open \ {p}
        /\ phase = NoPhase
        /\ UNCHANGED <<cleanup, phase, expired, failure, reported, sent>>
    BY <1>1, <1>6
    DEF InvokeNow, stateVars, Open, PositionOK, Pump, Probes, Phase, NoPhase
  <2>3. /\ outcome' \in [Probes -> BOOLEAN] /\ outcome'[p] = success
        /\ \A q \in Probes \ {p} : outcome'[q] = outcome[q]
    BY <1>1, <2>1, <2>2 DEF OutcomeOK, Open
  <2>4. OutcomeOK'
    BY <1>1, <1>6, <2>2, <2>3 DEF OutcomeOK, KindsSent, Phase, Probes, Open
  <2>5. FaultsOK'
    <3>1. "start" \notin faults
      BY <1>1, <1>6, <2>2 DEF FaultsOK, Stopping
    <3>2. "dart" \in faults' => \E q \in Probes \ Open' : ~outcome'[q]
      <4>1. CASE success
        BY <1>1, <1>6, <2>1, <2>2, <2>3, <4>1 DEF FaultsOK, Pump
      <4>2. CASE ~success
        BY <2>2, <2>3, <4>2 DEF Open
      <4>3. QED
        BY <4>1, <4>2
    <3>3. QED
      BY <1>1, <1>6, <2>1, <2>2, <3>1, <3>2 DEF FaultsOK, Pump
  <2>6. FaultlessOK'
    BY <1>1, <1>6, <2>1, <2>2, <2>3 DEF FaultlessOK, NoPhase
  <2>7. QED
    BY <2>4, <2>5, <2>6 DEF VerdictInv
<1>7. ASSUME NEW p \in Phase, InvokeProbe(p) PROVE VerdictInv'
  <2>1. /\ pc = p /\ phase' = p /\ reported' = NoReport /\ ~failure'
        /\ failure' = FALSE /\ expired' = FALSE
        /\ UNCHANGED <<cleanup, outcome, reporter>>
        /\ DartRuns(0, owed \cup {p})
        /\ \/ pc' = After[p] /\ faults' = faults \cup {"dart"}
           \/ pc' = "loop" /\ UNCHANGED faults
    BY <1>7 DEF InvokeProbe, ResetReport
  <2>2. /\ "start" \notin faults /\ p \in Open
        /\ p \notin owed \cup KindsSent
        /\ Open = IF p = "microtask" THEN Phase ELSE {"lifecycle"}
    BY <1>1, <2>1
    DEF FaultsOK, Stopping, PositionOK, BegunOK, Open, Pump, Phase, KindsSent,
        Probes
  <2> DEFINE owing == owed \cup {p}
  <2>3. /\ owing \in SUBSET Phase /\ owed \subseteq owing
        /\ owing \cap KindsSent = {}
    BY <1>1, <2>2 DEF ProbeTypeOK, SentOnce
  <2>4. /\ sent \subseteq sent'
        /\ \A k : ~OnTheWay(k) /\ k \notin owing => ~OnTheWay(k)'
    BY <1>1, <2>1, <2>3, DartSends
  <2>5. KindsSent \subseteq KindsSent'
    BY <2>4 DEF KindsSent
  <2>6. CASE pc' = After[p] /\ faults' = faults \cup {"dart"}
    <3>1. Open' = Open \ {p}
      BY <1>1, <2>1, <2>2, <2>6 DEF Open, After, Phase, Pump, Probes
    <3>2. OutcomeOK'
      BY <1>1, <2>1, <2>5, <3>1 DEF OutcomeOK
    <3>3. \E q \in Probes \ Open' : ~outcome'[q]
      BY <1>1, <2>1, <2>2, <3>1 DEF OutcomeOK, Open
    <3>4. pc' # "judge"
      BY <2>6 DEF After, Phase
    <3>5. FaultsOK'
      BY <1>1, <2>1, <2>2, <2>4, <2>6, <3>3, <3>4 DEF FaultsOK
    <3>6. QED
      BY <2>6, <3>2, <3>5 DEF VerdictInv, FaultlessOK
  <2>7. CASE pc' = "loop" /\ UNCHANGED faults
    <3>1. Open' = Open
      BY <2>1, <2>2, <2>7 DEF Open, Phase, Pump, Probes
    <3>2. OutcomeOK'
      BY <1>1, <2>1, <2>5, <3>1 DEF OutcomeOK
    <3>3. FaultsOK'
      <4>1. pc \notin Pump
        BY <2>1 DEF Pump, Phase
      <4>2. QED
        BY <1>1, <2>1, <2>2, <2>7, <3>1, <4>1 DEF FaultsOK
    <3>4. FaultlessOK'
      <4>1. ASSUME faults' = {}, p = "lifecycle"
            PROVE  ~OnTheWay("microtask")'
        <5>1. ~OnTheWay("microtask") /\ "microtask" \notin owed
          BY <1>1, <2>1, <2>7, <4>1 DEF FaultlessOK, OnTheWay
        <5>2. "microtask" \notin owing
          BY <4>1, <5>1
        <5>3. QED
          BY <2>4, <5>1, <5>2
      <4>2. QED
        BY <1>1, <2>1, <2>7, <3>1, <4>1 DEF FaultlessOK, Phase
    <3>5. QED
      BY <3>2, <3>3, <3>4 DEF VerdictInv
  <2>8. QED
    BY <2>1, <2>6, <2>7
<1>8. CASE HandleMessage
  <2>1. /\ pc = "handling" /\ pc' = "loop" /\ phase \in Phase
        /\ DartRuns(1, owed)
        /\ UNCHANGED <<cleanup, phase, expired, outcome, reported, reporter>>
    BY <1>1, <1>8 DEF HandleMessage, pumpUnchanged, PositionOK, Pump
  <2>2. Open' = Open /\ pc \in Pump /\ pc' \in Pump
        /\ pc \notin Stopping \cup {"exited"}
    BY <2>1 DEF Open, Pump, Stopping
  <2>3. owed \in SUBSET Phase /\ owed \cap KindsSent = {}
    BY <1>1 DEF ProbeTypeOK, SentOnce
  <2>4. /\ sent \subseteq sent'
        /\ \A k : ~OnTheWay(k) /\ k \notin owed => ~OnTheWay(k)'
    BY <1>1, <2>1, <2>3, DartSends
  <2>5. KindsSent \subseteq KindsSent'
    BY <2>4 DEF KindsSent
  <2>6. OutcomeOK'
    BY <1>1, <2>1, <2>2, <2>5 DEF OutcomeOK
  <2>7. CASE failure' = TRUE /\ faults' = faults \cup {"dart"}
    <3>1. FaultsOK'
      BY <1>1, <2>1, <2>2, <2>7 DEF FaultsOK
    <3>2. QED
      BY <2>6, <2>7, <3>1 DEF VerdictInv, FaultlessOK
  <2>8. CASE UNCHANGED <<failure, faults>>
    <3>1. FaultsOK'
      BY <1>1, <2>1, <2>2, <2>8 DEF FaultsOK
    <3>2. \A k : OnTheWay(k)' => OnTheWay(k)
      BY <2>4 DEF OnTheWay
    <3>3. FaultlessOK'
      BY <1>1, <2>1, <2>2, <2>8, <3>2 DEF FaultlessOK
    <3>4. QED
      BY <2>6, <3>1, <3>3 DEF VerdictInv
  <2>9. QED
    BY <1>8, <2>7, <2>8 DEF HandleMessage
<1>9. CASE Judge
  <2> DEFINE passed == /\ ~failure
                       /\ reported.kind = phase
                       /\ phase = "lifecycle" => reported.ok
             told == phase = "lifecycle"
                     /\ [kind |-> phase, ok |-> FALSE] \in sent
  <2>1. /\ pc = "judge" /\ phase \in Phase /\ pc' = After[phase]
        /\ outcome' = [outcome EXCEPT ![phase] = passed]
        /\ faults' = faults \cup (IF told THEN {"dart"} ELSE {})
        /\ UNCHANGED <<cleanup, phase, expired, reported, failure, owed,
                       outbox, reporter, sent>>
    BY <1>1, <1>9 DEF Judge, PositionOK, Pump, stateVars, vmVars
  <2>2. /\ phase \in Open /\ Open' = Open \ {phase}
        /\ Open = IF phase = "microtask" THEN Phase ELSE {"lifecycle"}
        /\ "start" \notin faults
    BY <1>1, <2>1 DEF Open, Pump, Phase, Probes, After, FaultsOK, Stopping
  <2>3. reported # NoReport =>
          reported \in sent /\ reported.kind \in KindsSent
          /\ reported.ok \in BOOLEAN
    BY <1>1 DEF SentOnce, KindsSent, ProbeTypeOK, Report
  <2>4. told => ~passed
    <3>1. SUFFICES ASSUME told, passed PROVE FALSE
      OBVIOUS
    <3>2. reported \in sent
      BY <2>1, <2>3, <3>1 DEF NoReport, NoPhase, Phase
    <3>3. reported = [kind |-> phase, ok |-> FALSE]
      BY <1>1, <3>1, <3>2 DEF SentOnce
    <3>4. QED
      BY <3>1, <3>3
  <2>5. passed => phase \in KindsSent
    BY <2>1, <2>3 DEF NoReport, NoPhase, Phase
  <2>6. passed \in BOOLEAN
    BY <2>1, <2>3 DEF NoReport
  <2>7. /\ outcome' \in [Probes -> BOOLEAN] /\ outcome'[phase] = passed
        /\ \A q \in Probes \ {phase} : outcome'[q] = outcome[q]
    BY <1>1, <2>1, <2>2, <2>6 DEF OutcomeOK, Open
  <2>8. OutcomeOK'
    BY <1>1, <2>1, <2>2, <2>5, <2>7 DEF OutcomeOK, KindsSent, Probes
  <2>9. "dart" \in faults' => \E q \in Probes \ Open' : ~outcome'[q]
    <3>1. CASE passed
      <4>1. "dart" \in faults /\ ~failure
            => \E q \in Probes \ Open : ~outcome[q]
        BY <1>1 DEF FaultsOK
      <4>2. QED
        BY <2>1, <2>2, <2>4, <2>7, <3>1, <4>1
    <3>2. CASE ~passed
      BY <2>2, <2>7, <3>2 DEF Open
    <3>3. QED
      BY <3>1, <3>2
  <2>10. pc' \in {"lifecycle", "closePort"}
    BY <2>1 DEF After, Phase
  <2>11. FaultsOK'
    BY <1>1, <2>1, <2>2, <2>9, <2>10 DEF FaultsOK
  <2>12. ASSUME faults' = {}
         PROVE  passed /\ (phase = "microtask" => ~OnTheWay("microtask"))
    <3>1. faults = {} /\ ~told /\ ~failure /\ ~expired
      BY <1>1, <2>1, <2>12 DEF FaultsOK
    <3>2. reported # NoReport
      BY <1>1, <2>1, <3>1 DEF FaultsOK
    <3>3. reported.kind = phase
      <4>1. CASE phase = "microtask"
        BY <1>1, <2>3, <3>2, <4>1
        DEF BegunOK, ProbeTypeOK, KindsSent, Report, Phase
      <4>2. CASE phase = "lifecycle"
        BY <1>1, <3>1, <3>2, <4>2 DEF FaultlessOK
      <4>3. QED
        BY <2>1, <4>1, <4>2 DEF Phase
    <3>4. phase = "lifecycle" => reported.ok
      <4>1. SUFFICES ASSUME phase = "lifecycle", ~reported.ok PROVE FALSE
        OBVIOUS
      <4>2. reported \in Report
        BY <1>1, <2>3, <3>2 DEF ProbeTypeOK
      <4>3. reported = [kind |-> phase, ok |-> FALSE]
        BY <3>3, <4>1, <4>2 DEF Report
      <4>4. QED
        BY <2>3, <3>1, <3>2, <4>1, <4>3
    <3>5. ~OnTheWay(reported.kind)
      BY <1>1, <3>2 DEF SentOnce
    <3>6. QED
      BY <3>1, <3>3, <3>4, <3>5 DEF OnTheWay
  <2>13. FaultlessOK'
    <3>1. \A k : OnTheWay(k)' <=> OnTheWay(k)
      BY <1>3, <2>1
    <3>2. faults' = {} => faults = {}
      BY <2>1
    <3>3. faults' = {} => \A q \in Probes \ Open' : outcome'[q]
      BY <1>1, <2>2, <2>7, <2>12, <3>2 DEF FaultlessOK
    <3>4. faults' = {} => ~OnTheWay("microtask")'
      BY <1>1, <2>1, <2>12, <3>1, <3>2 DEF FaultlessOK, Phase
    <3>5. QED
      BY <1>1, <2>1, <3>2, <3>3, <3>4 DEF FaultlessOK
  <2>14. QED
    BY <2>8, <2>11, <2>13 DEF VerdictInv
<1>10. CASE DeadlinePasses
  <2>1. /\ pc \in Pump \ {"judge"} /\ faults' = faults \cup {"deadline"}
        /\ UNCHANGED <<pc, cleanup, phase, outcome, failure, sent>>
    BY <1>10 DEF DeadlinePasses, stateVars, Pump
  <2>2. Open' = Open /\ KindsSent' = KindsSent
    BY <2>1 DEF Open, KindsSent
  <2>3. OutcomeOK'
    BY <1>1, <2>1, <2>2 DEF OutcomeOK
  <2>4. FaultsOK'
    BY <1>1, <2>1, <2>2 DEF FaultsOK
  <2>5. QED
    BY <2>1, <2>3, <2>4 DEF VerdictInv, FaultlessOK
<1>11. CASE CleanUpVm
  <2>1. /\ pc = "cleanup" /\ pc' = "unload" /\ cleanup = "none"
        /\ \/ cleanup' = "ok" /\ faults' = faults
           \/ cleanup' = "failed" /\ faults' = faults \cup {"cleanup"}
        /\ UNCHANGED <<phase, expired, outcome, reported, failure, owed,
                       outbox, reporter, sent>>
    BY <1>1, <1>11 DEF CleanUpVm, shutdownUnchanged, PositionOK
  <2>2. Open' = Open /\ KindsSent' = KindsSent
    BY <2>1 DEF Open, KindsSent, Pump
  <2>3. OutcomeOK'
    BY <1>1, <2>1, <2>2 DEF OutcomeOK
  <2>4. FaultsOK'
    BY <1>1, <2>1, <2>2 DEF FaultsOK, Pump, Stopping
  <2>5. \A k : OnTheWay(k)' <=> OnTheWay(k)
    BY <1>3, <2>1
  <2>6. FaultlessOK'
    BY <1>1, <2>1, <2>2, <2>5 DEF FaultlessOK
  <2>7. QED
    BY <2>3, <2>4, <2>6 DEF VerdictInv
<1>12. CASE PumpLoop \/ Woken \/ WaitTimesOut \/ WakeSpuriously
  <2>1. /\ {pc, pc'} \subseteq Pump
        /\ UNCHANGED <<outcome, faults, cleanup, failure, expired, phase,
                       sent, owed, outbox, reporter, reported>>
        /\ pc' = "judge" => expired \/ reported # NoReport \/ failure
    BY <1>12
    DEF PumpLoop, Woken, WaitTimesOut, WakeSpuriously, TakeToken, NoToken,
        pumpUnchanged, dartUnchanged, Pump
  <2>2. Open' = Open
    BY <2>1 DEF Open, Pump
  <2>3. QED
    BY <1>2, <1>3, <2>1, <2>2
<1>13. CASE ReceiveReport \/ StoreReport \/ NotifyReport
  <2>1. /\ UNCHANGED <<outcome, faults, cleanup, failure, expired, phase,
                       sent>>
        /\ \/ UNCHANGED pc
           \/ pc = "waiting" /\ pc' = "woken"
        /\ \/ UNCHANGED reported
           \/ reporter.at = "store" /\ reported' = reporter.report
    BY <1>13
    DEF ReceiveReport, StoreReport, NotifyReport, Wake, mainVars, stateVars,
        history
  <2>2. Open' = Open
    BY <2>1 DEF Open, Pump
  <2>3. \A k : OnTheWay(k)' => OnTheWay(k)
    BY <1>13, ReportsDrain
  <2>4. QED
    BY <1>2, <2>1, <2>2, <2>3 DEF Pump
<1>14. CASE ClosePort \/ ShutdownRoot \/ Unload \/ Exit
  <2>1. /\ UNCHANGED <<outcome, faults, cleanup, failure, expired, phase,
                       sent, reported>>
        /\ {pc, pc'} \subseteq Stopping \cup {"exited"} /\ pc' # "judge"
    BY <1>14
    DEF ClosePort, ShutdownRoot, Unload, Exit, shutdownUnchanged, Stopping
  <2>2. Open' = Open
    BY <2>1 DEF Open, Pump, Stopping
  <2>3. \A k : OnTheWay(k)' => OnTheWay(k)
    <3>1. CASE ClosePort
      BY <3>1, ReportsDrain
    <3>2. CASE ShutdownRoot \/ Unload \/ Exit
      BY <1>3, <3>2 DEF ShutdownRoot, Unload, Exit, shutdownUnchanged
    <3>3. QED
      BY <1>14, <3>1, <3>2
  <2>4. QED
    BY <1>2, <2>1, <2>2, <2>3
<1>15. ASSUME UNCHANGED <<outcome, faults, cleanup, failure, expired, phase,
                          sent, owed, outbox, reporter, reported>>,
              UNCHANGED pc \/ (pc = "waiting" /\ pc' = "woken")
       PROVE  VerdictInv'
  <2>1. Open' = Open
    BY <1>15 DEF Open, Pump
  <2>2. QED
    BY <1>2, <1>3, <1>15, <2>1 DEF Pump
<1>16. ASSUME NEW w \in Poster, Post(w) \/ StoreToken(w) \/ NotifyToken(w)
       PROVE  VerdictInv'
  BY <1>15, <1>16
  DEF Post, StoreToken, NotifyToken, Wake, mainVars, stateVars, history
<1>17. ASSUME NEW c \in Child, InitializeChild(c) \/ EndChild(c)
       PROVE  VerdictInv'
  BY <1>15, <1>17 DEF InitializeChild, EndChild, mainVars, history
<1>18. CASE UNCHANGED vars
  BY <1>15, <1>18 DEF vars, mainVars, stateVars, vmVars, history
<1>19. QED
  <2>1. CASE InvokeSynchronous \/ InvokePlatformScript
    BY <1>6, <2>1 DEF InvokeSynchronous, InvokePlatformScript
  <2>2. CASE InvokeMicrotask \/ InvokeLifecycle
    BY <1>7, <2>2 DEF InvokeMicrotask, InvokeLifecycle, Phase
  <2>3. QED
    BY <1>4, <1>5, <1>8, <1>9, <1>10, <1>11, <1>12, <1>13, <1>14, <1>16,
       <1>17, <1>18, <2>1, <2>2
    DEF Next, StartStep, ProbeStep, PumpStep, ShutdownStep, VmStep

-----------------------------------------------------------------------------
(* Teardown.                                                                 *)

Spawned == {c \in Child : child[c] # "none"}
Live == {c \in Child : child[c] = "live"}
Gone == {c \in Child : child[c] = "gone"}
RootEnded == IF group = "none" \/ "root" \in held THEN 0 ELSE 1

\* The VM goes after everything that runs in it, the snapshot after every
\* isolate, unless Dart_Cleanup fails.
UsersOK ==
  /\ "port" \in held => "vm" \in held
  /\ cleanup # "failed" /\ ~VmQuiet => "vm" \in held
  /\ cleanup # "failed" /\ Live # {} /\ mode = "aot" => "snapshot" \in held

\* The counters tell what the VM did; the group lives as long as an isolate.
CountsOK ==
  /\ childStates = Live
  /\ group \in {"none", "live", "gone"}
  /\ group = "none" => "root" \notin held /\ Spawned = {}
  /\ group = "live" <=> "root" \in held \/ Live # {}
  /\ counts = [initializations |-> Cardinality(Spawned),
               shutdowns |-> Cardinality(Gone) + RootEnded,
               cleanups |-> Cardinality(Gone) + RootEnded,
               groups |-> IF group = "gone" THEN 1 ELSE 0]

TeardownInv == UsersOK /\ CountsOK

LEMMA ChildrenFinite ==
  ASSUME CountsOK
  PROVE  /\ IsFiniteSet(Spawned) /\ Cardinality(Spawned) \in Nat
         /\ IsFiniteSet(Gone) /\ Cardinality(Gone) \in Nat
         /\ RootEnded \in Nat
<1>1. Spawned \subseteq Child /\ Gone \subseteq Child /\ IsFiniteSet(Child)
  BY ProbeAssumption DEF Spawned, Gone
<1>2. QED
  BY <1>1, FS_Subset, FS_CardinalityType DEF RootEnded

\* The end of an isolate, once it is counted.
LEMMA CountEndAdds ==
  ASSUME NEW i \in Nat, NEW n \in Nat, NEW g \in Nat, NEW last \in BOOLEAN,
         counts = [initializations |-> i, shutdowns |-> n, cleanups |-> n,
                   groups |-> g],
         CountEnd(TRUE, last)
  PROVE  counts' = [initializations |-> i, shutdowns |-> n + 1,
                    cleanups |-> n + 1,
                    groups |-> g + (IF last THEN 1 ELSE 0)]
BY DEF CountEnd

LEMMA TeardownStep ==
  PlaceInv /\ TeardownInv /\ [Next]_vars => TeardownInv'
<1> SUFFICES ASSUME PlaceInv, TeardownInv, [Next]_vars PROVE TeardownInv'
  OBVIOUS
<1>1. /\ ProbeTypeOK /\ PositionOK /\ HeldOK /\ UsersOK /\ CountsOK
  BY DEF PlaceInv, TeardownInv
<1>2. /\ IsFiniteSet(Spawned) /\ Cardinality(Spawned) \in Nat
      /\ IsFiniteSet(Gone) /\ Cardinality(Gone) \in Nat
      /\ RootEnded \in Nat
  BY <1>1, ChildrenFinite
\* Steps that count nothing.
<1>3. ASSUME UNCHANGED <<child, childStates, group, counts>>,
             "root" \in held' <=> "root" \in held
      PROVE  CountsOK'
  BY <1>1, <1>3 DEF CountsOK, Spawned, Live, Gone, RootEnded
\* Steps that take nothing from anyone.
<1>4. ASSUME UNCHANGED <<mode, cleanup, held, child>>,
             ~VmQuiet' /\ cleanup # "failed" => "vm" \in held
      PROVE  UsersOK'
  BY <1>1, <1>4 DEF UsersOK, Live
<1>5. ASSUME UNCHANGED <<mode, cleanup, held, child, childStates, group,
                         counts, poster, reporter>>
      PROVE  TeardownInv'
  BY <1>1, <1>3, <1>4, <1>5
  DEF TeardownInv, UsersOK, VmQuiet, NoChildLives
<1>6. ASSUME NEW k \in 1 .. Len(Steps(mode)), StartFails(k)
      PROVE  TeardownInv'
  <2> DEFINE script == Steps(mode)[k] = "script"
  <2>1. /\ Untouched /\ cleanup = "none"
        /\ "port" \notin held' /\ (script => "root" \notin held')
        /\ IF script
           THEN group' = "gone" /\ CountEnd(TRUE, TRUE)
           ELSE /\ group' = IF "root" \in held' THEN "live" ELSE "none"
                /\ UNCHANGED counts
        /\ UNCHANGED <<mode, cleanup, poster, reporter, child, childStates>>
    BY <1>1, <1>6, AcquiredInOrder DEF StartFails, PositionOK, ProbeTypeOK
  <2> HIDE DEF script
  <2>2. Spawned = {} /\ Live = {} /\ Gone = {} /\ Cardinality({}) = 0
    BY <2>1, FS_EmptySet DEF Untouched, Spawned, Live, Gone
  <2>3. Spawned' = {} /\ Live' = {} /\ Gone' = {}
    BY <2>1, <2>2 DEF Spawned, Live, Gone
  <2>4. UsersOK'
    BY <2>1, <2>3 DEF UsersOK, Untouched, VmQuiet, NoChildLives, Live
  <2>5. counts = NoCounts
    BY <2>1 DEF Untouched
  <2>6. counts' = [initializations |-> 0,
                   shutdowns |-> IF script THEN 1 ELSE 0,
                   cleanups |-> IF script THEN 1 ELSE 0,
                   groups |-> IF script THEN 1 ELSE 0]
    <3>1. CASE script
      <4>1. counts' = [initializations |-> 0, shutdowns |-> 0 + 1,
                       cleanups |-> 0 + 1,
                       groups |-> 0 + (IF TRUE THEN 1 ELSE 0)]
        BY <2>1, <2>5, <3>1, CountEndAdds DEF NoCounts
      <4>2. QED
        BY <3>1, <4>1
    <3>2. CASE ~script
      BY <2>1, <2>5, <3>2 DEF NoCounts
    <3>3. QED
      BY <3>1, <3>2
  <2>7. RootEnded' = IF script THEN 1 ELSE 0
    BY <2>1 DEF RootEnded
  <2>8. CountsOK'
    <3>1. childStates' = Live'
      BY <2>1, <2>3 DEF Untouched
    <3>2. CASE script
      BY <2>1, <2>2, <2>3, <2>6, <2>7, <3>1, <3>2 DEF CountsOK
    <3>3. CASE ~script
      BY <2>1, <2>2, <2>3, <2>6, <2>7, <3>1, <3>3 DEF CountsOK
    <3>4. QED
      BY <3>2, <3>3
  <2>9. QED
    BY <2>4, <2>8 DEF TeardownInv
<1>7. CASE StartSucceeds
  <2>1. /\ Untouched /\ cleanup = "none" /\ group' = "live"
        /\ {"vm", "root", "port"} \subseteq held'
        /\ UNCHANGED <<mode, cleanup, poster, reporter, child, childStates,
                       counts>>
    <3>1. 1 \in 1 .. Len(Steps(mode))
      BY <1>1 DEF ProbeTypeOK, Mode, Steps
    <3>2. QED
      BY <1>1, <1>7, <3>1, AcquiredInOrder
      DEF StartSucceeds, stateVars, PositionOK, ProbeTypeOK
  <2>2. Spawned' = {} /\ Live' = {} /\ Gone' = {} /\ Cardinality({}) = 0
    BY <2>1, FS_EmptySet DEF Untouched, Spawned, Live, Gone
  <2>3. UsersOK'
    BY <2>1, <2>2 DEF UsersOK
  <2>4. CountsOK'
    BY <2>1, <2>2 DEF CountsOK, Untouched, NoCounts, RootEnded
  <2>5. QED
    BY <2>3, <2>4 DEF TeardownInv
<1>8. ASSUME NEW w \in Poster, Post(w) PROVE TeardownInv'
  <2>1. /\ "vm" \in held
        /\ UNCHANGED <<mode, cleanup, held, child, childStates, group,
                       counts>>
    BY <1>1, <1>8 DEF Post, mainVars, stateVars, HeldOK
  <2>2. QED
    BY <1>3, <1>4, <2>1 DEF TeardownInv
<1>9. ASSUME NEW w \in Poster, StoreToken(w) \/ NotifyToken(w)
      PROVE  TeardownInv'
  <2>1. ~VmQuiet
    BY <1>9 DEF StoreToken, NotifyToken, VmQuiet, AtRest
  <2>2. UNCHANGED <<mode, cleanup, held, child, childStates, group, counts>>
    BY <1>9 DEF StoreToken, NotifyToken, mainVars, stateVars
  <2>3. QED
    BY <1>1, <1>3, <1>4, <2>1, <2>2 DEF TeardownInv, UsersOK
<1>10. CASE ReceiveReport
  <2>1. /\ "vm" \in held
        /\ UNCHANGED <<mode, cleanup, held, child, childStates, group,
                       counts>>
    BY <1>1, <1>10
    DEF ReceiveReport, mainVars, stateVars, HeldOK, UsersOK
  <2>2. QED
    BY <1>3, <1>4, <2>1 DEF TeardownInv
<1>11. CASE StoreReport \/ NotifyReport
  <2>1. ~VmQuiet
    BY <1>11 DEF StoreReport, NotifyReport, VmQuiet, Waiting, AtRest
  <2>2. UNCHANGED <<mode, cleanup, held, child, childStates, group, counts>>
    BY <1>11 DEF StoreReport, NotifyReport, mainVars, stateVars
  <2>3. QED
    BY <1>1, <1>3, <1>4, <2>1, <2>2 DEF TeardownInv, UsersOK
<1>12. ASSUME NEW c \in Child, InitializeChild(c) PROVE TeardownInv'
  <2>1. /\ "root" \in held /\ child[c] = "none"
        /\ child' = [child EXCEPT ![c] = "live"]
        /\ childStates' = childStates \cup {c}
        /\ counts' = [counts EXCEPT !.initializations = @ + 1]
        /\ UNCHANGED <<mode, cleanup, held, group>>
    BY <1>1, <1>12
    DEF InitializeChild, mainVars, PositionOK, HeldOK, Running, Pump
  <2>2. /\ Spawned' = Spawned \cup {c} /\ c \notin Spawned
        /\ Live' = Live \cup {c} /\ Gone' = Gone
    BY <1>1, <2>1 DEF Spawned, Live, Gone, ProbeTypeOK
  <2>3. Cardinality(Spawned') = Cardinality(Spawned) + 1
    BY <1>2, <2>2, FS_AddElement
  <2>4. UsersOK'
    BY <1>1, <2>1 DEF UsersOK, HeldOK
  <2>5. RootEnded' = RootEnded
    BY <2>1 DEF RootEnded
  <2>6. CountsOK'
    BY <1>1, <2>1, <2>2, <2>3, <2>5 DEF CountsOK
  <2>7. QED
    BY <2>4, <2>6 DEF TeardownInv
<1>13. ASSUME NEW c \in Child, EndChild(c) PROVE TeardownInv'
  <2> DEFINE last == ~OthersAlive(c)
  <2>1. /\ child[c] = "live" /\ published
        /\ child' = [child EXCEPT ![c] = "gone"]
        /\ childStates' = childStates \ {c}
        /\ group' = IF last THEN "gone" ELSE group
        /\ CountEnd(TRUE, last)
        /\ UNCHANGED <<mode, cleanup, held, poster, reporter>>
    <3>1. pc # "start" /\ pc # "exited"
      BY <1>1, <1>13 DEF EndChild, PositionOK, Untouched
    <3>2. published = TRUE
      BY <1>1, <3>1 DEF PositionOK, ProbeTypeOK
    <3>3. QED
      BY <1>13, <3>2 DEF EndChild, mainVars
  <2>2. /\ Gone' = Gone \cup {c} /\ c \notin Gone
        /\ Live' = Live \ {c} /\ c \in Live /\ Spawned' = Spawned
    BY <1>1, <2>1 DEF Spawned, Live, Gone, ProbeTypeOK
  <2>3. Cardinality(Gone') = Cardinality(Gone) + 1
    BY <1>2, <2>2, FS_AddElement
  <2>4. last <=> "root" \notin held /\ Live' = {}
    BY <2>2 DEF OthersAlive, Live
  <2>5. UsersOK'
    BY <1>1, <2>1, <2>2 DEF UsersOK, VmQuiet, NoChildLives, Live
  <2>6. group = "live" /\ RootEnded' = RootEnded
    BY <1>1, <2>1, <2>2 DEF CountsOK, RootEnded
  <2>7. counts' = [initializations |-> Cardinality(Spawned),
                   shutdowns |-> Cardinality(Gone) + RootEnded + 1,
                   cleanups |-> Cardinality(Gone) + RootEnded + 1,
                   groups |-> 0 + (IF last THEN 1 ELSE 0)]
    <3>1. PICK l \in BOOLEAN : l = last
      BY DEF OthersAlive
    <3>2. PICK n \in Nat : n = Cardinality(Gone) + RootEnded
      BY <1>2
    <3>3. counts = [initializations |-> Cardinality(Spawned),
                    shutdowns |-> n, cleanups |-> n, groups |-> 0]
      BY <1>1, <2>6, <3>2 DEF CountsOK
    <3>4. CountEnd(TRUE, l)
      BY <2>1, <3>1 DEF CountEnd
    <3>5. counts' = [initializations |-> Cardinality(Spawned),
                     shutdowns |-> n + 1, cleanups |-> n + 1,
                     groups |-> 0 + (IF l THEN 1 ELSE 0)]
      BY <1>2, <3>3, <3>4, CountEndAdds
    <3>6. QED
      BY <3>1, <3>2, <3>5
  <2> HIDE DEF last
  <2>8. Cardinality(Gone) + RootEnded + 1 = Cardinality(Gone') + RootEnded'
    BY <1>2, <2>3, <2>6
  <2>9. CountsOK'
    BY <1>1, <2>1, <2>2, <2>4, <2>6, <2>7, <2>8 DEF CountsOK
  <2>10. QED
    BY <2>5, <2>9 DEF TeardownInv
<1>14. CASE ClosePort
  <2>1. /\ held' = held \ {"port"}
        /\ UNCHANGED <<mode, cleanup, child, childStates, group, counts,
                       poster, reporter>>
    BY <1>14 DEF ClosePort, shutdownUnchanged
  <2>2. UsersOK'
    BY <1>1, <2>1 DEF UsersOK, VmQuiet, NoChildLives, Live
  <2>3. QED
    BY <1>3, <2>1, <2>2 DEF TeardownInv
<1>15. CASE ShutdownRoot
  <2>1. /\ held' = held \ {"root"} /\ published
        /\ IF "root" \in held
           THEN /\ group' = IF NoChildLives THEN "gone" ELSE group
                /\ CountEnd(TRUE, NoChildLives)
           ELSE UNCHANGED <<group, counts>>
        /\ UNCHANGED <<mode, cleanup, child, childStates, poster, reporter>>
    <3>1. published = TRUE
      BY <1>1, <1>15 DEF ShutdownRoot, PositionOK, ProbeTypeOK
    <3>2. QED
      BY <1>15, <3>1 DEF ShutdownRoot, shutdownUnchanged
  <2>2. UsersOK'
    BY <1>1, <2>1 DEF UsersOK, VmQuiet, NoChildLives, Live
  <2>3. Spawned' = Spawned /\ Live' = Live /\ Gone' = Gone
    BY <2>1 DEF Spawned, Live, Gone
  <2>4. CASE "root" \notin held
    BY <1>3, <2>1, <2>2, <2>4 DEF TeardownInv
  <2>5. CASE "root" \in held
    <3>1. /\ group = "live" /\ RootEnded = 0 /\ RootEnded' = 1
          /\ NoChildLives <=> Live = {}
      BY <1>1, <2>1, <2>5 DEF CountsOK, RootEnded, NoChildLives, Live
    <3>2. counts' = [initializations |-> Cardinality(Spawned),
                     shutdowns |-> Cardinality(Gone) + 1,
                     cleanups |-> Cardinality(Gone) + 1,
                     groups |-> 0 + (IF NoChildLives THEN 1 ELSE 0)]
      <4>1. PICK l \in BOOLEAN : l = NoChildLives
        BY DEF NoChildLives
      <4>2. CountEnd(TRUE, l)
        BY <2>1, <2>5, <4>1 DEF CountEnd
      <4>3. counts = [initializations |-> Cardinality(Spawned),
                      shutdowns |-> Cardinality(Gone),
                      cleanups |-> Cardinality(Gone), groups |-> 0]
        BY <1>1, <1>2, <3>1 DEF CountsOK
      <4>4. counts' = [initializations |-> Cardinality(Spawned),
                       shutdowns |-> Cardinality(Gone) + 1,
                       cleanups |-> Cardinality(Gone) + 1,
                       groups |-> 0 + (IF l THEN 1 ELSE 0)]
        BY <1>2, <4>2, <4>3, CountEndAdds
      <4>5. QED
        BY <4>1, <4>4
    <3>3. CountsOK'
      BY <1>1, <2>1, <2>3, <2>5, <3>1, <3>2 DEF CountsOK
    <3>4. QED
      BY <2>2, <3>3 DEF TeardownInv
  <2>6. QED
    BY <2>4, <2>5
<1>16. CASE CleanUpVm
  <2>1. /\ held' = held \ {"vm"} /\ cleanup = "none" /\ pc = "cleanup"
        /\ \/ cleanup' = "failed"
           \/ cleanup' = "ok" /\ ("vm" \in held => VmQuiet)
        /\ UNCHANGED <<mode, child, childStates, group, counts, poster,
                       reporter>>
    BY <1>1, <1>16 DEF CleanUpVm, shutdownUnchanged, PositionOK
  <2>2. "port" \notin held
    BY <1>1, <2>1 DEF HeldOK, Running, Pump
  <2>3. cleanup' = "ok" => VmQuiet' /\ Live' = {}
    BY <1>1, <2>1 DEF UsersOK, VmQuiet, NoChildLives, Live
  <2>4. UsersOK'
    BY <2>1, <2>2, <2>3 DEF UsersOK
  <2>5. QED
    BY <1>3, <2>1, <2>4 DEF TeardownInv
<1>17. CASE Unload
  <2>1. /\ held' = held \ {"snapshot"} /\ pc = "unload"
        /\ UNCHANGED <<mode, cleanup, child, childStates, group, counts,
                       poster, reporter>>
    BY <1>17 DEF Unload, shutdownUnchanged
  <2>2. "vm" \notin held /\ (cleanup # "failed" => Live = {})
    BY <1>1, <2>1 DEF HeldOK, UsersOK, VmQuiet, NoChildLives, Live
  <2>3. UsersOK'
    BY <1>1, <2>1, <2>2 DEF UsersOK, VmQuiet, NoChildLives, Live
  <2>4. QED
    BY <1>3, <2>1, <2>3 DEF TeardownInv
<1>18. QED
  <2>1. CASE ProbeStep \/ PumpStep \/ WakeSpuriously \/ DeadlinePasses \/ Exit
    <3>1. CASE InvokeSynchronous \/ InvokePlatformScript
      BY <1>5, <3>1
      DEF InvokeSynchronous, InvokePlatformScript, InvokeNow, stateVars,
          vmVars
    <3>2. CASE InvokeMicrotask \/ InvokeLifecycle
      BY <1>5, <3>2 DEF InvokeMicrotask, InvokeLifecycle, InvokeProbe
    <3>3. CASE PumpLoop \/ Woken \/ WaitTimesOut \/ WakeSpuriously
               \/ HandleMessage
      BY <1>5, <3>3
      DEF PumpLoop, Woken, WaitTimesOut, WakeSpuriously, HandleMessage,
          pumpUnchanged
    <3>4. CASE Judge \/ DeadlinePasses
      BY <1>5, <3>4 DEF Judge, DeadlinePasses, stateVars, vmVars
    <3>5. CASE Exit
      BY <1>5, <3>5 DEF Exit, shutdownUnchanged
    <3>6. QED
      BY <2>1, <3>1, <3>2, <3>3, <3>4, <3>5 DEF ProbeStep, PumpStep
  <2>2. CASE UNCHANGED vars
    BY <1>5, <2>2 DEF vars, mainVars, stateVars, vmVars
  <2>3. QED
    BY <1>6, <1>7, <1>8, <1>9, <1>10, <1>11, <1>12, <1>13, <1>14, <1>15,
       <1>16, <1>17, <2>1, <2>2
    DEF Next, StartStep, ShutdownStep, VmStep

-----------------------------------------------------------------------------
(* The theorems.                                                             *)

ProbeInv == PlaceInv /\ TokensInv /\ ReportsInv /\ VerdictInv /\ TeardownInv

LEMMA ProbeInitially == Init => ProbeInv
<1> SUFFICES ASSUME Init PROVE ProbeInv
  OBVIOUS
<1> USE DEF Init
<1>1. PlaceInv
  <2>1. VmQuiet
    BY DEF VmQuiet, NoChildLives
  <2>2. <<>> \in Seq(Report)
    OBVIOUS
  <2>3. QED
    BY <2>1, <2>2
    DEF PlaceInv, ProbeTypeOK, PositionOK, HeldOK, Untouched, Running, Pump,
        AtRest
<1>2. TokensInv
  BY DEF TokensInv, WaitIsWoken, TokensMatchMessages
<1>3. ReportsInv
  <2>1. ~OnTheWay(NoPhase) /\ KindsSent = {} /\ Len(outbox) = 0
    BY DEF OnTheWay, KindsSent, Waiting
  <2>2. QED
    BY <2>1 DEF ReportsInv, SentOnce, BegunOK, NoPhase, Waiting
<1>4. VerdictInv
  <2>1. Open = Probes
    BY DEF Open
  <2>2. QED
    BY <2>1 DEF VerdictInv, OutcomeOK, FaultsOK, FaultlessOK, Probes, Phase,
       NoPhase
<1>5. TeardownInv
  <2>1. Spawned = {} /\ Live = {} /\ Gone = {} /\ Cardinality({}) = 0
    BY FS_EmptySet DEF Spawned, Live, Gone
  <2>2. VmQuiet
    BY DEF VmQuiet, NoChildLives
  <2>3. QED
    BY <2>1, <2>2 DEF TeardownInv, UsersOK, CountsOK, NoCounts, RootEnded
<1>6. QED
  BY <1>1, <1>2, <1>3, <1>4, <1>5 DEF ProbeInv

\* Everything the proofs below rest on holds in every state of the probe.
THEOREM ProbeInvariant == Spec => []ProbeInv
<1>1. ProbeInv /\ [Next]_vars => ProbeInv'
  BY PlaceStep, TokensStep, ReportsStep, VerdictStep, TeardownStep
  DEF ProbeInv
<1>2. QED
  BY <1>1, ProbeInitially, PTL DEF Spec

\* For any number of VM threads the main thread never sleeps on a message or a
\* report that is there unless a callback is about to wake it, and each
\* message keeps its one notification
\* (native/runner/PublicDartApiHostProbe.cc, PumpUntilReport).
THEOREM WaitIsAlwaysWoken == Spec => []WaitIsWoken
<1>1. ProbeInv => WaitIsWoken
  BY DEF ProbeInv, TokensInv
<1>2. QED
  BY <1>1, ProbeInvariant, PTL

\* The host is called supported only after both reports and without a fault
\* but a deadline, and always when nothing failed.
THEOREM VerdictIsAlwaysJust == Spec => []VerdictIsJust
<1>1. ProbeInv => VerdictIsJust
  <2> SUFFICES ASSUME ProbeInv, pc = "exited"
               PROVE  /\ Supported =>
                           /\ {r.kind : r \in sent} = Phase
                           /\ faults \subseteq {"deadline"}
                      /\ faults = {} => Supported
    BY DEF VerdictIsJust
  <2>1. /\ ProbeTypeOK /\ PositionOK /\ OutcomeOK /\ FaultsOK /\ FaultlessOK
    BY DEF ProbeInv, PlaceInv, VerdictInv
  <2>2. Open = {} /\ pc \notin Pump
    BY DEF Open, Pump
  <2>3. Supported => KindsSent = Phase
    BY <2>1 DEF Supported, OutcomeOK, KindsSent, ProbeTypeOK, Report, Probes
  <2>4. Supported => faults \subseteq {"deadline"}
    BY <2>1, <2>2 DEF Supported, FaultsOK, Probes
  <2>5. faults = {} => Supported
    BY <2>1, <2>2
    DEF Supported, FaultsOK, FaultlessOK, PositionOK, ProbeTypeOK
  <2>6. QED
    BY <2>3, <2>4, <2>5 DEF KindsSent
<1>2. QED
  BY <1>1, ProbeInvariant, PTL

\* Wherever Start fails and in whatever order the isolates end, nothing is
\* taken from under its users, and at exit nothing is left of what was
\* acquired and every isolate was counted.
THEOREM TeardownIsAlwaysOrderly == Spec => []TeardownIsOrderly
<1>1. ProbeInv => TeardownIsOrderly
  <2> SUFFICES ASSUME ProbeInv PROVE TeardownIsOrderly
    OBVIOUS
  <2>1. /\ ProbeTypeOK /\ PositionOK /\ HeldOK /\ UsersOK /\ CountsOK
    BY DEF ProbeInv, PlaceInv, TeardownInv
  <2>2. UsersComeFirst
    <3>1. NoChildLives <=> Live = {}
      BY DEF NoChildLives, Live
    <3>2. ~VmQuiet => pc # "start"
      BY <2>1 DEF PositionOK, Untouched
    <3>3. ~VmQuiet /\ cleanup # "failed" => pc # "exited"
      BY <2>1 DEF UsersOK, HeldOK
    <3>4. Live # {} => ~VmQuiet
      BY <3>1 DEF VmQuiet
    <3>5. QED
      BY <2>1, <3>1, <3>2, <3>3, <3>4
      DEF UsersComeFirst, UsersOK, HeldOK, PositionOK
  <2>3. ASSUME pc = "exited" PROVE held = {}
    BY <2>1, <2>3 DEF HeldOK, ProbeTypeOK, Resource, Running, Pump
  <2>4. ASSUME pc = "exited", cleanup = "ok"
        PROVE  /\ childStates = {}
               /\ counts = [initializations |-> Cardinality(Spawned),
                            shutdowns |-> Cardinality(Spawned)
                                          + (IF group = "none" THEN 0 ELSE 1),
                            cleanups |-> Cardinality(Spawned)
                                         + (IF group = "none" THEN 0 ELSE 1),
                            groups |-> IF group = "none" THEN 0 ELSE 1]
    <3>1. held = {} /\ Live = {}
      BY <2>1, <2>3, <2>4 DEF UsersOK, VmQuiet, NoChildLives, Live
    <3>2. Gone = Spawned
      BY <2>1, <3>1 DEF Gone, Spawned, Live, ProbeTypeOK
    <3>3. RootEnded = IF group = "none" THEN 0 ELSE 1
      BY <3>1 DEF RootEnded
    <3>4. QED
      BY <2>1, <3>1, <3>2, <3>3 DEF CountsOK
  <2>5. QED
    BY <2>2, <2>3, <2>4 DEF TeardownIsOrderly, Spawned
<1>2. QED
  BY <1>1, ProbeInvariant, PTL
=============================================================================
