-------------------------- MODULE DiagnosticsProofs --------------------------
(***************************************************************************)
(* Why run records survive: a record in place is whole, and an unclean run *)
(* is retained before its record gives way, at whatever system call the    *)
(* process dies or a call fails, for any number of launches, modes, phases *)
(* and failures, strict or not.  Two processes that share a directory also *)
(* share the names of the temporary files and can undo each other's work   *)
(* (RuntimeDiagnostics.mm:161); the theorems are about one at a time.      *)
(***************************************************************************)
EXTENDS RunDiagnostics, TLAPS

\* One process of the application at a time, however often it is launched.
OneProcess == \A p, q \in Process : p = q

-----------------------------------------------------------------------------
(* The inductive invariant.                                                *)

Busy == {"unlink", "open", "write", "rename"}

Session ==
  [pc : {"off", "prior", "up"} \cup Busy, healthy : BOOLEAN,
   record : Record \cup {NoRecord}, file : File,
   write : Record \cup {NoRecord}, fd : Nat]

RecordTypeOK ==
  /\ data \in Seq(Record \cup {NoRecord})
  /\ name \in [File -> Nat]
  /\ temp \in [File -> Nat]
  /\ \A f \in File : name[f] <= Len(data) /\ temp[f] <= Len(data)
  /\ proc \in [Process -> Session]
  /\ launches \in Nat
  /\ failures \in Nat

\* What is in place is whole, and nothing that is still being written is in
\* place or has two names.
DirectoryOK ==
  /\ \A f \in File : name[f] # NoInode => data[name[f]] \in Record
  /\ \A f, g \in File : temp[f] # NoInode => temp[f] # name[g]
  /\ temp["current"] # NoInode => temp["current"] # temp["previous"]

\* The record in place may give way to the session's own.
MayReplace(s) ==
  LET old == Contents("current")
  IN  (/\ old # NoRecord
       /\ old.outcome = "running"
       /\ old.mode = s.record.mode
       /\ old.launch # s.record.launch)
      => /\ name["previous"] # NoInode
         /\ Contents("previous").launch = old.launch

\* What a session is writing: a copy of the record in place, or its own; and
\* only to the temporary file that bears the name.
SessionOK(s) ==
  /\ s.pc # "off" => s.record \in Record
  /\ s.pc \in Busy =>
       /\ s.write \in Record
       /\ s.write = IF s.file = "previous" THEN Contents("current")
                                           ELSE s.record
       /\ s.file = "current" => MayReplace(s)
  /\ s.pc = "write" => s.fd = temp[s.file] /\ s.fd # NoInode
  /\ s.pc = "rename" => data[temp[s.file]] = s.write
  /\ s.pc = "up" /\ s.healthy => MayReplace(s)

DiagnosticsInv ==
  RecordTypeOK /\ DirectoryOK /\ \A p \in Process : SessionOK(proc[p])

-----------------------------------------------------------------------------
(* Facts the actions share.                                                *)

LEMMA OnlyOne ==
  ASSUME OneProcess, RecordTypeOK, NEW p \in Process, NEW s \in Session,
         Set(p, s)
  PROVE  /\ proc' \in [Process -> Session]
         /\ \A q \in Process : proc'[q] = s
BY DEF OneProcess, RecordTypeOK, Set

LEMMA ContentsTyped ==
  ASSUME RecordTypeOK, DirectoryOK, NEW f \in File
  PROVE  Contents(f) \in Record \cup {NoRecord}
BY DEF RecordTypeOK, DirectoryOK, Contents

\* A session that leaves the files alone.
LEMMA SessionMoves ==
  ASSUME OneProcess, DiagnosticsInv, NEW p \in Process, NEW s \in Session,
         Set(p, s), SessionOK(s),
         UNCHANGED <<name, temp, data>>, launches' \in Nat, failures' \in Nat
  PROVE  DiagnosticsInv'
<1>1. /\ proc' \in [Process -> Session]
      /\ \A q \in Process : proc'[q] = s
  BY OnlyOne DEF DiagnosticsInv
<1>2. RecordTypeOK' /\ DirectoryOK'
  BY <1>1 DEF DiagnosticsInv, RecordTypeOK, DirectoryOK
<1>3. ASSUME NEW q \in Process
      PROVE  SessionOK(proc[q])'
  BY <1>1 DEF SessionOK, MayReplace, Contents
<1> QED BY <1>2, <1>3 DEF DiagnosticsInv

LEMMA IdleIsOK == Idle \in Session /\ SessionOK(Idle)
BY DEF Idle, Session, SessionOK, File, Busy, NoInode

LEMMA SessionFields ==
  ASSUME DiagnosticsInv, NEW p \in Process
  PROVE  proc[p] \in Session /\ SessionOK(proc[p])
BY DEF DiagnosticsInv, RecordTypeOK

\* A session that turns to write a record is still a session.
LEMMA WritingTyped ==
  ASSUME NEW s \in Session, NEW file \in File, NEW record \in Record
  PROVE  /\ Writing(s, "unlink", file, record) \in Session
         /\ Writing(s, "unlink", file, record).record = s.record
         /\ Writing(s, "unlink", file, record).pc = "unlink"
         /\ Writing(s, "unlink", file, record).file = file
         /\ Writing(s, "unlink", file, record).write = record
BY DEF Writing, Session, Busy, NoInode

\* A session that begins to write may: a copy of what is in place, or its own
\* record over one that may give way.
LEMMA WritingOK ==
  ASSUME NEW s \in Session, NEW file \in File, NEW record \in Record,
         s.record \in Record,
         record = IF file = "previous" THEN Contents("current") ELSE s.record,
         file = "current" => MayReplace(s)
  PROVE  SessionOK(Writing(s, "unlink", file, record))
BY WritingTyped DEF SessionOK, MayReplace, Busy

-----------------------------------------------------------------------------
(* The session.                                                            *)

LEMMA DiagnosticsInitially == DiagnosticsInit => DiagnosticsInv
<1> SUFFICES ASSUME DiagnosticsInit PROVE DiagnosticsInv
  OBVIOUS
<1>1. \A p \in Process : proc[p] = Idle
  BY DEF DiagnosticsInit
<1>2. RecordTypeOK
  <2>1. <<>> \in Seq(Record \cup {NoRecord}) /\ Len(<<>>) = 0
    OBVIOUS
  <2> QED BY <2>1, IdleIsOK DEF DiagnosticsInit, RecordTypeOK, NoInode
<1>3. DirectoryOK
  BY DEF DiagnosticsInit, DirectoryOK, File
<1> QED BY <1>1, <1>2, <1>3, IdleIsOK DEF DiagnosticsInv

LEMMA StartSessionKeeps ==
  ASSUME OneProcess, DiagnosticsInv, NEW p \in Process, NEW m \in Mode,
         StartSession(p, m)
  PROVE  DiagnosticsInv'
<1> DEFINE r == [launch |-> launches', mode |-> m, phase |-> 0,
                 outcome |-> "running"]
           s == [Idle EXCEPT !.pc = "prior", !.record = r]
<1>1. launches \in Nat /\ launches' = launches + 1 /\ launches < MaxLaunches
  BY DEF DiagnosticsInv, RecordTypeOK, StartSession
<1>2. r \in Record
  BY <1>1, DiagnosticsAssumption DEF Record, Launch, Outcome
<1>3. s \in Session /\ s.pc = "prior" /\ s.record = r
  BY <1>2 DEF Idle, Session, File, Busy, NoInode
<1> HIDE DEF r
<1>4. SessionOK(s)
  BY <1>2, <1>3 DEF SessionOK, Busy
<1>5. Set(p, s) /\ UNCHANGED <<name, temp, data, failures>>
  BY DEF StartSession, r
<1> HIDE DEF s
<1> QED BY <1>1, <1>3, <1>4, <1>5, SessionMoves DEF DiagnosticsInv,
        RecordTypeOK

LEMMA ReadPriorKeeps ==
  ASSUME OneProcess, DiagnosticsInv, NEW p \in Process, ReadPrior(p)
  PROVE  DiagnosticsInv'
<1>1. /\ proc[p] \in Session
      /\ proc[p].record \in Record
      /\ UNCHANGED <<name, temp, data, launches, failures>>
  BY SessionFields DEF ReadPrior, SessionOK
<1>2. launches \in Nat /\ failures \in Nat
  BY DEF DiagnosticsInv, RecordTypeOK
<1>3. CASE Retained(proc[p])
  <2> DEFINE s == Writing(proc[p], "unlink", "previous", Contents("current"))
  <2>1. Contents("current") \in Record
    BY <1>3, ContentsTyped DEF Retained, DiagnosticsInv, File
  <2>2. s \in Session /\ SessionOK(s)
    BY <1>1, <2>1, WritingTyped, WritingOK DEF File
  <2>3. Set(p, s)
    BY <1>3 DEF ReadPrior
  <2> HIDE DEF s
  <2> QED BY <1>1, <1>2, <2>2, <2>3, SessionMoves
<1>4. CASE ~Retained(proc[p])
  <2> DEFINE s == Writing(proc[p], "unlink", "current", proc[p].record)
  <2>1. MayReplace(proc[p])
    BY <1>4 DEF Retained, MayReplace
  <2>2. s \in Session /\ SessionOK(s)
    BY <1>1, <2>1, WritingTyped, WritingOK DEF File
  <2>3. Set(p, s)
    BY <1>4 DEF ReadPrior
  <2> HIDE DEF s
  <2> QED BY <1>1, <1>2, <2>2, <2>3, SessionMoves
<1> QED BY <1>3, <1>4

\* A phase or the end of a run: a record of the same launch and mode.
LEMMA UpdateKeeps ==
  ASSUME OneProcess, DiagnosticsInv, NEW p \in Process, NEW r \in Record,
         NEW pc \in {"up", "off"},
         proc[p].pc = "up", Update(p, r, pc),
         r.launch = proc[p].record.launch, r.mode = proc[p].record.mode,
         UNCHANGED <<name, temp, data, launches, failures>>
  PROVE  DiagnosticsInv'
<1> DEFINE s == [proc[p] EXCEPT !.record = r]
<1>1. proc[p] \in Session /\ SessionOK(proc[p])
  BY SessionFields
<1>2. /\ s \in Session /\ s.record = r /\ s.healthy = proc[p].healthy
      /\ s.pc = "up"
  BY <1>1 DEF Session
<1>3. launches \in Nat /\ failures \in Nat
  BY DEF DiagnosticsInv, RecordTypeOK
<1>4. Set(p, IF s.healthy THEN Writing(s, "unlink", "current", r)
             ELSE IF pc = "off" THEN Idle ELSE [s EXCEPT !.pc = pc])
  BY DEF Update
<1>5. CASE s.healthy
  <2>1. MayReplace(s)
    BY <1>1, <1>2, <1>5 DEF SessionOK, MayReplace
  <2> HIDE DEF s
  <2> DEFINE w == Writing(s, "unlink", "current", r)
  <2>2. w \in Session /\ SessionOK(w)
    BY <1>2, <2>1, WritingTyped, WritingOK DEF File
  <2>3. Set(p, w)
    BY <1>4, <1>5
  <2> HIDE DEF w
  <2> QED BY <1>3, <2>2, <2>3, SessionMoves
<1>6. CASE ~s.healthy /\ pc = "off"
  BY <1>3, <1>4, <1>6, IdleIsOK, SessionMoves
<1>7. CASE ~s.healthy /\ pc = "up"
  <2> HIDE DEF s
  <2> DEFINE w == [s EXCEPT !.pc = "up"]
  <2>1. w \in Session /\ w.pc = "up" /\ w.record = r /\ ~w.healthy
    BY <1>2, <1>7 DEF Session
  <2>2. SessionOK(w)
    BY <2>1 DEF SessionOK, Busy
  <2>3. Set(p, w)
    BY <1>4, <1>7
  <2> HIDE DEF w
  <2> QED BY <1>3, <2>1, <2>2, <2>3, SessionMoves
<1> QED BY <1>5, <1>6, <1>7

LEMMA RecordPhaseKeeps ==
  ASSUME OneProcess, DiagnosticsInv, NEW p \in Process,
         NEW phase \in 1 .. MaxPhase, RecordPhase(p, phase)
  PROVE  DiagnosticsInv'
<1> DEFINE r == [proc[p].record EXCEPT !.phase = phase]
<1>1. proc[p].record \in Record /\ proc[p].pc = "up"
  BY SessionFields DEF SessionOK, RecordPhase
<1>2. /\ r \in Record /\ r.launch = proc[p].record.launch
      /\ r.mode = proc[p].record.mode
  BY <1>1, DiagnosticsAssumption DEF Record
<1>3. /\ Update(p, r, "up")
      /\ UNCHANGED <<name, temp, data, launches, failures>>
  BY DEF RecordPhase
<1> HIDE DEF r
<1> QED BY <1>1, <1>2, <1>3, UpdateKeeps

LEMMA FinishKeeps ==
  ASSUME OneProcess, DiagnosticsInv, NEW p \in Process,
         NEW outcome \in Outcome, Finish(p, outcome)
  PROVE  DiagnosticsInv'
<1> DEFINE r == [proc[p].record EXCEPT !.outcome = outcome]
<1>1. proc[p].record \in Record /\ proc[p].pc = "up"
  BY SessionFields DEF SessionOK, Finish
<1>2. /\ r \in Record /\ r.launch = proc[p].record.launch
      /\ r.mode = proc[p].record.mode
  BY <1>1 DEF Record
<1>3. /\ Update(p, r, "off")
      /\ UNCHANGED <<name, temp, data, launches, failures>>
  BY DEF Finish
<1> HIDE DEF r
<1> QED BY <1>1, <1>2, <1>3, UpdateKeeps

\* A session that ends, and a process that dies, leave the files as they are.
LEMMA EndKeeps ==
  ASSUME OneProcess, DiagnosticsInv, NEW p \in Process,
         RefuseToRun(p) \/ Crash(p)
  PROVE  DiagnosticsInv'
<1>1. Set(p, Idle) /\ UNCHANGED <<name, temp, data, launches, failures>>
  BY DEF RefuseToRun, Crash
<1> QED BY <1>1, IdleIsOK, SessionMoves DEF DiagnosticsInv, RecordTypeOK

-----------------------------------------------------------------------------
(* The system calls of a write.                                            *)

LEMMA UnlinkKeeps ==
  ASSUME OneProcess, DiagnosticsInv, NEW p \in Process, Unlink(p)
  PROVE  DiagnosticsInv'
<1> DEFINE s == [proc[p] EXCEPT !.pc = "open"]
<1>1. proc[p] \in Session /\ SessionOK(proc[p]) /\ proc[p].pc = "unlink"
  BY SessionFields DEF Unlink
<1>2. /\ s \in Session /\ s.pc = "open" /\ s.record = proc[p].record
      /\ s.write = proc[p].write /\ s.file = proc[p].file
  BY <1>1 DEF Session, Busy
<1>3. Set(p, s)
  BY DEF Unlink
<1> HIDE DEF s
<1>4. /\ proc' \in [Process -> Session]
      /\ \A q \in Process : proc'[q] = s
  BY <1>2, <1>3, OnlyOne DEF DiagnosticsInv
<1>5. /\ temp' = [temp EXCEPT ![proc[p].file] = NoInode]
      /\ UNCHANGED <<name, data, launches, failures>>
  BY DEF Unlink
<1>6. RecordTypeOK'
  <2>1. /\ temp \in [File -> Nat] /\ data \in Seq(Record \cup {NoRecord})
        /\ \A f \in File : name[f] <= Len(data) /\ temp[f] <= Len(data)
    BY DEF DiagnosticsInv, RecordTypeOK
  <2>2. temp' \in [File -> Nat]
    BY <1>5, <2>1 DEF NoInode
  <2>3. Len(data) \in Nat
    BY <2>1
  <2>4. \A f \in File : temp'[f] <= Len(data)
    BY <1>5, <2>1, <2>3 DEF NoInode
  <2> QED
    BY <1>4, <1>5, <2>1, <2>2, <2>4 DEF DiagnosticsInv, RecordTypeOK
<1>7. DirectoryOK'
  BY <1>5 DEF DiagnosticsInv, RecordTypeOK, DirectoryOK, File
<1>8. ASSUME NEW q \in Process
      PROVE  SessionOK(proc[q])'
  BY <1>1, <1>2, <1>4, <1>5 DEF SessionOK, MayReplace, Contents, Busy
<1> QED BY <1>6, <1>7, <1>8 DEF DiagnosticsInv

LEMMA OpenKeeps ==
  ASSUME OneProcess, DiagnosticsInv, NEW p \in Process, Open(p)
  PROVE  DiagnosticsInv'
<1> DEFINE s == [proc[p] EXCEPT !.pc = "write", !.fd = Fresh]
<1>1. proc[p] \in Session /\ SessionOK(proc[p]) /\ proc[p].pc = "open"
  BY SessionFields DEF Open
<1>2. /\ data \in Seq(Record \cup {NoRecord})
      /\ Fresh \in Nat \ {NoInode} /\ Fresh = Len(data) + 1
  BY DEF DiagnosticsInv, RecordTypeOK, Fresh, NoInode
<1>3. /\ s \in Session /\ s.pc = "write" /\ s.record = proc[p].record
      /\ s.write = proc[p].write /\ s.file = proc[p].file /\ s.fd = Fresh
  BY <1>1, <1>2 DEF Session, Busy
<1>4. Set(p, s)
  BY DEF Open
<1> HIDE DEF s
<1>5. /\ proc' \in [Process -> Session]
      /\ \A q \in Process : proc'[q] = s
  BY <1>3, <1>4, OnlyOne DEF DiagnosticsInv
<1>6. /\ temp' = [temp EXCEPT ![proc[p].file] = Fresh]
      /\ data' = Append(data, NoRecord)
      /\ UNCHANGED <<name, launches, failures>>
  BY DEF Open
<1>7. /\ data' \in Seq(Record \cup {NoRecord})
      /\ Len(data') = Len(data) + 1
      /\ \A i \in 1 .. Len(data) : data'[i] = data[i]
  BY <1>2, <1>6
<1>8. \A f \in File : name[f] \in Nat /\ name[f] <= Len(data)
  BY DEF DiagnosticsInv, RecordTypeOK
<1>9. \A f \in File : name[f] # NoInode => data'[name[f]] = data[name[f]]
  BY <1>2, <1>7, <1>8 DEF NoInode
<1>10. RecordTypeOK'
  <2>1. /\ temp \in [File -> Nat] /\ Len(data) \in Nat
        /\ \A f \in File : temp[f] \in Nat /\ temp[f] <= Len(data)
    BY <1>2 DEF DiagnosticsInv, RecordTypeOK
  <2>2. temp' \in [File -> Nat]
    BY <1>2, <1>6, <2>1
  <2>3. \A f \in File : name'[f] <= Len(data') /\ temp'[f] <= Len(data')
    BY <1>2, <1>6, <1>7, <1>8, <2>1
  <2> QED
    BY <1>5, <1>6, <1>7, <2>2, <2>3 DEF DiagnosticsInv, RecordTypeOK
<1>11. DirectoryOK'
  <2>1. proc[p].file \in File
    BY <1>1 DEF Session
  <2>2. \A f \in File : temp[f] \in Nat /\ temp[f] <= Len(data)
    BY DEF DiagnosticsInv, RecordTypeOK
  <2>3. \A f \in File : temp'[f] = IF f = proc[p].file THEN Fresh ELSE temp[f]
    BY <1>6 DEF DiagnosticsInv, RecordTypeOK
  <2>4. \A f \in File : Fresh # name[f] /\ Fresh # temp[f]
    BY <1>2, <1>8, <2>2
  <2>5. \A f \in File : name'[f] # NoInode => data'[name'[f]] \in Record
    BY <1>6, <1>9 DEF DiagnosticsInv, DirectoryOK
  <2>6. \A f, g \in File : temp'[f] # NoInode => temp'[f] # name'[g]
    BY <1>6, <2>3, <2>4 DEF DiagnosticsInv, DirectoryOK
  <2>7. temp'["current"] # NoInode => temp'["current"] # temp'["previous"]
    BY <2>3, <2>4 DEF DiagnosticsInv, DirectoryOK, File
  <2> QED BY <2>5, <2>6, <2>7 DEF DirectoryOK
<1>12. \A f \in File : Contents(f)' = Contents(f)
  BY <1>6, <1>9 DEF Contents
<1>13. ASSUME NEW q \in Process
       PROVE  SessionOK(proc[q])'
  <2>1. proc[p].file \in File
    BY <1>1 DEF Session
  <2>2. temp'[s.file] = Fresh
    BY <1>3, <1>6, <2>1 DEF DiagnosticsInv, RecordTypeOK
  <2> QED
    BY <1>1, <1>2, <1>3, <1>5, <1>6, <1>12, <2>2
    DEF SessionOK, MayReplace, Busy, File
<1> QED BY <1>10, <1>11, <1>13 DEF DiagnosticsInv

LEMMA WriteKeeps ==
  ASSUME OneProcess, DiagnosticsInv, NEW p \in Process, Write(p)
  PROVE  DiagnosticsInv'
<1> DEFINE s == [proc[p] EXCEPT !.pc = "rename"]
           i == temp[proc[p].file]
<1>1. /\ proc[p] \in Session /\ SessionOK(proc[p]) /\ proc[p].pc = "write"
  BY SessionFields DEF Write
<1>2. /\ proc[p].fd = i /\ i # NoInode /\ proc[p].write \in Record
      /\ proc[p].file \in File
  BY <1>1 DEF SessionOK, Busy, Session
<1>3. /\ s \in Session /\ s.pc = "rename" /\ s.record = proc[p].record
      /\ s.write = proc[p].write /\ s.file = proc[p].file
  BY <1>1 DEF Session, Busy
<1>4. Set(p, s)
  BY DEF Write
<1> HIDE DEF s
<1>5. /\ proc' \in [Process -> Session]
      /\ \A q \in Process : proc'[q] = s
  BY <1>3, <1>4, OnlyOne DEF DiagnosticsInv
<1>6. /\ data' = [data EXCEPT ![i] = proc[p].write]
      /\ UNCHANGED <<name, temp, launches, failures>>
  BY <1>2 DEF Write
<1>7. data \in Seq(Record \cup {NoRecord}) /\ i \in 1 .. Len(data)
  BY <1>2 DEF DiagnosticsInv, RecordTypeOK, NoInode
<1>8. \A f \in File : i # name[f]
  BY <1>2 DEF DiagnosticsInv, DirectoryOK
<1>9. /\ data' \in Seq(Record \cup {NoRecord}) /\ Len(data') = Len(data)
      /\ data'[i] = proc[p].write
      /\ \A f \in File : data'[name[f]] = data[name[f]]
  <2>1. DOMAIN data = 1 .. Len(data)
    BY <1>7
  <2>2. /\ data' \in Seq(Record \cup {NoRecord}) /\ Len(data') = Len(data)
        /\ data'[i] = proc[p].write
    BY <1>2, <1>6, <1>7
  <2>3. ASSUME NEW f \in File
        PROVE  data'[name[f]] = data[name[f]]
    <3>1. CASE name[f] \in 1 .. Len(data)
      BY <1>6, <1>8, <2>1, <3>1
    <3>2. CASE name[f] \notin 1 .. Len(data)
      BY <1>6, <1>8, <2>1, <3>2
    <3> QED BY <3>1, <3>2
  <2> QED BY <2>2, <2>3
<1>10. RecordTypeOK'
  BY <1>5, <1>6, <1>9 DEF DiagnosticsInv, RecordTypeOK
<1>11. DirectoryOK'
  BY <1>6, <1>9 DEF DiagnosticsInv, DirectoryOK
<1>12. \A f \in File : Contents(f)' = Contents(f)
  BY <1>6, <1>9 DEF Contents
<1>13. ASSUME NEW q \in Process
       PROVE  SessionOK(proc[q])'
  BY <1>1, <1>2, <1>3, <1>5, <1>6, <1>9, <1>12
  DEF SessionOK, MayReplace, Busy, File
<1> QED BY <1>10, <1>11, <1>13 DEF DiagnosticsInv

\* What a rename puts in place is what the session wrote.
LEMMA Placed ==
  ASSUME OneProcess, DiagnosticsInv, NEW p \in Process, NEW file \in File,
         proc[p].pc = "rename", proc[p].file = file, temp[file] # NoInode,
         name' = [name EXCEPT ![file] = temp[file]],
         temp' = [temp EXCEPT ![file] = NoInode],
         UNCHANGED <<data, launches>>, failures' \in Nat,
         NEW s \in Session, Set(p, s)
  PROVE  /\ RecordTypeOK'
         /\ DirectoryOK'
         /\ Contents(file)' = proc[p].write
         /\ \A f \in File \ {file} : Contents(f)' = Contents(f)
         /\ name'[file] # NoInode
<1>1. proc[p].write \in Record /\ data[temp[file]] = proc[p].write
  BY SessionFields DEF SessionOK, Busy
<1>2. /\ data \in Seq(Record \cup {NoRecord}) /\ name \in [File -> Nat]
      /\ temp \in [File -> Nat]
      /\ \A f \in File : name[f] <= Len(data) /\ temp[f] <= Len(data)
  BY DEF DiagnosticsInv, RecordTypeOK
<1>3. \A f \in File : /\ name'[f] = IF f = file THEN temp[f] ELSE name[f]
                      /\ temp'[f] = IF f = file THEN NoInode ELSE temp[f]
  BY <1>2
<1>4. RecordTypeOK'
  <2>1. name' \in [File -> Nat] /\ temp' \in [File -> Nat]
    BY <1>2 DEF NoInode
  <2>2. Len(data) \in Nat
    BY <1>2
  <2>3. \A f \in File : name'[f] <= Len(data) /\ temp'[f] <= Len(data)
    BY <1>2, <1>3, <2>2 DEF NoInode
  <2>4. proc' \in [Process -> Session]
    BY OnlyOne DEF DiagnosticsInv
  <2> QED BY <1>2, <2>1, <2>3, <2>4 DEF DiagnosticsInv, RecordTypeOK
<1>5. DirectoryOK'
  <2>1. \A f \in File : name'[f] # NoInode => data'[name'[f]] \in Record
    BY <1>1, <1>3 DEF DiagnosticsInv, DirectoryOK
  <2>2. \A f, g \in File : temp'[f] # NoInode => temp'[f] # name'[g]
    BY <1>3 DEF DiagnosticsInv, DirectoryOK, File
  <2>3. temp'["current"] # NoInode => temp'["current"] # temp'["previous"]
    BY <1>3 DEF DiagnosticsInv, DirectoryOK, File
  <2> QED BY <2>1, <2>2, <2>3 DEF DirectoryOK
<1>6. name'[file] # NoInode /\ Contents(file)' = proc[p].write
  BY <1>1, <1>3 DEF Contents
<1>7. \A f \in File \ {file} : Contents(f)' = Contents(f)
  BY <1>3 DEF Contents
<1> QED BY <1>4, <1>5, <1>6, <1>7

\* After the rename the session may write its own record: it has just done
\* so, or has just retained what is in place.
LEMMA PlacedMayReplace ==
  ASSUME DiagnosticsInv, NEW p \in Process, NEW file \in File, NEW s,
         proc[p].pc = "rename", proc[p].file = file,
         s.record = proc[p].record,
         Contents(file)' = proc[p].write,
         \A f \in File \ {file} : Contents(f)' = Contents(f),
         name'[file] # NoInode
  PROVE  MayReplace(s)'
<1>1. proc[p].write = IF file = "previous"
                      THEN Contents("current") ELSE proc[p].record
  BY SessionFields DEF SessionOK, Busy
<1>2. CASE file = "previous"
  <2>1. Contents("previous")' = Contents("current")'
    BY <1>1, <1>2 DEF File
  <2> QED BY <1>2, <2>1 DEF MayReplace
<1>3. CASE file = "current"
  <2>1. Contents("current")' = s.record
    BY <1>1, <1>3
  <2> QED BY <2>1 DEF MayReplace
<1> QED BY <1>2, <1>3 DEF File

LEMMA RenameKeeps ==
  ASSUME OneProcess, DiagnosticsInv, NEW p \in Process, Rename(p)
  PROVE  DiagnosticsInv'
<1>1. /\ proc[p] \in Session /\ proc[p].record \in Record
      /\ proc[p].pc = "rename"
  BY SessionFields DEF SessionOK, Rename
<1>2. PICK file \in File : proc[p].file = file
  BY <1>1 DEF Session
<1>3. /\ temp[file] # NoInode
      /\ name' = [name EXCEPT ![file] = temp[file]]
      /\ temp' = [temp EXCEPT ![file] = NoInode]
      /\ UNCHANGED <<data, launches>> /\ failures' \in Nat
  BY <1>2 DEF Rename, DiagnosticsInv, RecordTypeOK
<1>4. PICK s \in Session :
         /\ Set(p, s)
         /\ \/ s = Idle
            \/ s.record = proc[p].record /\ s.pc = "up"
            \/ /\ s.record = proc[p].record /\ s.pc = "unlink"
               /\ s.file = "current" /\ s.write = proc[p].record
  <2>1. Set(p, AfterWrite(proc[p]))
    BY DEF Rename
  <2>2. CASE file = "previous"
    BY <1>1, <1>2, <2>1, <2>2, WritingTyped DEF AfterWrite, File
  <2>3. CASE file # "previous" /\ proc[p].record.outcome # "running"
    BY <1>2, <2>1, <2>3, IdleIsOK DEF AfterWrite
  <2>4. CASE file # "previous" /\ proc[p].record.outcome = "running"
    <3> DEFINE u == [proc[p] EXCEPT !.pc = "up", !.healthy = TRUE]
    <3>1. u \in Session /\ u.record = proc[p].record /\ u.pc = "up"
      BY <1>1 DEF Session
    <3>2. Set(p, u)
      BY <1>2, <2>1, <2>4 DEF AfterWrite
    <3> QED BY <3>1, <3>2
  <2> QED BY <2>2, <2>3, <2>4
<1>5. /\ RecordTypeOK' /\ DirectoryOK'
      /\ Contents(file)' = proc[p].write
      /\ \A f \in File \ {file} : Contents(f)' = Contents(f)
      /\ name'[file] # NoInode
  BY <1>1, <1>2, <1>3, <1>4, Placed
<1>6. s.record = proc[p].record => MayReplace(s)'
  BY <1>1, <1>2, <1>5, PlacedMayReplace
<1>7. \A q \in Process : proc'[q] = s
  BY <1>4, OnlyOne DEF DiagnosticsInv
<1>8. ASSUME NEW q \in Process
      PROVE  SessionOK(proc[q])'
  <2>1. CASE s = Idle
    BY <1>7, <2>1 DEF SessionOK, Idle, Busy
  <2>2. CASE s # Idle
    BY <1>1, <1>4, <1>6, <1>7, <2>2 DEF SessionOK, MayReplace, Busy
  <2> QED BY <2>1, <2>2
<1> QED BY <1>5, <1>8 DEF DiagnosticsInv

\* A session that gives up is idle, or up and never writes again.
LEMMA GivenUp ==
  ASSUME DiagnosticsInv, NEW p \in Process, GiveUp(p), proc[p].pc # "off"
  PROVE  \E s \in Session :
           /\ Set(p, s)
           /\ s.pc \in {"off", "up"} /\ ~s.healthy
           /\ s.pc = "up" => s.record \in Record
<1>1. proc[p] \in Session /\ proc[p].record \in Record
  BY SessionFields DEF SessionOK
<1> DEFINE u == [proc[p] EXCEPT !.pc = "up", !.healthy = FALSE]
<1>2. u \in Session /\ u.pc = "up" /\ ~u.healthy /\ u.record \in Record
  BY <1>1 DEF Session
<1>3. Idle \in Session /\ Idle.pc = "off" /\ ~Idle.healthy
  BY IdleIsOK DEF Idle
<1>4. Set(p, Idle) \/ Set(p, u)
  BY DEF GiveUp
<1> HIDE DEF u
<1> QED BY <1>2, <1>3, <1>4

LEMMA ChmodFailsKeeps ==
  ASSUME OneProcess, DiagnosticsInv, NEW p \in Process, ChmodFails(p)
  PROVE  DiagnosticsInv'
<1>1. PICK s \in Session :
         /\ Set(p, s)
         /\ s.pc \in {"off", "up"} /\ ~s.healthy
         /\ s.pc = "up" => s.record \in Record
  BY GivenUp DEF ChmodFails
<1>2. failures' \in Nat
  BY DEF DiagnosticsInv, RecordTypeOK, ChmodFails
<1>3. RecordTypeOK' /\ DirectoryOK'
  <2>1. proc[p].file \in File
    BY SessionFields DEF Session
  <2> QED BY <1>1, <1>2, <2>1, Placed DEF ChmodFails
<1>4. \A q \in Process : proc'[q] = s
  BY <1>1, OnlyOne DEF DiagnosticsInv
<1>5. ASSUME NEW q \in Process
      PROVE  SessionOK(proc[q])'
  BY <1>1, <1>4 DEF SessionOK, Busy
<1> QED BY <1>3, <1>5 DEF DiagnosticsInv

LEMMA WriteFailsKeeps ==
  ASSUME OneProcess, DiagnosticsInv, NEW p \in Process, WriteFails(p)
  PROVE  DiagnosticsInv'
<1>1. PICK s \in Session :
         /\ Set(p, s)
         /\ s.pc \in {"off", "up"} /\ ~s.healthy
         /\ s.pc = "up" => s.record \in Record
  BY GivenUp DEF WriteFails
<1>2. /\ failures' \in Nat
      /\ UNCHANGED <<name, data, launches>>
  BY DEF DiagnosticsInv, RecordTypeOK, WriteFails
<1>3. proc' \in [Process -> Session] /\ \A q \in Process : proc'[q] = s
  BY <1>1, OnlyOne DEF DiagnosticsInv
<1>4. /\ temp \in [File -> Nat] /\ data \in Seq(Record \cup {NoRecord})
      /\ \A f \in File : name[f] <= Len(data) /\ temp[f] <= Len(data)
  BY DEF DiagnosticsInv, RecordTypeOK
<1>5. /\ temp' \in [File -> Nat]
      /\ \A f \in File : temp'[f] = temp[f] \/ temp'[f] = NoInode
  BY <1>4 DEF WriteFails, NoInode
<1>6. RecordTypeOK'
  <2>1. Len(data) \in Nat
    BY <1>4
  <2>2. \A f \in File : temp'[f] <= Len(data)
    <3>1. \A f \in File : temp[f] <= Len(data) /\ 0 <= Len(data)
      BY <1>4, <2>1
    <3> QED BY <1>5, <3>1 DEF NoInode
  <2> QED
    BY <1>2, <1>3, <1>4, <1>5, <2>2 DEF DiagnosticsInv, RecordTypeOK
<1>7. DirectoryOK'
  BY <1>2, <1>5 DEF DiagnosticsInv, DirectoryOK, File
<1>8. ASSUME NEW q \in Process
      PROVE  SessionOK(proc[q])'
  BY <1>1, <1>3 DEF SessionOK, Busy
<1> QED BY <1>6, <1>7, <1>8 DEF DiagnosticsInv

-----------------------------------------------------------------------------
(* The specification.                                                      *)

LEMMA DiagnosticsStep ==
  ASSUME OneProcess, DiagnosticsInv, [DiagnosticsNext]_diagnosticsVars
  PROVE  DiagnosticsInv'
<1>1. CASE UNCHANGED diagnosticsVars
  BY <1>1 DEF diagnosticsVars, DiagnosticsInv, RecordTypeOK, DirectoryOK,
     SessionOK,
     MayReplace, Contents
<1>2. CASE DiagnosticsNext
  BY <1>2, StartSessionKeeps, ReadPriorKeeps, UnlinkKeeps, OpenKeeps,
     WriteKeeps, RenameKeeps, WriteFailsKeeps, ChmodFailsKeeps,
     RecordPhaseKeeps, FinishKeeps, EndKeeps
  DEF DiagnosticsNext
<1> QED BY <1>1, <1>2

\* The invariant holds through every launch, failure and crash.
THEOREM DiagnosticsInvariant ==
  ASSUME OneProcess
  PROVE  DiagnosticsSpec => []DiagnosticsInv
<1>1. DiagnosticsInv /\ [DiagnosticsNext]_diagnosticsVars => DiagnosticsInv'
  BY DiagnosticsStep
<1> QED BY <1>1, DiagnosticsInitially, PTL DEF DiagnosticsSpec

\* A record file in place is whole, at whatever call of a write the process
\* died or failed.
THEOREM RecordsAreAlwaysWhole ==
  ASSUME OneProcess
  PROVE  DiagnosticsSpec => []RecordsAreWhole
<1>1. DiagnosticsInv => RecordsAreWhole
  BY DiagnosticsAssumption
  DEF DiagnosticsInv, DirectoryOK, RecordsAreWhole, Contents
<1> QED BY <1>1, DiagnosticsInvariant, PTL

\* The record of a launch that never finished stays in place until it has been
\* retained, through failed and interrupted starts of its successors.
THEOREM UncleanRunIsAlwaysRetained ==
  ASSUME OneProcess
  PROVE  DiagnosticsSpec => UncleanRunIsRetained
<1> DEFINE Step == LET old == Contents("current")
                       new == Contents("current")'
                   IN  (/\ old # NoRecord /\ new # NoRecord
                        /\ old.outcome = "running"
                        /\ old.launch # new.launch /\ old.mode = new.mode)
                       => /\ name["previous"] # NoInode
                          /\ Contents("previous").launch = old.launch
<1>1. ASSUME DiagnosticsInv, DiagnosticsNext PROVE Step
  <2>1. PICK p \in Process :
          \/ Rename(p) \/ ChmodFails(p)
          \/ Contents("current")' = Contents("current")
    <3>1. ASSUME NEW p \in Process, Open(p) \/ Write(p)
          PROVE  Contents("current")' = Contents("current")
      <4>1. /\ data \in Seq(Record \cup {NoRecord}) /\ name' = name
            /\ name["current"] \in Nat /\ name["current"] <= Len(data)
        <5>1. CASE Open(p)
          BY <1>1, <5>1 DEF DiagnosticsInv, RecordTypeOK, Open, File
        <5>2. CASE Write(p)
          BY <1>1, <5>2 DEF DiagnosticsInv, RecordTypeOK, Write, File
        <5> QED BY <3>1, <5>1, <5>2
      <4>2. CASE Open(p)
        <5>1. data' = Append(data, NoRecord)
          BY <4>2 DEF Open
        <5>2. name["current"] # NoInode =>
                data'[name["current"]] = data[name["current"]]
          BY <4>1, <5>1 DEF NoInode
        <5> QED BY <4>1, <5>2 DEF Contents
      <4>3. CASE Write(p)
        <5>1. proc[p].fd = temp[proc[p].file] /\ proc[p].fd # NoInode
              /\ proc[p].file \in File
          BY <1>1, <4>3, SessionFields DEF SessionOK, Session, Write
        <5>2. proc[p].fd # name["current"]
          BY <1>1, <5>1 DEF DiagnosticsInv, DirectoryOK, File
        <5>3. data' = [data EXCEPT ![proc[p].fd] = proc[p].write]
          BY <4>3 DEF Write
        <5>4. name["current"] # NoInode =>
                data'[name["current"]] = data[name["current"]]
          <6>1. name["current"] # NoInode => name["current"] \in DOMAIN data
            BY <4>1 DEF NoInode
          <6> QED BY <5>2, <5>3, <6>1
        <5> QED BY <4>1, <5>4 DEF Contents
      <4> QED BY <3>1, <4>2, <4>3
    <3> QED
      BY <1>1, <3>1
      DEF DiagnosticsNext, StartSession, ReadPrior, Unlink, WriteFails,
          RecordPhase,
          Finish, RefuseToRun, Crash, Contents
  <2>2. CASE Rename(p) \/ ChmodFails(p)
    <3>1. /\ proc[p].pc = "rename" /\ data' = data
          /\ name' = [name EXCEPT ![proc[p].file] = temp[proc[p].file]]
      BY <2>2 DEF Rename, ChmodFails
    <3>2. /\ proc[p].file \in File /\ data[temp[proc[p].file]] = proc[p].write
          /\ proc[p].file = "current" =>
               proc[p].write = proc[p].record /\ MayReplace(proc[p])
      BY <1>1, <3>1, SessionFields DEF SessionOK, Session, Busy
    <3>3. name \in [File -> Nat]
      BY <1>1 DEF DiagnosticsInv, RecordTypeOK
    <3>4. CASE proc[p].file = "previous"
      <4>1. Contents("current")' = Contents("current")
        BY <3>1, <3>3, <3>4 DEF Contents, File
      <4> QED BY <4>1
    <3>5. CASE proc[p].file = "current"
      <4>1. Contents("current")' \in {NoRecord, proc[p].record}
        BY <3>1, <3>2, <3>3, <3>5 DEF Contents, File
      <4> QED BY <3>2, <3>5, <4>1 DEF MayReplace
    <3> QED BY <3>2, <3>4, <3>5 DEF File
  <2> QED BY <2>1, <2>2
<1>2. ASSUME UNCHANGED diagnosticsVars PROVE Step
  BY <1>2 DEF diagnosticsVars, Contents
<1>3. DiagnosticsInv /\ [DiagnosticsNext]_diagnosticsVars
        => [Step]_diagnosticsVars
  BY <1>1, <1>2
<1> QED
  BY <1>3, DiagnosticsInvariant, PTL DEF DiagnosticsSpec, UncleanRunIsRetained

=============================================================================
