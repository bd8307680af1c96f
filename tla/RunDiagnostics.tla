---------------------------- MODULE RunDiagnostics ----------------------------
(***************************************************************************)
(* The run records that survive the process (RuntimeDiagnostics.mm and the *)
(* main functions of ReleaseAotRunner.mm and DeveloperJitRunner.mm).  A    *)
(* launch keeps one current record, rewritten at every phase, and retains  *)
(* the record of a predecessor that never finished.  A write goes to a     *)
(* temporary file that is renamed over the destination; the process may    *)
(* crash between any two system calls, and any of them may fail.           *)
(***************************************************************************)
EXTENDS Naturals, Sequences

CONSTANTS
  Process,      \* processes that may run at the same time
  Mode,         \* identities (bundle, runtime mode) that share a directory
  Strict,       \* strict_persistence
  MaxLaunches,  \* bound on launches
  MaxPhase,     \* the last diagnostic phase
  MaxFailures,  \* bound on failing system calls
  NoRecord      \* no record, or an incomplete one

Launch == 1 .. MaxLaunches
File == {"current", "previous"}
Outcome == {"running", "clean", "failure"}

\* What a record says; its contents are whole once WriteAll has returned.
Record == [launch : Launch, mode : Mode, phase : 0 .. MaxPhase,
           outcome : Outcome]

ASSUME DiagnosticsAssumption ==
  /\ Strict \in BOOLEAN
  /\ {MaxLaunches, MaxPhase, MaxFailures} \subseteq Nat
  /\ NoRecord \notin Record

\* Inodes are numbered in the order they are created.
NoInode == 0

VARIABLES
  name,      \* directory: the inode of each destination file
  temp,      \* directory: the inode of each destination's .tmp file
  data,      \* the record each inode holds, NoRecord while it is incomplete
  proc,      \* each process: its session and the write in progress
  launches,  \* launches so far
  failures   \* system calls that have failed

diagnosticsVars == <<name, temp, data, proc, launches, failures>>

\* A session: where its main thread is, what it knows, what it is writing.
Idle == [pc |-> "off", healthy |-> FALSE, record |-> NoRecord,
         file |-> "current", write |-> NoRecord, fd |-> NoInode]

DiagnosticsInit ==
  /\ name = [f \in File |-> NoInode]
  /\ temp = [f \in File |-> NoInode]
  /\ data = <<>>
  /\ proc = [p \in Process |-> Idle]
  /\ launches = 0
  /\ failures = 0

Set(p, session) == proc' = [proc EXCEPT ![p] = session]
Contents(f) == IF name[f] = NoInode THEN NoRecord ELSE data[name[f]]

\* The session starts to write a record to a file and goes on at pc.
Writing(s, pc, file, record) ==
  [s EXCEPT !.pc = pc, !.file = file, !.write = record, !.fd = NoInode]

-----------------------------------------------------------------------------
(* WriteDataAtomically: unlink, open, write, rename.                       *)

Unlink(p) ==
  /\ proc[p].pc = "unlink"
  /\ temp' = [temp EXCEPT ![proc[p].file] = NoInode]
  /\ Set(p, [proc[p] EXCEPT !.pc = "open"])
  /\ UNCHANGED <<name, data, launches, failures>>

\* O_CREAT with O_EXCL: a new and still empty inode.
Fresh == Len(data) + 1

Open(p) ==
  /\ proc[p].pc = "open"
  /\ temp[proc[p].file] = NoInode
  /\ temp' = [temp EXCEPT ![proc[p].file] = Fresh]
  /\ data' = Append(data, NoRecord)
  /\ Set(p, [proc[p] EXCEPT !.pc = "write", !.fd = Fresh])
  /\ UNCHANGED <<name, launches, failures>>

\* WriteAll, fsync and close, through the descriptor.
Write(p) ==
  /\ proc[p].pc = "write"
  /\ data' = [data EXCEPT ![proc[p].fd] = proc[p].write]
  /\ Set(p, [proc[p] EXCEPT !.pc = "rename"])
  /\ UNCHANGED <<name, temp, launches, failures>>

\* Where a session goes when its write has succeeded.
AfterWrite(s) ==
  IF s.file = "previous" THEN Writing(s, "unlink", "current", s.record)
  ELSE IF s.record.outcome # "running" THEN Idle
  ELSE [s EXCEPT !.pc = "up", !.healthy = TRUE]

\* Mutant: the file is put in place before its contents are written.
RenameEarly(p) ==
  /\ proc[p].pc \in {"write", "rename"}
  /\ temp[proc[p].file] # NoInode
  /\ name' = [name EXCEPT ![proc[p].file] = temp[proc[p].file]]
  /\ temp' = [temp EXCEPT ![proc[p].file] = NoInode]
  /\ Set(p, AfterWrite(proc[p]))
  /\ UNCHANGED <<data, launches, failures>>

Rename(p) ==
  /\ proc[p].pc = "rename"
  /\ temp[proc[p].file] # NoInode
  /\ name' = [name EXCEPT ![proc[p].file] = temp[proc[p].file]]
  /\ temp' = [temp EXCEPT ![proc[p].file] = NoInode]
  /\ Set(p, AfterWrite(proc[p]))
  /\ UNCHANGED <<data, launches, failures>>

\* A session that could not write stops writing; a strict one ends when it
\* cannot write at its start.
GiveUp(p) ==
  LET s == proc[p]
      starting == ~s.healthy /\ s.record.outcome = "running"
      ends == s.record.outcome # "running" \/ (Strict /\ starting)
  IN  Set(p, IF ends THEN Idle ELSE [s EXCEPT !.pc = "up", !.healthy = FALSE])

\* EnsurePrivateDirectory or a system call fails: of its own, or because
\* another process made or removed the temporary file.  One that had opened
\* the temporary file removes it.
WriteFails(p) ==
  /\ proc[p].pc \in {"prior", "open", "write", "rename"}
  /\ LET present == temp[proc[p].file] # NoInode
     IN  \/ failures < MaxFailures /\ failures' = failures + 1
         \/ proc[p].pc = "open" /\ present /\ UNCHANGED failures
         \/ proc[p].pc = "rename" /\ ~present /\ UNCHANGED failures
  /\ temp' = IF proc[p].pc \in {"write", "rename"}
             THEN [temp EXCEPT ![proc[p].file] = NoInode]
             ELSE temp
  /\ GiveUp(p)
  /\ UNCHANGED <<name, data, launches>>

\* chmod fails after the rename: the record is in place all the same.
ChmodFails(p) ==
  /\ proc[p].pc = "rename"
  /\ temp[proc[p].file] # NoInode
  /\ failures < MaxFailures
  /\ failures' = failures + 1
  /\ name' = [name EXCEPT ![proc[p].file] = temp[proc[p].file]]
  /\ temp' = [temp EXCEPT ![proc[p].file] = NoInode]
  /\ GiveUp(p)
  /\ UNCHANGED <<data, launches>>

-----------------------------------------------------------------------------
(* The session.                                                            *)

\* RuntimeDiagnosticsSession::Start reads the record in place ...
StartSession(p, m) ==
  /\ proc[p].pc = "off"
  /\ launches < MaxLaunches
  /\ launches' = launches + 1
  /\ Set(p, [Idle EXCEPT !.pc = "prior",
                         !.record = [launch |-> launches', mode |-> m,
                                     phase |-> 0, outcome |-> "running"]])
  /\ UNCHANGED <<name, temp, data, failures>>

\* Mutant: no predecessor is retained.
RetainedNever(s) == FALSE

\* ReadRunningRecord, and the predecessor has the same identity.
Retained(s) ==
  /\ Contents("current") # NoRecord
  /\ Contents("current").outcome = "running"
  /\ Contents("current").mode = s.record.mode

\* ... and retains it before it writes its own.
ReadPrior(p) ==
  /\ proc[p].pc = "prior"
  /\ Set(p, IF Retained(proc[p])
            THEN Writing(proc[p], "unlink", "previous", Contents("current"))
            ELSE Writing(proc[p], "unlink", "current", proc[p].record))
  /\ UNCHANGED <<name, temp, data, launches, failures>>

\* A session that persists rewrites the current record.
Update(p, record, pc) ==
  LET s == [proc[p] EXCEPT !.record = record]
  IN  Set(p, IF s.healthy THEN Writing(s, "unlink", "current", record)
             ELSE IF pc = "off" THEN Idle ELSE [s EXCEPT !.pc = pc])

\* RecordPhase; a repeated phase changes nothing, an earlier one is refused.
RecordPhase(p, phase) ==
  /\ proc[p].pc = "up"
  /\ phase > proc[p].record.phase
  /\ Update(p, [proc[p].record EXCEPT !.phase = phase], "up")
  /\ UNCHANGED <<name, temp, data, launches, failures>>

\* Finish, when main returns or the application terminates.
Finish(p, outcome) ==
  /\ proc[p].pc = "up"
  /\ outcome # "running"
  /\ Update(p, [proc[p].record EXCEPT !.outcome = outcome], "off")
  /\ UNCHANGED <<name, temp, data, launches, failures>>

\* main returns an input, usage or activation error before the application
\* runs: the session is destroyed, the record is not finished.
RefuseToRun(p) ==
  /\ proc[p].pc = "up"
  /\ proc[p].record.phase = 0
  /\ Set(p, Idle)
  /\ UNCHANGED <<name, temp, data, launches, failures>>

\* The process dies, in the middle of a write or not.
Crash(p) ==
  /\ proc[p].pc # "off"
  /\ Set(p, Idle)
  /\ UNCHANGED <<name, temp, data, launches, failures>>

DiagnosticsNext ==
  \E p \in Process :
    \/ \E m \in Mode : StartSession(p, m)
    \/ ReadPrior(p)
    \/ Unlink(p)
    \/ Open(p)
    \/ Write(p)
    \/ Rename(p)
    \/ WriteFails(p)
    \/ ChmodFails(p)
    \/ \E phase \in 1 .. MaxPhase : RecordPhase(p, phase)
    \/ \E outcome \in Outcome : Finish(p, outcome)
    \/ RefuseToRun(p)
    \/ Crash(p)

DiagnosticsSpec == DiagnosticsInit /\ [][DiagnosticsNext]_diagnosticsVars

-----------------------------------------------------------------------------
(* Properties.                                                             *)

\* A record file in place is never incomplete, at whatever call the process
\* died or failed ("the host atomically writes an owner-only bounded current
\* record", docs/ARCHITECTURE.md).
RecordsAreWhole ==
  \A f \in File : name[f] # NoInode => Contents(f) # NoRecord

\* The record of a launch that never finished gives way to the next launch of
\* its mode only when it has been retained: no crash of the successor in
\* between loses it.
UncleanRunIsRetained ==
  [][LET old == Contents("current")
         new == Contents("current")'
     IN  (/\ old # NoRecord /\ new # NoRecord
          /\ old.outcome = "running" /\ old.launch # new.launch
          /\ old.mode = new.mode)
         => /\ name["previous"] # NoInode
            /\ Contents("previous").launch = old.launch]_diagnosticsVars

=============================================================================
