----------------------------- MODULE StagedOutput -----------------------------
(***************************************************************************)
(* How a tool replaces its output directory: _publish and the try/finally  *)
(* around it, the same in universal_assembler.dart and                     *)
(* distribution_publisher.dart.  The result is built in a staging          *)
(* directory beside the output; an old output is renamed to a backup, the  *)
(* staging directory renamed to the output, the backup deleted.  Each file *)
(* operation can fail, and the process can die between any two.            *)
(*                                                                         *)
(* Staging and backup directories have fresh names in every run: the       *)
(* variables hold those of the latest run that made one.                   *)
(***************************************************************************)
CONSTANTS
  Absent,    \* no directory
  Working    \* the tool's own phases: it reads its inputs and fills staging

VARIABLES
  output,    \* the directory at the path the caller named
  staging,   \* the staging directory
  backup,    \* the renamed old output
  phase,     \* how far the run has come, "idle" when none is under way
  found,     \* history: the output when the run began
  last,      \* history: what was put in place last
  outcome    \* history: how the latest run ended

outputVars == <<output, staging, backup, phase, found, last, outcome>>

OutputInit ==
  /\ staging = Absent
  /\ backup = Absent
  /\ phase = "idle"
  /\ found = output
  /\ last = output
  /\ outcome = "none"

-----------------------------------------------------------------------------
Begin(first) ==
  /\ phase = "idle"
  /\ phase' = first
  /\ found' = output
  /\ staging' = Absent
  /\ outcome' = "none"
  /\ UNCHANGED <<output, backup, last>>

\* A step of the tool that leaves the staging directory alone.
Proceed(next) ==
  /\ phase \in Working
  /\ phase' = next
  /\ UNCHANGED <<output, staging, backup, found, last, outcome>>

\* A step of the tool after which the staging directory holds c.
Fill(c, next) ==
  /\ phase \in Working
  /\ c # Absent
  /\ staging' = c
  /\ phase' = next
  /\ UNCHANGED <<output, backup, found, last, outcome>>

\* A run that only validates its inputs ends before it makes a directory.
Stop ==
  /\ phase \in Working
  /\ staging = Absent
  /\ phase' = "idle"
  /\ outcome' = "ok"
  /\ UNCHANGED <<output, staging, backup, found, last>>

\* No old output: the staging directory becomes the output.
Place ==
  /\ phase = "publish"
  /\ output = Absent
  /\ output' = staging
  /\ staging' = Absent
  /\ last' = staging
  /\ phase' = "idle"
  /\ outcome' = "ok"
  /\ UNCHANGED <<backup, found>>

\* Mutant: the old output is deleted to make room.
DeleteOld ==
  /\ phase = "publish"
  /\ output # Absent
  /\ output' = Absent
  /\ phase' = "swap"
  /\ UNCHANGED <<staging, backup, found, last, outcome>>

MoveAside ==
  /\ phase = "publish"
  /\ output # Absent
  /\ backup' = output
  /\ output' = Absent
  /\ phase' = "swap"
  /\ UNCHANGED <<staging, found, last, outcome>>

PutInPlace ==
  /\ phase = "swap"
  /\ output' = staging
  /\ staging' = Absent
  /\ last' = staging
  /\ phase' = "tidy"
  /\ UNCHANGED <<backup, found, outcome>>

\* Mutant: a failed second rename is reported without undoing the first.
PutBackForgotten ==
  /\ phase = "swap"
  /\ phase' = "cleanup"
  /\ UNCHANGED <<output, staging, backup, found, last, outcome>>

\* The second rename failed: the backup goes back, if that rename works.
PutBack ==
  /\ phase = "swap"
  /\ phase' = "cleanup"
  /\ \/ output' = backup /\ backup' = Absent /\ UNCHANGED outcome
     \/ outcome' = "stuck" /\ UNCHANGED <<output, backup>>
  /\ UNCHANGED <<staging, found, last>>

\* A backup that cannot be deleted is left behind.
Tidy ==
  /\ phase = "tidy"
  /\ backup' \in {Absent, backup}
  /\ phase' = "idle"
  /\ outcome' = "ok"
  /\ UNCHANGED <<output, staging, found, last>>

\* An exception before or at the first rename.
Fail ==
  /\ phase \in Working \cup {"publish"}
  /\ phase' = "cleanup"
  /\ UNCHANGED <<output, staging, backup, found, last, outcome>>

\* The finally block deletes the staging directory of a failed run.
Cleanup ==
  /\ phase = "cleanup"
  /\ phase' = "idle"
  /\ \/ staging' = Absent
        /\ outcome' = IF outcome = "stuck" THEN "stuck" ELSE "failed"
     \/ staging # Absent /\ outcome' = "stuck" /\ UNCHANGED staging
  /\ UNCHANGED <<output, backup, found, last>>

\* The process dies; what it made stays on disk.
Die ==
  /\ phase # "idle"
  /\ phase' = "idle"
  /\ outcome' = "died"
  /\ UNCHANGED <<output, staging, backup, found, last>>

Publish == Place \/ MoveAside \/ PutInPlace \/ PutBack \/ Tidy

End == Publish \/ Fail \/ Cleanup \/ Die

OutputNext ==
  \/ \E first \in Working : Begin(first)
  \/ \E next \in Working : Proceed(next)
  \/ \E next \in Working \cup {"publish"} : staging' # Absent /\ Fill(staging', next)
  \/ Stop
  \/ End

OutputSpec == OutputInit /\ [][OutputNext]_outputVars

-----------------------------------------------------------------------------
(* Properties.                                                             *)

\* Whatever fails and whenever the process dies, the latest published result
\* is on disk, at the output path or in the backup: replacing an output never
\* loses both the old and the new one.
OutputKept ==
  last # Absent => output = last \/ (output = Absent /\ backup = last)

\* A run that reports failure has changed nothing ("a failure before
\* publication leaves any existing output unchanged",
\* packages/dart_macos_runtime/README.md) and leaves no staging directory,
\* unless putting back or deleting failed as well.
FailureIsUndone == outcome = "failed" => output = found /\ staging = Absent
=============================================================================
