------------------------- MODULE StagedOutputProofs --------------------------
(***************************************************************************)
(* Proofs about StagedOutput for any tool, whatever it puts into the       *)
(* staging directory and however many phases of its own it has.            *)
(***************************************************************************)
EXTENDS StagedOutput, TLAPS

Protocol == {"idle", "publish", "swap", "tidy", "cleanup"}

\* An output at its path is the latest one; while it is moved aside the backup
\* is what the run found; a failed run has put it back or is stuck.
OutputInv ==
  /\ OutputKept
  /\ output # Absent => output = last
  /\ phase \in {"publish", "swap"} => staging # Absent
  /\ phase \in Working \cup {"publish"} => output = found
  /\ phase = "swap" => output = Absent /\ backup = found /\ backup = last
  /\ phase = "tidy" => output # Absent
  /\ phase \in Working \cup {"publish", "swap"} => outcome = "none"
  /\ phase = "cleanup" =>
       outcome \in {"none", "stuck"} /\ (outcome = "none" => output = found)
  /\ FailureIsUndone

\* The invariant holds in every initial state of a tool.
LEMMA OutputInvInit == OutputInit => OutputInv
BY DEF OutputInit, OutputInv, OutputKept, FailureIsUndone

\* Every step of the protocol preserves the invariant, as long as the tool's
\* phases have names of their own.
LEMMA OutputInvStep ==
  ASSUME Working \cap Protocol = {},
         OutputInv,
         [OutputNext]_outputVars
  PROVE  OutputInv'
<1> USE DEF OutputInv, OutputKept, FailureIsUndone, Protocol
<1>1. ASSUME NEW first \in Working, Begin(first)
      PROVE  OutputInv'
  BY <1>1 DEF Begin
<1>2. ASSUME NEW next \in Working, Proceed(next)
      PROVE  OutputInv'
  BY <1>2 DEF Proceed
<1>3. ASSUME NEW next \in Working \cup {"publish"}, staging' # Absent,
             Fill(staging', next)
      PROVE  OutputInv'
  BY <1>3 DEF Fill
<1>4. CASE Stop
  BY <1>4 DEF Stop
<1>5. CASE Place
  BY <1>5 DEF Place
<1>6. CASE MoveAside
  BY <1>6 DEF MoveAside
<1>7. CASE PutInPlace
  BY <1>7 DEF PutInPlace
<1>8. CASE PutBack
  BY <1>8 DEF PutBack
<1>9. CASE Tidy
  BY <1>9 DEF Tidy
<1>10. CASE Fail
  BY <1>10 DEF Fail
<1>11. CASE Cleanup
  BY <1>11 DEF Cleanup
<1>12. CASE Die
  BY <1>12 DEF Die
<1>13. CASE UNCHANGED outputVars
  BY <1>13 DEF outputVars
<1> QED
  BY <1>1, <1>2, <1>3, <1>4, <1>5, <1>6, <1>7, <1>8, <1>9, <1>10, <1>11,
     <1>12, <1>13 DEF OutputNext, End, Publish

\* Replacing an output never loses it, and a failed run changes nothing.
THEOREM OutputIsKept ==
  ASSUME Working \cap Protocol = {}
  PROVE  OutputSpec => [](OutputKept /\ FailureIsUndone)
<1>1. OutputInv => OutputKept /\ FailureIsUndone
  BY DEF OutputInv
<1> QED
  BY <1>1, OutputInvInit, OutputInvStep, PTL DEF OutputSpec
=============================================================================
