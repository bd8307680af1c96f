------------------------------- MODULE MCFiles -------------------------------
(* What is put in place by renaming and must be whole at any moment: the    *)
(* outputs of the distribution pipeline, with two interchangeable build     *)
(* directories, and the run records of one application that is launched     *)
(* again and again.  They share no state, so a behaviour exercises one of   *)
(* them while the other stays as it is, the launches of the application     *)
(* before anything is built.                                                *)
EXTENDS DistributionPipeline, RunDiagnostics, TLC

VARIABLE subject   \* the part this behaviour exercises

FilesInit ==
  /\ subject \in {"distribution", "diagnostics"}
  /\ Init
  /\ DiagnosticsInit
  /\ subject = "diagnostics" => \A d \in Dir : thin[d] = Absent

FilesNext ==
  /\ UNCHANGED subject
  /\ \/ subject = "distribution" /\ Next /\ UNCHANGED diagnosticsVars
     \/ subject = "diagnostics" /\ DiagnosticsNext /\ UNCHANGED vars

FilesSpec == FilesInit /\ [][FilesNext]_<<subject, vars, diagnosticsVars>>

MCSymmetry == Permutations(Dir)
=============================================================================
