------------------------------ MODULE MCBridge ------------------------------
(* The two parts of the bridge everything else rests on, the object         *)
(* registry and application termination.  They share no state, so a         *)
(* behaviour exercises one of them while the other stays as it is.          *)
EXTENDS ObjectRegistry, TerminationProtocol

MCKind == {"view", "textView"}
MCExitCode == {3, 5}   \* two process results, so that requests can conflict

VARIABLE subject   \* the part this behaviour exercises

ASSUME BridgeAssumption == TerminationAssumption

Init ==
  /\ subject \in {"registry", "termination"}
  /\ RegistryInit
  /\ TerminationInit

Next ==
  /\ UNCHANGED subject
  /\ \/ subject = "registry" /\ RegistryNext /\ UNCHANGED terminationVars
     \/ subject = "termination" /\ TerminationNext /\ UNCHANGED registryVars

Spec ==
  /\ Init
  /\ [][Next]_<<subject, registryVars, terminationVars>>
  /\ Fairness

=============================================================================
