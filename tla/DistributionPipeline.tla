------------------------- MODULE DistributionPipeline -------------------------
(***************************************************************************)
(* Builder, assembler and publisher on one file system.  Nothing keeps     *)
(* them apart: each is a process of its own, started when its caller       *)
(* likes, and reads what another may be replacing.  One run of each tool   *)
(* is under way at a time.                                                 *)
(***************************************************************************)
EXTENDS DistributionPublisher

vars == <<builderVars, assemblerVars, publisherVars>>

\* An earlier output was made from an earlier input.
Init ==
  /\ BuilderInit
  /\ AssemblerInit
  /\ PublisherInit
  /\ universal # Absent => \A d \in Dir : thin[d] # Absent
  /\ release # Absent => universal # Absent

\* A build that touches a thin bundle disturbs an assembler that reads it.
Build ==
  /\ BuilderNext
  /\ uClean' = (uClean /\ (thin' = thin \/ ~AssemblerReads))
  /\ UNCHANGED <<universalVars, inputs, neutral, assemblies, publisherVars>>

\* An assembler that replaces its output disturbs a publisher that reads it.
Assemble ==
  /\ AssemblerNext
  /\ dClean' = (dClean /\ (universal' = universal \/ ~PublisherReads))
  /\ UNCHANGED <<builderVars, releaseVars, source, notaryVars, publications>>

Distribute ==
  /\ PublisherNext
  /\ UNCHANGED <<builderVars, assemblerVars>>

Next == Build \/ Assemble \/ Distribute

Spec == Init /\ [][Next]_vars

-----------------------------------------------------------------------------
(* Properties.                                                             *)

\* Both published outputs survive whatever fails or dies while they are
\* replaced, and a failing assembler or publisher leaves its old output in
\* place.
OutputsKept ==
  /\ U!OutputKept /\ U!FailureIsUndone
  /\ D!OutputKept /\ D!FailureIsUndone

\* However stale or half built the thin bundles were and whenever they were
\* replaced, what is published holds one slice of each architecture.
BothArchitectures ==
  /\ universal # Absent => {s.arch : s \in universal.slices} = Arch
  /\ release # Absent => {s.arch : s \in release.app.slices} = Arch

CodeAsEvidenced(app) ==
  app.slices = {[arch |-> a, code |-> app.evidence.thin[a]] : a \in Arch}

ResourcesAsEvidenced(app) == app.resources = app.evidence.resources

\* Evidence describes what it is published with.  The assembler reads its
\* inputs twice, so this holds when no build has touched them meanwhile; the
\* publisher holds to it for the resources even of an application assembled
\* from inputs that changed, unless its own source changes under it.
EvidenceHolds ==
  /\ universal # Absent /\ universal.clean =>
       CodeAsEvidenced(universal) /\ ResourcesAsEvidenced(universal)
  /\ release # Absent /\ release.clean =>
       /\ release.source = release.app.evidence
       /\ ResourcesAsEvidenced(release.app)

\* What is published is signed, carries the ticket the notary granted for
\* exactly this application, and was archived with it.
ReleasedIsNotarized ==
  release # Absent =>
    /\ release.developerId
    /\ release.stapled
    /\ release.archive = "stapled"
=============================================================================
