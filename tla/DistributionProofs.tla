-------------------------- MODULE DistributionProofs --------------------------
(***************************************************************************)
(* The pipeline, for any build directories and any number of runs.         *)
(*                                                                         *)
(* Outputs: assembler and publisher each keep their published output,      *)
(* since every step of the pipeline is a step of StagedOutput, or none,    *)
(* for either of them.                                                     *)
(*                                                                         *)
(* Content: what is published is an application of both architectures, and *)
(* a distribution that is signed, stapled and archived as such.            *)
(*                                                                         *)
(* Evidence: what is published is what its evidence says.                  *)
(*                                                                         *)
(* Staging directories carry these facts from the step that establishes    *)
(* them to the rename that publishes them, and the backup carries them     *)
(* through a failed rename.                                                *)
(***************************************************************************)
EXTENDS DistributionPipeline, TLAPS

UP == INSTANCE StagedOutputProofs
        WITH Working <- {"load", "merge", "copy", "seal"},
             output <- universal, staging <- uStaging, backup <- uBackup,
             phase <- uPhase, found <- uFound, last <- uLast,
             outcome <- uOutcome

DP == INSTANCE StagedOutputProofs
        WITH Working <- {"load", "copyCode", "copyRest", "sign", "submit",
                         "wait", "staple", "evidence"},
             output <- release, staging <- dStaging, backup <- dBackup,
             phase <- dPhase, found <- dFound, last <- dLast,
             outcome <- dOutcome

AssemblerPhases == {"load", "merge", "copy", "seal"}

PublisherPhases ==
  {"load", "copyCode", "copyRest", "sign", "submit", "wait", "staple",
   "evidence"}

-----------------------------------------------------------------------------
(* One of the protocol's own operations, with a phase of the tool.         *)

LEMMA AssemblerBegins ==
  ASSUME U!Begin("load")  PROVE  UP!OutputNext
BY DEF U!Begin, UP!OutputNext, UP!Begin

LEMMA AssemblerProceeds ==
  ASSUME NEW p \in AssemblerPhases, U!Proceed(p)  PROVE  UP!OutputNext
BY DEF U!Proceed, UP!OutputNext, UP!Proceed, AssemblerPhases

LEMMA AssemblerFills ==
  ASSUME NEW c, NEW p \in AssemblerPhases \cup {"publish"}, U!Fill(c, p)
  PROVE  UP!OutputNext
<1>1. uStaging' # Absent /\ UP!Fill(uStaging', p)
  BY DEF U!Fill, UP!Fill
<1> QED
  BY <1>1 DEF UP!OutputNext, AssemblerPhases

LEMMA AssemblerEnds ==
  ASSUME U!End  PROVE  UP!OutputNext
BY DEF U!End, U!Publish, U!Place, U!MoveAside, U!PutInPlace, U!PutBack, U!Tidy,
       U!Fail, U!Cleanup, U!Die, UP!OutputNext, UP!End, UP!Publish, UP!Place,
       UP!MoveAside, UP!PutInPlace, UP!PutBack, UP!Tidy, UP!Fail, UP!Cleanup,
       UP!Die

LEMMA PublisherBegins ==
  ASSUME D!Begin("load")  PROVE  DP!OutputNext
BY DEF D!Begin, DP!OutputNext, DP!Begin

LEMMA PublisherProceeds ==
  ASSUME NEW p \in PublisherPhases, D!Proceed(p)  PROVE  DP!OutputNext
BY DEF D!Proceed, DP!OutputNext, DP!Proceed, PublisherPhases

LEMMA PublisherFills ==
  ASSUME NEW c, NEW p \in PublisherPhases \cup {"publish"}, D!Fill(c, p)
  PROVE  DP!OutputNext
<1>1. dStaging' # Absent /\ DP!Fill(dStaging', p)
  BY DEF D!Fill, DP!Fill
<1> QED
  BY <1>1 DEF DP!OutputNext, PublisherPhases

LEMMA PublisherStops ==
  ASSUME D!Stop  PROVE  DP!OutputNext
BY DEF D!Stop, DP!OutputNext, DP!Stop

LEMMA PublisherEnds ==
  ASSUME D!End  PROVE  DP!OutputNext
BY DEF D!End, D!Publish, D!Place, D!MoveAside, D!PutInPlace, D!PutBack, D!Tidy,
       D!Fail, D!Cleanup, D!Die, DP!OutputNext, DP!End, DP!Publish, DP!Place,
       DP!MoveAside, DP!PutInPlace, DP!PutBack, DP!Tidy, DP!Fail, DP!Cleanup,
       DP!Die

-----------------------------------------------------------------------------
(* Every step of the pipeline is one of the protocol for either output.    *)

LEMMA StepOfAssemblerOutput ==
  [Next]_vars => [UP!OutputNext]_UP!outputVars
<1> SUFFICES ASSUME [Next]_vars
             PROVE  UP!OutputNext \/ UNCHANGED universalVars
  BY DEF UP!outputVars, universalVars
<1>1. CASE Build
  BY <1>1 DEF Build
<1>2. CASE Assemble
  <2>1. CASE StartAssembly
    BY <2>1, AssemblerBegins DEF StartAssembly
  <2>2. ASSUME NEW d \in Dir, LoadThinBundle(d)
        PROVE  UNCHANGED universalVars
    BY <2>2 DEF LoadThinBundle
  <2>3. CASE MatchBundles
    BY <2>3, AssemblerProceeds DEF MatchBundles, AssemblerPhases
  <2>4. CASE MergeCode
    BY <2>4, AssemblerFills DEF MergeCode, AssemblerPhases
  <2>5. CASE CopyResources
    BY <2>5, AssemblerFills DEF CopyResources, AssemblerPhases
  <2>6. CASE Seal
    BY <2>6, AssemblerFills DEF Seal, AssemblerPhases
  <2>7. CASE EndAssembly
    BY <2>7, AssemblerEnds DEF EndAssembly
  <2> QED
    BY <1>2, <2>1, <2>2, <2>3, <2>4, <2>5, <2>6, <2>7
       DEF Assemble, AssemblerNext
<1>3. CASE Distribute
  BY <1>3 DEF Distribute, assemblerVars
<1>4. CASE UNCHANGED vars
  BY <1>4 DEF vars, assemblerVars
<1> QED
  BY <1>1, <1>2, <1>3, <1>4 DEF Next

LEMMA StepOfPublisherOutput ==
  [Next]_vars => [DP!OutputNext]_DP!outputVars
<1> SUFFICES ASSUME [Next]_vars
             PROVE  DP!OutputNext \/ UNCHANGED releaseVars
  BY DEF DP!outputVars, releaseVars
<1>1. CASE Build
  BY <1>1 DEF Build, publisherVars
<1>2. CASE Assemble
  BY <1>2 DEF Assemble
<1>3. CASE Distribute
  <2>1. CASE StartPublication
    BY <2>1, PublisherBegins DEF StartPublication
  <2>2. CASE LoadSource
    BY <2>2, PublisherProceeds DEF LoadSource, PublisherPhases
  <2>3. CASE Preflight
    BY <2>3, PublisherStops DEF Preflight
  <2>4. CASE CopyCode
    BY <2>4, PublisherFills DEF CopyCode, PublisherPhases
  <2>5. CASE CopyRest
    BY <2>5, PublisherFills DEF CopyRest, PublisherPhases
  <2>6. CASE Sign
    BY <2>6, PublisherFills DEF Sign, PublisherPhases
  <2>7. CASE Submit
    BY <2>7, PublisherProceeds DEF Submit, PublisherPhases
  <2>8. CASE NotaryDecides
    BY <2>8 DEF NotaryDecides
  <2>9. CASE WaitForAcceptance
    BY <2>9, PublisherProceeds DEF WaitForAcceptance, PublisherPhases
  <2>10. CASE Staple
    BY <2>10, PublisherFills DEF Staple, PublisherPhases
  <2>11. CASE WriteEvidence
    BY <2>11, PublisherFills DEF WriteEvidence, PublisherPhases
  <2>12. CASE EndPublication
    BY <2>12, PublisherEnds DEF EndPublication
  <2> QED
    BY <1>3, <2>1, <2>2, <2>3, <2>4, <2>5, <2>6, <2>7, <2>8, <2>9, <2>10,
       <2>11, <2>12 DEF Distribute, PublisherNext
<1>4. CASE UNCHANGED vars
  BY <1>4 DEF vars, publisherVars
<1> QED
  BY <1>1, <1>2, <1>3, <1>4 DEF Next

-----------------------------------------------------------------------------
\* Neither tool ever loses its published output, and a run that failed has
\* changed nothing, whatever builds, assemblies and publications interleave,
\* fail and die.
THEOREM PipelineKeepsOutputs == Spec => []OutputsKept
<1>1. Init => UP!OutputInv /\ DP!OutputInv
  <2>1. Init => UP!OutputInit /\ DP!OutputInit
    BY DEF Init, AssemblerInit, PublisherInit, U!OutputInit, D!OutputInit,
           UP!OutputInit, DP!OutputInit
  <2> QED
    BY <2>1, UP!OutputInvInit, DP!OutputInvInit
<1>2. UP!OutputInv /\ [Next]_vars => UP!OutputInv'
  <2>1. {"load", "merge", "copy", "seal"} \cap UP!Protocol = {}
    BY DEF UP!Protocol
  <2> QED
    BY <2>1, StepOfAssemblerOutput, UP!OutputInvStep
<1>3. DP!OutputInv /\ [Next]_vars => DP!OutputInv'
  <2>1. {"load", "copyCode", "copyRest", "sign", "submit", "wait", "staple",
         "evidence"} \cap DP!Protocol = {}
    BY DEF DP!Protocol
  <2> QED
    BY <2>1, StepOfPublisherOutput, DP!OutputInvStep
<1>4. UP!OutputInv /\ DP!OutputInv => OutputsKept
  BY DEF UP!OutputInv, DP!OutputInv, UP!OutputKept, DP!OutputKept,
         UP!FailureIsUndone, DP!FailureIsUndone, OutputsKept,
         U!OutputKept, D!OutputKept, U!FailureIsUndone, D!FailureIsUndone
<1> QED
  BY <1>1, <1>2, <1>3, <1>4, PTL DEF Spec

-----------------------------------------------------------------------------
(* Content.                                                                *)

\* The fields an application and a distribution have, so that an update of
\* one leaves the others alone.
IsApplication(c) ==
  c = [slices |-> c.slices, resources |-> c.resources,
       evidence |-> c.evidence, clean |-> c.clean]

IsDistribution(c) ==
  c = [app |-> c.app, developerId |-> c.developerId, stapled |-> c.stapled,
       archive |-> c.archive, source |-> c.source, clean |-> c.clean]

Complete(app) ==
  IsApplication(app) /\ {s.arch : s \in app.slices} = Arch

Notarized(c) == c.developerId /\ c.stapled /\ c.archive = "stapled"

UniversalInv ==
  /\ uPhase \in {"copy", "seal", "publish", "swap"} => Complete(uStaging)
  /\ uPhase = "swap" /\ uBackup # Absent => Complete(uBackup)
  /\ universal # Absent => Complete(universal)

AfterCopy ==
  {"copyRest", "sign", "submit", "wait", "staple", "evidence", "publish",
   "swap"}

ReleaseInv ==
  /\ dPhase \in AfterCopy => IsDistribution(dStaging) /\ Complete(dStaging.app)
  /\ dPhase \in {"submit", "wait", "staple", "evidence"} =>
       dStaging.developerId
  /\ dPhase = "evidence" => dStaging.stapled
  /\ dPhase \in {"publish", "swap"} => Notarized(dStaging)
  /\ dPhase = "swap" /\ dBackup # Absent =>
       Notarized(dBackup) /\ Complete(dBackup.app)
  /\ release # Absent => Notarized(release) /\ Complete(release.app)

-----------------------------------------------------------------------------
LEMMA ReleasedIsComplete == Complete(ReleasedApplication)
<1> DEFINE slice(a) == [arch |-> a, code |-> "released"]
<1>1. \A a \in Arch : slice(a).arch = a
  OBVIOUS
<1>2. ReleasedApplication.slices = {slice(a) : a \in Arch}
  BY DEF ReleasedApplication
<1> HIDE DEF slice
<1>3. {s.arch : s \in ReleasedApplication.slices} = Arch
  BY <1>1, <1>2
<1> QED
  BY <1>3 DEF ReleasedApplication, Complete, IsApplication

LEMMA ContentInit == Init => UniversalInv /\ ReleaseInv
<1> SUFFICES ASSUME Init  PROVE  UniversalInv /\ ReleaseInv
  OBVIOUS
<1>1. uPhase = "idle" /\ dPhase = "idle"
  BY DEF Init, AssemblerInit, PublisherInit, U!OutputInit, D!OutputInit
<1>2. universal # Absent => Complete(universal)
  BY ReleasedIsComplete DEF Init, AssemblerInit
<1>3. release # Absent => Notarized(release) /\ Complete(release.app)
  BY ReleasedIsComplete
     DEF Init, PublisherInit, ReleasedDistribution, Notarized
<1> QED
  BY <1>1, <1>2, <1>3 DEF UniversalInv, ReleaseInv, AfterCopy

-----------------------------------------------------------------------------
\* lipo's two checks make the merged slices complete.
LEMMA MergedSlices ==
  ASSUME {thin[d].host : d \in Dir} = Arch
  PROVE  {s.arch : s \in {[arch |-> thin[d].host, code |-> thin[d].code] :
                            d \in Dir}} = Arch
<1> DEFINE slice(d) == [arch |-> thin[d].host, code |-> thin[d].code]
<1>1. \A d \in Dir : slice(d).arch = thin[d].host
  OBVIOUS
<1> HIDE DEF slice
<1>2. {s.arch : s \in {slice(d) : d \in Dir}} = Arch
  BY <1>1
<1> QED
  BY <1>2 DEF slice

\* Every step of the pipeline keeps the application complete.
LEMMA UniversalStep == UniversalInv /\ [Next]_vars => UniversalInv'
<1> SUFFICES ASSUME UniversalInv, [Next]_vars  PROVE  UniversalInv'
  OBVIOUS
<1>0. UNCHANGED universalVars => UniversalInv'
  BY DEF universalVars, UniversalInv, Complete, IsApplication
<1>1. CASE StartAssembly
  BY <1>1 DEF StartAssembly, U!Begin, UniversalInv, Complete, IsApplication
<1>2. ASSUME NEW d \in Dir, LoadThinBundle(d)  PROVE UniversalInv'
  BY <1>0, <1>2 DEF LoadThinBundle
<1>3. CASE MatchBundles
  BY <1>3 DEF MatchBundles, U!Proceed, UniversalInv, Complete, IsApplication
<1>4. CASE MergeCode
  <2> DEFINE merged == {[arch |-> thin[d].host, code |-> thin[d].code] :
                          d \in Dir}
  <2>1. {s.arch : s \in merged} = Arch
    BY <1>4, MergedSlices DEF MergeCode
  <2>2. uStaging' = [slices |-> merged, resources |-> Absent,
                     evidence |-> NoEvidence, clean |-> TRUE]
    BY <1>4 DEF MergeCode, U!Fill
  <2> HIDE DEF merged
  <2>3. Complete(uStaging)'
    BY <2>1, <2>2 DEF Complete, IsApplication
  <2>4. uPhase' = "copy" /\ UNCHANGED <<universal, uBackup>>
    BY <1>4 DEF MergeCode, U!Fill
  <2> QED
    BY <2>3, <2>4 DEF UniversalInv, Complete, IsApplication
<1>5. CASE CopyResources
  <2>1. PICK r : uStaging' = [uStaging EXCEPT !.resources = r]
    BY <1>5 DEF CopyResources, U!Fill
  <2>2. uPhase = "copy" /\ uPhase' = "seal" /\ UNCHANGED <<universal, uBackup>>
    BY <1>5 DEF CopyResources, U!Fill
  <2>3. Complete(uStaging)'
    BY <2>1, <2>2 DEF UniversalInv, Complete, IsApplication
  <2> QED
    BY <2>2, <2>3 DEF UniversalInv, Complete, IsApplication
<1>6. CASE Seal
  <2>1. PICK e : uStaging' = [uStaging EXCEPT !.evidence = e, !.clean = uClean]
    BY <1>6 DEF Seal, U!Fill
  <2>2. uPhase = "seal" /\ uPhase' = "publish"
           /\ UNCHANGED <<universal, uBackup>>
    BY <1>6 DEF Seal, U!Fill
  <2>3. Complete(uStaging)'
    BY <2>1, <2>2 DEF UniversalInv, Complete, IsApplication
  <2> QED
    BY <2>2, <2>3 DEF UniversalInv, Complete, IsApplication
<1>7. CASE EndAssembly
  BY <1>7 DEF EndAssembly, U!End, U!Publish, U!Place, U!MoveAside,
     U!PutInPlace, U!PutBack, U!Tidy, U!Fail, U!Cleanup, U!Die, UniversalInv,
     Complete, IsApplication
<1>8. CASE Build \/ Distribute \/ UNCHANGED vars
  BY <1>0, <1>8 DEF Build, Distribute, assemblerVars, vars
<1> QED
  BY <1>1, <1>2, <1>3, <1>4, <1>5, <1>6, <1>7, <1>8
     DEF Next, Assemble, AssemblerNext

\* Every step of the pipeline keeps the distribution notarized and complete.
LEMMA ReleaseStep == UniversalInv /\ ReleaseInv /\ [Next]_vars => ReleaseInv'
<1> SUFFICES ASSUME UniversalInv, ReleaseInv, [Next]_vars  PROVE  ReleaseInv'
  OBVIOUS
<1> USE DEF AfterCopy
<1>0. UNCHANGED releaseVars => ReleaseInv'
  BY DEF releaseVars, ReleaseInv, Complete, IsApplication, IsDistribution,
         Notarized
<1>1. CASE StartPublication
  BY <1>1 DEF StartPublication, D!Begin, ReleaseInv, Complete, IsApplication,
     IsDistribution, Notarized
<1>2. CASE LoadSource \/ Preflight
  BY <1>2 DEF LoadSource, Preflight, D!Proceed, D!Stop, ReleaseInv, Complete,
     IsApplication, IsDistribution, Notarized
<1>3. CASE CopyCode
  <2> DEFINE copied == [universal EXCEPT !.resources = Absent,
                                         !.evidence = NoEvidence]
  <2>1. Complete(copied)
    <3>1. Complete(universal)
      BY <1>3 DEF CopyCode, UniversalInv
    <3>2. PICK c : c = [universal EXCEPT !.resources = Absent,
                                         !.evidence = NoEvidence]
      OBVIOUS
    <3>3. c = [slices |-> universal.slices, resources |-> Absent,
               evidence |-> NoEvidence, clean |-> universal.clean]
      BY <3>1, <3>2 DEF Complete, IsApplication
    <3> QED
      BY <3>1, <3>2, <3>3 DEF Complete, IsApplication
  <2>2. dStaging' = [app |-> copied, developerId |-> FALSE, stapled |-> FALSE,
                     archive |-> "none", source |-> NoEvidence,
                     clean |-> TRUE]
    BY <1>3 DEF CopyCode, D!Fill
  <2> HIDE DEF copied
  <2>3. IsDistribution(dStaging)' /\ Complete(dStaging.app)'
    BY <2>1, <2>2 DEF IsDistribution, Complete, IsApplication
  <2>4. dPhase' = "copyRest" /\ UNCHANGED <<release, dBackup>>
    BY <1>3 DEF CopyCode, D!Fill
  <2> QED
    BY <2>3, <2>4 DEF ReleaseInv, Complete, IsApplication, Notarized
<1>4. CASE CopyRest
  <2>1. dPhase = "copyRest" /\ dPhase' = "sign"
           /\ UNCHANGED <<release, dBackup>>
    BY <1>4 DEF CopyRest, D!Fill
  <2>2. dStaging' = [dStaging EXCEPT !.app.resources = universal.resources,
                                     !.app.evidence = universal.evidence]
    BY <1>4 DEF CopyRest, D!Fill
  <2>3. IsDistribution(dStaging) /\ Complete(dStaging.app)
    BY <2>1 DEF ReleaseInv
  <2>4. Complete(dStaging.app)'
    BY <2>2, <2>3 DEF IsDistribution, Complete, IsApplication
  <2>5. IsDistribution(dStaging)'
    BY <2>2, <2>3 DEF IsDistribution, Complete, IsApplication
  <2> QED
    BY <2>1, <2>4, <2>5 DEF ReleaseInv, Complete, IsApplication, Notarized
<1>5. CASE Sign
  <2>1. dPhase = "sign" /\ dPhase' = "submit" /\ UNCHANGED <<release, dBackup>>
    BY <1>5 DEF Sign, D!Fill
  <2>2. dStaging' = [dStaging EXCEPT !.developerId = TRUE]
    BY <1>5 DEF Sign, D!Fill
  <2>3. IsDistribution(dStaging)' /\ Complete(dStaging.app)'
           /\ dStaging'.developerId
    BY <2>1, <2>2 DEF ReleaseInv, IsDistribution, Complete, IsApplication
  <2> QED
    BY <2>1, <2>3 DEF ReleaseInv, Complete, IsApplication, Notarized
<1>6. CASE Submit \/ WaitForAcceptance
  BY <1>6 DEF Submit, WaitForAcceptance, D!Proceed, ReleaseInv, Complete,
     IsApplication, IsDistribution, Notarized
<1>7. CASE NotaryDecides
  BY <1>0, <1>7 DEF NotaryDecides
<1>8. CASE Staple
  <2>1. dPhase = "staple" /\ dPhase' = "evidence"
           /\ UNCHANGED <<release, dBackup>>
    BY <1>8 DEF Staple, D!Fill
  <2>2. dStaging' = [dStaging EXCEPT !.stapled = TRUE]
    BY <1>8 DEF Staple, D!Fill
  <2>3. /\ IsDistribution(dStaging)' /\ Complete(dStaging.app)'
        /\ dStaging'.stapled /\ dStaging'.developerId
    BY <2>1, <2>2 DEF ReleaseInv, IsDistribution, Complete, IsApplication
  <2> QED
    BY <2>1, <2>3 DEF ReleaseInv, Complete, IsApplication, Notarized
<1>9. CASE WriteEvidence
  <2>1. dPhase = "evidence" /\ dPhase' = "publish"
           /\ UNCHANGED <<release, dBackup>>
    BY <1>9 DEF WriteEvidence, D!Fill
  <2>2. dStaging.stapled
    BY <2>1 DEF ReleaseInv
  <2>3. dStaging' = [dStaging EXCEPT !.archive = "stapled", !.source = source,
                                     !.clean = dClean]
    BY <1>9, <2>2 DEF WriteEvidence, D!Fill
  <2>4. /\ IsDistribution(dStaging)' /\ Complete(dStaging.app)'
        /\ Notarized(dStaging)'
    BY <2>1, <2>3 DEF ReleaseInv, IsDistribution, Complete, IsApplication,
       Notarized
  <2> QED
    BY <2>1, <2>4 DEF ReleaseInv, Complete, IsApplication, Notarized
<1>10. CASE EndPublication
  BY <1>10 DEF EndPublication, D!End, D!Publish, D!Place, D!MoveAside,
     D!PutInPlace, D!PutBack, D!Tidy, D!Fail, D!Cleanup, D!Die, ReleaseInv,
     Complete, IsApplication, IsDistribution, Notarized
<1>11. CASE Build \/ Assemble \/ UNCHANGED vars
  BY <1>0, <1>11 DEF Build, Assemble, publisherVars, vars
<1> QED
  BY <1>1, <1>2, <1>3, <1>4, <1>5, <1>6, <1>7, <1>8, <1>9, <1>10, <1>11
     DEF Next, Distribute, PublisherNext

-----------------------------------------------------------------------------
LEMMA ContentInvariant == Spec => [](UniversalInv /\ ReleaseInv)
BY ContentInit, UniversalStep, ReleaseStep, PTL DEF Spec

\* Whatever was left behind by stale hosts, failed builds and interrupted
\* runs, what is published holds one slice of each architecture.
THEOREM PublishesBothArchitectures == Spec => []BothArchitectures
<1>1. UniversalInv /\ ReleaseInv => BothArchitectures
  BY DEF UniversalInv, ReleaseInv, Complete, BothArchitectures
<1> QED
  BY <1>1, ContentInvariant, PTL

\* Only a signed, stapled distribution whose archive was made after stapling
\* is ever published.
THEOREM PublishesNotarized == Spec => []ReleasedIsNotarized
<1>1. ReleaseInv => ReleasedIsNotarized
  BY DEF ReleaseInv, Notarized, ReleasedIsNotarized
<1> QED
  BY <1>1, ContentInvariant, PTL

-----------------------------------------------------------------------------
(* Evidence.                                                               *)

\* Until its inputs change, what the assembler holds is what is on disk.
InputsOK ==
  /\ inputs = [d \in Dir |-> inputs[d]]
  /\ uPhase = "idle" => inputs = Unloaded
  /\ \A d \in Dir : inputs[d] # Absent =>
       /\ inputs[d].host = inputs[d].arch
       /\ uClean /\ AssemblerReads => thin[d] = inputs[d]
  /\ uPhase \in {"merge", "copy", "seal"} =>
       Loaded /\ {inputs[d].arch : d \in Dir} = Arch
  /\ uClean /\ uPhase \in {"merge", "copy"} =>
       \A d \in Dir : thin[d].resources = neutral

LoadedSlices == {[arch |-> inputs[d].arch, code |-> inputs[d].code] : d \in Dir}

\* What it has staged so far is made from what it holds.
StagedOK ==
  /\ uClean /\ uPhase \in {"copy", "seal"} => uStaging.slices = LoadedSlices
  /\ uClean /\ uPhase = "seal" => uStaging.resources = neutral

Evidenced(app) ==
  app.clean => CodeAsEvidenced(app) /\ ResourcesAsEvidenced(app)

EvidencedOK ==
  /\ uPhase \in {"publish", "swap"} => Evidenced(uStaging)
  /\ uPhase = "swap" /\ uBackup # Absent => Evidenced(uBackup)
  /\ universal # Absent => Evidenced(universal)

AssemblyInv == InputsOK /\ StagedOK /\ EvidencedOK

SourceKept(c) ==
  c.clean => c.source = c.app.evidence /\ ResourcesAsEvidenced(c.app)

\* The publisher validates its source before it copies it.
PublicationInv ==
  /\ dClean /\ dPhase \in {"copyCode", "copyRest"} =>
       source = universal.evidence /\ ResourcesAsEvidenced(universal)
  /\ dClean /\ dPhase \in {"sign", "submit", "wait", "staple", "evidence"} =>
       dStaging.app.evidence = source /\ ResourcesAsEvidenced(dStaging.app)
  /\ dPhase \in {"publish", "swap"} => SourceKept(dStaging)
  /\ dPhase = "swap" /\ dBackup # Absent => SourceKept(dBackup)
  /\ release # Absent => SourceKept(release)

LEMMA ReleasedIsEvidenced ==
  Evidenced(ReleasedApplication) /\ SourceKept(ReleasedDistribution)
<1>1. ReleasedApplication.evidence =
        [thin |-> [a \in Arch |-> "released"], resources |-> "released"]
  BY DEF ReleasedApplication
<1>2. ResourcesAsEvidenced(ReleasedApplication)
  BY <1>1 DEF ReleasedApplication, ResourcesAsEvidenced
<1>3. CodeAsEvidenced(ReleasedApplication)
  <2>1. \A a \in Arch : ReleasedApplication.evidence.thin[a] = "released"
    BY <1>1
  <2>2. ReleasedApplication.slices
          = {[arch |-> a, code |-> "released"] : a \in Arch}
    BY DEF ReleasedApplication
  <2>3. QED
    BY <2>1, <2>2 DEF CodeAsEvidenced
<1>4. QED
  BY <1>2, <1>3 DEF Evidenced, SourceKept, ReleasedDistribution

LEMMA EvidenceInit == Init => AssemblyInv /\ PublicationInv
<1> SUFFICES ASSUME Init  PROVE  AssemblyInv /\ PublicationInv
  OBVIOUS
<1>1. uPhase = "idle" /\ dPhase = "idle" /\ inputs = Unloaded
  BY DEF Init, AssemblerInit, PublisherInit, U!OutputInit, D!OutputInit
<1>2. InputsOK
  BY <1>1 DEF InputsOK, Unloaded
<1>3. universal # Absent => Evidenced(universal)
  BY ReleasedIsEvidenced DEF Init, AssemblerInit
<1>4. release # Absent => SourceKept(release)
  BY ReleasedIsEvidenced DEF Init, PublisherInit
<1>5. QED
  BY <1>1, <1>2, <1>3, <1>4
  DEF AssemblyInv, StagedOK, EvidencedOK, PublicationInv

\* With two inputs of two architectures, an architecture names its input.
LEMMA LoadedCode ==
  ASSUME {inputs[d].arch : d \in Dir} = Arch, NEW d \in Dir
  PROVE  LoadedRevision(inputs[d].arch) = inputs[d].code
<1>1. PICK e \in Dir : Dir = {d, e}
  BY AssemblerAssumption
<1>2. inputs[e].arch = inputs[d].arch => e = d
  BY <1>1 DEF Arch
<1> DEFINE b == CHOOSE c \in {inputs[x] : x \in Dir} : c.arch = inputs[d].arch
<1>3. b \in {inputs[x] : x \in Dir} /\ b.arch = inputs[d].arch
  OBVIOUS
<1> HIDE DEF b
<1>4. b = inputs[d]
  BY <1>1, <1>2, <1>3
<1>5. QED
  BY <1>4 DEF b, LoadedRevision

-----------------------------------------------------------------------------
LEMMA InputsStep == InputsOK /\ [Next]_vars => InputsOK'
<1> SUFFICES ASSUME InputsOK, [Next]_vars  PROVE  InputsOK'
  OBVIOUS
<1>1. CASE Build
  <2>1. /\ UNCHANGED <<inputs, neutral, uPhase>>
        /\ uClean' => uClean
        /\ uClean' /\ AssemblerReads => thin' = thin
    BY <1>1 DEF Build, universalVars
  <2>2. QED
    BY <2>1 DEF InputsOK, Unloaded, Loaded, AssemblerReads
<1>2. CASE Assemble
  <2>1. thin' = thin /\ AssemblerNext
    BY <1>2 DEF Assemble, builderVars
  <2>2. CASE StartAssembly
    BY <2>1, <2>2
    DEF StartAssembly, U!Begin, InputsOK, Unloaded, Loaded, AssemblerReads
  <2>3. ASSUME NEW d \in Dir, LoadThinBundle(d)  PROVE InputsOK'
    <3>1. /\ uPhase = "load" /\ uPhase' = "load" /\ uClean' = uClean
          /\ inputs' = [inputs EXCEPT ![d] = thin[d]]
          /\ thin[d].host = thin[d].arch
      BY <2>3 DEF LoadThinBundle, Loadable, universalVars
    <3>2. /\ inputs' = [e \in Dir |-> inputs'[e]]
          /\ \A e \in Dir : inputs'[e] = IF e = d THEN thin[d] ELSE inputs[e]
      BY <3>1 DEF InputsOK
    <3>3. QED
      BY <2>1, <3>1, <3>2 DEF InputsOK, AssemblerReads
  <2>4. CASE MatchBundles
    BY <2>1, <2>4
    DEF MatchBundles, U!Proceed, InputsOK, Loaded, AssemblerReads
  <2>5. CASE MergeCode
    BY <2>1, <2>5 DEF MergeCode, U!Fill, InputsOK, Loaded, AssemblerReads
  <2>6. CASE CopyResources
    BY <2>1, <2>6 DEF CopyResources, U!Fill, InputsOK, Loaded, AssemblerReads
  <2>7. CASE Seal
    BY <2>1, <2>7 DEF Seal, U!Fill, InputsOK, Loaded, AssemblerReads
  <2>8. CASE EndAssembly
    <3>1. inputs' = Unloaded /\ uPhase' \notin {"merge", "copy", "seal"}
      BY <2>8
      DEF EndAssembly, U!End, U!Publish, U!Place, U!MoveAside, U!PutInPlace,
          U!PutBack, U!Tidy, U!Fail, U!Cleanup, U!Die
    <3>2. QED
      BY <3>1 DEF InputsOK, Unloaded
  <2>9. QED
    BY <2>1, <2>2, <2>3, <2>4, <2>5, <2>6, <2>7, <2>8 DEF AssemblerNext
<1>3. CASE Distribute \/ UNCHANGED vars
  <2>1. UNCHANGED <<thin, inputs, neutral, uClean, uPhase>>
    BY <1>3
    DEF Distribute, vars, builderVars, assemblerVars, universalVars
  <2>2. QED
    BY <2>1 DEF InputsOK, Unloaded, Loaded, AssemblerReads
<1>4. QED
  BY <1>1, <1>2, <1>3 DEF Next

LEMMA StagedStep ==
  UniversalInv /\ InputsOK /\ StagedOK /\ [Next]_vars => StagedOK'
<1> SUFFICES ASSUME UniversalInv, InputsOK, StagedOK, [Next]_vars
             PROVE  StagedOK'
  OBVIOUS
<1>1. CASE Build \/ Distribute \/ UNCHANGED vars
  <2>1. UNCHANGED <<inputs, neutral, uStaging, uPhase>>
    BY <1>1 DEF Build, Distribute, vars, assemblerVars, universalVars
  <2>2. Build => (uClean' => uClean)
    BY DEF Build
  <2>3. Distribute \/ UNCHANGED vars => uClean' = uClean
    BY DEF Distribute, vars, assemblerVars
  <2>4. QED
    BY <1>1, <2>1, <2>2, <2>3 DEF StagedOK, LoadedSlices
<1>2. CASE StartAssembly \/ MatchBundles
  BY <1>2 DEF StartAssembly, MatchBundles, U!Begin, U!Proceed, StagedOK
<1>3. ASSUME NEW d \in Dir, LoadThinBundle(d)  PROVE StagedOK'
  BY <1>3 DEF LoadThinBundle, StagedOK, universalVars
<1>4. CASE MergeCode
  <2>1. /\ uPhase = "merge" /\ uPhase' = "copy" /\ UNCHANGED <<inputs, uClean>>
        /\ uStaging'.slices =
             {[arch |-> thin[d].host, code |-> thin[d].code] : d \in Dir}
    BY <1>4 DEF MergeCode, U!Fill
  <2>2. ASSUME uClean, NEW d \in Dir
        PROVE  thin[d].host = inputs[d].arch /\ thin[d].code = inputs[d].code
    BY <2>1, <2>2 DEF InputsOK, Loaded, AssemblerReads
  <2>3. uClean => uStaging'.slices = LoadedSlices
    BY <2>1, <2>2 DEF LoadedSlices
  <2>4. QED
    BY <2>1, <2>3 DEF StagedOK, LoadedSlices
<1>5. CASE CopyResources
  <2>1. PICK d \in Dir :
             uStaging' = [uStaging EXCEPT !.resources = thin[d].resources]
    BY <1>5 DEF CopyResources, U!Fill
  <2>2. /\ uPhase = "copy" /\ uPhase' = "seal"
        /\ UNCHANGED <<inputs, neutral, uClean>>
    BY <1>5 DEF CopyResources, U!Fill
  <2>3. IsApplication(uStaging)
    BY <2>2 DEF UniversalInv, Complete
  <2>4. /\ uStaging'.slices = uStaging.slices
        /\ uStaging'.resources = thin[d].resources
    BY <2>1, <2>3 DEF IsApplication
  <2>5. uClean => thin[d].resources = neutral
    BY <2>2 DEF InputsOK
  <2>6. QED
    BY <2>2, <2>4, <2>5 DEF StagedOK, LoadedSlices
<1>6. CASE Seal
  BY <1>6 DEF Seal, U!Fill, StagedOK
<1>7. CASE EndAssembly
  <2>1. uPhase' \notin {"copy", "seal"}
    BY <1>7
    DEF EndAssembly, U!End, U!Publish, U!Place, U!MoveAside, U!PutInPlace,
        U!PutBack, U!Tidy, U!Fail, U!Cleanup, U!Die
  <2>2. QED
    BY <2>1 DEF StagedOK
<1>8. QED
  BY <1>1, <1>2, <1>3, <1>4, <1>5, <1>6, <1>7
  DEF Next, Assemble, AssemblerNext

LEMMA EvidencedStep ==
  UniversalInv /\ AssemblyInv /\ [Next]_vars => EvidencedOK'
<1> SUFFICES ASSUME UniversalInv, AssemblyInv, [Next]_vars
             PROVE  EvidencedOK'
  OBVIOUS
<1> USE DEF AssemblyInv
<1> DEFINE Same(app) == app' = app => Evidenced(app)' = Evidenced(app)
<1>0. Same(uStaging) /\ Same(uBackup) /\ Same(universal)
  BY DEF Evidenced, CodeAsEvidenced, ResourcesAsEvidenced
<1>1. CASE Build \/ Distribute \/ UNCHANGED vars
  <2>1. UNCHANGED <<universal, uStaging, uBackup, uPhase>>
    BY <1>1 DEF Build, Distribute, vars, assemblerVars, universalVars
  <2>2. QED
    BY <1>0, <2>1 DEF EvidencedOK
<1>2. CASE \/ StartAssembly \/ MatchBundles \/ MergeCode \/ CopyResources
           \/ \E d \in Dir : LoadThinBundle(d)
  <2>1. universal' = universal /\ uPhase' \notin {"publish", "swap"}
    BY <1>2
    DEF StartAssembly, MatchBundles, MergeCode, CopyResources, LoadThinBundle,
        U!Begin, U!Proceed, U!Fill, universalVars
  <2>2. QED
    BY <1>0, <2>1 DEF EvidencedOK
<1>3. CASE Seal
  <2> DEFINE evidence == [thin |-> [a \in Arch |-> LoadedRevision(a)],
                          resources |-> neutral]
  <2>1. /\ uPhase = "seal" /\ uPhase' = "publish" /\ universal' = universal
        /\ uStaging' = [uStaging EXCEPT !.evidence = evidence,
                                        !.clean = uClean]
    BY <1>3 DEF Seal, U!Fill
  <2>2. /\ evidence.resources = neutral
        /\ \A a \in Arch : evidence.thin[a] = LoadedRevision(a)
    OBVIOUS
  <2> HIDE DEF evidence
  <2>3. /\ uStaging'.slices = uStaging.slices
        /\ uStaging'.resources = uStaging.resources
        /\ uStaging'.evidence = evidence
        /\ uStaging'.clean = uClean
    BY <2>1 DEF UniversalInv, Complete, IsApplication
  <2>4. uClean => ResourcesAsEvidenced(uStaging)'
    BY <2>1, <2>2, <2>3 DEF StagedOK, ResourcesAsEvidenced
  <2>5. uClean => CodeAsEvidenced(uStaging)'
    <3>1. {inputs[d].arch : d \in Dir} = Arch
      BY <2>1 DEF InputsOK
    <3>2. \A d \in Dir : LoadedRevision(inputs[d].arch) = inputs[d].code
      BY <3>1, LoadedCode
    <3>3. LoadedSlices
            = {[arch |-> a, code |-> evidence.thin[a]] : a \in Arch}
      BY <2>2, <3>1, <3>2 DEF LoadedSlices
    <3>4. QED
      BY <2>1, <2>3, <3>3 DEF StagedOK, CodeAsEvidenced
  <2>6. Evidenced(uStaging)'
    BY <2>3, <2>4, <2>5 DEF Evidenced
  <2>7. QED
    BY <1>0, <2>1, <2>6 DEF EvidencedOK
<1>4. CASE EndAssembly
  BY <1>4
  DEF EndAssembly, U!End, U!Publish, U!Place, U!MoveAside, U!PutInPlace,
      U!PutBack, U!Tidy, U!Fail, U!Cleanup, U!Die, EvidencedOK, Evidenced,
      CodeAsEvidenced, ResourcesAsEvidenced
<1>5. QED
  BY <1>1, <1>2, <1>3, <1>4 DEF Next, Assemble, AssemblerNext

LEMMA PublicationStep ==
  UniversalInv /\ ReleaseInv /\ PublicationInv /\ [Next]_vars
    => PublicationInv'
<1> SUFFICES ASSUME UniversalInv, ReleaseInv, PublicationInv, [Next]_vars
             PROVE  PublicationInv'
  OBVIOUS
<1> USE DEF ResourcesAsEvidenced
<1>1. CASE Build \/ UNCHANGED vars
  <2>1. UNCHANGED <<universal, release, dStaging, dBackup, dPhase, source,
                    dClean>>
    BY <1>1
    DEF Build, vars, universalVars, assemblerVars, publisherVars, releaseVars
  <2>2. QED
    BY <2>1 DEF PublicationInv, SourceKept
<1>2. CASE Assemble
  <2>1. /\ UNCHANGED <<release, dStaging, dBackup, dPhase, source>>
        /\ dClean' => dClean
        /\ dClean' /\ PublisherReads => universal' = universal
    BY <1>2 DEF Assemble, releaseVars
  <2>2. QED
    BY <2>1 DEF PublicationInv, SourceKept, PublisherReads
<1>3. CASE Distribute
  <2>1. universal' = universal /\ PublisherNext
    BY <1>3 DEF Distribute, assemblerVars, universalVars
  <2>2. CASE StartPublication
    BY <2>2 DEF StartPublication, D!Begin, PublicationInv, SourceKept
  <2>3. CASE LoadSource
    BY <2>1, <2>3 DEF LoadSource, D!Proceed, PublicationInv, SourceKept
  <2>4. CASE Preflight
    BY <2>4 DEF Preflight, D!Stop, PublicationInv, SourceKept
  <2>5. CASE CopyCode
    <3>1. /\ dPhase = "copyCode" /\ dPhase' = "copyRest"
          /\ UNCHANGED <<release, dBackup, source, dClean>>
      BY <2>5 DEF CopyCode, D!Fill
    <3>2. QED
      BY <2>1, <3>1 DEF PublicationInv, SourceKept
  <2>6. CASE CopyRest
    <3>1. /\ dPhase = "copyRest" /\ dPhase' = "sign"
          /\ UNCHANGED <<release, dBackup, source, dClean>>
          /\ dStaging' = [dStaging EXCEPT
                            !.app.resources = universal.resources,
                            !.app.evidence = universal.evidence]
      BY <2>6 DEF CopyRest, D!Fill
    <3>2. /\ dStaging'.app.resources = universal.resources
          /\ dStaging'.app.evidence = universal.evidence
      BY <3>1 DEF ReleaseInv, AfterCopy, IsDistribution, Complete,
         IsApplication
    <3>3. QED
      BY <3>1, <3>2 DEF PublicationInv, SourceKept
  <2>7. CASE Sign \/ Staple
    <3>1. /\ dPhase \in {"sign", "staple"} /\ dPhase' \in {"submit", "evidence"}
          /\ UNCHANGED <<release, dBackup, source, dClean>>
          /\ \/ dStaging' = [dStaging EXCEPT !.developerId = TRUE]
             \/ dStaging' = [dStaging EXCEPT !.stapled = TRUE]
      BY <2>7 DEF Sign, Staple, D!Fill
    <3>2. dStaging'.app = dStaging.app
      BY <3>1 DEF ReleaseInv, AfterCopy, IsDistribution
    <3>3. QED
      BY <3>1, <3>2 DEF PublicationInv, SourceKept
  <2>8. CASE Submit \/ WaitForAcceptance
    BY <2>8
    DEF Submit, WaitForAcceptance, D!Proceed, PublicationInv, SourceKept
  <2>9. CASE NotaryDecides
    BY <2>1, <2>9
    DEF NotaryDecides, releaseVars, PublicationInv, SourceKept
  <2>10. CASE WriteEvidence
    <3>1. PICK a :
            dStaging' = [dStaging EXCEPT !.archive = a, !.source = source,
                                         !.clean = dClean]
      BY <2>10 DEF WriteEvidence, D!Fill
    <3>2. /\ dPhase = "evidence" /\ dPhase' = "publish"
          /\ UNCHANGED <<release, dBackup>>
      BY <2>10 DEF WriteEvidence, D!Fill
    <3>3. /\ dStaging'.app = dStaging.app /\ dStaging'.source = source
          /\ dStaging'.clean = dClean
      BY <3>1, <3>2 DEF ReleaseInv, AfterCopy, IsDistribution
    <3>4. SourceKept(dStaging)'
      BY <3>2, <3>3 DEF PublicationInv, SourceKept
    <3>5. QED
      BY <3>2, <3>4 DEF PublicationInv, SourceKept
  <2>11. CASE EndPublication
    BY <2>11
    DEF EndPublication, D!End, D!Publish, D!Place, D!MoveAside, D!PutInPlace,
        D!PutBack, D!Tidy, D!Fail, D!Cleanup, D!Die, PublicationInv, SourceKept
  <2>12. QED
    BY <2>1, <2>2, <2>3, <2>4, <2>5, <2>6, <2>7, <2>8, <2>9, <2>10, <2>11
    DEF PublisherNext
<1>4. QED
  BY <1>1, <1>2, <1>3 DEF Next

\* Whatever was read twice and whatever changed in between: an application
\* assembled from unchanged inputs is what its build manifest says, and a
\* distribution holds the resources its evidence names.
THEOREM PublishesWhatIsEvidenced == Spec => []EvidenceHolds
<1>1. Init => UniversalInv /\ ReleaseInv /\ AssemblyInv /\ PublicationInv
  BY ContentInit, EvidenceInit
<1>2. UniversalInv /\ ReleaseInv /\ AssemblyInv /\ PublicationInv
        /\ [Next]_vars
      => (UniversalInv /\ ReleaseInv /\ AssemblyInv /\ PublicationInv)'
  BY UniversalStep, ReleaseStep, InputsStep, StagedStep, EvidencedStep,
     PublicationStep
  DEF AssemblyInv
<1>3. AssemblyInv /\ PublicationInv => EvidenceHolds
  BY DEF AssemblyInv, EvidencedOK, Evidenced, PublicationInv, SourceKept,
     EvidenceHolds
<1>4. QED
  BY <1>1, <1>2, <1>3, PTL DEF Spec
=============================================================================
