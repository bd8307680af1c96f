------------------------- MODULE DistributionPublisher -------------------------
(***************************************************************************)
(* dart_macos_runtime:distribute (distribution_publisher.dart): a          *)
(* Universal application is validated, copied, signed with a Developer ID, *)
(* notarized, stapled, archived and published with its evidence.  Every    *)
(* external command may fail; the notary service decides in its own time.  *)
(***************************************************************************)
EXTENDS UniversalAssembler

CONSTANT MaxPublications   \* bound on publisher runs

ASSUME PublisherAssumption == MaxPublications \in Nat

\* A distribution has the application, its signature and ticket, the archive
\* and the manifest hash its evidence names.
VARIABLES
  release,        \* the output directory
  dStaging, dBackup, dPhase, dFound, dLast, dOutcome,
  source,         \* manifestHash of the validated source
  submitted,      \* the signed application sent to the notary
  verdict,        \* the notary's answer to it: accepted, invalid or none yet
  publications,   \* publisher runs so far
  dClean          \* history: the source has not changed under the run

releaseVars ==
  <<release, dStaging, dBackup, dPhase, dFound, dLast, dOutcome>>
notaryVars == <<submitted, verdict>>
publisherVars == <<releaseVars, source, notaryVars, publications, dClean>>

D == INSTANCE StagedOutput
       WITH Working <- {"load", "copyCode", "copyRest", "sign", "submit",
                        "wait", "staple", "evidence"},
            output <- release, staging <- dStaging, backup <- dBackup,
            phase <- dPhase, found <- dFound, last <- dLast,
            outcome <- dOutcome

ReleasedDistribution ==
  [app |-> ReleasedApplication, developerId |-> TRUE, stapled |-> TRUE,
   archive |-> "stapled", source |-> ReleasedApplication.evidence,
   clean |-> TRUE]

PublisherInit ==
  /\ release \in {ReleasedDistribution, Absent}
  /\ D!OutputInit
  /\ source = NoEvidence
  /\ submitted = Absent
  /\ verdict = "none"
  /\ publications = 0
  /\ dClean = TRUE

-----------------------------------------------------------------------------
StartPublication ==
  /\ publications < MaxPublications
  /\ D!Begin("load")
  /\ publications' = publications + 1
  /\ UNCHANGED <<source, notaryVars, dClean>>

\* Mutant: the resource bytes are not compared with their evidence.
LoadSourceUnhashed ==
  /\ dPhase = "load"
  /\ universal # Absent
  /\ {s.arch : s \in universal.slices} = Arch
  /\ source' = universal.evidence
  /\ D!Proceed("copyCode")
  /\ UNCHANGED <<notaryVars, publications, dClean>>

\* _loadSource: both architectures, resources equal to their evidence.
LoadSource ==
  /\ dPhase = "load"
  /\ universal # Absent
  /\ {s.arch : s \in universal.slices} = Arch
  /\ universal.resources = universal.evidence.resources
  /\ source' = universal.evidence
  /\ D!Proceed("copyCode")
  /\ UNCHANGED <<notaryVars, publications, dClean>>

\* --validate-only ends here, before anything is written.
Preflight ==
  /\ dPhase = "copyCode"
  /\ D!Stop
  /\ source' = NoEvidence
  /\ dClean' = TRUE
  /\ UNCHANGED <<notaryVars, publications>>

\* _copyBundle goes file by file: code and the rest may come from two
\* sources when the assembler publishes in between.
CopyCode ==
  /\ dPhase = "copyCode"
  /\ universal # Absent
  /\ D!Fill([app |-> [universal EXCEPT !.resources = Absent,
                                       !.evidence = NoEvidence],
             developerId |-> FALSE, stapled |-> FALSE, archive |-> "none",
             source |-> NoEvidence, clean |-> TRUE],
            "copyRest")
  /\ UNCHANGED <<source, notaryVars, publications, dClean>>

CopyRest ==
  /\ dPhase = "copyRest"
  /\ universal # Absent
  /\ D!Fill([dStaging EXCEPT !.app.resources = universal.resources,
                             !.app.evidence = universal.evidence],
            "sign")
  /\ UNCHANGED <<source, notaryVars, publications, dClean>>

\* _signAndVerify
Sign ==
  /\ dPhase = "sign"
  /\ D!Fill([dStaging EXCEPT !.developerId = TRUE], "submit")
  /\ UNCHANGED <<source, notaryVars, publications, dClean>>

\* _archive and _submit
Submit ==
  /\ dPhase = "submit"
  /\ submitted' = dStaging
  /\ D!Proceed("wait")
  /\ UNCHANGED <<source, verdict, publications, dClean>>

\* The notary service answers in its own time, or too late.
NotaryDecides ==
  /\ submitted # Absent
  /\ verdict = "none"
  /\ verdict' \in {"accepted", "invalid"}
  /\ UNCHANGED <<releaseVars, source, submitted, publications, dClean>>

\* _waitForAcceptance and _reviewNotaryLog; a timeout or another status is
\* an exception.
WaitForAcceptance ==
  /\ dPhase = "wait"
  /\ verdict = "accepted"
  /\ D!Proceed("staple")
  /\ UNCHANGED <<source, notaryVars, publications, dClean>>

\* stapler finds a ticket only for what the notary accepted; signature and
\* Gatekeeper are checked again.
Staple ==
  /\ dPhase = "staple"
  /\ verdict = "accepted" /\ dStaging = submitted
  /\ D!Fill([dStaging EXCEPT !.stapled = TRUE], "evidence")
  /\ UNCHANGED <<source, notaryVars, publications, dClean>>

\* Mutant: the archive made for the submission is published.
WriteEvidenceSubmitted ==
  /\ dPhase = "evidence"
  /\ D!Fill([dStaging EXCEPT !.archive = "unstapled", !.source = source,
                             !.clean = dClean],
            "publish")
  /\ UNCHANGED <<source, notaryVars, publications, dClean>>

\* The final archive, the hashes and distribution-manifest.json.
WriteEvidence ==
  /\ dPhase = "evidence"
  /\ D!Fill([dStaging EXCEPT
               !.archive = IF dStaging.stapled THEN "stapled" ELSE "unstapled",
               !.source = source,
               !.clean = dClean],
            "publish")
  /\ UNCHANGED <<source, notaryVars, publications, dClean>>

\* What the process knew goes with it; no one reads a late verdict.
EndPublication ==
  /\ D!End
  /\ source' = NoEvidence
  /\ submitted' = Absent
  /\ verdict' = "none"
  /\ dClean' = TRUE
  /\ UNCHANGED publications

PublisherNext ==
  \/ StartPublication
  \/ LoadSource
  \/ Preflight
  \/ CopyCode
  \/ CopyRest
  \/ Sign
  \/ Submit
  \/ NotaryDecides
  \/ WaitForAcceptance
  \/ Staple
  \/ WriteEvidence
  \/ EndPublication

\* The publisher reads its source from validating it to copying it.
PublisherReads == dPhase \in {"load", "copyCode", "copyRest"}
=============================================================================
