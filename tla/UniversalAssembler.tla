-------------------------- MODULE UniversalAssembler --------------------------
(***************************************************************************)
(* dart_macos_runtime:universal (universal_assembler.dart): two thin       *)
(* bundles become one Universal application.  The inputs are loaded and    *)
(* validated first and read again when their code is merged and their      *)
(* resources copied; the result records what it was made from.             *)
(***************************************************************************)
EXTENDS BundleBuilder

CONSTANT MaxAssemblies   \* bound on assembler runs

\* The inputs are the bundles of two directories, in either order.
ASSUME AssemblerAssumption ==
  /\ \E d, e \in Dir : d # e /\ Dir = {d, e}
  /\ MaxAssemblies \in Nat

NoEvidence == Absent

\* An application has slices of code, neutral resources and its evidence, the
\* build manifest: thinManifests, hashes that stand for the builds they
\* describe, and the hashes of the resource files.
VARIABLES
  universal,      \* the output application
  uStaging, uBackup, uPhase, uFound, uLast, uOutcome,
  inputs,         \* the thin bundles as loaded
  neutral,        \* resource evidence of _validateInventories
  assemblies,     \* assembler runs so far
  uClean          \* history: no input has changed under the run

universalVars ==
  <<universal, uStaging, uBackup, uPhase, uFound, uLast, uOutcome>>
assemblerVars == <<universalVars, inputs, neutral, assemblies, uClean>>

U == INSTANCE StagedOutput
       WITH Working <- {"load", "merge", "copy", "seal"},
            output <- universal, staging <- uStaging, backup <- uBackup,
            phase <- uPhase, found <- uFound, last <- uLast,
            outcome <- uOutcome

Unloaded == [d \in Dir |-> Absent]

ReleasedApplication ==
  [slices |-> {[arch |-> a, code |-> "released"] : a \in Arch},
   resources |-> "released",
   evidence |-> [thin |-> [a \in Arch |-> "released"],
                 resources |-> "released"],
   clean |-> TRUE]

AssemblerInit ==
  /\ universal \in {ReleasedApplication, Absent}
  /\ U!OutputInit
  /\ inputs = Unloaded
  /\ neutral = Absent
  /\ assemblies = 0
  /\ uClean = TRUE

-----------------------------------------------------------------------------
StartAssembly ==
  /\ assemblies < MaxAssemblies
  /\ U!Begin("load")
  /\ assemblies' = assemblies + 1
  /\ UNCHANGED <<inputs, neutral, uClean>>

\* _loadThinBundle: a signed bundle whose code is what its manifest says.
Loadable(b) == b # Absent /\ b.signed /\ b.host = b.arch

LoadThinBundle(d) ==
  /\ uPhase = "load"
  /\ inputs[d] = Absent
  /\ Loadable(thin[d])
  /\ inputs' = [inputs EXCEPT ![d] = thin[d]]
  /\ UNCHANGED <<universalVars, neutral, assemblies, uClean>>

Loaded == \A d \in Dir : inputs[d] # Absent

\* One bundle of each architecture, one contract, and neutral resources that
\* are equal byte for byte as they now are on disk.
MatchBundles ==
  /\ uPhase = "load"
  /\ Loaded
  /\ {inputs[d].arch : d \in Dir} = Arch
  /\ \E r \in Revision :
       /\ \A d \in Dir : thin[d] # Absent /\ thin[d].resources = r
       /\ neutral' = r
  /\ U!Proceed("merge")
  /\ UNCHANGED <<inputs, assemblies, uClean>>

\* Mutant: neither the result of lipo nor its exit code is looked at.
MergeCodeUnchecked ==
  /\ uPhase = "merge"
  /\ \A d \in Dir : thin[d] # Absent
  /\ U!Fill([slices |-> {[arch |-> thin[d].host, code |-> thin[d].code] :
                           d \in Dir},
             resources |-> Absent, evidence |-> NoEvidence, clean |-> TRUE],
            "copy")
  /\ UNCHANGED <<inputs, neutral, assemblies, uClean>>

\* lipo merges host with host and payload with payload, and refuses two
\* images of one architecture; the result must be exactly Arch.
MergeCode ==
  /\ uPhase = "merge"
  /\ \A d \in Dir : thin[d] # Absent
  /\ {thin[d].host : d \in Dir} = Arch
  /\ {thin[d].arch : d \in Dir} = Arch
  /\ U!Fill([slices |-> {[arch |-> thin[d].host, code |-> thin[d].code] :
                           d \in Dir},
             resources |-> Absent, evidence |-> NoEvidence, clean |-> TRUE],
            "copy")
  /\ UNCHANGED <<inputs, neutral, assemblies, uClean>>

\* The neutral files come from the bundle that was loaded as arm64.
CopyResources ==
  /\ uPhase = "copy"
  /\ \E d \in Dir :
       /\ inputs[d].arch = "arm64"
       /\ thin[d] # Absent
       /\ U!Fill([uStaging EXCEPT !.resources = thin[d].resources], "seal")
  /\ UNCHANGED <<inputs, neutral, assemblies, uClean>>

LoadedRevision(a) ==
  (CHOOSE b \in {inputs[d] : d \in Dir} : b.arch = a).code

\* The manifest is written, the bundle signed and the signature verified.
Seal ==
  /\ uPhase = "seal"
  /\ U!Fill([uStaging EXCEPT
               !.evidence = [thin |-> [a \in Arch |-> LoadedRevision(a)],
                             resources |-> neutral],
               !.clean = uClean],
            "publish")
  /\ UNCHANGED <<inputs, neutral, assemblies, uClean>>

\* What the process knew goes with it.
EndAssembly ==
  /\ U!End
  /\ inputs' = Unloaded
  /\ neutral' = Absent
  /\ uClean' = TRUE
  /\ UNCHANGED assemblies

AssemblerNext ==
  \/ StartAssembly
  \/ \E d \in Dir : LoadThinBundle(d)
  \/ MatchBundles
  \/ MergeCode
  \/ CopyResources
  \/ Seal
  \/ EndAssembly

\* The assembler reads its inputs from loading them to copying them.
AssemblerReads == uPhase \in {"load", "merge", "copy"}
=============================================================================
