----------------------------- MODULE BundleBuilder -----------------------------
(***************************************************************************)
(* dart_macos_runtime:build (builder.dart): one thin Release AOT           *)
(* application per invocation.  The native host is made in the build       *)
(* directory, where the host of an earlier build may already be; then the  *)
(* old bundle is deleted and the new one assembled in its place, described *)
(* by a build manifest and signed.                                         *)
(*                                                                         *)
(* A bundle is abstracted to the architecture of its host, the one it was  *)
(* built for (of its payload, helpers, libraries and manifest), and the    *)
(* revision of the sources its code and its neutral resources come from.   *)
(* Developer JIT bundles never enter the pipeline: the assembler refuses   *)
(* their runtimeMode.                                                      *)
(***************************************************************************)
EXTENDS Naturals

CONSTANTS
  Dir,         \* build directories in use, one bundle path in each
  Absent,      \* nothing at a path
  MaxBuilds    \* bound on builds

ASSUME BuilderAssumption == MaxBuilds \in Nat

Arch == {"arm64", "x86_64"}

\* What was built before the pipeline is watched, and what is built now.
Revision == {"released", "edited"}

VARIABLES
  host,    \* BUILD_DIR/native/dart_macos_runtime_release of each directory
  thin,    \* the .app of each directory: host, arch, code, resources, signed
  build,   \* the build under way: its step, directory and target
  builds   \* builds so far

builderVars == <<host, thin, build, builds>>

NoBuild == [step |-> "idle", dir |-> Absent, target |-> Absent]

\* Either nothing was ever built or each directory holds a bundle of its own
\* architecture.
BuilderInit ==
  /\ \/ /\ host = [d \in Dir |-> Absent]
        /\ thin = [d \in Dir |-> Absent]
     \/ \E of \in [Dir -> Arch] :
          /\ \A a \in Arch : \E d \in Dir : of[d] = a
          /\ host = of
          /\ thin = [d \in Dir |->
                       [host |-> of[d], arch |-> of[d], code |-> "released",
                        resources |-> "released", signed |-> TRUE]]
  /\ build = NoBuild
  /\ builds = 0

-----------------------------------------------------------------------------
\* The checks of the options, the SDK and the Engine change nothing.
StartBuild(d, target) ==
  /\ build.step = "idle"
  /\ builds < MaxBuilds
  /\ build' = [step |-> "host", dir |-> d, target |-> target]
  /\ builds' = builds + 1
  /\ UNCHANGED <<host, thin>>

\* make -C ... runtime-aot-runner: the host depends on sources and libraries
\* and not on RUNTIME_TARGET_ARCH, so a host that is newer than those is left
\* as it is.
MakeHost ==
  /\ build.step = "host"
  /\ \E a \in {build.target, host[build.dir]} \ {Absent} :
       host' = [host EXCEPT ![build.dir] = a]
  /\ build' = [build EXCEPT !.step = "clear"]
  /\ UNCHANGED <<thin, builds>>

\* Payload, helpers and libraries have been compiled for the target;
\* _assembleBundle begins by deleting the old bundle.
ClearBundle ==
  /\ build.step = "clear"
  /\ thin' = [thin EXCEPT ![build.dir] = Absent]
  /\ build' = [build EXCEPT !.step = "assemble"]
  /\ UNCHANGED <<host, builds>>

\* Everything is copied into place and described; an edit of the code need
\* not touch the neutral resources.
AssembleBundle ==
  /\ build.step = "assemble"
  /\ \E r \in Revision :
       thin' = [thin EXCEPT ![build.dir] =
                  [host |-> host[build.dir], arch |-> build.target,
                   code |-> "edited", resources |-> r, signed |-> FALSE]]
  /\ build' = [build EXCEPT !.step = "sign"]
  /\ UNCHANGED <<host, builds>>

SignBundle ==
  /\ build.step = "sign"
  /\ thin' = [thin EXCEPT ![build.dir].signed = TRUE]
  /\ build' = NoBuild
  /\ UNCHANGED <<host, builds>>

\* A command fails, a file is missing or the process dies: nothing is undone.
BuildFails ==
  /\ build.step # "idle"
  /\ build' = NoBuild
  /\ UNCHANGED <<host, thin, builds>>

BuilderNext ==
  \/ \E d \in Dir, target \in Arch : StartBuild(d, target)
  \/ MakeHost
  \/ ClearBundle
  \/ AssembleBundle
  \/ SignBundle
  \/ BuildFails

-----------------------------------------------------------------------------
\* A signed bundle holds code of the architecture its manifest records ("a
\* foreign target is compiled ... using the matching Engine Product output,
\* native compiler target", packages/dart_macos_runtime/README.md).
BundleMatchesManifest ==
  \A d \in Dir :
    thin[d] # Absent /\ thin[d].signed => thin[d].host = thin[d].arch
=============================================================================
