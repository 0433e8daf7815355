----------------------------- MODULE BuildTool -----------------------------
(***************************************************************************)
(* veqri-build: the commands of one run, what each leaves in build/bin and *)
(* build/release when it succeeds, fails half way or is interrupted, and   *)
(* what the next run finds there.  go, npm, Gradle and the file system are *)
(* external.                                                               *)
(***************************************************************************)
EXTENDS Naturals, Sequences

CONSTANTS
    Identity,    \* build identities: "dev" and releases
    FilesOf,     \* the files of the desktop bundle of each identity
    MaxBuilds    \* bound: runs of the tool

ASSUME BuildAssumption == "dev" \in Identity /\ MaxBuilds \in Nat

Target == {"binaries", "desktop", "android", "all"}

VARIABLES
    binaries,     \* identity of veqri-core and veqri in build/bin
    bundle,       \* build/bin, the bundle npm leaves: <<file, identity>>
    staged,       \* build/release, the desktop bundle: <<file, identity>>
    apk,          \* build/release, the APK: none, part, whole
    manifest,     \* buildinfo.json: its identity, none or torn
    environment,  \* the identity exported to the commands
    build,        \* the run at work: target, identity, steps left
    last,         \* the run before: target, identity and whether it succeeded
    builds

buildVars == <<binaries, bundle, staged, apk, manifest, environment, build, last, builds>>

NoBuild == [target |-> "none", info |-> "none", steps |-> <<>>]

BuildInit ==
    /\ binaries = [b \in {"core", "cli"} |-> "none"]
    /\ bundle = {} /\ staged = {} /\ apk = "none" /\ manifest = "none"
    /\ environment = "none" /\ build = NoBuild
    /\ last = [target |-> "none", info |-> "none", ok |-> FALSE]
    /\ builds = 0

targetIncludes(target, component) == target = component \/ target = "all"

targetHasCanonicalBuildIdentity(target) ==
    targetIncludes(target, "binaries") \/ targetIncludes(target, "desktop")

BundleOf(info) == {<<f, info>> : f \in FilesOf[info]}

\* A release names its identity, nothing else does, and there is no release of
\* the Android application.
parseOptions(target, release, info) ==
    /\ release <=> info # "dev"
    /\ release => ~targetIncludes(target, "android")

If(condition, steps) == IF condition THEN steps ELSE <<>>

\* run: binaries, desktop, Android, and the manifest at the end.
BuildSteps(target) ==
    If(targetIncludes(target, "binaries"), <<"core", "cli">>)
    \o If(targetIncludes(target, "desktop"), <<"native", "clear", "copy">>)
    \o If(targetIncludes(target, "android"), <<"gradle", "copyApk">>)
    \o If(targetHasCanonicalBuildIdentity(target), <<"manifest">>)

buildStarts(target, release, info) ==
    /\ build = NoBuild /\ builds < MaxBuilds
    /\ parseOptions(target, release, info)
    /\ builds' = builds + 1
    /\ environment' = info
    /\ build' = [target |-> target, info |-> info, steps |-> BuildSteps(target)]
    /\ UNCHANGED <<binaries, bundle, staged, apk, manifest, last>>

\* The run returns and its environment is restored.
Finished(ok) ==
    /\ last' = [target |-> build.target, info |-> build.info, ok |-> ok]
    /\ build' = NoBuild
    /\ environment' = "none"

StepDone ==
    IF Len(build.steps) = 1 THEN Finished(TRUE)
    ELSE /\ build' = [build EXCEPT !.steps = Tail(@)]
         /\ UNCHANGED <<last, environment>>

At(step) == build.steps # <<>> /\ Head(build.steps) = step

\* go build replaces its output when it succeeds.
buildBinaries ==
    /\ \E b \in {"core", "cli"} :
          /\ At(b)
          /\ \/ binaries' = [binaries EXCEPT ![b] = build.info] /\ StepDone
             \/ UNCHANGED binaries /\ Finished(FALSE)
    /\ UNCHANGED <<bundle, staged, apk, manifest, builds>>

\* npm takes the identity from the environment; a failed build may leave
\* nothing behind.
buildDesktop ==
    /\ At("native")
    /\ \/ bundle' = BundleOf(environment) /\ StepDone
       \/ bundle' \in {bundle, {}} /\ Finished(FALSE)
    /\ UNCHANGED <<binaries, staged, apk, manifest, builds>>

\* The old bundle stays and the new one is copied over it.
RemovedNever == staged

\* replaceArtifact removes the destination first.
Removed == {}

replaceArtifact ==
    /\ At("clear")
    /\ \/ bundle # {} /\ staged' = Removed /\ StepDone
       \/ staged' \in SUBSET staged /\ Finished(FALSE)
    /\ UNCHANGED <<binaries, bundle, apk, manifest, builds>>

\* A copied file takes the place of one with its name.
Copied(entry) == {e \in staged : e[1] # entry[1]} \cup {entry}

copyPath ==
    /\ At("copy")
    /\ \/ \E entry \in bundle \ staged :
             /\ staged' = Copied(entry)
             /\ UNCHANGED <<build, last, environment>>
       \/ bundle \subseteq staged /\ UNCHANGED staged /\ StepDone
       \/ UNCHANGED staged /\ Finished(FALSE)
    /\ UNCHANGED <<binaries, bundle, apk, manifest, builds>>

\* Gradle's output is staged only when it does not use the fake transport.
buildAndroid ==
    /\ \/ At("gradle") /\ UNCHANGED apk /\ (StepDone \/ Finished(FALSE))
       \/ At("copyApk") /\ \/ apk' = "whole" /\ StepDone
                           \/ apk' \in {"none", "part", apk} /\ Finished(FALSE)
    /\ UNCHANGED <<binaries, bundle, staged, manifest, builds>>

stageBuildInfo ==
    /\ At("manifest")
    /\ \/ manifest' = build.info /\ StepDone
       \/ manifest' \in {"torn", manifest} /\ Finished(FALSE)
    /\ UNCHANGED <<binaries, bundle, staged, apk, builds>>

\* The run is interrupted between two steps.
buildKilled ==
    /\ build # NoBuild
    /\ Finished(FALSE)
    /\ UNCHANGED <<binaries, bundle, staged, apk, manifest, builds>>

BuildNext ==
    \/ \E target \in Target, release \in BOOLEAN, info \in Identity :
          buildStarts(target, release, info)
    \/ buildBinaries \/ buildDesktop \/ replaceArtifact \/ copyPath
    \/ buildAndroid \/ stageBuildInfo \/ buildKilled

BuildSpec == BuildInit /\ [][BuildNext]_buildVars

-----------------------------------------------------------------------------
\* Whatever earlier runs of other identities left behind, failed or
\* interrupted: after a run that succeeded, each artifact it names is whole
\* and of its identity, and the manifest records that identity.
SuccessfulBuildIsOfOneIdentity ==
    (build = NoBuild /\ last.ok) =>
       /\ targetIncludes(last.target, "binaries") => \A b \in {"core", "cli"} : binaries[b] = last.info
       /\ targetIncludes(last.target, "desktop") => staged = BundleOf(last.info)
       /\ targetIncludes(last.target, "android") => apk = "whole" /\ last.info = "dev"
       /\ targetHasCanonicalBuildIdentity(last.target) => manifest = last.info
=============================================================================
