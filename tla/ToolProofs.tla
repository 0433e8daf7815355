------------------------------- MODULE ToolProofs -------------------------------
(***************************************************************************)
(* Proofs about the commands Core launches (ShellLaunch), the build of its *)
(* clients (BuildTool) and the migrations of its database (Migrations).    *)
(***************************************************************************)
EXTENDS ShellLaunch, BuildTool, Migrations, WellFoundedInduction, TLAPS

\* How long each prover may take over a leaf, in seconds.
USE SMTT(30), ZenonT(30)

(***************************************************************************)
(* Launching a command                                                     *)
(***************************************************************************)

Place == {"none", "waiting", "queued", "started", "direct", "staging", "staged", "running", "failed"}

TaskRecord ==
    [pc : Place, command : Path \cup Alias \cup {Absent}, digest : Content \cup {Absent, NoDigest},
     risk : {"none", "privileged", "read_only", "state_changing"}, granted : BOOLEAN,
     run : Path \cup {Absent}, staged : Content \cup {Absent, NoDigest}]

LaunchTypeOK ==
    /\ content \in [Path -> Content \cup {Absent}]
    /\ target \in [Path \cup Alias -> Path]
    /\ shellTask \in [ShellTask -> TaskRecord]
    /\ launched \in [ShellTask -> Content \cup {Absent, NoDigest}]

Consented(t) == shellTask[t].granted \/ shellTask[t].risk = "read_only"

\* Where a task is tells what has been compared: a decision before the queue,
\* the digest before the start, the running build's denylist before a place
\* to run from is chosen, and the copy before it is kept.
TaskInv(t) ==
    /\ shellTask[t].pc # "none" => shellTask[t].command \in Path \cup Alias
    /\ shellTask[t].pc \in {"queued", "started", "direct", "staging", "staged", "running"} => Consented(t)
    /\ shellTask[t].pc \in {"started", "direct", "staging", "staged"} => shellTask[t].digest # NoDigest
    /\ shellTask[t].pc \in {"direct", "staging", "staged", "running"} => shellTask[t].run \notin privileged
    /\ shellTask[t].pc = "direct" =>
          shellTask[t].run \in Protected /\ content[shellTask[t].run] = shellTask[t].digest
    /\ shellTask[t].pc = "staged" => shellTask[t].staged = shellTask[t].digest
    /\ launched[t] # Absent =>
          /\ launched[t] = shellTask[t].digest /\ Consented(t)
          /\ shellTask[t].pc \in {"running", "failed"}

LaunchInv == LaunchTypeOK /\ \A t \in ShellTask : TaskInv(t)

(* What a path resolves to is a path.                                      *)
LEMMA ResolvedIsPath ==
  ASSUME LaunchTypeOK, NEW x \in Path \cup Alias
  PROVE  Resolved(x) \in Path
  BY DEF LaunchTypeOK, Resolved

(* A step of one task that leaves the files and the build alone.            *)
LEMMA TaskMoves ==
  ASSUME LaunchInv, NEW t \in ShellTask, othersStay,
         NEW r \in TaskRecord, shellTask' = [shellTask EXCEPT ![t] = r],
         launched' \in [ShellTask -> Content \cup {Absent, NoDigest}],
         \A u \in ShellTask \ {t} : launched'[u] = launched[u],
         TaskInv(t)'
  PROVE  LaunchInv'
<1>1. LaunchTypeOK'
  BY ZenonT(30) DEF LaunchInv, LaunchTypeOK, othersStay
<1>2. ASSUME NEW u \in ShellTask PROVE TaskInv(u)'
  <2>1. CASE u # t
    BY <2>1, ZenonT(30) DEF LaunchInv, LaunchTypeOK, TaskInv, Consented, othersStay
  <2> QED
    BY <2>1
<1> QED
  BY <1>1, <1>2 DEF LaunchInv

(* The handler that hashes and asks for approval.                          *)
LEMMA HandleShellKeepsInv ==
  ASSUME LaunchInv, NEW t \in ShellTask, NEW a \in Alias \cup Path, handleShell(t, a)
  PROVE  LaunchInv'
<1> DEFINE p == Resolved(a)
           r == [pc |-> IF Classify(p) = "read_only" THEN "queued" ELSE "waiting",
                 command |-> p, digest |-> content[p], risk |-> Classify(p),
                 granted |-> FALSE, run |-> Absent, staged |-> Absent]
<1>1. p \in Path /\ content[p] \in Content \cup {Absent}
  BY ResolvedIsPath DEF LaunchInv, LaunchTypeOK
<1>2. Classify(p) \in {"none", "privileged", "read_only", "state_changing"}
  BY DEF Classify
<1>3. r \in TaskRecord
  <2> HIDE DEF p
  <2> QED
    BY <1>1, <1>2, ZenonT(30) DEF TaskRecord, Place
<1>4. shellTask' = [shellTask EXCEPT ![t] = r] /\ UNCHANGED launched /\ othersStay
  BY DEF handleShell
<1>5. launched[t] = Absent
  BY DEF handleShell, LaunchInv, TaskInv, NoTask
<1>6. TaskInv(t)'
  <2> HIDE DEF p
  <2> QED
    BY <1>1, <1>4, <1>5, ZenonT(30) DEF TaskInv, Consented, LaunchInv, LaunchTypeOK
<1> HIDE DEF r
<1> QED
  BY <1>3, <1>4, <1>6, TaskMoves, ZenonT(30) DEF LaunchInv, LaunchTypeOK

(* A decision on the approval.                                             *)
LEMMA DecideApprovalKeepsInv ==
  ASSUME LaunchInv, NEW t \in ShellTask, decideApproval(t)
  PROVE  LaunchInv'
<1>1. PICK grant \in BOOLEAN :
         shellTask' = [shellTask EXCEPT ![t].pc = IF grant THEN "queued" ELSE "failed", ![t].granted = grant]
  BY ZenonT(30) DEF decideApproval
<1> DEFINE r == [shellTask[t] EXCEPT !.pc = IF grant THEN "queued" ELSE "failed", !.granted = grant]
<1>2. shellTask[t] \in TaskRecord
  BY DEF LaunchInv, LaunchTypeOK
<1>3. r \in TaskRecord /\ r.pc = (IF grant THEN "queued" ELSE "failed") /\ r.granted = grant
      /\ r.command = shellTask[t].command
  BY <1>2, ZenonT(30) DEF TaskRecord, Place
<1>4. shellTask' = [shellTask EXCEPT ![t] = r] /\ shellTask'[t] = r
  BY <1>1, ZenonT(30) DEF LaunchInv, LaunchTypeOK
<1>5. launched[t] = Absent /\ UNCHANGED launched /\ othersStay /\ shellTask[t].command \in Path \cup Alias
  BY DEF decideApproval, LaunchInv, TaskInv
<1> HIDE DEF r
<1>6. TaskInv(t)'
  BY <1>3, <1>4, <1>5, ZenonT(30) DEF TaskInv, Consented
<1> QED
  BY <1>3, <1>4, <1>5, <1>6, TaskMoves, ZenonT(30) DEF LaunchInv, LaunchTypeOK

(* A task that only changes its place, and has not run.                     *)
LEMMA GoesKeepsInv ==
  ASSUME LaunchInv, NEW t \in ShellTask, NEW next \in {"started", "failed"}, Goes(t, next),
         UNCHANGED launched, othersStay, launched[t] = Absent,
         shellTask[t].pc # "none", next = "started" => Consented(t) /\ shellTask[t].digest # NoDigest
  PROVE  LaunchInv'
<1> DEFINE r == [shellTask[t] EXCEPT !.pc = next]
<1>1. shellTask[t] \in TaskRecord
  BY ZenonT(30) DEF LaunchInv, LaunchTypeOK
<1>2. r \in TaskRecord /\ r.pc = next /\ r.digest = shellTask[t].digest /\ r.command = shellTask[t].command
      /\ r.granted = shellTask[t].granted /\ r.risk = shellTask[t].risk
  BY <1>1 DEF TaskRecord, Place
<1>3. shellTask' = [shellTask EXCEPT ![t] = r] /\ shellTask'[t] = r
  BY DEF Goes, LaunchInv, LaunchTypeOK
<1> HIDE DEF r
<1>4. TaskInv(t)'
  BY <1>2, <1>3, ZenonT(30) DEF TaskInv, Consented, LaunchInv
<1> QED
  BY <1>2, <1>3, <1>4, TaskMoves, ZenonT(30) DEF LaunchInv, LaunchTypeOK

(* The worker that takes the approved task.                                *)
LEMMA ProcessShellKeepsInv ==
  ASSUME LaunchInv, NEW t \in ShellTask, processShell(t)
  PROVE  LaunchInv'
<1>1. UNCHANGED launched /\ othersStay /\ launched[t] = Absent /\ Consented(t) /\ shellTask[t].pc # "none"
  BY ZenonT(30) DEF processShell, LaunchInv, TaskInv
<1>2. \/ Goes(t, "started") /\ shellTask[t].digest # NoDigest
      \/ Goes(t, "failed")
  BY ZenonT(30) DEF processShell, Canonical
<1> QED
  BY <1>1, <1>2, GoesKeepsInv, ZenonT(30)

(* Execute compares the digest and the denylist again; a file it will run   *)
(* in place is in a protected directory, where nothing changes.             *)
LEMMA ExecuteKeepsInv ==
  ASSUME LaunchInv, NEW t \in ShellTask, Execute(t)
  PROVE  LaunchInv'
<1> DEFINE p == Resolved(shellTask[t].command)
           place == IF Trusted(p) THEN "direct" ELSE "staging"
           r == [shellTask[t] EXCEPT !.pc = place, !.run = p]
<1>1. /\ UNCHANGED launched /\ othersStay /\ launched[t] = Absent /\ Consented(t)
      /\ shellTask[t].digest # NoDigest /\ shellTask[t] \in TaskRecord
      /\ shellTask[t].pc # "none" /\ shellTask[t].command \in Path \cup Alias
  BY DEF Execute, LaunchInv, LaunchTypeOK, TaskInv
<1>2. CASE Goes(t, "failed")
  BY <1>1, <1>2, GoesKeepsInv, ZenonT(30)
<1>3. CASE /\ Resolvable(shellTask[t].command, shellTask[t].digest) /\ Classify(p) # "privileged"
           /\ shellTask' = [shellTask EXCEPT ![t].pc = place, ![t].run = p]
  <2>1. content[p] = shellTask[t].digest /\ content[p] # Absent
    BY <1>1, <1>3 DEF Resolvable
  <2>2. p \notin privileged
    <3> HIDE DEF p
    <3>1. p \in privileged => Classify(p) = "privileged"
      BY DEF Classify
    <3> QED
      BY <1>3, <3>1
  <2>3. p \in Path
    BY <1>1, ResolvedIsPath DEF LaunchInv
  <2>4. place \in {"direct", "staging"} /\ (place = "direct" => p \in Protected)
    BY DEF Trusted
  <2> HIDE DEF p, place
  <2>5. r \in TaskRecord /\ r.pc = place /\ r.run = p /\ r.digest = shellTask[t].digest
        /\ r.granted = shellTask[t].granted /\ r.risk = shellTask[t].risk /\ r.command = shellTask[t].command
    BY <1>1, <2>3, <2>4, ZenonT(30) DEF TaskRecord, Place
  <2>6. shellTask' = [shellTask EXCEPT ![t] = r]
    BY <1>3, ZenonT(30) DEF LaunchInv, LaunchTypeOK
  <2>7. shellTask'[t] = r
    BY <2>6 DEF LaunchInv, LaunchTypeOK
  <2> HIDE DEF r
  <2>8. TaskInv(t)'
    BY <1>1, <2>1, <2>2, <2>4, <2>5, <2>7, ZenonT(30) DEF TaskInv, Consented, othersStay
  <2> QED
    BY <1>1, <2>5, <2>6, <2>8, TaskMoves, ZenonT(30) DEF LaunchInv, LaunchTypeOK
<1> QED
  BY <1>2, <1>3 DEF Execute

(* Staging a copy.                                                         *)
LEMMA StageKeepsInv ==
  ASSUME LaunchInv, NEW t \in ShellTask, stageApprovedExecutable(t)
  PROVE  LaunchInv'
<1>1. /\ UNCHANGED launched /\ othersStay /\ launched[t] = Absent /\ Consented(t)
      /\ shellTask[t].digest # NoDigest /\ shellTask[t] \in TaskRecord
      /\ shellTask[t].run \notin privileged
      /\ shellTask[t].pc # "none" /\ shellTask[t].command \in Path \cup Alias
  BY DEF stageApprovedExecutable, LaunchInv, LaunchTypeOK, TaskInv
<1>2. PICK bytes : IF bytes # Absent /\ StagedMatches(t, bytes)
                   THEN shellTask' = [shellTask EXCEPT ![t].pc = "staged", ![t].staged = bytes]
                   ELSE Goes(t, "failed")
  BY DEF stageApprovedExecutable
<1>3. CASE Goes(t, "failed")
  BY <1>1, <1>3, GoesKeepsInv, ZenonT(30)
<1>4. CASE /\ bytes = shellTask[t].digest
           /\ shellTask' = [shellTask EXCEPT ![t].pc = "staged", ![t].staged = bytes]
  <2> DEFINE r == [shellTask[t] EXCEPT !.pc = "staged", !.staged = bytes]
  <2>1. shellTask' = [shellTask EXCEPT ![t] = r] /\ shellTask'[t] = r
    BY <1>4, ZenonT(30) DEF LaunchInv, LaunchTypeOK
  <2>2. r \in TaskRecord /\ r.pc = "staged" /\ r.staged = r.digest /\ r.digest = shellTask[t].digest
        /\ r.command = shellTask[t].command
        /\ r.granted = shellTask[t].granted /\ r.risk = shellTask[t].risk /\ r.run = shellTask[t].run
    BY <1>1, <1>4, ZenonT(30) DEF TaskRecord, Place
  <2> HIDE DEF r
  <2>3. TaskInv(t)'
    BY <1>1, <2>1, <2>2 DEF TaskInv, Consented, othersStay
  <2> QED
    BY <1>1, <2>1, <2>2, <2>3, TaskMoves, ZenonT(30) DEF LaunchInv, LaunchTypeOK
<1> QED
  BY <1>2, <1>3, <1>4 DEF StagedMatches

(* The launch.                                                             *)
LEMMA LaunchKeepsInv ==
  ASSUME LaunchInv, NEW t \in ShellTask, launch(t)
  PROVE  LaunchInv'
<1> DEFINE r == [shellTask[t] EXCEPT !.pc = "running"]
<1>1. shellTask[t] \in TaskRecord /\ othersStay /\ Consented(t) /\ shellTask[t].run \notin privileged
      /\ shellTask[t].command \in Path \cup Alias
  BY ZenonT(30) DEF launch, LaunchInv, LaunchTypeOK, TaskInv
<1>2. launched' = [launched EXCEPT ![t] = shellTask[t].digest]
  BY ZenonT(30) DEF launch, LaunchInv, TaskInv
<1>3. shellTask[t].digest \in Content \cup {Absent, NoDigest}
  BY <1>1, ZenonT(30) DEF TaskRecord
<1>4. launched' \in [ShellTask -> Content \cup {Absent, NoDigest}] /\ launched'[t] = shellTask[t].digest
      /\ \A u \in ShellTask \ {t} : launched'[u] = launched[u]
  BY <1>2, <1>3 DEF LaunchInv, LaunchTypeOK
<1>5. shellTask' = [shellTask EXCEPT ![t] = r] /\ shellTask'[t] = r
  BY DEF launch, Goes, LaunchInv, LaunchTypeOK
<1>6. r \in TaskRecord /\ r.pc = "running" /\ r.digest = shellTask[t].digest /\ r.command = shellTask[t].command
      /\ r.granted = shellTask[t].granted /\ r.risk = shellTask[t].risk /\ r.run = shellTask[t].run
  BY <1>1 DEF TaskRecord, Place
<1> HIDE DEF r
<1>7. TaskInv(t)'
  BY <1>1, <1>4, <1>5, <1>6 DEF TaskInv, Consented, othersStay
<1> QED
  BY <1>1, <1>4, <1>5, <1>6, <1>7, TaskMoves, ZenonT(30)

(* Changes of files by others.                                             *)
LEMMA SurroundingsKeepInv ==
  ASSUME LaunchInv, fileChanges \/ coreUpgraded
  PROVE  LaunchInv'
<1>1. CASE fileChanges
  <2>1. \A p \in Protected : content'[p] = content[p]
    BY <1>1, ShellAssumption DEF fileChanges, LaunchInv, LaunchTypeOK
  <2>2. content' \in [Path -> Content \cup {Absent}]
    BY <1>1 DEF fileChanges, LaunchInv, LaunchTypeOK
  <2>3. target' \in [Path \cup Alias -> Path]
    BY <1>1 DEF fileChanges, LaunchInv, LaunchTypeOK
  <2>4. UNCHANGED <<privileged, shellTask, launched>>
    BY <1>1 DEF fileChanges
  <2> QED
    BY <2>1, <2>2, <2>3, <2>4, ZenonT(30) DEF LaunchInv, LaunchTypeOK, TaskInv, Consented
<1>2. CASE coreUpgraded
  <2>1. UNCHANGED <<content, target, launched>>
    BY <1>2 DEF coreUpgraded
  <2>2. ASSUME NEW t \in ShellTask
        PROVE  /\ shellTask'[t] \in TaskRecord
               /\ shellTask'[t].digest = shellTask[t].digest /\ shellTask'[t].granted = shellTask[t].granted
               /\ shellTask'[t].risk = shellTask[t].risk /\ shellTask'[t].command = shellTask[t].command
               /\ \/ shellTask'[t].pc = "failed"
                  \/ shellTask'[t].pc = shellTask[t].pc /\ shellTask[t].pc \in {"none", "waiting", "queued"}
               /\ shellTask'[t].pc = "none" <=> shellTask[t].pc = "none"
    <3>1. shellTask[t] \in TaskRecord
      BY DEF LaunchInv, LaunchTypeOK
    <3>2. shellTask'[t] = IF shellTask[t].pc \in {"started", "direct", "staging", "staged", "running"}
                          THEN [shellTask[t] EXCEPT !.pc = "failed"] ELSE shellTask[t]
      BY <1>2 DEF coreUpgraded
    <3> QED
      BY <3>1, <3>2 DEF TaskRecord, Place
  <2>3. shellTask' \in [ShellTask -> TaskRecord]
    BY <1>2, <2>2 DEF coreUpgraded
  <2>4. ASSUME NEW t \in ShellTask PROVE TaskInv(t)'
    BY <2>1, <2>2, ZenonT(30) DEF LaunchInv, TaskInv, Consented
  <2> QED
    BY <2>1, <2>3, <2>4 DEF LaunchInv, LaunchTypeOK
<1> QED
  BY <1>1, <1>2

(* handleShell, processShell, Execute and stageApprovedExecutable: however   *)
(* many files are replaced, links repointed and builds exchanged between the *)
(* request and the start, what runs has the digest that was decided on, was  *)
(* granted unless it is read-only, and is not refused by the running build.  *)
THEOREM LaunchedIsApprovedTheorem == LaunchSpec => []LaunchedIsApproved
<1>1. LaunchInit => LaunchInv
  <2> SUFFICES ASSUME LaunchInit PROVE LaunchInv
    OBVIOUS
  <2>1. (CHOOSE p \in Path : p \notin Protected) \in Path
    BY ShellAssumption
  <2>2. target \in [Path \cup Alias -> Path]
    BY <2>1, ZenonT(30) DEF LaunchInit
  <2>3. ASSUME NEW t \in ShellTask
        PROVE  /\ shellTask[t] \in TaskRecord
               /\ \/ shellTask[t].pc = "none"
                  \/ shellTask[t].pc = "queued" /\ shellTask[t].granted /\ shellTask[t].command \in Alias
    <3>1. \/ shellTask[t] = NoTask
          \/ \E a \in Alias : shellTask[t] = [NoTask EXCEPT !.pc = "queued", !.command = a, !.granted = TRUE]
      BY ZenonT(30) DEF LaunchInit
    <3>2. CASE shellTask[t] = NoTask
      BY <3>2 DEF NoTask, TaskRecord, Place
    <3>3. ASSUME NEW a \in Alias, shellTask[t] = [NoTask EXCEPT !.pc = "queued", !.command = a, !.granted = TRUE]
          PROVE  shellTask[t] = [pc |-> "queued", command |-> a, digest |-> NoDigest, risk |-> "none",
                                 granted |-> TRUE, run |-> Absent, staged |-> Absent]
      BY <3>3, ZenonT(30) DEF NoTask
    <3>4. ASSUME NEW a \in Alias, shellTask[t] = [pc |-> "queued", command |-> a, digest |-> NoDigest,
                                  risk |-> "none", granted |-> TRUE, run |-> Absent, staged |-> Absent]
          PROVE  /\ shellTask[t] \in TaskRecord
                 /\ shellTask[t].pc = "queued" /\ shellTask[t].granted /\ shellTask[t].command \in Alias
      BY <3>4 DEF TaskRecord, Place
    <3> QED
      BY <3>1, <3>2, <3>3, <3>4, ZenonT(30)
  <2>4. shellTask \in [ShellTask -> TaskRecord]
    BY <2>3, ZenonT(30) DEF LaunchInit
  <2>5. content \in [Path -> Content \cup {Absent}] /\ launched = [t \in ShellTask |-> Absent]
    BY ZenonT(30) DEF LaunchInit
  <2>6. LaunchTypeOK
    BY <2>2, <2>4, <2>5 DEF LaunchTypeOK
  <2>7. ASSUME NEW t \in ShellTask PROVE TaskInv(t)
    BY <2>3, <2>5, ZenonT(30) DEF TaskInv, Consented
  <2> QED
    BY <2>6, <2>7 DEF LaunchInv
<1>2. LaunchInv /\ [LaunchNext]_launchVars => LaunchInv'
  <2> SUFFICES ASSUME LaunchInv, [LaunchNext]_launchVars PROVE LaunchInv'
    OBVIOUS
  <2>1. CASE UNCHANGED launchVars
    BY <2>1, ZenonT(30) DEF launchVars, LaunchInv, LaunchTypeOK, TaskInv, Consented
  <2> QED
    BY <2>1, HandleShellKeepsInv, DecideApprovalKeepsInv, ProcessShellKeepsInv, ExecuteKeepsInv,
       StageKeepsInv, LaunchKeepsInv, SurroundingsKeepInv DEF LaunchNext
<1>3. LaunchInv => LaunchedIsApproved
  BY ZenonT(30) DEF LaunchInv, TaskInv, Consented, LaunchedIsApproved
<1> QED
  BY <1>1, <1>2, <1>3, PTL DEF LaunchSpec

(***************************************************************************)
(* The build                                                               *)
(***************************************************************************)

StepName == {"core", "cli", "native", "clear", "copy", "gradle", "copyApk", "manifest"}

(* Every target is a sequence of known steps.                              *)
LEMMA StepsAreSequences ==
  ASSUME NEW t
  PROVE  BuildSteps(t) \in Seq(StepName)
<1>1. ASSUME NEW c, NEW s \in Seq(StepName) PROVE If(c, s) \in Seq(StepName)
  BY DEF If
<1>2. \A a, b \in Seq(StepName) : a \o b \in Seq(StepName)
  OBVIOUS
<1>3. <<"core", "cli">> \in Seq(StepName) /\ <<"native", "clear", "copy">> \in Seq(StepName)
  BY DEF StepName
<1>4. <<"gradle", "copyApk">> \in Seq(StepName) /\ <<"manifest">> \in Seq(StepName)
  BY DEF StepName
<1> QED
  BY <1>1, <1>2, <1>3, <1>4, ZenonT(30) DEF BuildSteps

(* The steps of the target binaries.                                       *)
LEMMA BinariesSteps ==
  LET S == BuildSteps("binaries")
  IN Len(S) = 3 /\ S[1] = "core" /\ S[2] = "cli" /\ S[3] = "manifest"
BY DEF BuildSteps, targetIncludes, targetHasCanonicalBuildIdentity, If

(* The steps of the target desktop.                                        *)
LEMMA DesktopSteps ==
  LET S == BuildSteps("desktop")
  IN Len(S) = 4 /\ S[1] = "native" /\ S[2] = "clear" /\ S[3] = "copy" /\ S[4] = "manifest"
BY DEF BuildSteps, targetIncludes, targetHasCanonicalBuildIdentity, If

(* The steps of the target android.                                        *)
LEMMA AndroidSteps ==
  LET S == BuildSteps("android")
  IN Len(S) = 2 /\ S[1] = "gradle" /\ S[2] = "copyApk"
BY DEF BuildSteps, targetIncludes, targetHasCanonicalBuildIdentity, If

(* The steps of the target all.                                            *)
LEMMA AllSteps ==
  LET S == BuildSteps("all")
  IN /\ Len(S) = 8
     /\ S[1] = "core" /\ S[2] = "cli" /\ S[3] = "native" /\ S[4] = "clear" /\ S[5] = "copy"
     /\ S[6] = "gradle" /\ S[7] = "copyApk" /\ S[8] = "manifest"
BY DEF BuildSteps, targetIncludes, targetHasCanonicalBuildIdentity, If

(* The order run() keeps: npm before the old bundle is cleared, cleared     *)
(* before it is copied, and no step twice.                                  *)
LEMMA StepOrder ==
  ASSUME NEW t \in Target
  PROVE  LET S == BuildSteps(t)
         IN /\ S \in Seq(StepName) /\ Len(S) \in Nat /\ Len(S) > 0
            /\ \A i, j \in 1..Len(S) : S[i] = S[j] => i = j
            /\ \A i \in 1..Len(S) : S[i] \in {"clear", "copy"} =>
                  i > 1 /\ S[i - 1] = IF S[i] = "clear" THEN "native" ELSE "clear"
            /\ targetIncludes(t, "binaries") =>
                  \A s \in {"core", "cli", "manifest"} : \E i \in 1..Len(S) : S[i] = s
            /\ targetIncludes(t, "desktop") =>
                  \A s \in {"native", "copy", "manifest"} : \E i \in 1..Len(S) : S[i] = s
            /\ targetIncludes(t, "android") => \E i \in 1..Len(S) : S[i] = "copyApk"
<1> DEFINE S == BuildSteps(t)
<1>0. S \in Seq(StepName)
  BY StepsAreSequences
<1>1. CASE t = "binaries"
  <2>1. Len(S) = 3 /\ S[1] = "core" /\ S[2] = "cli" /\ S[3] = "manifest"
    BY <1>1, BinariesSteps
  <2>2. \A s \in {"core", "cli", "manifest"} : \E i \in 1..Len(S) : S[i] = s
    BY <2>1
  <2> QED
    BY <1>0, <1>1, <2>1, <2>2 DEF targetIncludes
<1>2. CASE t = "desktop"
  BY <1>0, <1>2, DesktopSteps DEF targetIncludes
<1>3. CASE t = "android"
  BY <1>0, <1>3, AndroidSteps DEF targetIncludes
<1>4. CASE t = "all"
  <2>1. /\ Len(S) = 8
        /\ S[1] = "core" /\ S[2] = "cli" /\ S[3] = "native" /\ S[4] = "clear" /\ S[5] = "copy"
        /\ S[6] = "gradle" /\ S[7] = "copyApk" /\ S[8] = "manifest"
    BY <1>4, AllSteps
  <2>2. \A s \in {"core", "cli", "manifest"} : \E i \in 1..Len(S) : S[i] = s
    BY <2>1
  <2>3. \A s \in {"native", "copy", "manifest"} : \E i \in 1..Len(S) : S[i] = s
    BY <2>1
  <2>4. \E i \in 1..Len(S) : S[i] = "copyApk"
    BY <2>1
  <2>5. \A i, j \in 1..Len(S) : S[i] = S[j] => i = j
    BY <2>1
  <2>6. \A i \in 1..Len(S) : S[i] \in {"clear", "copy"} =>
                  i > 1 /\ S[i - 1] = IF S[i] = "clear" THEN "native" ELSE "clear"
    BY <2>1
  <2> QED
    BY <1>0, <2>1, <2>2, <2>3, <2>4, <2>5, <2>6
<1> QED
  BY <1>1, <1>2, <1>3, <1>4, ZenonT(30) DEF Target

\* What a step that is done has left.
Left(s, info) ==
    /\ s = "core" => binaries["core"] = info
    /\ s = "cli" => binaries["cli"] = info
    /\ s = "native" => bundle = BundleOf(info)
    /\ s = "clear" => staged \subseteq bundle
    /\ s = "copy" => staged = BundleOf(info)
    /\ s = "copyApk" => apk = "whole"
    /\ s = "manifest" => manifest = info

BinariesOK == binaries \in [{"core", "cli"} -> Identity \cup {"none"}]

\* A run that is k steps on its way.
AtWork(t, info, k) ==
    LET S == BuildSteps(t)
    IN /\ build.target = t /\ build.info = info /\ environment = info
       /\ targetIncludes(t, "android") => info = "dev"
       /\ build \in [target : Target, info : Identity, steps : Seq(StepName)]
       /\ k < Len(S) /\ Len(build.steps) = Len(S) - k
       /\ \A i \in 1..Len(build.steps) : build.steps[i] = S[k + i]
       /\ \A i \in 1..k : Left(S[i], info)

BuildInv ==
    /\ BinariesOK
    /\ build = NoBuild \/ \E t \in Target, info \in Identity, k \in Nat : AtWork(t, info, k)
    /\ SuccessfulBuildIsOfOneIdentity

(* A run that ends without success leaves nothing to show.                  *)
LEMMA FailedRunKeepsInv ==
  ASSUME Finished(FALSE), BinariesOK'
  PROVE  BuildInv'
BY DEF Finished, BuildInv, SuccessfulBuildIsOfOneIdentity

(* A step that is done, keeps what the steps before it left and leaves what *)
(* it should.                                                               *)
LEMMA StepKeepsInv ==
  ASSUME NEW t \in Target, NEW info \in Identity, NEW k \in Nat, AtWork(t, info, k), BinariesOK',
         \A i \in 1..(k + 1) : Left(BuildSteps(t)[i], info)', StepDone
  PROVE  BuildInv'
<1> DEFINE S == BuildSteps(t)
<1>1. /\ S \in Seq(StepName) /\ Len(S) \in Nat
      /\ targetIncludes(t, "binaries") =>
                  \A s \in {"core", "cli", "manifest"} : \E i \in 1..Len(S) : S[i] = s
      /\ targetIncludes(t, "desktop") =>
                  \A s \in {"native", "copy", "manifest"} : \E i \in 1..Len(S) : S[i] = s
      /\ targetIncludes(t, "android") => \E i \in 1..Len(S) : S[i] = "copyApk"
  BY StepOrder
<1>2. /\ build.target = t /\ build.info = info /\ environment = info
      /\ targetIncludes(t, "android") => info = "dev"
      /\ k < Len(S) /\ build.steps \in Seq(StepName) /\ Len(build.steps) = Len(S) - k
      /\ \A i \in 1..Len(build.steps) : build.steps[i] = S[k + i]
  BY ZenonT(30) DEF AtWork
<1>3. CASE Len(build.steps) = 1
  <2>1. k + 1 = Len(S)
    <3>1. Len(S) \in Nat /\ Len(S) - k = 1
      BY <1>1, <1>2, <1>3, ZenonT(30)
    <3> QED
      BY <3>1
  <2>2. /\ last' = [target |-> t, info |-> info, ok |-> TRUE] /\ build' = NoBuild
    BY <1>2, <1>3, ZenonT(30) DEF StepDone, Finished
  <2>3. \A i \in 1..Len(S) : Left(S[i], info)'
    BY <2>1
  <2>4. targetIncludes(t, "binaries") => \A b \in {"core", "cli"} : binaries'[b] = info
    BY <1>1, <2>3, ZenonT(30) DEF Left
  <2>5. targetIncludes(t, "desktop") => staged' = BundleOf(info)
    BY <1>1, <2>3, ZenonT(30) DEF Left
  <2>6. targetIncludes(t, "android") => apk' = "whole" /\ info = "dev"
    BY <1>1, <1>2, <2>3, ZenonT(30) DEF Left
  <2>7. targetHasCanonicalBuildIdentity(t) => manifest' = info
    BY <1>1, <2>3, ZenonT(30) DEF Left, targetHasCanonicalBuildIdentity
  <2>8. SuccessfulBuildIsOfOneIdentity'
    BY <2>2, <2>4, <2>5, <2>6, <2>7 DEF SuccessfulBuildIsOfOneIdentity
  <2> QED
    BY <2>2, <2>8 DEF BuildInv
<1>4. CASE Len(build.steps) # 1
  <2>1. build' = [build EXCEPT !.steps = Tail(@)] /\ last' = last /\ environment' = environment
    BY <1>4 DEF StepDone
  <2>2. /\ Tail(build.steps) \in Seq(StepName) /\ Len(Tail(build.steps)) = Len(S) - (k + 1)
        /\ \A i \in 1..Len(Tail(build.steps)) : Tail(build.steps)[i] = build.steps[i + 1]
        /\ k + 1 < Len(S)
    BY <1>1, <1>2, <1>4
  <2>3. ASSUME NEW i \in 1..Len(Tail(build.steps)) PROVE Tail(build.steps)[i] = S[(k + 1) + i]
    <3>1. i + 1 \in 1..Len(build.steps) /\ k + (i + 1) = (k + 1) + i
      BY <1>1, <1>2, <2>2
    <3> QED
      BY <1>2, <2>2, <3>1, ZenonT(30)
  <2>4. /\ build' \in [target : Target, info : Identity, steps : Seq(StepName)]
        /\ build'.target = t /\ build'.info = info /\ build'.steps = Tail(build.steps)
    BY <1>2, <2>1, <2>2, ZenonT(30) DEF AtWork
  <2>5. AtWork(t, info, k + 1)'
    BY <1>2, <2>1, <2>2, <2>3, <2>4 DEF AtWork
  <2>6. build' # NoBuild
    BY <1>1, <2>2, <2>4 DEF NoBuild
  <2> QED
    BY <2>5, <2>6 DEF BuildInv, SuccessfulBuildIsOfOneIdentity
<1> QED
  BY <1>3, <1>4

(* The step a run is at, and what is left of the ones before it.            *)
LEMMA AtStep ==
  ASSUME BuildInv, NEW s, At(s)
  PROVE  \E t \in Target, info \in Identity, k \in Nat :
            /\ AtWork(t, info, k) /\ k + 1 \in 1..Len(BuildSteps(t)) /\ BuildSteps(t)[k + 1] = s
            /\ build.info = info /\ environment = info
            /\ \A i \in 1..k : Left(BuildSteps(t)[i], info) /\ BuildSteps(t)[i] # s
            /\ s = "native" => \A i \in 1..k : BuildSteps(t)[i] \notin {"clear", "copy"}
            /\ s = "clear" => \A i \in 1..k : BuildSteps(t)[i] # "copy"
            /\ s = "copy" => /\ bundle = BundleOf(info) /\ staged \subseteq bundle
<1>1. PICK t \in Target, info \in Identity, k \in Nat : AtWork(t, info, k)
  BY DEF BuildInv, At, NoBuild
<1> DEFINE S == BuildSteps(t)
<1>2. /\ S \in Seq(StepName) /\ Len(S) \in Nat
      /\ \A i, j \in 1..Len(S) : S[i] = S[j] => i = j
      /\ \A i \in 1..Len(S) : S[i] \in {"clear", "copy"} =>
                  i > 1 /\ S[i - 1] = IF S[i] = "clear" THEN "native" ELSE "clear"
  BY StepOrder
<1>3. /\ build.info = info /\ environment = info /\ k < Len(S)
      /\ build.steps \in Seq(StepName) /\ Len(build.steps) = Len(S) - k
      /\ \A i \in 1..Len(build.steps) : build.steps[i] = S[k + i]
      /\ \A i \in 1..k : Left(S[i], info)
  BY <1>1, ZenonT(30) DEF AtWork
<1>4. k + 1 \in 1..Len(S) /\ S[k + 1] = s
  <2>1. 1 \in 1..Len(build.steps)
    BY <1>2, <1>3
  <2>2. Head(build.steps) = build.steps[1]
    BY <1>3
  <2> QED
    BY <1>2, <1>3, <2>1, <2>2 DEF At
<1>5. \A i \in 1..k : i \in 1..Len(S) /\ S[i] # s
  BY <1>2, <1>3, <1>4
<1>6. ASSUME s = "native", NEW i \in 1..k PROVE S[i] \notin {"clear", "copy"}
  <2>1. S[i] = "clear" => i > 1 /\ S[i - 1] = "native"
    BY <1>2, <1>5
  <2>2. S[i] # "clear"
    BY <1>2, <1>3, <1>4, <1>5, <1>6, <2>1
  <2>3. S[i] = "copy" => i > 1 /\ S[i - 1] = "clear" /\ i - 1 \in 1..Len(S)
    BY <1>2, <1>5
  <2>4. S[i] = "copy" => i - 1 > 1 /\ S[i - 2] = "native" /\ i - 2 \in 1..k
    <3>1. SUFFICES ASSUME S[i] = "copy" PROVE i - 1 > 1 /\ S[i - 2] = "native" /\ i - 2 \in 1..k
      OBVIOUS
    <3>2. i - 1 > 1 /\ S[(i - 1) - 1] = "native"
      BY <1>2, <2>3, <3>1
    <3> QED
      BY <3>2
  <2> QED
    BY <1>5, <1>6, <2>2, <2>4
<1>7. ASSUME s = "clear", NEW i \in 1..k PROVE S[i] # "copy"
  <2>1. S[i] = "copy" => i > 1 /\ S[i - 1] = "clear"
    BY <1>2, <1>5
  <2>2. i > 1 => i - 1 \in 1..k
    OBVIOUS
  <2> QED
    BY <1>5, <1>7, <2>1, <2>2
<1>8. ASSUME s = "copy" PROVE bundle = BundleOf(info) /\ staged \subseteq bundle
  <2>1. k + 1 > 1 /\ S[(k + 1) - 1] = "clear"
    BY <1>2, <1>4, <1>8
  <2>2. k \in 1..k /\ S[k] = "clear" /\ k \in 1..Len(S)
    BY <1>3, <2>1
  <2>3. k > 1 /\ S[k - 1] = "native"
    BY <1>2, <2>2
  <2>4. k - 1 \in 1..k
    BY <2>3
  <2> QED
    BY <1>3, <2>2, <2>3, <2>4 DEF Left
<1> QED
  BY <1>1, <1>3, <1>4, <1>5, <1>6, <1>7, <1>8, ZenonT(30)

(* Every command of a run, its failure, and an interruption.               *)
LEMMA BuildStepsKeepInv ==
  ASSUME BuildInv, [BuildNext]_buildVars
  PROVE  BuildInv'
<1>0. BinariesOK
  BY DEF BuildInv
<1>1. ASSUME NEW t \in Target, NEW release \in BOOLEAN, NEW info \in Identity,
             buildStarts(t, release, info)
      PROVE  BuildInv'
  <2> DEFINE S == BuildSteps(t)
  <2>1. /\ S \in Seq(StepName) /\ Len(S) \in Nat /\ Len(S) > 0
    BY StepOrder
  <2>2. /\ build' = [target |-> t, info |-> info, steps |-> S] /\ environment' = info
        /\ targetIncludes(t, "android") => info = "dev"
        /\ binaries' = binaries
    BY <1>1 DEF buildStarts, parseOptions
  <2>3. AtWork(t, info, 0)'
    BY <2>1, <2>2 DEF AtWork
  <2>4. build' # NoBuild
    BY <2>1, <2>2 DEF NoBuild
  <2> QED
    BY <1>0, <2>2, <2>3, <2>4, ZenonT(30) DEF BuildInv, BinariesOK, SuccessfulBuildIsOfOneIdentity
<1>2. ASSUME NEW b \in {"core", "cli"}, At(b), UNCHANGED <<bundle, staged, apk, manifest>>,
             binaries' = [binaries EXCEPT ![b] = build.info], StepDone
      PROVE  BuildInv'
  <2>1. PICK t \in Target, info \in Identity, k \in Nat :
            /\ AtWork(t, info, k) /\ k + 1 \in 1..Len(BuildSteps(t)) /\ BuildSteps(t)[k + 1] = b
            /\ build.info = info
            /\ \A i \in 1..k : Left(BuildSteps(t)[i], info) /\ BuildSteps(t)[i] # b
    BY <1>2, AtStep
  <2>2. BinariesOK' /\ binaries'[b] = info
        /\ \A c \in {"core", "cli"} : c # b => binaries'[c] = binaries[c]
    BY <1>0, <1>2, <2>1 DEF BinariesOK
  <2>3. \A i \in 1..k : Left(BuildSteps(t)[i], info)'
    BY <1>2, <2>1, <2>2, ZenonT(30) DEF Left
  <2>4. Left(b, info)'
    BY <2>2, ZenonT(30) DEF Left
  <2>5. \A i \in 1..(k + 1) : Left(BuildSteps(t)[i], info)'
    BY <2>1, <2>3, <2>4
  <2> QED
    BY <1>2, <2>1, <2>2, <2>5, StepKeepsInv
<1>3. ASSUME At("native"), UNCHANGED <<binaries, staged, apk, manifest>>,
             bundle' = BundleOf(environment), StepDone
      PROVE  BuildInv'
  <2>1. PICK t \in Target, info \in Identity, k \in Nat :
            /\ AtWork(t, info, k) /\ k + 1 \in 1..Len(BuildSteps(t))
            /\ BuildSteps(t)[k + 1] = "native" /\ environment = info
            /\ \A i \in 1..k : Left(BuildSteps(t)[i], info) /\ BuildSteps(t)[i] # "native"
            /\ \A i \in 1..k : BuildSteps(t)[i] \notin {"clear", "copy"}
    BY <1>3, AtStep
  <2>2. BinariesOK'
    BY <1>0, <1>3 DEF BinariesOK
  <2>3. \A i \in 1..k : Left(BuildSteps(t)[i], info)'
    BY <1>3, <2>1 DEF Left
  <2>4. Left("native", info)'
    BY <1>3, <2>1 DEF Left
  <2>5. \A i \in 1..(k + 1) : Left(BuildSteps(t)[i], info)'
    BY <2>1, <2>3, <2>4
  <2> QED
    BY <1>3, <2>1, <2>2, <2>5, StepKeepsInv
<1>4. ASSUME At("clear"), UNCHANGED <<binaries, bundle, apk, manifest>>, staged' = {}, StepDone
      PROVE  BuildInv'
  <2>1. PICK t \in Target, info \in Identity, k \in Nat :
            /\ AtWork(t, info, k) /\ k + 1 \in 1..Len(BuildSteps(t))
            /\ BuildSteps(t)[k + 1] = "clear"
            /\ \A i \in 1..k : Left(BuildSteps(t)[i], info) /\ BuildSteps(t)[i] # "clear"
            /\ \A i \in 1..k : BuildSteps(t)[i] # "copy"
    BY <1>4, AtStep
  <2>2. BinariesOK'
    BY <1>0, <1>4 DEF BinariesOK
  <2>3. \A i \in 1..k : Left(BuildSteps(t)[i], info)'
    BY <1>4, <2>1, ZenonT(30) DEF Left
  <2>4. Left("clear", info)'
    BY <1>4 DEF Left
  <2>5. \A i \in 1..(k + 1) : Left(BuildSteps(t)[i], info)'
    BY <2>1, <2>3, <2>4
  <2> QED
    BY <1>4, <2>1, <2>2, <2>5, StepKeepsInv
<1>5. ASSUME At("copy"), UNCHANGED <<binaries, bundle, apk, manifest>>,
             \/ bundle \subseteq staged /\ UNCHANGED staged /\ StepDone
             \/ \E item \in bundle : staged' = Copied(item) /\ UNCHANGED <<build, last, environment>>
      PROVE  BuildInv'
  <2>1. PICK t \in Target, info \in Identity, k \in Nat :
            /\ AtWork(t, info, k) /\ k + 1 \in 1..Len(BuildSteps(t))
            /\ BuildSteps(t)[k + 1] = "copy"
            /\ \A i \in 1..k : Left(BuildSteps(t)[i], info) /\ BuildSteps(t)[i] # "copy"
            /\ bundle = BundleOf(info) /\ staged \subseteq bundle
    BY <1>5, AtStep
  <2>2. BinariesOK'
    BY <1>0, <1>5 DEF BinariesOK
  <2>3. ASSUME bundle \subseteq staged, UNCHANGED staged, StepDone PROVE BuildInv'
    <3>1. \A i \in 1..k : Left(BuildSteps(t)[i], info)'
      BY <1>5, <2>1, <2>3 DEF Left
    <3>2. Left("copy", info)'
      BY <2>1, <2>3, ZenonT(30) DEF Left
    <3>3. \A i \in 1..(k + 1) : Left(BuildSteps(t)[i], info)'
      BY <2>1, <3>1, <3>2
    <3> QED
      BY <2>1, <2>2, <2>3, <3>3, StepKeepsInv
  <2>4. ASSUME NEW item \in bundle, staged' = Copied(item), UNCHANGED <<build, last, environment>>
        PROVE  BuildInv'
    <3>1. staged' \subseteq bundle
      BY <2>1, <2>4 DEF Copied
    <3>2. \A i \in 1..k : Left(BuildSteps(t)[i], info)'
      BY <1>5, <2>1, <3>1, ZenonT(30) DEF Left
    <3>3. AtWork(t, info, k)'
      BY <2>1, <2>4, <3>2, ZenonT(30) DEF AtWork
    <3>4. build' # NoBuild
      BY <1>5, <2>4 DEF At, NoBuild
    <3> QED
      BY <2>2, <3>3, <3>4, ZenonT(30) DEF BuildInv, SuccessfulBuildIsOfOneIdentity
  <2> QED
    BY <1>5, <2>3, <2>4
<1>6. ASSUME At("gradle"), UNCHANGED <<binaries, bundle, staged, apk, manifest>>, StepDone
      PROVE  BuildInv'
  <2>1. PICK t \in Target, info \in Identity, k \in Nat :
            /\ AtWork(t, info, k) /\ k + 1 \in 1..Len(BuildSteps(t))
            /\ BuildSteps(t)[k + 1] = "gradle"
            /\ \A i \in 1..k : Left(BuildSteps(t)[i], info)
    BY <1>6, AtStep
  <2>2. \A i \in 1..(k + 1) : Left(BuildSteps(t)[i], info)'
    BY <1>6, <2>1 DEF Left
  <2> QED
    BY <1>0, <1>6, <2>1, <2>2, StepKeepsInv DEF BinariesOK
<1>7. ASSUME At("copyApk"), UNCHANGED <<binaries, bundle, staged, manifest>>, apk' = "whole", StepDone
      PROVE  BuildInv'
  <2>1. PICK t \in Target, info \in Identity, k \in Nat :
            /\ AtWork(t, info, k) /\ k + 1 \in 1..Len(BuildSteps(t))
            /\ BuildSteps(t)[k + 1] = "copyApk"
            /\ \A i \in 1..k : Left(BuildSteps(t)[i], info)
    BY <1>7, AtStep
  <2>2. \A i \in 1..(k + 1) : Left(BuildSteps(t)[i], info)'
    BY <1>7, <2>1 DEF Left
  <2> QED
    BY <1>0, <1>7, <2>1, <2>2, StepKeepsInv DEF BinariesOK
<1>8. ASSUME At("manifest"), UNCHANGED <<binaries, bundle, staged, apk>>,
             manifest' = build.info, StepDone
      PROVE  BuildInv'
  <2>1. PICK t \in Target, info \in Identity, k \in Nat :
            /\ AtWork(t, info, k) /\ k + 1 \in 1..Len(BuildSteps(t))
            /\ BuildSteps(t)[k + 1] = "manifest" /\ build.info = info
            /\ \A i \in 1..k : Left(BuildSteps(t)[i], info)
    BY <1>8, AtStep
  <2>2. \A i \in 1..(k + 1) : Left(BuildSteps(t)[i], info)'
    BY <1>8, <2>1 DEF Left
  <2> QED
    BY <1>0, <1>8, <2>1, <2>2, StepKeepsInv DEF BinariesOK
<1>9. ASSUME Finished(FALSE), UNCHANGED binaries PROVE BuildInv'
  BY <1>0, <1>9, FailedRunKeepsInv DEF BinariesOK
<1>10. CASE UNCHANGED buildVars
  <2>1. BinariesOK' /\ SuccessfulBuildIsOfOneIdentity'
    BY <1>10 DEF buildVars, BuildInv, BinariesOK, SuccessfulBuildIsOfOneIdentity
  <2>2. ASSUME NEW t \in Target, NEW info \in Identity, NEW k \in Nat, AtWork(t, info, k)
        PROVE  AtWork(t, info, k)'
    BY <1>10, <2>2, ZenonT(30) DEF buildVars, AtWork, Left
  <2>3. build' = build
    BY <1>10 DEF buildVars
  <2> QED
    BY <2>1, <2>2, <2>3 DEF BuildInv
<1>11. CASE buildBinaries
  BY <1>2, <1>9, <1>11, ZenonT(30) DEF buildBinaries
<1>12. CASE buildDesktop
  BY <1>3, <1>9, <1>12, ZenonT(30) DEF buildDesktop
<1>13. CASE replaceArtifact
  BY <1>4, <1>9, <1>13, ZenonT(30) DEF replaceArtifact, Removed
<1>14. CASE copyPath
  BY <1>5, <1>9, <1>14, ZenonT(30) DEF copyPath
<1>15. CASE buildAndroid
  BY <1>6, <1>7, <1>9, <1>15, ZenonT(30) DEF buildAndroid
<1>16. CASE stageBuildInfo
  BY <1>8, <1>9, <1>16, ZenonT(30) DEF stageBuildInfo
<1>17. CASE buildKilled
  BY <1>9, <1>17 DEF buildKilled
<1> QED
  BY <1>1, <1>10, <1>11, <1>12, <1>13, <1>14, <1>15, <1>16, <1>17 DEF BuildNext

(* veqri-build, for every set of identities, files and earlier runs: after *)
(* a run that succeeded each artifact it names is whole and of its         *)
(* identity, whatever failed or interrupted runs of other identities had   *)
(* left.                                                                   *)
THEOREM SuccessfulBuildHolds == BuildSpec => []SuccessfulBuildIsOfOneIdentity
<1>1. BuildInit => BuildInv
  BY DEF BuildInit, BuildInv, BinariesOK, SuccessfulBuildIsOfOneIdentity
<1>2. BuildInv => SuccessfulBuildIsOfOneIdentity
  BY DEF BuildInv
<1> QED
  BY <1>1, <1>2, BuildStepsKeepInv, PTL DEF BuildSpec

(***************************************************************************)
(* Migrations                                                              *)
(***************************************************************************)

Sums == {"absent", "blank"} \cup {ChecksumOf[b][v] : b \in Build, v \in Version}

OpenerPlace == {"start", "look", "apply", "open", "refused"}

MigrationTypeOK ==
    /\ recorded \in [Version -> Sums]
    /\ applied \in [Version -> Nat]
    /\ opener \in [Opener -> [build : Build, pc : OpenerPlace, version : Nat]]

\* A process has found, or written, its own checksum for every version it has
\* passed, and it looks at versions of its own only.
Passed(o) ==
    LET b == opener[o].build
    IN /\ opener[o].pc \in {"look", "apply"} =>
             /\ opener[o].version \in 1..Supports[b]
             /\ \A w \in 1..(opener[o].version - 1) : recorded[w] = ChecksumOf[b][w]
       /\ opener[o].pc = "open" => \A w \in 1..Supports[b] : recorded[w] = ChecksumOf[b][w]

MigrationInv ==
    /\ MigrationTypeOK
    /\ \A v \in Version : applied[v] = (IF recorded[v] = "absent" THEN 0 ELSE 1)
    /\ \A v, w \in Version : v < w /\ recorded[w] # "absent" => recorded[v] # "absent"
    /\ \A o \in Opener : Passed(o)

(* Versions up to one that exists exist.                                   *)
LEMMA UpToVersion ==
  ASSUME NEW n \in Version
  PROVE  /\ \A w \in 1..n : w \in Version
         /\ \A k \in 1..n : \A w \in 1..(k - 1) : w \in Version
  BY DEF Version

(* What Moves changes: one process, not its build.                         *)
LEMMA MovesFacts ==
  ASSUME MigrationTypeOK, NEW o \in Opener, NEW pc \in OpenerPlace, NEW v \in Nat, Moves(o, pc, v)
  PROVE  /\ opener' \in [Opener -> [build : Build, pc : OpenerPlace, version : Nat]]
         /\ opener'[o].build = opener[o].build /\ opener'[o].pc = pc /\ opener'[o].version = v
         /\ \A p \in Opener \ {o} : opener'[p] = opener[p]
  BY ZenonT(30) DEF MigrationTypeOK, Moves

(* The checksum of a migration is neither missing nor blank.               *)
LEMMA ChecksumFacts ==
  ASSUME NEW b \in Build, NEW v \in Version
  PROVE  ChecksumOf[b][v] \in Sums /\ ChecksumOf[b][v] \notin {"absent", "blank"}
  BY MigrationAssumption DEF Sums

(* What a process that is under way knows.                                  *)
LEMMA UnderWay ==
  ASSUME MigrationInv, NEW o \in Opener, opener[o].pc \in {"look", "apply"}
  PROVE  LET b == opener[o].build
             v == opener[o].version
         IN /\ b \in Build /\ Supports[b] \in Version /\ v \in 1..Supports[b] /\ v \in Version /\ v \in Nat
            /\ \A w \in 1..(v - 1) : w \in Version /\ recorded[w] = ChecksumOf[b][w]
            /\ ChecksumOf[b][v] \in Sums /\ ChecksumOf[b][v] \notin {"absent", "blank"}
<1> DEFINE b == opener[o].build
           v == opener[o].version
<1>1. b \in Build /\ v \in Nat
  BY DEF MigrationInv, MigrationTypeOK
<1>2. Supports[b] \in Version
  BY <1>1, MigrationAssumption
<1>3. v \in 1..Supports[b] /\ \A w \in 1..(v - 1) : recorded[w] = ChecksumOf[b][w]
  BY DEF MigrationInv, Passed
<1>4. v \in Version /\ \A w \in 1..(v - 1) : w \in Version
  BY <1>2, <1>3, UpToVersion, ZenonT(30)
<1>5. ChecksumOf[b][v] \in Sums /\ ChecksumOf[b][v] \notin {"absent", "blank"}
  BY <1>1, <1>4, ChecksumFacts, ZenonT(30)
<1> QED
  BY <1>1, <1>2, <1>3, <1>4, <1>5, ZenonT(30)

(* One process moves and nothing is recorded.                               *)
LEMMA OnlyMoves ==
  ASSUME MigrationInv, NEW o \in Opener, NEW pc \in OpenerPlace, NEW v \in Nat, Moves(o, pc, v),
         UNCHANGED <<recorded, applied>>, Passed(o)'
  PROVE  MigrationInv'
<1>1. /\ opener' \in [Opener -> [build : Build, pc : OpenerPlace, version : Nat]]
      /\ \A p \in Opener \ {o} : opener'[p] = opener[p]
  BY MovesFacts, ZenonT(30) DEF MigrationInv
<1>2. MigrationTypeOK'
  BY <1>1 DEF MigrationInv, MigrationTypeOK
<1>3. \A p \in Opener : Passed(p)'
  BY <1>1 DEF MigrationInv, Passed
<1> QED
  BY <1>2, <1>3 DEF MigrationInv

(* A checksum that is recorded stays: checkVersion only fills in an empty   *)
(* one, applyMigration only a missing row.  So what other processes have    *)
(* passed they still have.                                                  *)
LEMMA RecordedStays ==
  ASSUME MigrationInv, NEW v \in Version, recorded[v] \in {"absent", "blank"}, NEW sum,
         recorded' = [recorded EXCEPT ![v] = sum],
         NEW p \in Opener, UNCHANGED opener[p], opener[p].version \in Nat
  PROVE  Passed(p)'
<1>1. opener[p].build \in Build /\ Supports[opener[p].build] \in Version
  BY MigrationAssumption, ZenonT(30) DEF MigrationInv, MigrationTypeOK
<1>2. \A w \in Version : recorded[w] = ChecksumOf[opener[p].build][w] => recorded'[w] = recorded[w]
  BY <1>1, MigrationAssumption, ZenonT(30) DEF MigrationInv, MigrationTypeOK
<1>3. Passed(p)
  BY ZenonT(30) DEF MigrationInv
<1>4. \A w \in 1..Supports[opener[p].build] : w \in Version
  BY <1>1, UpToVersion
<1>5. opener[p].pc \in {"look", "apply"} => \A w \in 1..(opener[p].version - 1) : w \in Version
  BY <1>1, <1>3, UpToVersion DEF Passed
<1> QED
  BY <1>2, <1>3, <1>4, <1>5, ZenonT(30) DEF Passed

(* The process that moves on, to the next version or to "open".             *)
LEMMA NextVersion ==
  ASSUME MigrationInv, NEW o \in Opener, opener[o].pc \in {"look", "apply"},
         MigrationTypeOK',
         \A w \in 1..(opener[o].version - 1) : recorded'[w] = recorded[w],
         recorded'[opener[o].version] = ChecksumOf[opener[o].build][opener[o].version],
         Moves(o, IF opener[o].version = Supports[opener[o].build] THEN "open" ELSE "look",
                  opener[o].version + 1)
  PROVE  Passed(o)'
<1> DEFINE b == opener[o].build
           v == opener[o].version
<1>1. b \in Build /\ Supports[b] \in Version /\ v \in 1..Supports[b]
  BY MigrationAssumption, ZenonT(30) DEF MigrationInv, MigrationTypeOK, Passed
<1>2. \A w \in 1..v : recorded'[w] = ChecksumOf[b][w]
  BY <1>1 DEF MigrationInv, Passed, Version
<1>3. opener'[o].build = b /\ opener'[o].version = v + 1
      /\ opener'[o].pc = IF v = Supports[b] THEN "open" ELSE "look"
  BY DEF Moves, MigrationInv, MigrationTypeOK
<1>4. CASE v = Supports[b]
  BY <1>1, <1>2, <1>3, <1>4, ZenonT(30) DEF Passed
<1>5. CASE v # Supports[b]
  <2>1. v + 1 \in 1..Supports[b] /\ (v + 1) - 1 = v
    BY <1>1, <1>5 DEF Version
  <2>2. opener'[o].version \in 1..Supports[b] /\ opener'[o].version - 1 = v /\ opener'[o].pc = "look"
    BY <1>3, <1>5, <2>1, ZenonT(30)
  <2> QED
    BY <1>2, <1>3, <2>2, ZenonT(30) DEF Passed
<1> QED
  BY <1>4, <1>5, ZenonT(30)

(* readNewest keeps the invariant.                                         *)
LEMMA ReadNewestKeepsInv ==
  ASSUME MigrationInv, NEW o \in Opener, readNewest(o)
  PROVE  MigrationInv'
<1>1. MigrationTypeOK /\ Supports[opener[o].build] \in 1..4 /\ UNCHANGED <<recorded, applied>>
  BY MigrationAssumption, ZenonT(30) DEF MigrationInv, MigrationTypeOK, readNewest, Version
<1>2. CASE Moves(o, "refused", 0)
  <2>1. Passed(o)'
    BY <1>1, <1>2, MovesFacts, ZenonT(30) DEF Passed, OpenerPlace
  <2> QED
    BY <1>1, <1>2, <2>1, OnlyMoves, ZenonT(30) DEF OpenerPlace
<1>3. CASE Moves(o, "look", 1)
  <2>1. opener'[o].build = opener[o].build /\ opener'[o].pc = "look" /\ opener'[o].version = 1
    BY <1>1, <1>3, MovesFacts DEF OpenerPlace
  <2>2. Passed(o)'
    BY <1>1, <2>1 DEF Passed
  <2> QED
    BY <1>1, <1>3, <2>2, OnlyMoves DEF OpenerPlace
<1> QED
  BY <1>2, <1>3, ZenonT(30) DEF readNewest

(* checkVersion keeps the invariant: it fills in a blank checksum, with    *)
(* its own.                                                                *)
LEMMA CheckVersionKeepsInv ==
  ASSUME MigrationInv, NEW o \in Opener, checkVersion(o)
  PROVE  MigrationInv'
<1> DEFINE b == opener[o].build
           v == opener[o].version
           sum == ChecksumOf[b][v]
           next == IF v = Supports[b] THEN "open" ELSE "look"
<1>1. /\ b \in Build /\ Supports[b] \in Version /\ v \in 1..Supports[b] /\ v \in Version /\ v \in Nat
      /\ \A w \in 1..(v - 1) : w \in Version /\ recorded[w] = ChecksumOf[b][w]
      /\ sum \in Sums /\ sum \notin {"absent", "blank"}
  BY UnderWay, ZenonT(30) DEF checkVersion
<1>2. opener[o].pc = "look" /\ MigrationTypeOK
  BY ZenonT(30) DEF checkVersion, MigrationInv
<1>3. "apply" \in OpenerPlace /\ "refused" \in OpenerPlace /\ next \in OpenerPlace /\ v + 1 \in Nat
  BY <1>1 DEF OpenerPlace
<1>4. CASE recorded[v] = "absent" /\ Moves(o, "apply", v) /\ UNCHANGED <<recorded, applied>>
  <2>1. opener'[o].build = b /\ opener'[o].version = v /\ opener'[o].pc = "apply"
    BY <1>1, <1>2, <1>3, <1>4, MovesFacts, ZenonT(30)
  <2>2. Passed(o)'
    BY <1>1, <1>4, <2>1, ZenonT(30) DEF Passed
  <2> QED
    BY <1>1, <1>3, <1>4, <2>2, OnlyMoves, ZenonT(30)
<1>5. CASE recorded[v] = "blank" /\ recorded' = [recorded EXCEPT ![v] = sum] /\ Moves(o, next, v + 1) /\ UNCHANGED applied
  <2>1. /\ opener' \in [Opener -> [build : Build, pc : OpenerPlace, version : Nat]]
        /\ \A p \in Opener \ {o} : opener'[p] = opener[p]
    BY <1>2, <1>3, <1>5, MovesFacts, ZenonT(30)
  <2>2. MigrationTypeOK'
    BY <1>1, <1>2, <1>5, <2>1, ZenonT(30) DEF MigrationTypeOK
  <2>3. \A w \in Version : recorded'[w] = IF w = v THEN sum ELSE recorded[w]
    BY <1>1, <1>2, <1>5, ZenonT(30) DEF MigrationTypeOK
  <2>4. Passed(o)'
    <3>1. \A w \in 1..(v - 1) : recorded'[w] = recorded[w]
      BY <1>1, <2>3, ZenonT(30)
    <3> QED
      BY <1>1, <1>2, <1>5, <2>2, <2>3, <3>1, NextVersion, ZenonT(30)
  <2>5. ASSUME NEW p \in Opener \ {o} PROVE Passed(p)'
    BY <1>1, <1>5, <2>1, RecordedStays, ZenonT(30) DEF MigrationInv, MigrationTypeOK
  <2>6. \A w \in Version : recorded'[w] = "absent" <=> recorded[w] = "absent"
    BY <1>1, <1>5, <2>3, ZenonT(30)
  <2> QED
    BY <1>5, <2>2, <2>4, <2>5, <2>6, ZenonT(30) DEF MigrationInv
<1>6. CASE recorded[v] = sum /\ Moves(o, next, v + 1) /\ UNCHANGED <<recorded, applied>>
  <2>1. /\ opener' \in [Opener -> [build : Build, pc : OpenerPlace, version : Nat]]
    BY <1>2, <1>3, <1>6, MovesFacts, ZenonT(30)
  <2>2. MigrationTypeOK'
    BY <1>2, <1>6, <2>1, ZenonT(30) DEF MigrationTypeOK
  <2>3. Passed(o)'
    BY <1>2, <1>6, <2>2, NextVersion, ZenonT(30)
  <2> QED
    BY <1>3, <1>6, <2>3, OnlyMoves, ZenonT(30)
<1>7. CASE Moves(o, "refused", v) /\ UNCHANGED <<recorded, applied>>
  <2>1. Passed(o)'
    BY <1>1, <1>2, <1>3, <1>7, MovesFacts, ZenonT(30) DEF Passed
  <2> QED
    BY <1>1, <1>3, <1>7, <2>1, OnlyMoves, ZenonT(30)
<1> QED
  BY <1>4, <1>5, <1>6, <1>7, ZenonT(30) DEF checkVersion

(* The transaction of applyMigration: the row was still missing, and the    *)
(* versions before it are recorded because this process has passed them.    *)
LEMMA ApplyMigrationKeepsInv ==
  ASSUME MigrationInv, NEW o \in Opener, applyMigration(o)
  PROVE  MigrationInv'
<1> DEFINE b == opener[o].build
           v == opener[o].version
           sum == ChecksumOf[b][v]
           next == IF v = Supports[b] THEN "open" ELSE "look"
<1>1. /\ b \in Build /\ Supports[b] \in Version /\ v \in 1..Supports[b] /\ v \in Version /\ v \in Nat
      /\ \A w \in 1..(v - 1) : w \in Version /\ recorded[w] = ChecksumOf[b][w]
      /\ sum \in Sums /\ sum \notin {"absent", "blank"}
  BY UnderWay, ZenonT(30) DEF applyMigration
<1>2. opener[o].pc = "apply" /\ MigrationTypeOK
  BY ZenonT(30) DEF applyMigration, MigrationInv
<1>3. "refused" \in OpenerPlace /\ next \in OpenerPlace /\ v + 1 \in Nat
  BY <1>1 DEF OpenerPlace
<1>4. CASE Committed(v, sum) /\ Moves(o, next, v + 1)
  <2>1. /\ opener' \in [Opener -> [build : Build, pc : OpenerPlace, version : Nat]]
        /\ \A p \in Opener \ {o} : opener'[p] = opener[p]
    BY <1>2, <1>3, <1>4, MovesFacts, ZenonT(30)
  <2>2. recorded[v] = "absent" /\ recorded' = [recorded EXCEPT ![v] = sum] /\ applied' = [applied EXCEPT ![v] = @ + 1]
    BY <1>4, ZenonT(30) DEF Committed
  <2>3. MigrationTypeOK'
    BY <1>1, <1>2, <2>1, <2>2 DEF MigrationTypeOK
  <2>4. \A w \in Version : recorded'[w] = IF w = v THEN sum ELSE recorded[w]
    BY <1>1, <1>2, <2>2, ZenonT(30) DEF MigrationTypeOK
  <2>5. \A w \in Version : applied'[w] = (IF recorded'[w] = "absent" THEN 0 ELSE 1)
    <3>1. \A w \in Version : applied[w] = (IF recorded[w] = "absent" THEN 0 ELSE 1)
      BY ZenonT(30) DEF MigrationInv
    <3>2. \A w \in Version : applied'[w] = IF w = v THEN 1 ELSE applied[w]
      BY <1>1, <1>2, <2>2, <3>1 DEF MigrationTypeOK
    <3> QED
      BY <1>1, <2>4, <3>1, <3>2, ZenonT(30)
  <2>6. \A u, w \in Version : u < w /\ recorded'[w] # "absent" => recorded'[u] # "absent"
    <3>1. ASSUME NEW u \in Version, u < v PROVE recorded[u] # "absent"
      <4>1. u \in 1..(v - 1)
        BY <1>1, <3>1 DEF Version
      <4> QED
        BY <1>1, <4>1, MigrationAssumption, ZenonT(30)
    <3> QED
      BY <1>1, <2>4, <3>1, ZenonT(30) DEF MigrationInv
  <2>7. Passed(o)'
    <3>1. \A w \in 1..(v - 1) : recorded'[w] = recorded[w]
      BY <1>1, <2>4, ZenonT(30)
    <3> QED
      BY <1>1, <1>2, <1>4, <2>3, <2>4, <3>1, NextVersion, ZenonT(30)
  <2>8. ASSUME NEW p \in Opener \ {o} PROVE Passed(p)'
    BY <1>1, <2>1, <2>2, RecordedStays, ZenonT(30) DEF MigrationInv, MigrationTypeOK
  <2> QED
    BY <2>3, <2>5, <2>6, <2>7, <2>8 DEF MigrationInv
<1>5. CASE Moves(o, "refused", v) /\ UNCHANGED <<recorded, applied>>
  <2>1. Passed(o)'
    BY <1>1, <1>2, <1>3, <1>5, MovesFacts, ZenonT(30) DEF Passed
  <2> QED
    BY <1>1, <1>3, <1>5, <2>1, OnlyMoves, ZenonT(30)
<1> QED
  BY <1>4, <1>5, ZenonT(30) DEF applyMigration

(* The inductive invariant: every migration is committed with its record,   *)
(* and a process has passed only versions that are recorded as it knows them. *)
LEMMA MigrationInvHolds == MigrationSpec => []MigrationInv
<1>1. MigrationInit => MigrationInv
  <2> SUFFICES ASSUME MigrationInit PROVE MigrationInv
    OBVIOUS
  <2>1. PICK first \in {"absent", "blank"} \cup {ChecksumOf[b][1] : b \in Build} :
           /\ recorded = [v \in Version |-> IF v = 1 THEN first ELSE "absent"]
           /\ applied = [v \in Version |-> IF v = 1 /\ first # "absent" THEN 1 ELSE 0]
    BY ZenonT(30) DEF MigrationInit
  <2>2. first \in Sums /\ "absent" \in Sums
    <3>1. 1 \in Version
      BY DEF Version
    <3> QED
      BY <2>1, <3>1 DEF Sums
  <2>3. opener \in [Opener -> [build : Build, pc : OpenerPlace, version : Nat]]
    BY DEF MigrationInit, OpenerPlace
  <2>4. recorded \in [Version -> Sums] /\ applied \in [Version -> Nat]
    BY <2>1, <2>2, ZenonT(30)
  <2>5. \A o \in Opener : Passed(o)
    BY DEF MigrationInit, Passed
  <2>6. \A v, w \in Version : v < w /\ recorded[w] # "absent" => recorded[v] # "absent"
    BY <2>1 DEF Version
  <2> QED
    BY <2>1, <2>3, <2>4, <2>5, <2>6 DEF MigrationInv, MigrationTypeOK
<1>2. MigrationInv /\ [MigrationNext]_migrationVars => MigrationInv'
  <2> SUFFICES ASSUME MigrationInv, [MigrationNext]_migrationVars PROVE MigrationInv'
    OBVIOUS
  <2>1. ASSUME NEW o \in Opener, openerRestarts(o) PROVE MigrationInv'
    <3>1. Passed(o)'
      BY <2>1, MovesFacts, ZenonT(30) DEF openerRestarts, MigrationInv, Passed, OpenerPlace
    <3> QED
      BY <2>1, <3>1, OnlyMoves DEF openerRestarts, OpenerPlace
  <2>2. CASE UNCHANGED migrationVars
    BY <2>2, ZenonT(30) DEF migrationVars, MigrationInv, MigrationTypeOK, Passed
  <2> QED
    BY <2>1, <2>2, ReadNewestKeepsInv, CheckVersionKeepsInv, ApplyMigrationKeepsInv DEF MigrationNext
<1> QED
  BY <1>1, <1>2, PTL DEF MigrationSpec

(* Store.Migrate and applyMigration: for every set of processes and builds, *)
(* and whatever fails or restarts, a migration is committed once, with its  *)
(* record and after its predecessors, and a process that has opened the     *)
(* database finds every version it knows as it knows it.                    *)
THEOREM MigratedOnceTheorem == MigrationSpec => []MigratedOnce
<1>1. MigrationInv => MigratedOnce
  BY ZenonT(30) DEF MigrationInv, MigratedOnce, Passed
<1> QED
  BY <1>1, MigrationInvHolds, PTL

-----------------------------------------------------------------------------
(* The order of sessions: by start time, then by identifier.                *)
Newer(s, r) == StartedAt[s] > StartedAt[r] \/ (StartedAt[s] = StartedAt[r] /\ s > r)

(* The order is strict and total on sessions, and is the one Retained      *)
(* uses.                                                                   *)
LEMMA NewerIsTotal ==
  ASSUME NEW r \in Session, NEW s \in Session
  PROVE  /\ ~Newer(s, s) /\ ~(Newer(s, r) /\ Newer(r, s))
         /\ \A u \in Session : Newer(s, r) /\ Newer(r, u) => Newer(s, u)
         /\ Newer(s, r) \/ Newer(r, s) \/ s = r
         /\ ~Newer(r, s) <=> StartedAt[s] > StartedAt[r] \/ (StartedAt[s] = StartedAt[r] /\ s >= r)
<1>1. \A u \in Session : u \in Nat /\ StartedAt[u] \in Nat
  BY MigrationAssumption, ZenonT(30)
<1> QED
  BY <1>1 DEF Newer

(* The sessions f[1] to f[n] have a newest one: else take the least n for   *)
(* which they have not.                                                     *)
LEMMA NewestOfList ==
  ASSUME NEW n \in Nat, NEW f \in [1..n -> Session], n > 0
  PROVE  \E i \in 1..n : \A j \in 1..n : ~Newer(f[j], f[i])
<1> DEFINE None(m, g) == \A i \in 1..m : \E j \in 1..m : Newer(g[j], g[i])
           Bad == {m \in Nat : m > 0 /\ \E g \in [1..m -> Session] : None(m, g)}
<1> SUFFICES Bad = {}
  BY ZenonT(30) DEF None
<1> SUFFICES ASSUME Bad # {} PROVE FALSE
  OBVIOUS
<1>1. PICK m \in Bad : \A k \in Bad : ~ (<<k, m>> \in OpToRel(<, Nat))
  BY WFMin, NatLessThanWellFounded, ZenonT(30)
<1>2. m \in Nat /\ m > 0
  OBVIOUS
<1>3. PICK g \in [1..m -> Session] : None(m, g)
  BY ZenonT(30)
<1>4. CASE m = 1
  BY <1>3, <1>4, NewerIsTotal
<1>5. CASE m > 1
  <2>1. m - 1 \notin Bad
    <3>1. m - 1 \in Nat /\ m - 1 < m
      BY <1>2, <1>5
    <3>2. <<m - 1, m>> \in OpToRel(<, Nat)
      BY <1>2, <3>1, ZenonT(30) DEF OpToRel
    <3> QED
      BY <1>1, <3>2, ZenonT(30)
  <2> DEFINE h == [i \in 1..(m - 1) |-> g[i]]
  <2>2. /\ m - 1 \in Nat /\ m - 1 > 0 /\ h \in [1..(m - 1) -> Session]
        /\ \A i \in 1..(m - 1) : h[i] = g[i] /\ i \in 1..m
    <3>1. m - 1 \in Nat /\ m - 1 > 0 /\ \A i \in 1..(m - 1) : i \in 1..m
      BY <1>2, <1>5
    <3>2. \A i \in 1..m : g[i] \in Session
      BY <1>3
    <3> QED
      BY <3>1, <3>2
  <2>3. ~None(m - 1, h)
    BY <2>1, <2>2, ZenonT(30)
  <2>4. PICK i \in 1..(m - 1) : \A j \in 1..(m - 1) : ~Newer(g[j], g[i])
    BY <2>2, <2>3
  <2>5. Newer(g[m], g[i])
    <3>1. PICK j \in 1..m : Newer(g[j], g[i])
      BY <1>3, <2>2
    <3>2. j = m
      BY <1>2, <2>4, <3>1
    <3> QED
      BY <3>1, <3>2
  <2>6. PICK j \in 1..m : Newer(g[j], g[m])
    BY <1>2, <1>3
  <2>7. j # m /\ g[j] \in Session /\ g[m] \in Session /\ g[i] \in Session
    <3>0. i \in 1..m /\ m \in 1..m /\ j \in 1..m
      BY <1>2, <2>2
    <3>1. g[j] \in Session /\ g[m] \in Session /\ g[i] \in Session
      BY <3>0, ZenonT(30)
    <3> QED
      BY <2>6, <3>1, NewerIsTotal
  <2>8. Newer(g[j], g[i]) /\ j \in 1..(m - 1)
    BY <1>2, <2>5, <2>6, <2>7, NewerIsTotal
  <2> QED
    BY <2>4, <2>8
<1> QED
  BY <1>2, <1>4, <1>5

(* Every set of sessions that is not empty has a newest one.               *)
LEMMA NewestExists ==
  ASSUME NEW M \in SUBSET Session, M # {}
  PROVE  \E k \in M : \A r \in M : ~Newer(r, k)
<1>1. PICK seq \in Seq(Session) : \A s \in Session : \E i \in 1..Len(seq) : seq[i] = s
  BY MigrationAssumption, ZenonT(30) DEF IsFiniteSet
<1>2. PICK m \in M : TRUE
  OBVIOUS
<1> DEFINE n == Len(seq)
           f == [i \in 1..n |-> IF seq[i] \in M THEN seq[i] ELSE m]
<1>3. n \in Nat /\ f \in [1..n -> M] /\ \A t \in M : \E i \in 1..n : f[i] = t
  <2>1. n \in Nat /\ \A i \in 1..n : f[i] = IF seq[i] \in M THEN seq[i] ELSE m
    OBVIOUS
  <2>2. f \in [1..n -> M]
    OBVIOUS
  <2>3. \A t \in M : \E i \in 1..n : seq[i] = t
    BY <1>1
  <2> QED
    BY <2>1, <2>2, <2>3
<1> HIDE DEF n, f
<1>4. n > 0 /\ f \in [1..n -> Session]
  BY <1>3
<1>5. PICK i \in 1..n : \A j \in 1..n : ~Newer(f[j], f[i])
  BY <1>3, <1>4, NewestOfList, ZenonT(30)
<1> QED
  BY <1>3, <1>5

\* Until migration 2 is recorded no session was touched; then each device
\* that had one has its newest.
SessionsInv ==
    /\ active \subseteq Session
    /\ recorded[VoiceIndex] = "absent" => active = legacy
    /\ NewestSessionKept

(* prepareMigrationCompatibility leaves the device of a session one        *)
(* session, and none of its sessions is newer.                             *)
LEMMA ReconciledKeepsNewest ==
  ASSUME active \subseteq Session, NEW s \in active, NEW after, after = Reconciled(VoiceIndex)
  PROVE  /\ after \subseteq Session
         /\ \E k \in after :
              /\ DeviceOf[k] = DeviceOf[s] /\ StartedAt[k] >= StartedAt[s]
              /\ \A r \in after : DeviceOf[r] = DeviceOf[s] => r = k
<1> DEFINE mine == {r \in active : DeviceOf[r] = DeviceOf[s]}
<1>1. PICK k \in mine : \A r \in mine : ~Newer(r, k)
  BY NewestExists, ZenonT(30)
<1>2. k \in Retained(DeviceOf[s])
  BY <1>1, NewerIsTotal DEF Retained
<1>3. \A r \in after : \E d : r \in Retained(d)
  BY DEF Reconciled
<1>4. \A r \in after : r \in Session /\ r \in active /\ r \in Retained(DeviceOf[r])
  BY <1>3 DEF Retained
<1>5. k \in after
  BY <1>1, <1>2 DEF Reconciled
<1>6. ASSUME NEW r \in after, DeviceOf[r] = DeviceOf[s] PROVE r = k
  <2>1. r \in mine /\ ~Newer(k, r) /\ ~Newer(r, k)
    BY <1>1, <1>4, <1>6, NewerIsTotal DEF Retained
  <2> QED
    BY <2>1, NewerIsTotal
<1>7. StartedAt[k] >= StartedAt[s]
  <2>1. ~Newer(s, k) /\ StartedAt[k] \in Nat /\ StartedAt[s] \in Nat
    BY <1>1, MigrationAssumption
  <2> QED
    BY <2>1 DEF Newer
<1> QED
  BY <1>1, <1>4, <1>5, <1>6, <1>7, ZenonT(30)

(* Store.Migrate and prepareMigrationCompatibility, for every number of    *)
(* processes, builds and sessions: migrations are committed once and in    *)
(* order, and migration 2 keeps of each device exactly the newest active   *)
(* session.                                                                *)
THEOREM MigrationsKeepDataTheorem == MigrationSpec => []MigrationsKeepData
<1>0. VoiceIndex \in Version /\ VoiceIndex # 1
  BY DEF VoiceIndex, Version
<1>1. MigrationInit => SessionsInv
  <2> SUFFICES ASSUME MigrationInit PROVE SessionsInv
    OBVIOUS
  <2>1. PICK first :
           /\ recorded = [v \in Version |-> IF v = 1 THEN first ELSE "absent"]
           /\ active \in IF first = "absent" THEN {{}} ELSE SUBSET Session
    BY ZenonT(30) DEF MigrationInit
  <2>2. recorded[VoiceIndex] = "absent" /\ active \subseteq Session
    BY <1>0, <2>1
  <2> QED
    BY <2>2 DEF MigrationInit, SessionsInv, NewestSessionKept
<1>2. MigrationInv /\ SessionsInv /\ [MigrationNext]_migrationVars => SessionsInv'
  <2> SUFFICES ASSUME MigrationInv, SessionsInv, [MigrationNext]_migrationVars PROVE SessionsInv'
    OBVIOUS
  <2>0. recorded \in [Version -> Sums] /\ MigrationTypeOK
    BY DEF MigrationInv, MigrationTypeOK
  <2>1. ASSUME UNCHANGED <<active, legacy>>,
               recorded'[VoiceIndex] = "absent" <=> recorded[VoiceIndex] = "absent"
        PROVE  SessionsInv'
    BY <2>1 DEF SessionsInv, NewestSessionKept
  <2>2. ASSUME NEW o \in Opener, checkVersion(o) PROVE SessionsInv'
    <3> DEFINE v == opener[o].version
               sum == ChecksumOf[opener[o].build][v]
    <3>1. v \in Version /\ sum # "absent"
      BY <2>2, UnderWay, ZenonT(30) DEF checkVersion
    <3>2. \/ recorded' = recorded
          \/ recorded[v] = "blank" /\ recorded' = [recorded EXCEPT ![v] = sum]
      BY <2>2, ZenonT(30) DEF checkVersion
    <3>3. recorded'[VoiceIndex] = "absent" <=> recorded[VoiceIndex] = "absent"
      BY <1>0, <2>0, <3>1, <3>2
    <3> QED
      BY <2>1, <2>2, <3>3, ZenonT(30) DEF checkVersion
  <2>3. ASSUME NEW o \in Opener, applyMigration(o) PROVE SessionsInv'
    <3> DEFINE v == opener[o].version
               sum == ChecksumOf[opener[o].build][v]
    <3>1. v \in Version /\ sum # "absent"
      BY <2>3, UnderWay, ZenonT(30) DEF applyMigration
    <3>2. CASE Committed(v, sum) /\ active' = Reconciled(v) /\ legacy' = legacy
      <4>1. recorded[v] = "absent" /\ recorded' = [recorded EXCEPT ![v] = sum]
        BY <3>2, ZenonT(30) DEF Committed
      <4>2. CASE v = VoiceIndex
        <5>1. recorded'[VoiceIndex] # "absent" /\ active = legacy /\ active \subseteq Session
          BY <1>0, <2>0, <3>1, <4>1, <4>2, ZenonT(30) DEF SessionsInv
        <5>2. active' = Reconciled(VoiceIndex) /\ active' \subseteq Session
          BY <3>2, <4>2, <5>1, MigrationAssumption, ZenonT(30) DEF Reconciled, Retained
        <5> QED
          BY <3>2, <5>1, <5>2, ReconciledKeepsNewest, ZenonT(30) DEF SessionsInv, NewestSessionKept
      <4>3. CASE v # VoiceIndex
        <5>1. recorded'[VoiceIndex] = recorded[VoiceIndex] /\ active' = active
          BY <1>0, <2>0, <3>1, <3>2, <4>1, <4>3, ZenonT(30) DEF Reconciled
        <5> QED
          BY <2>1, <3>2, <5>1, ZenonT(30)
      <4> QED
        BY <4>2, <4>3
    <3>3. CASE UNCHANGED <<recorded, active, legacy>>
      BY <2>1, <3>3
    <3> QED
      BY <2>3, <3>2, <3>3, ZenonT(30) DEF applyMigration
  <2>4. ASSUME NEW o \in Opener, readNewest(o) \/ openerRestarts(o) PROVE SessionsInv'
    BY <2>1, <2>4, ZenonT(30) DEF readNewest, openerRestarts
  <2>5. CASE UNCHANGED migrationVars
    BY <2>1, <2>5 DEF migrationVars
  <2> QED
    BY <2>2, <2>3, <2>4, <2>5 DEF MigrationNext
<1>3. MigrationSpec => []MigrationInv
  BY MigrationInvHolds
<1>4. MigrationSpec => []MigratedOnce
  BY MigratedOnceTheorem
<1>5. SessionsInv /\ MigratedOnce => MigrationsKeepData
  BY DEF SessionsInv, MigrationsKeepData
<1> QED
  BY <1>1, <1>2, <1>3, <1>4, <1>5, PTL DEF MigrationSpec

=============================================================================
