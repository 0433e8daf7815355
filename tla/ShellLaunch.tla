---------------------------- MODULE ShellLaunch ----------------------------
(* Which bytes a shell task runs (tools/shell/shell.go, handleShell in          *)
(* internal/api/tools.go, processShell in core/agents/runtime.go).  Between the *)
(* request, the decision, the claim by a worker and the start of the process    *)
(* files are replaced and links repointed, and a newer build of Core may refuse *)
(* more programs.                                                              *)
EXTENDS Naturals, FiniteSets

CONSTANTS
    Path,      \* places an executable may be at
    Protected, \* those in root-owned system directories
    Alias,     \* names looked up on PATH
    Content,   \* what a file may hold; its digest stands for itself
    Script,    \* contents that are refused: they start with #!
    Harmless,  \* protected paths in readOnlyCommands, without operands
    ShellTask,
    MaxSwaps   \* bound on changes of the file system

Absent == "no file"
NoDigest == "no digest"

ASSUME ShellAssumption ==
    /\ Protected \subseteq Path /\ Harmless \subseteq Protected
    /\ Path \ Protected # {}
    /\ Script \subseteq Content
    /\ Absent \notin Content /\ NoDigest \notin Content
    /\ MaxSwaps \in Nat

VARIABLES
    content,    \* what is at each path
    target,     \* where each alias, and each path that became a link, leads
    privileged, \* paths whose base name is in privilegedCommands
    shellTask,  \* each task: its state, its stored input, its risk, what runs
    launched,   \* history: the bytes each task was started with
    swaps       \* history: changes of the file system

launchVars == <<content, target, privileged, shellTask, launched, swaps>>

NoTask == [pc |-> "none", command |-> Absent, digest |-> NoDigest, risk |-> "none",
           granted |-> FALSE, run |-> Absent, staged |-> Absent]

\* A legacy task was approved by a build that stored neither the canonical
\* path nor the digest.
LaunchInit ==
    /\ content \in [Path -> Content \ Script]
    /\ target = [x \in Path \cup Alias |->
                    IF x \in Path THEN x ELSE CHOOSE p \in Path : p \notin Protected]
    /\ privileged = {}
    /\ shellTask \in [ShellTask ->
          {NoTask} \cup {[NoTask EXCEPT !.pc = "queued", !.command = a, !.granted = TRUE] : a \in Alias}]
    /\ launched = [t \in ShellTask |-> Absent]
    /\ swaps = 0

(***************************************************************************)
(* ParseAndValidate                                                        *)
(***************************************************************************)
\* LookPath and EvalSymlinks.
Resolved(x) == target[target[x]]

\* resolveExecutable: a native binary, unchanged if a digest is given.
Resolvable(x, digest) ==
    /\ content[Resolved(x)] \notin Script \cup {Absent}
    /\ digest \in {NoDigest, content[Resolved(x)]}

\* trustedExecutablePath
Trusted(p) == p \in Protected

\* Classify, and the demotion of read-only programs from untrusted places.
Classify(p) ==
    IF p \in privileged THEN "privileged"
    ELSE IF p \in Harmless /\ Trusted(p) THEN "read_only" ELSE "state_changing"

(***************************************************************************)
(* The request and the decision                                            *)
(***************************************************************************)
othersStay == UNCHANGED <<content, target, privileged, swaps>>

\* handleShell stores the canonical path and the digest it hashed; policy
\* denies the privileged, allows the read-only and asks for the rest.
handleShell(t, a) ==
    /\ shellTask[t] = NoTask
    /\ Resolvable(a, NoDigest)
    /\ LET p == Resolved(a)
       IN /\ Classify(p) # "privileged"
          /\ shellTask' = [shellTask EXCEPT ![t] =
                [pc |-> IF Classify(p) = "read_only" THEN "queued" ELSE "waiting",
                 command |-> p, digest |-> content[p], risk |-> Classify(p),
                 granted |-> FALSE, run |-> Absent, staged |-> Absent]]
    /\ UNCHANGED launched
    /\ othersStay

decideApproval(t) ==
    /\ shellTask[t].pc = "waiting"
    /\ \E grant \in BOOLEAN :
          shellTask' = [shellTask EXCEPT ![t].pc = IF grant THEN "queued" ELSE "failed",
                                         ![t].granted = grant]
    /\ UNCHANGED launched
    /\ othersStay

(***************************************************************************)
(* The execution                                                           *)
(***************************************************************************)
Goes(t, pc) == shellTask' = [shellTask EXCEPT ![t].pc = pc]

\* The stored input is the canonical form of itself: same path, a digest.
Canonical(t) ==
    /\ Resolved(shellTask[t].command) = shellTask[t].command
    /\ shellTask[t].digest # NoDigest

\* processShell parses again, refuses the privileged and what is not
\* canonical, and records the invocation.
processShell(t) ==
    /\ shellTask[t].pc = "queued"
    /\ LET c == shellTask[t].command
       IN IF /\ Resolvable(c, shellTask[t].digest)
             /\ Classify(Resolved(c)) # "privileged"
             /\ Canonical(t)
          THEN Goes(t, "started")
          ELSE Goes(t, "failed")
    /\ UNCHANGED launched
    /\ othersStay

\* Execute parses once more and decides where to run from.
Execute(t) ==
    /\ shellTask[t].pc = "started"
    /\ LET c == shellTask[t].command
       IN IF ~Resolvable(c, shellTask[t].digest) \/ Classify(Resolved(c)) = "privileged"
          THEN Goes(t, "failed")
          ELSE shellTask' = [shellTask EXCEPT
                  ![t].pc = IF Trusted(Resolved(c)) THEN "direct" ELSE "staging",
                  ![t].run = Resolved(c)]
    /\ UNCHANGED launched
    /\ othersStay

\* The copy kept without comparing its digest.
StagedUnchecked(t, bytes) == TRUE

\* The bytes copied from the one open descriptor have the approved digest.
StagedMatches(t, bytes) == bytes = shellTask[t].digest

\* stageApprovedExecutable copies and hashes what it reads; a file written
\* while it is read gives bytes that are neither the old nor the new.
stageApprovedExecutable(t) ==
    /\ shellTask[t].pc = "staging"
    /\ \E bytes \in {content[Resolved(shellTask[t].run)], "torn"} :
          IF bytes # Absent /\ StagedMatches(t, bytes)
          THEN shellTask' = [shellTask EXCEPT ![t].pc = "staged", ![t].staged = bytes]
          ELSE Goes(t, "failed")
    /\ UNCHANGED launched
    /\ othersStay

\* The process starts: from the sealed copy, or from the protected path.
launch(t) ==
    /\ shellTask[t].pc \in {"staged", "direct"}
    /\ launched' = [launched EXCEPT ![t] =
          IF shellTask[t].pc = "staged" THEN shellTask[t].staged
          ELSE content[shellTask[t].run]]
    /\ Goes(t, "running")
    /\ othersStay

(***************************************************************************)
(* The surroundings                                                        *)
(***************************************************************************)
\* A file outside the protected directories is replaced, removed or becomes
\* a link; a name on PATH leads elsewhere.
fileChanges ==
    /\ swaps < MaxSwaps
    /\ swaps' = swaps + 1
    /\ \/ \E p \in Path \ Protected, c \in Content \cup {Absent} :
             /\ c # content[p]
             /\ content' = [content EXCEPT ![p] = c]
             /\ UNCHANGED target
       \/ \E x \in (Path \ Protected) \cup Alias, p \in Path :
             /\ p # target[x]
             /\ target' = [target EXCEPT ![x] = p]
             /\ UNCHANGED content
    /\ UNCHANGED <<privileged, shellTask, launched>>

\* Core is replaced by a build with a longer denylist.  Invocations that had
\* started are not started again.
coreUpgraded ==
    /\ \E p \in Path \ privileged : privileged' = privileged \cup {p}
    /\ privileged = {}
    /\ shellTask' = [t \in ShellTask |->
          IF shellTask[t].pc \in {"started", "direct", "staging", "staged", "running"}
          THEN [shellTask[t] EXCEPT !.pc = "failed"] ELSE shellTask[t]]
    /\ UNCHANGED <<content, target, launched, swaps>>

LaunchNext ==
    \/ \E t \in ShellTask :
          \/ \E a \in Alias \cup Path : handleShell(t, a)
          \/ decideApproval(t)
          \/ processShell(t)
          \/ Execute(t)
          \/ stageApprovedExecutable(t)
          \/ launch(t)
    \/ fileChanges
    \/ coreUpgraded

LaunchSpec == LaunchInit /\ [][LaunchNext]_launchVars

(***************************************************************************)
(* Claims                                                                  *)
(***************************************************************************)
\* What runs is what was decided on: the bytes hashed when the task was
\* requested, which somebody granted unless they were read-only and in a
\* protected place, and which the running build does not refuse; whatever was
\* swapped, repointed or upgraded meanwhile.
LaunchedIsApproved ==
    \A t \in ShellTask :
       /\ launched[t] # Absent =>
             /\ launched[t] = shellTask[t].digest
             /\ shellTask[t].granted \/ shellTask[t].risk = "read_only"
       /\ shellTask[t].pc = "running" => shellTask[t].run \notin privileged

=============================================================================
