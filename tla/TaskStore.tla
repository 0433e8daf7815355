----------------------------- MODULE TaskStore -----------------------------
(***************************************************************************)
(* The durable task tables of core/persistence: tasks, task_dependencies,  *)
(* approvals, tool_invocations and the outcome rows (assistant turn and    *)
(* connector delivery) of completed roots.  The store opens SQLite with    *)
(* one connection, so each transaction is one atomic step; every operator  *)
(* below is one transaction and is combined by TaskRuntime with the state  *)
(* of the process that calls it.                                           *)
(***************************************************************************)
EXTENDS TaskModel, Integers, FiniteSets

CONSTANTS
    Task,           \* task ids
    RootOf,         \* root_task_id of each task
    TaskType,       \* "shell", "synthesis" (graph roots) or "agent" (any other)
    MaxRetries,     \* max_retries of each task
    NeedsApproval,  \* shell tasks whose policy decision is REQUIRE_APPROVAL
    Priorities      \* priorities the clients use, within -100..100

ASSUME RootOfAssumption ==
    /\ RootOf \in [Task -> Task]
    /\ \A t \in Task : RootOf[RootOf[t]] = RootOf[t]

ASSUME TaskTypeAssumption ==
    /\ TaskType \in [Task -> {"shell", "synthesis", "agent"}]
    /\ \A t \in Task : RootOf[t] # t =>
           TaskType[t] = "agent" /\ TaskType[RootOf[t]] = "synthesis"

ASSUME MaxRetriesAssumption == MaxRetries \in [Task -> Nat]

ASSUME NeedsApprovalAssumption ==
    /\ NeedsApproval \subseteq Task
    /\ \A t \in NeedsApproval : TaskType[t] = "shell"

ASSUME PrioritiesAssumption == Priorities \subseteq -100 .. 100 /\ 0 \in Priorities

Absent == "ABSENT"     \* no row yet

VARIABLES
    status, version, retry, priority, dismissed,   \* columns of tasks
    approval,       \* status of the approval of a task, or Absent
    invocation,     \* status of the shell invocation of a task, or Absent
    outcomes        \* <<root, attempt>> of the stored turns and deliveries

storeVars == <<status, version, retry, priority, dismissed,
               approval, invocation, outcomes>>

StoreTypeOK ==
    /\ status \in [Task -> Status \cup {Absent}]
    /\ version \in [Task -> Nat]
    /\ retry \in [Task -> Nat]
    /\ priority \in [Task -> -100 .. 100]
    /\ dismissed \in [Task -> BOOLEAN]
    /\ approval \in [Task -> {Absent, "PENDING", "CONSUMED", "DENIED", "EXPIRED"}]
    /\ invocation \in [Task -> {Absent, "STARTED", "COMPLETED", "FAILED"}]
    /\ outcomes \subseteq Task \X Nat

Graph(t) == {u \in Task : RootOf[u] = RootOf[t]}
IsRoot(t) == RootOf[t] = t

\* submitAsk makes the synthesis root depend on every delegated child.
Deps(t) == {d \in Task : d # t /\ RootOf[d] = t}

-----------------------------------------------------------------------------
(* Creation: CreateAskWork and CreateTaskWithApproval insert a whole graph. *)

StoreInit ==
    /\ status = [t \in Task |-> Absent]
    /\ version = [t \in Task |-> 0]
    /\ retry = [t \in Task |-> 0]
    /\ priority = [t \in Task |-> 0]
    /\ dismissed = [t \in Task |-> FALSE]
    /\ approval = [t \in Task |-> Absent]
    /\ invocation = [t \in Task |-> Absent]
    /\ outcomes = {}

\* Mutant: the approval is recorded but the task is queued all the same.
InitialStatusUngated(t) == "QUEUED"

InitialStatus(t) == IF t \in NeedsApproval THEN "WAITING_FOR_APPROVAL" ELSE "QUEUED"

CreateTasks(r) ==
    /\ IsRoot(r) /\ status[r] = Absent
    /\ status' = [t \in Task |-> IF RootOf[t] = r THEN InitialStatus(t) ELSE status[t]]
    /\ version' = [t \in Task |-> IF RootOf[t] = r THEN 1 ELSE version[t]]
    /\ approval' = IF r \in NeedsApproval
                   THEN [approval EXCEPT ![r] = "PENDING"] ELSE approval
    /\ UNCHANGED <<retry, priority, dismissed, invocation, outcomes>>

-----------------------------------------------------------------------------
(* Transactions of the worker loop.                                         *)

SetStatus(t, s) ==
    /\ status' = [status EXCEPT ![t] = s]
    /\ version' = [version EXCEPT ![t] = @ + 1]

BumpChanged ==
    [t \in Task |-> IF status'[t] # status[t] THEN version[t] + 1 ELSE version[t]]

\* Mutant: an attempt is not counted.
CountRetryNever(S) == retry

CountRetry(S) == [t \in Task |-> IF t \in S THEN retry[t] + 1 ELSE retry[t]]

Claimable(t) ==
    /\ status[t] = "QUEUED" /\ ~dismissed[t]
    /\ \A d \in Deps(t) : Terminal(status[d])

ClaimNextTask(t) ==
    /\ Claimable(t)
    /\ \A u \in Task : Claimable(u) => priority[u] <= priority[t]
    /\ SetStatus(t, "ASSIGNED")
    /\ UNCHANGED <<retry, priority, dismissed, approval, invocation, outcomes>>

CanStart(t, v) == status[t] = "ASSIGNED" /\ version[t] = v

StartTask(t, v) ==
    /\ CanStart(t, v)
    /\ SetStatus(t, "RUNNING")
    /\ UNCHANGED <<retry, priority, dismissed, approval, invocation, outcomes>>

UpdateTaskProgress(t) ==
    /\ status[t] \in {"RUNNING", "WAITING_FOR_CHILDREN", "CANCEL_REQUESTED"}
    /\ SetStatus(t, status[t])
    /\ UNCHANGED <<retry, priority, dismissed, approval, invocation, outcomes>>

Completable == {"RUNNING", "WAITING_FOR_CHILDREN", "CANCEL_REQUESTED", "ASSIGNED"}

OutcomeKey(t, attempt) == <<t, attempt>>

(* CompleteTaskWithArtifacts for a child, CompleteTaskWithOutcome for a     *)
(* root: the root's turn and delivery rows, keyed by task and attempt, are  *)
(* inserted (or ignored when the key exists) in the same transaction.       *)
CompleteTask(t, attempt, partial) ==
    /\ status[t] \in Completable
    /\ SetStatus(t, IF partial THEN "PARTIALLY_COMPLETED" ELSE "COMPLETED")
    /\ outcomes' = IF IsRoot(t) THEN outcomes \cup {OutcomeKey(t, attempt)} ELSE outcomes
    /\ UNCHANGED <<retry, priority, dismissed, approval, invocation>>

FailTask(t, timedOut) ==
    /\ ~Terminal(status[t]) /\ status[t] # Absent
    /\ SetStatus(t, IF timedOut THEN "TIMED_OUT" ELSE "FAILED")
    /\ UNCHANGED <<retry, priority, dismissed, approval, invocation, outcomes>>

\* Mutant: a task being cancelled is requeued as well.
CanRequeueCancelled(t) ==
    /\ status[t] \in {"RUNNING", "CANCEL_REQUESTED"}
    /\ TaskType[t] # "shell" /\ retry[t] < MaxRetries[t]

CanRequeue(t) ==
    status[t] = "RUNNING" /\ TaskType[t] # "shell" /\ retry[t] < MaxRetries[t]

RequeueTaskForAutomaticRetry(t) ==
    /\ CanRequeue(t)
    /\ SetStatus(t, "QUEUED")
    /\ retry' = CountRetry({t})
    /\ UNCHANGED <<priority, dismissed, approval, invocation, outcomes>>

MarkTaskCancelled(t) ==
    /\ status[t] = "CANCEL_REQUESTED"
    /\ SetStatus(t, "CANCELLED")
    /\ UNCHANGED <<retry, priority, dismissed, approval, invocation, outcomes>>

\* Mutant: a failed invocation may be started again.
StartToolInvocationAgain(t) ==
    /\ invocation[t] \in {Absent, "FAILED"}
    /\ invocation' = [invocation EXCEPT ![t] = "STARTED"]
    /\ UNCHANGED <<status, version, retry, priority, dismissed, approval, outcomes>>

(* The invocation row is keyed "shell:" + task id: one row per task.        *)
StartToolInvocation(t) ==
    /\ invocation[t] = Absent
    /\ invocation' = [invocation EXCEPT ![t] = "STARTED"]
    /\ UNCHANGED <<status, version, retry, priority, dismissed, approval, outcomes>>

FinishToolInvocation(t, ok) ==
    /\ invocation[t] = "STARTED"
    /\ invocation' = [invocation EXCEPT ![t] = IF ok THEN "COMPLETED" ELSE "FAILED"]
    /\ UNCHANGED <<status, version, retry, priority, dismissed, approval, outcomes>>

-----------------------------------------------------------------------------
(* Transactions of the control API.                                         *)

SetTaskPriority(t, p) ==
    /\ status[t] # Absent /\ ~dismissed[t]
    /\ priority' = [priority EXCEPT ![t] = p]
    /\ version' = [version EXCEPT ![t] = @ + 1]
    /\ UNCHANGED <<status, retry, dismissed, approval, invocation, outcomes>>

DismissTask(t) ==
    /\ ~dismissed[t] /\ Terminal(status[t])
    /\ dismissed' = [dismissed EXCEPT ![t] = TRUE]
    /\ version' = [version EXCEPT ![t] = @ + 1]
    /\ UNCHANGED <<status, retry, priority, approval, invocation, outcomes>>

\* Mutant: a running task is marked cancelled at once.
CancelledStatusAtOnce(s) == IF Terminal(s) \/ s = Absent THEN s ELSE "CANCELLED"

CancelledStatus(s) ==
    CASE s \in {"CREATED", "QUEUED", "WAITING_FOR_APPROVAL", "BLOCKED"} -> "CANCELLED"
      [] s \in {"ASSIGNED", "RUNNING", "WAITING_FOR_CHILDREN"} -> "CANCEL_REQUESTED"
      [] OTHER -> s

WithdrawnApproval(a) == IF a = "PENDING" THEN "DENIED" ELSE a

RequestTaskGraphCancellation(t) ==
    /\ status[t] # Absent
    /\ status' = [u \in Task |->
                    IF u \in Graph(t) THEN CancelledStatus(status[u]) ELSE status[u]]
    /\ version' = BumpChanged
    /\ approval' = [u \in Task |->
                      IF u \in Graph(t) THEN WithdrawnApproval(approval[u]) ELSE approval[u]]
    /\ UNCHANGED <<retry, priority, dismissed, invocation, outcomes>>

\* Mutant: a completed task may be retried.
explicitRetryAnyTerminal == TerminalStatus

explicitRetryStatus ==
    {"FAILED", "TIMED_OUT", "CANCELLED", "PARTIALLY_COMPLETED"}

(* Content expiry and transcript retention also gate a retry; here every    *)
(* conversation retains its transcript (README, "Not modelled").            *)
explicitRetryEligible(t) ==
    /\ ~dismissed[t] /\ TaskType[t] # "shell"
    /\ retry[t] < MaxRetries[t] /\ status[t] \in explicitRetryStatus

resetExplicitRetryTasks(S, touched) ==
    /\ status' = [t \in Task |-> IF t \in S THEN "QUEUED" ELSE status[t]]
    /\ retry' = CountRetry(S)
    /\ version' = [t \in Task |->
                     IF t \in S \cup touched THEN version[t] + 1 ELSE version[t]]
    /\ UNCHANGED <<priority, dismissed, approval, invocation, outcomes>>

retryRootTask(r) ==
    LET retryable == {d \in Deps(r) : explicitRetryEligible(d)}
    IN  /\ IsRoot(r) /\ explicitRetryEligible(r)
        /\ Deps(r) # {} /\ retryable = {} => status[r] # "PARTIALLY_COMPLETED"
        /\ resetExplicitRetryTasks({r} \cup retryable, {})

\* Mutant: the root is not consulted.
retryGraphChildAlone(t) ==
    /\ ~IsRoot(t) /\ explicitRetryEligible(t)
    /\ resetExplicitRetryTasks({t}, {RootOf[t]})

retryGraphChild(t) ==
    LET root == RootOf[t]
    IN  /\ ~IsRoot(t) /\ explicitRetryEligible(t)
        /\ \/ /\ status[root] = "QUEUED" /\ ~dismissed[root]
              /\ resetExplicitRetryTasks({t}, {root})
           \/ /\ explicitRetryEligible(root)
              /\ resetExplicitRetryTasks({t, root}, {})

-----------------------------------------------------------------------------
(* Approvals.                                                               *)

\* Mutant: a request that is no longer pending can still be decided.
DecideApprovalLate(t, approved) ==
    /\ approval[t] # Absent
    /\ approval' = [approval EXCEPT ![t] = IF approved THEN "CONSUMED" ELSE "DENIED"]
    /\ SetStatus(t, IF approved THEN "QUEUED" ELSE "CANCELLED")
    /\ UNCHANGED <<retry, priority, dismissed, invocation, outcomes>>

DecideApproval(t, approved) ==
    /\ approval[t] = "PENDING" /\ status[t] = "WAITING_FOR_APPROVAL"
    /\ approval' = [approval EXCEPT ![t] = IF approved THEN "CONSUMED" ELSE "DENIED"]
    /\ SetStatus(t, IF approved THEN "QUEUED" ELSE "CANCELLED")
    /\ UNCHANGED <<retry, priority, dismissed, invocation, outcomes>>

(* The pending approvals in S are past expires_at.  The expiry loop treats  *)
(* all of them, a late decision only its own.                               *)
ExpireApprovals(S) ==
    LET timedOut == {t \in S : status[t] = "WAITING_FOR_APPROVAL"}
    IN  /\ S # {} /\ S \subseteq {t \in Task : approval[t] = "PENDING"}
        /\ approval' = [t \in Task |-> IF t \in S THEN "EXPIRED" ELSE approval[t]]
        /\ status' = [t \in Task |-> IF t \in timedOut THEN "TIMED_OUT" ELSE status[t]]
        /\ version' = BumpChanged
        /\ UNCHANGED <<retry, priority, dismissed, invocation, outcomes>>

-----------------------------------------------------------------------------
(* Restart recovery: one transaction, four statements in this order.        *)

\* Mutant: recovery forgets the tasks that were claimed and not started.
InterruptedRunning(t) == status[t] = "RUNNING"

Interrupted(t) == status[t] \in {"ASSIGNED", "RUNNING"}

Uncertain(t) ==
    /\ TaskType[t] = "shell" /\ invocation[t] = "STARTED"
    /\ status[t] \in {"ASSIGNED", "RUNNING", "CANCEL_REQUESTED"}

RecoveredStatus(t) ==
    CASE Uncertain(t)                                       -> "FAILED"
      [] ~Uncertain(t) /\ status[t] = "CANCEL_REQUESTED"    -> "CANCELLED"
      [] ~Uncertain(t) /\ Interrupted(t)                    ->
             IF retry[t] >= MaxRetries[t] THEN "FAILED" ELSE "QUEUED"
      [] OTHER                                              -> status[t]

RecoverInterruptedTasks ==
    /\ status' = [t \in Task |-> RecoveredStatus(t)]
    /\ version' = BumpChanged
    /\ retry' = CountRetry({t \in Task : Interrupted(t) /\ RecoveredStatus(t) = "QUEUED"})
    /\ invocation' = [t \in Task |->
                        IF Uncertain(t) THEN "FAILED" ELSE invocation[t]]
    /\ UNCHANGED <<priority, dismissed, approval, outcomes>>
=============================================================================
