--------------------------------- MODULE TaskProofs ---------------------------------
(***************************************************************************)
(* Proofs about the task runtime, for any tasks, workers, retry limits and *)
(* budgets.                                                                *)
(*                                                                         *)
(* First the transactions of the task store: each one, in the states in    *)
(* which the runtime calls it, preserves the store's invariant and changes *)
(* rows only as RowStep allows; what follows from RowStep alone is proved  *)
(* once, for all transactions.                                             *)
(*                                                                         *)
(* Then the runtime: RuntimeInv is its invariant. The actions fall into    *)
(* groups that touch the process in the same way: settling a task,         *)
(* releasing a worker, the handlers of the control API. What each group    *)
(* does is stated first; then every part of the invariant survives it.     *)
(*                                                                         *)
(* Last, the runtime implements the abstract task life cycle.              *)
(***************************************************************************)
EXTENDS TaskRefinement, TaskInvariants, TLAPS

\* How long each prover may take over a leaf, in seconds.
USE SMTT(30), ZenonT(30)

(***************************************************************************)
(* The task store                                                          *)
(***************************************************************************)

(* Rows other than t are left alone.                                        *)
Only(t) ==
    \A u \in Task \ {t} : status'[u] = status[u] /\ retry'[u] = retry[u]

(* A step that leaves the store alone.                                     *)
LEMMA NoRow ==
  ASSUME StoreInv, UNCHANGED storeVars
  PROVE  StoreInv' /\ RowStep
  BY DEF storeVars, StoreInv, StoreTypeOK, GraphInv, PendingIffWaiting, GateInv,
         SuccessIsRecorded, RowStep, Onwards

-----------------------------------------------------------------------------
(* Transactions on the row of one task.                                     *)

(* FailTask.                                                               *)
LEMMA FailRow ==
  ASSUME StoreInv, NEW t \in Task, Executing(t), NEW b \in BOOLEAN, FailTask(t, b)
  PROVE  StoreInv' /\ RowStep /\ Only(t)
<1> USE DEF FailTask, SetStatus, Executing
<1>1. StoreTypeOK' /\ RowStep /\ Only(t)
  BY DEF StoreInv, StoreTypeOK, Status, TerminalStatus, RowStep, Only, Onwards
<1>2. GraphInv' /\ PendingIffWaiting' /\ GateInv' /\ SuccessIsRecorded'
  BY RootOfAssumption
     DEF StoreInv, StoreTypeOK, GraphInv, PendingIffWaiting, GateInv, SuccessIsRecorded,
         Absent
<1> QED BY <1>1, <1>2 DEF StoreInv

(* CompleteTask.                                                           *)
LEMMA CompleteRow ==
  ASSUME StoreInv, NEW t \in Task, Executing(t), NEW b \in BOOLEAN,
         TaskType[t] = "shell" => invocation[t] = "COMPLETED",
         CompleteTask(t, retry[t], b)
  PROVE  StoreInv' /\ RowStep /\ Only(t)
<1> USE DEF CompleteTask, OutcomeKey, SetStatus, Executing
<1>1. StoreTypeOK' /\ RowStep /\ Only(t)
  BY DEF StoreInv, StoreTypeOK, Status, TerminalStatus, RowStep, Only, Onwards, IsRoot
<1>2. GraphInv' /\ PendingIffWaiting' /\ GateInv' /\ SuccessIsRecorded'
  BY RootOfAssumption
     DEF StoreInv, StoreTypeOK, GraphInv, PendingIffWaiting, GateInv, SuccessIsRecorded,
         Absent
<1> QED BY <1>1, <1>2 DEF StoreInv

(* MarkTaskCancelled.                                                      *)
LEMMA CancelRow ==
  ASSUME StoreInv, NEW t \in Task, MarkTaskCancelled(t)
  PROVE  StoreInv' /\ RowStep /\ Only(t)
<1> USE DEF MarkTaskCancelled, SetStatus
<1>1. StoreTypeOK' /\ RowStep /\ Only(t)
  BY DEF StoreInv, StoreTypeOK, Status, TerminalStatus, RowStep, Only, Onwards
<1>2. GraphInv' /\ PendingIffWaiting' /\ GateInv' /\ SuccessIsRecorded'
  BY RootOfAssumption
     DEF StoreInv, StoreTypeOK, GraphInv, PendingIffWaiting, GateInv, SuccessIsRecorded,
         Absent
<1> QED BY <1>1, <1>2 DEF StoreInv

(* RequeueTaskForAutomaticRetry.                                           *)
LEMMA RequeueRow ==
  ASSUME StoreInv, NEW t \in Task, RequeueTaskForAutomaticRetry(t)
  PROVE  StoreInv' /\ RowStep /\ Only(t)
<1> USE DEF RequeueTaskForAutomaticRetry, CanRequeue, CountRetry, SetStatus
<1>1. StoreTypeOK' /\ RowStep /\ Only(t)
  BY MaxRetriesAssumption
     DEF StoreInv, StoreTypeOK, Status, TerminalStatus, RowStep, Only, Onwards,
         Requeue, Interrupted
<1>2. GraphInv' /\ PendingIffWaiting' /\ GateInv' /\ SuccessIsRecorded'
  BY RootOfAssumption
     DEF StoreInv, StoreTypeOK, GraphInv, PendingIffWaiting, GateInv, SuccessIsRecorded,
         Absent
<1> QED BY <1>1, <1>2 DEF StoreInv

(* ClaimNextTask.                                                          *)
LEMMA ClaimRow ==
  ASSUME StoreInv, NEW t \in Task, ClaimNextTask(t)
  PROVE  StoreInv' /\ RowStep /\ Only(t)
<1> USE DEF ClaimNextTask, Claimable, SetStatus
<1>1. StoreTypeOK' /\ RowStep /\ Only(t)
  BY DEF StoreInv, StoreTypeOK, Status, TerminalStatus, RowStep, Only, Onwards, Deps
<1>2. GraphInv' /\ PendingIffWaiting' /\ GateInv' /\ SuccessIsRecorded'
  BY RootOfAssumption
     DEF StoreInv, StoreTypeOK, GraphInv, PendingIffWaiting, GateInv, SuccessIsRecorded,
         Absent
<1> QED BY <1>1, <1>2 DEF StoreInv

(* StartTask.                                                              *)
LEMMA StartRow ==
  ASSUME StoreInv, NEW t \in Task, NEW v, StartTask(t, v)
  PROVE  StoreInv' /\ RowStep /\ Only(t)
<1> USE DEF StartTask, CanStart, SetStatus
<1>1. StoreTypeOK' /\ RowStep /\ Only(t)
  BY DEF StoreInv, StoreTypeOK, Status, TerminalStatus, RowStep, Only, Onwards
<1>2. GraphInv' /\ PendingIffWaiting' /\ GateInv' /\ SuccessIsRecorded'
  BY RootOfAssumption
     DEF StoreInv, StoreTypeOK, GraphInv, PendingIffWaiting, GateInv, SuccessIsRecorded,
         Absent
<1> QED BY <1>1, <1>2 DEF StoreInv

(* UpdateTaskProgress.                                                     *)
LEMMA ProgressRow ==
  ASSUME StoreInv, NEW t \in Task, UpdateTaskProgress(t)
  PROVE  StoreInv' /\ RowStep /\ Only(t)
<1> USE DEF UpdateTaskProgress, SetStatus
<1>1. StoreTypeOK' /\ RowStep /\ Only(t)
  BY DEF StoreInv, StoreTypeOK, Status, TerminalStatus, RowStep, Only, Onwards
<1>2. GraphInv' /\ PendingIffWaiting' /\ GateInv' /\ SuccessIsRecorded'
  BY RootOfAssumption
     DEF StoreInv, StoreTypeOK, GraphInv, PendingIffWaiting, GateInv, SuccessIsRecorded,
         Absent
<1> QED BY <1>1, <1>2 DEF StoreInv

(* The invocation row of a shell task.                                     *)
LEMMA InvocationRow ==
  ASSUME StoreInv, NEW t \in Task,
         StartToolInvocation(t) \/ \E ok \in BOOLEAN : FinishToolInvocation(t, ok)
  PROVE  StoreInv' /\ RowStep /\ Only(t)
<1> USE DEF StartToolInvocation, FinishToolInvocation
<1>1. StoreTypeOK' /\ RowStep /\ Only(t)
  BY DEF StoreInv, StoreTypeOK, Status, TerminalStatus, RowStep, Only, Onwards
<1>2. GraphInv' /\ PendingIffWaiting' /\ GateInv' /\ SuccessIsRecorded'
  BY RootOfAssumption
     DEF StoreInv, StoreTypeOK, GraphInv, PendingIffWaiting, GateInv, SuccessIsRecorded,
         Absent
<1> QED BY <1>1, <1>2 DEF StoreInv

(* SetTaskPriority.                                                        *)
LEMMA PriorityRow ==
  ASSUME StoreInv, NEW t \in Task, NEW p \in Priorities, SetTaskPriority(t, p)
  PROVE  StoreInv' /\ RowStep
<1> USE DEF SetTaskPriority
<1>1. StoreTypeOK' /\ RowStep
  BY PrioritiesAssumption
     DEF StoreInv, StoreTypeOK, Status, TerminalStatus, RowStep, Onwards
<1>2. GraphInv' /\ PendingIffWaiting' /\ GateInv' /\ SuccessIsRecorded'
  BY RootOfAssumption
     DEF StoreInv, StoreTypeOK, GraphInv, PendingIffWaiting, GateInv, SuccessIsRecorded,
         Absent
<1> QED BY <1>1, <1>2 DEF StoreInv

(* DismissTask.                                                            *)
LEMMA DismissRow ==
  ASSUME StoreInv, NEW t \in Task, DismissTask(t)
  PROVE  StoreInv' /\ RowStep
<1> USE DEF DismissTask
<1>1. StoreTypeOK' /\ RowStep
  BY DEF StoreInv, StoreTypeOK, Status, TerminalStatus, RowStep, Onwards
<1>2. GraphInv' /\ PendingIffWaiting' /\ GateInv' /\ SuccessIsRecorded'
  BY RootOfAssumption
     DEF StoreInv, StoreTypeOK, GraphInv, PendingIffWaiting, GateInv, SuccessIsRecorded,
         Absent
<1> QED BY <1>1, <1>2 DEF StoreInv

(* DecideApproval.                                                         *)
LEMMA DecideRow ==
  ASSUME StoreInv, NEW t \in Task, NEW b \in BOOLEAN, DecideApproval(t, b)
  PROVE  StoreInv' /\ RowStep
<1> USE DEF DecideApproval, SetStatus
<1>1. StoreTypeOK' /\ RowStep
  BY DEF StoreInv, StoreTypeOK, Status, TerminalStatus, RowStep, Onwards
<1>2. GraphInv' /\ PendingIffWaiting' /\ GateInv' /\ SuccessIsRecorded'
  BY RootOfAssumption
     DEF StoreInv, StoreTypeOK, GraphInv, PendingIffWaiting, GateInv, SuccessIsRecorded,
         Absent
<1> QED BY <1>1, <1>2 DEF StoreInv

-----------------------------------------------------------------------------
(* Transactions on several rows.                                            *)

(* ExpireApprovals.                                                        *)
LEMMA ExpireRow ==
  ASSUME StoreInv, NEW S \in SUBSET Task, ExpireApprovals(S)
  PROVE  StoreInv' /\ RowStep
<1>1. StoreTypeOK'
  BY DEF ExpireApprovals, StoreInv, StoreTypeOK, Status, TerminalStatus, BumpChanged
<1>2. \A u \in S : approval[u] = "PENDING" /\ status[u] = "WAITING_FOR_APPROVAL"
  BY DEF ExpireApprovals, StoreInv, PendingIffWaiting
<1>3. \A u \in S : approval'[u] = "EXPIRED" /\ status'[u] = "TIMED_OUT"
  BY <1>2 DEF ExpireApprovals
<1>4. \A u \in Task \ S : approval'[u] = approval[u] /\ status'[u] = status[u]
  BY DEF ExpireApprovals
<1>5. UNCHANGED <<retry, invocation, outcomes>>
  BY DEF ExpireApprovals
<1>6. RowStep
  <2>1. \A u \in Task : Onwards(u)
    BY <1>2, <1>3, <1>4 DEF Onwards
  <2> QED BY <1>2, <1>4, <1>5, <2>1 DEF RowStep
<1>7. GraphInv' /\ PendingIffWaiting' /\ SuccessIsRecorded'
  BY <1>2, <1>3, <1>4, <1>5, RootOfAssumption
     DEF StoreInv, GraphInv, PendingIffWaiting, SuccessIsRecorded, Absent
<1>8. GateInv'
  BY <1>2, <1>3, <1>4, NeedsApprovalAssumption DEF StoreInv, GateInv, Absent
<1> QED BY <1>1, <1>6, <1>7, <1>8 DEF StoreInv

(* RequestTaskGraphCancellation.                                           *)
LEMMA RequestRow ==
  ASSUME StoreInv, NEW t \in Task, RequestTaskGraphCancellation(t)
  PROVE  StoreInv' /\ RowStep
<1>1. \A s \in Status \cup {Absent} : CancelledStatus(s) \in Status \cup {Absent}
  BY DEF CancelledStatus, Status, TerminalStatus
<1>2. StoreTypeOK'
  BY <1>1
     DEF RequestTaskGraphCancellation, WithdrawnApproval, StoreInv, StoreTypeOK, BumpChanged
<1>3. \A u \in Graph(t) :
         /\ status'[u] = CancelledStatus(status[u])
         /\ approval'[u] = WithdrawnApproval(approval[u])
  BY DEF RequestTaskGraphCancellation, Graph
<1>4. \A u \in Task \ Graph(t) : approval'[u] = approval[u] /\ status'[u] = status[u]
  BY DEF RequestTaskGraphCancellation
<1>5. UNCHANGED <<retry, invocation, outcomes>>
  BY DEF RequestTaskGraphCancellation
<1>6. \A u \in Task : RootOf[u] \in Graph(t) <=> u \in Graph(t)
  BY RootOfAssumption DEF Graph
<1>7. CancelledStatus(Absent) = Absent
  BY DEF CancelledStatus, Absent
<1>8. RowStep
  <2>1. \A u \in Task : Onwards(u)
    BY <1>3, <1>4, <1>7 DEF Onwards
  <2>2. \A u \in Task : approval[u] = "CONSUMED" => approval'[u] = "CONSUMED"
    BY <1>3, <1>4 DEF WithdrawnApproval
  <2> QED BY <1>5, <2>1, <2>2 DEF RowStep
<1>9. \A s \in Status \cup {Absent} :
         /\ CancelledStatus(s) = Absent <=> s = Absent
         /\ CancelledStatus(s) # "WAITING_FOR_APPROVAL"
         /\ CancelledStatus(s) = "COMPLETED" <=> s = "COMPLETED"
         /\ s \in {"WAITING_FOR_APPROVAL", "CANCELLED"} => CancelledStatus(s) = "CANCELLED"
         /\ s = "TIMED_OUT" => CancelledStatus(s) = s
  BY DEF CancelledStatus, Status, TerminalStatus, Absent
<1>10. status \in [Task -> Status \cup {Absent}] /\ Graph(t) \subseteq Task
  BY DEF StoreInv, StoreTypeOK, Graph
<1>11. GraphInv'
  BY <1>3, <1>4, <1>6, <1>9, <1>10, RootOfAssumption DEF StoreInv, GraphInv
<1>12. PendingIffWaiting' /\ SuccessIsRecorded'
  BY <1>3, <1>4, <1>5, <1>9, <1>10
     DEF StoreInv, PendingIffWaiting, SuccessIsRecorded, WithdrawnApproval
<1>13. GateInv'
  BY <1>3, <1>4, <1>9, <1>10, NeedsApprovalAssumption
     DEF StoreInv, GateInv, WithdrawnApproval
<1> QED BY <1>2, <1>8, <1>11, <1>12, <1>13 DEF StoreInv

(* What recovery makes of a task.                                           *)
LEMMA RecoveryCases ==
  ASSUME StoreTypeOK, NEW t \in Task
  PROVE  \/ RecoveredStatus(t) = status[t] /\ ~Interrupted(t)
         \/ /\ status[t] = "CANCEL_REQUESTED"
            /\ RecoveredStatus(t) \in {"CANCELLED", "FAILED"}
         \/ Interrupted(t) /\ RecoveredStatus(t) = "FAILED"
         \/ Interrupted(t) /\ RecoveredStatus(t) = "QUEUED" /\ retry[t] < MaxRetries[t]
<1> USE MaxRetriesAssumption DEF StoreTypeOK
<1>1. CASE Uncertain(t)
  BY <1>1 DEF RecoveredStatus, Uncertain, Interrupted
<1>2. CASE ~Uncertain(t)
  BY <1>2 DEF RecoveredStatus, Interrupted
<1> QED BY <1>1, <1>2

(* RecoverInterruptedTasks.                                                *)
LEMMA RecoverRow ==
  ASSUME StoreInv, RecoverInterruptedTasks
  PROVE  StoreInv' /\ RowStep
<1>1. \A t \in Task : status'[t] = RecoveredStatus(t)
  BY DEF RecoverInterruptedTasks
<1>2. \A t \in Task :
         retry'[t] = IF Interrupted(t) /\ RecoveredStatus(t) = "QUEUED"
                     THEN retry[t] + 1 ELSE retry[t]
  BY DEF RecoverInterruptedTasks, CountRetry
<1>3. StoreTypeOK
  BY DEF StoreInv
<1>4. \A t \in Task : RecoveredStatus(t) \in Status \cup {Absent}
  BY <1>3, RecoveryCases DEF StoreTypeOK, Status, TerminalStatus
<1>5. StoreTypeOK'
  BY <1>3, <1>4
     DEF RecoverInterruptedTasks, StoreTypeOK, BumpChanged, CountRetry
<1>6. RowStep
  <2>1. ASSUME NEW t \in Task
        PROVE  \/ Onwards(t) /\ retry'[t] = retry[t]
               \/ Requeue(t) /\ retry'[t] = retry[t] + 1
    BY <1>1, <1>2, <1>3, RecoveryCases DEF Onwards, Requeue, Executing, Interrupted
  <2> QED BY <2>1 DEF RecoverInterruptedTasks, RowStep
<1>7. \A t \in Task : status[t] \in {Absent, "WAITING_FOR_APPROVAL", "CANCELLED", "TIMED_OUT",
                                   "COMPLETED"} => status'[t] = status[t]
  BY <1>1, <1>3, RecoveryCases DEF Absent, Interrupted
<1>8. \A t \in Task : status'[t] \in {Absent, "WAITING_FOR_APPROVAL", "COMPLETED"}
                     => status[t] = status'[t]
  BY <1>1, <1>3, RecoveryCases DEF Absent, Interrupted
<1>9. GraphInv' /\ PendingIffWaiting' /\ GateInv'
  BY <1>7, <1>8, RootOfAssumption, NeedsApprovalAssumption
     DEF RecoverInterruptedTasks, StoreInv, GraphInv, PendingIffWaiting, GateInv
<1>10. SuccessIsRecorded'
  BY <1>8 DEF RecoverInterruptedTasks, Uncertain, StoreInv, StoreTypeOK, SuccessIsRecorded
<1> QED BY <1>5, <1>6, <1>9, <1>10 DEF StoreInv

(* CreateTasks inserts a whole graph.                                      *)
LEMMA CreateRow ==
  ASSUME StoreInv, NEW t \in Task, CreateTasks(t)
  PROVE  StoreInv' /\ RowStep
<1> USE DEF CreateTasks, InitialStatus, IsRoot
<1>1. StoreTypeOK' /\ RowStep
  BY RootOfAssumption
     DEF StoreInv, StoreTypeOK, Status, TerminalStatus, RowStep, Onwards, Graph,
         GraphInv, PendingIffWaiting, GateInv, Absent
<1>2. GraphInv' /\ PendingIffWaiting' /\ GateInv' /\ SuccessIsRecorded'
  BY RootOfAssumption, NeedsApprovalAssumption, TaskTypeAssumption
     DEF StoreInv, StoreTypeOK, GraphInv, PendingIffWaiting, GateInv, SuccessIsRecorded,
         Absent
<1> QED BY <1>1, <1>2 DEF StoreInv

(* An explicit retry requeues a set of eligible tasks; the root of each is  *)
(* requeued with it or still waiting in the queue.                          *)
Requeued(S, touched) ==
    /\ resetExplicitRetryTasks(S, touched)
    /\ \A u \in S :
          /\ explicitRetryEligible(u)
          /\ RootOf[u] \in S \/ status[RootOf[u]] = "QUEUED"

(* A retry requeues a set of tasks, in either branch of RetryTask.         *)
LEMMA RetryEffect ==
  ASSUME NEW t \in Task, Retry(t)
  PROVE  \E S \in SUBSET Task, touched \in SUBSET Task : Requeued(S, touched)
<1> USE RootOfAssumption DEF IsRoot, Requeued
<1>1. CASE retryRootTask(t)
  <2> DEFINE S == {t} \cup {d \in Deps(t) : explicitRetryEligible(d)}
  <2>1. S \in SUBSET Task /\ {} \in SUBSET Task
    BY DEF Deps
  <2>2. resetExplicitRetryTasks(S, {})
    BY <1>1 DEF retryRootTask
  <2>3. \A u \in S : explicitRetryEligible(u) /\ RootOf[u] \in S
    BY <1>1 DEF retryRootTask, Deps
  <2> QED BY <2>1, <2>2, <2>3
<1>2. CASE retryGraphChild(t)
  <2>1. CASE status[RootOf[t]] = "QUEUED" /\ resetExplicitRetryTasks({t}, {RootOf[t]})
    <3>1. {t} \in SUBSET Task /\ {RootOf[t]} \in SUBSET Task
      OBVIOUS
    <3> QED BY <1>2, <2>1, <3>1 DEF retryGraphChild
  <2>2. CASE explicitRetryEligible(RootOf[t]) /\ resetExplicitRetryTasks({t, RootOf[t]}, {})
    <3>1. {t, RootOf[t]} \in SUBSET Task /\ {} \in SUBSET Task
      OBVIOUS
    <3> QED BY <1>2, <2>2, <3>1 DEF retryGraphChild
  <2> QED BY <1>2, <2>1, <2>2 DEF retryGraphChild
<1> QED BY <1>1, <1>2 DEF Retry

(* RetryTask.                                                              *)
LEMMA RetryRow ==
  ASSUME StoreInv, budget \in [BudgetKinds -> Nat], NEW t \in Task, Retry(t)
  PROVE  StoreInv' /\ RowStep
<1>1. PICK S \in SUBSET Task, touched \in SUBSET Task : Requeued(S, touched)
  BY RetryEffect
<1>2. \A u \in S :
         /\ status[u] \in explicitRetryStatus /\ TaskType[u] # "shell"
         /\ retry[u] < MaxRetries[u]
         /\ RootOf[u] \in S \/ status[RootOf[u]] = "QUEUED"
  BY <1>1 DEF Requeued, explicitRetryEligible
<1>3. \A u \in S : status'[u] = "QUEUED" /\ retry'[u] = retry[u] + 1
  BY <1>1 DEF Requeued, resetExplicitRetryTasks, CountRetry
<1>4. \A u \in Task \ S : status'[u] = status[u] /\ retry'[u] = retry[u]
  BY <1>1 DEF Requeued, resetExplicitRetryTasks, CountRetry
<1>5. UNCHANGED <<approval, invocation, outcomes>> /\ budget'["retry"] < budget["retry"]
  BY <1>1 DEF Requeued, resetExplicitRetryTasks, Retry, Spend, BudgetKinds
<1>6. StoreTypeOK'
  BY <1>1
     DEF StoreInv, StoreTypeOK, Requeued, resetExplicitRetryTasks, CountRetry, Status
<1>7. RowStep
  <2>1. ASSUME NEW u \in S PROVE Requeue(u)
    BY <1>2, <1>3, <1>4, <1>5, RootOfAssumption DEF Requeue
  <2>2. ASSUME NEW u \in Task \ S PROVE Onwards(u)
    BY <1>4 DEF Onwards
  <2> QED BY <1>3, <1>4, <1>5, <2>1, <2>2 DEF RowStep
<1>8. \A u \in Task :
         \/ status'[u] = status[u]
         \/ /\ status'[u] = "QUEUED" /\ TaskType[u] # "shell"
            /\ status[u] \notin {Absent, "WAITING_FOR_APPROVAL"}
  BY <1>2, <1>3, <1>4 DEF explicitRetryStatus, Absent
<1>9. approval' = approval /\ invocation' = invocation
  BY <1>5
<1>10. GraphInv'
  BY <1>8, RootOfAssumption DEF StoreInv, GraphInv, Absent
<1>11. PendingIffWaiting' /\ SuccessIsRecorded'
  BY <1>8, <1>9 DEF StoreInv, PendingIffWaiting, SuccessIsRecorded
<1>12. GateInv'
  BY <1>8, <1>9, NeedsApprovalAssumption DEF StoreInv, GateInv, Absent
<1> QED BY <1>6, <1>7, <1>10, <1>11, <1>12 DEF StoreInv

-----------------------------------------------------------------------------
(* What follows from RowStep.                                               *)

(* The moves of a row that use up no retry.                                 *)
Moved(s, r) ==
    \/ r = s
    \/ s = Absent /\ r \in {"QUEUED", "WAITING_FOR_APPROVAL"}
    \/ s = "WAITING_FOR_APPROVAL" /\ r \in {"QUEUED", "CANCELLED", "TIMED_OUT"}
    \/ s \in {"CREATED", "QUEUED", "BLOCKED"} /\ r \in {"ASSIGNED", "CANCELLED"}
    \/ s = "ASSIGNED" /\ r \in {"RUNNING", "CANCEL_REQUESTED", "FAILED"}
    \/ /\ s \in {"RUNNING", "WAITING_FOR_CHILDREN"}
       /\ r \in {"CANCEL_REQUESTED", "COMPLETED", "PARTIALLY_COMPLETED", "FAILED", "TIMED_OUT"}
    \/ s = "CANCEL_REQUESTED" /\ Terminal(r)

(* A row that moves onwards makes a step of its life cycle.                *)
LEMMA OnwardsMoves ==
  ASSUME NEW t \in Task, Onwards(t)
  PROVE  Moved(status[t], status'[t])
<1> USE DEF Moved
<1>1. CASE status[t] = Absent /\ \A u \in Graph(t) : status'[u] = InitialStatus(u)
  BY <1>1 DEF Graph, InitialStatus
<1>2. CASE status[t] # Absent /\ status'[t] = CancelledStatus(status[t])
  BY <1>2 DEF CancelledStatus
<1>3. CASE /\ Executing(t)
           /\ status'[t] \in {"FAILED", "TIMED_OUT", "COMPLETED", "PARTIALLY_COMPLETED"}
  BY <1>3 DEF Executing, Terminal, TerminalStatus
<1>4. CASE Interrupted(t) /\ status'[t] = "FAILED"
  BY <1>4 DEF Interrupted
<1>5. CASE status[t] = "CANCEL_REQUESTED" /\ status'[t] = "CANCELLED"
  BY <1>5 DEF Terminal, TerminalStatus
<1> QED BY <1>1, <1>2, <1>3, <1>4, <1>5, ZenonT(30) DEF Onwards

(* A row moves on, or is requeued from a held or ended status.              *)
LEMMA RowMoves ==
  ASSUME RowStep, NEW t \in Task
  PROVE  \/ Moved(status[t], status'[t]) /\ retry'[t] = retry[t]
         \/ /\ status[t] \in {"ASSIGNED", "RUNNING", "FAILED", "TIMED_OUT", "CANCELLED",
                              "PARTIALLY_COMPLETED"}
            /\ status'[t] = "QUEUED"
            /\ retry[t] < MaxRetries[t] /\ retry'[t] = retry[t] + 1
            /\ Terminal(status[t]) =>
                  status'[RootOf[t]] = "QUEUED" /\ budget'["retry"] < budget["retry"]
  BY OnwardsMoves DEF RowStep, Requeue, Interrupted, explicitRetryStatus, Terminal, TerminalStatus

(* No task a held or completed root depends on becomes runnable again.      *)
LEMMA DependencyStep ==
  ASSUME StoreTypeOK, GraphInv, DependencyOrder, RowStep
  PROVE  DependencyOrder'
<1> DEFINE Held == {"ASSIGNED", "RUNNING", "WAITING_FOR_CHILDREN", "CANCEL_REQUESTED",
                    "COMPLETED", "PARTIALLY_COMPLETED"}
<1> SUFFICES ASSUME NEW t \in Task, NEW d \in Deps(t), status'[t] \in Held
             PROVE  Terminal(status'[d])
  BY DEF DependencyOrder, Deps
<1>1. d \in Task /\ RootOf[d] = t
  BY DEF Deps
<1>2. CASE status[t] \in Held
  <2>1. Terminal(status[d])
    BY <1>1, <1>2 DEF DependencyOrder
  <2>2. Moved(status[d], status'[d])
    BY <1>1, <2>1, RowMoves
  <2> QED BY <2>1, <2>2 DEF Moved, Terminal, TerminalStatus, Absent
<1>3. CASE status[t] \notin Held
  <2>1. Moved(status[t], status'[t]) /\ status'[t] # status[t]
    BY <1>3, RowMoves
  <2>2. status[t] \in {"CREATED", "QUEUED", "BLOCKED"} /\ status'[t] = "ASSIGNED"
    BY <1>3, <2>1 DEF Moved, Terminal, TerminalStatus, Absent
  <2>3. Onwards(t)
    BY <2>2 DEF RowStep, Requeue
  <2>4. \A e \in Deps(t) : Terminal(status[e]) /\ status'[e] = status[e]
    BY <2>2, <2>3 DEF Onwards, Executing, Interrupted, CancelledStatus, Absent
  <2> QED BY <2>4
<1> QED BY <1>2, <1>3

(* A completing root takes the key of its attempt, and no key moves.        *)
LEMMA OutcomeStep ==
  ASSUME StoreTypeOK, StoreTypeOK', OutcomeInv, RowStep
  PROVE  OutcomeInv' /\ KeyIsNew
<1> DEFINE Done == {"COMPLETED", "PARTIALLY_COMPLETED"}
<1>1. ASSUME NEW t \in Task, status[t] \in Done
      PROVE  \/ status'[t] = status[t] /\ retry'[t] = retry[t]
             \/ status'[t] = "QUEUED" /\ retry'[t] = retry[t] + 1
  BY <1>1, RowMoves DEF Moved, Absent
<1>2. ASSUME NEW t \in Task, status[t] \notin Done, status'[t] \in Done
      PROVE  retry'[t] = retry[t] /\ (IsRoot(t) => <<t, retry[t]>> \in outcomes')
  <2>1. Moved(status[t], status'[t]) /\ status[t] # status'[t] /\ retry'[t] = retry[t]
    BY <1>2, RowMoves
  <2>2. status[t] \in {"RUNNING", "WAITING_FOR_CHILDREN", "CANCEL_REQUESTED"}
    BY <1>2, <2>1 DEF Moved
  <2>3. Onwards(t)
    BY <1>2 DEF RowStep, Requeue
  <2> QED BY <1>2, <2>1, <2>2, <2>3 DEF Onwards, CancelledStatus, Absent
<1>3. \A t \in Task : retry[t] \in Nat /\ retry'[t] \in {retry[t], retry[t] + 1}
  BY DEF RowStep, StoreTypeOK
<1>4. OutcomeStored'
  <2> SUFFICES ASSUME NEW t \in Task, IsRoot(t), status'[t] \in Done
               PROVE  <<t, retry'[t]>> \in outcomes'
    BY DEF OutcomeStored, IsRoot
  <2>1. CASE status[t] \in Done
    BY <1>1, <2>1 DEF OutcomeInv, OutcomeStored, RowStep
  <2>2. CASE status[t] \notin Done
    <3>1. retry'[t] = retry[t] /\ <<t, retry[t]>> \in outcomes'
      BY <1>2, <2>2
    <3> QED BY <3>1
  <2> QED BY <2>1, <2>2
<1>5. ASSUME NEW o \in outcomes'
      PROVE  o[2] <= retry'[o[1]] /\ (o[2] = retry'[o[1]] => status'[o[1]] \in Done)
  <2>1. CASE o \in outcomes
    <3>1. o[1] \in Task /\ o[2] \in Nat
      BY <2>1 DEF StoreTypeOK
    <3> QED BY <1>1, <1>3, <2>1, <3>1 DEF OutcomeInv
  <2>2. CASE o \notin outcomes
    <3>1. PICK t \in Task : o = <<t, retry[t]>> /\ Executing(t) /\ status'[t] \in Done
      BY <2>2 DEF RowStep
    <3>2. o[1] = t /\ o[2] = retry[t]
      BY <3>1
    <3> QED BY <1>2, <1>3, <3>1, <3>2 DEF Executing
  <2> QED BY <2>1, <2>2
<1>6. KeyIsNew
  <2> SUFFICES ASSUME NEW t \in Task, IsRoot(t), status[t] # status'[t], status'[t] \in Done
               PROVE  <<t, retry[t]>> \notin outcomes /\ <<t, retry[t]>> \in outcomes'
    BY DEF KeyIsNew
  <2>1. status[t] \notin Done
    BY <1>1
  <2>2. <<t, retry[t]>>[1] = t /\ <<t, retry[t]>>[2] = retry[t]
    OBVIOUS
  <2>3. <<t, retry[t]>> \notin outcomes
    BY <2>1, <2>2 DEF OutcomeInv
  <2> QED BY <1>2, <2>1, <2>3
<1> QED BY <1>4, <1>5, <1>6 DEF OutcomeInv

(* No row leaves CANCEL_REQUESTED but to end, nor CANCELLED but by a retry. *)
LEMMA CancellationStep ==
  ASSUME RowStep
  PROVE  StaysCancelled
<1> SUFFICES ASSUME NEW t \in Task
             PROVE  /\ status[t] = "CANCEL_REQUESTED" =>
                          status'[t] = "CANCEL_REQUESTED" \/ Terminal(status'[t])
                    /\ status[t] = "CANCELLED" /\ status'[t] # "CANCELLED" =>
                          budget'["retry"] < budget["retry"]
  BY DEF StaysCancelled
<1> QED BY RowMoves DEF Moved, Terminal, TerminalStatus, Absent

(***************************************************************************)
(* The runtime                                                             *)
(***************************************************************************)

Settles(w) ==
    \/ AgentComplete(w) \/ AgentRetryable(w) \/ AgentFail(w) \/ AgentCancelled(w)
    \/ ShellReject(w) \/ ShellDuplicate(w) \/ ShellSettle(w) \/ SettleFault(w)

Releases(w) == StartConflict(w) \/ StartFault(w) \/ Exit(w)

Handles == (\E t \in Task : Api(t)) \/ Expire \/ Shutdown \/ UNCHANGED vars

Stops == Terminate \/ Crash

Inv == ProcessTypeOK /\ StoreInv /\ JobInv /\ OwnInv /\ ShellInv

(* A task that is being executed goes on being executed, in its attempt.    *)
Kept ==
    \A t \in Task : status[t] \in {"RUNNING", "CANCEL_REQUESTED"} =>
        status'[t] \in {"RUNNING", "CANCEL_REQUESTED"} /\ retry'[t] = retry[t]

(* Who takes a step of the runtime.                                        *)
LEMMA NextCases ==
  ASSUME [Next]_vars
  PROVE  \/ \E w \in Worker :
               \/ Claim(w) \/ Start(w) \/ Register(w) \/ AgentProgress(w)
               \/ ShellStart(w) \/ ShellExecute(w) \/ ShellFinish(w)
               \/ Settles(w) \/ Releases(w)
         \/ Handles \/ Stops \/ Recover
  BY DEF Next, WorkerStep, Fault, Process, Settles, Releases, Handles, Stops

(* The task a worker holds is executing, at the attempt the worker claimed. *)
LEMMA Holder ==
  ASSUME JobInv, OwnInv, NEW w \in Worker, pc[w] \in Holding
  PROVE  job[w] \in Task /\ Executing(job[w]) /\ attempt[w] = retry[job[w]]
  BY DEF JobInv, OwnInv, ExecutorOwnsTask, Executing, Holding, Running

(* A budget stays a number when an attempt is spent.                       *)
LEMMA SpendType ==
  ASSUME budget \in [BudgetKinds -> Nat], NEW k \in BudgetKinds, Spend(k)
  PROVE  budget' \in [BudgetKinds -> Nat]
  BY DEF Spend

-----------------------------------------------------------------------------
(* What the actions do.                                                     *)

(* A settling action touches one row, that of the task the worker executes. *)
LEMMA SettleEffect ==
  ASSUME Inv, NEW w \in Worker, Settles(w)
  PROVE  /\ pc[w] \in Holding /\ Settle(w)
         /\ StoreInv' /\ RowStep /\ Only(job[w]) /\ invocation' = invocation
         /\ budget' \in [BudgetKinds -> Nat]
<1> DEFINE t == job[w]
<1> DEFINE Done == StoreInv' /\ RowStep /\ Only(t) /\ invocation' = invocation
<1>1. pc[w] \in {"running", "executed", "finished"} /\ Settle(w)
  BY ZenonT(30) DEF Settles, AgentComplete, AgentRetryable, AgentFail, AgentCancelled, ShellReject,
     ShellDuplicate, ShellSettle, SettleFault, RunsAgent, RunsShell
<1>2. t \in Task /\ Executing(t) /\ attempt[w] = retry[t] /\ StoreInv
  BY <1>1, Holder DEF Inv, Holding, Running
<1>3. budget' \in [BudgetKinds -> Nat]
  <2>1. UNCHANGED budget \/ Spend("fault")
    BY ZenonT(30) DEF Settles, AgentComplete, AgentRetryable, AgentFail, AgentCancelled, ShellReject,
       ShellDuplicate, ShellSettle, SettleFault
  <2>2. budget \in [BudgetKinds -> Nat] /\ "fault" \in BudgetKinds
    BY DEF Inv, ProcessTypeOK, BudgetKinds
  <2> QED BY <2>1, <2>2, SpendType
<1>4. ASSUME NEW b \in BOOLEAN, FailTask(t, b) PROVE Done
  BY <1>2, <1>4, FailRow DEF FailTask
<1>5. ASSUME NEW b \in BOOLEAN, CompleteTask(t, attempt[w], b),
             TaskType[t] = "shell" => invocation[t] = "COMPLETED"
      PROVE  Done
  BY <1>2, <1>5, CompleteRow, ZenonT(30) DEF CompleteTask
<1>6. ASSUME UNCHANGED storeVars PROVE Done
  BY <1>2, <1>6, NoRow DEF storeVars, Only
<1>7. ASSUME AgentComplete(w) PROVE Done
  BY <1>5, <1>7 DEF AgentComplete, RunsAgent
<1>8. ASSUME AgentRetryable(w) PROVE Done
  BY <1>2, <1>4, <1>8, RequeueRow, ZenonT(30) DEF AgentRetryable, RequeueTaskForAutomaticRetry
<1>9. ASSUME AgentFail(w) PROVE Done
  BY <1>4, <1>9 DEF AgentFail
<1>10. ASSUME AgentCancelled(w) PROVE Done
  BY <1>2, <1>6, <1>10, CancelRow DEF AgentCancelled, MarkTaskCancelled
<1>11. ASSUME ShellReject(w) PROVE Done
  BY <1>4, <1>11, ZenonT(30) DEF ShellReject
<1>12. ASSUME ShellDuplicate(w) PROVE Done
  BY <1>4, <1>5, <1>12, ZenonT(30) DEF ShellDuplicate
<1>13. ASSUME ShellSettle(w) PROVE Done
  BY <1>4, <1>5, <1>13, ZenonT(30) DEF ShellSettle, Inv, ShellInv
<1>14. ASSUME SettleFault(w) PROVE Done
  BY <1>4, <1>6, <1>14, ZenonT(30) DEF SettleFault
<1>15. Done
  BY <1>7, <1>8, <1>9, <1>10, <1>11, <1>12, <1>13, <1>14 DEF Settles
<1> QED BY <1>1, <1>3, <1>15 DEF Holding, Running

(* A released worker executed nothing; at most it leaves a task RUNNING.    *)
LEMMA ReleaseEffect ==
  ASSUME Inv, NEW w \in Worker, Releases(w)
  PROVE  /\ pc[w] \notin Holding /\ Release(w)
         /\ StoreInv' /\ RowStep /\ Kept /\ invocation' = invocation
         /\ active' \in [Task -> Worker \cup {None}] /\ budget' \in [BudgetKinds -> Nat]
<1>1. pc[w] \in {"claimed", "exiting"} /\ Release(w)
  BY DEF Releases, StartConflict, StartFault, Exit
<1>2. job[w] \in Task /\ StoreInv
  BY <1>1 DEF Inv, JobInv
<1>3. UNCHANGED storeVars \/ StartTask(job[w], seen[w])
  BY DEF Releases, StartConflict, StartFault, Exit
<1>4. StoreInv' /\ RowStep /\ invocation' = invocation
  <2>1. CASE UNCHANGED storeVars
    BY <1>2, <2>1, NoRow DEF storeVars
  <2>2. CASE StartTask(job[w], seen[w])
    BY <1>2, <2>2, StartRow DEF StartTask
  <2> QED BY <1>3, <2>1, <2>2
<1>5. Kept
  BY <1>2, <1>3 DEF Kept, storeVars, StartTask, CanStart, SetStatus, StoreInv, StoreTypeOK
<1>6. active' \in [Task -> Worker \cup {None}]
  BY DEF Releases, StartConflict, StartFault, Exit, Inv, ProcessTypeOK
<1>7. budget' \in [BudgetKinds -> Nat]
  <2>1. UNCHANGED budget \/ Spend("fault")
    BY ZenonT(30) DEF Releases, StartConflict, StartFault, Exit
  <2>2. budget \in [BudgetKinds -> Nat] /\ "fault" \in BudgetKinds
    BY DEF Inv, ProcessTypeOK, BudgetKinds
  <2> QED BY <2>1, <2>2, SpendType
<1> QED BY <1>1, <1>4, <1>5, <1>6, <1>7 DEF Holding, Running

(* A handler leaves what the workers do, and the tasks they execute, alone. *)
Calm ==
    /\ UNCHANGED <<pc, job, seen, attempt, result, active, effects, invocation>>
    /\ mode' = mode \/ mode' = "stopping"
    /\ cancelled' \in [Worker -> BOOLEAN] /\ signals' \in [Task -> Nat]
    /\ budget' \in [BudgetKinds -> Nat]

(* The requests of clients leave the workers alone.                        *)
LEMMA HandleEffect ==
  ASSUME Inv, Handles
  PROVE  Calm /\ StoreInv' /\ RowStep /\ Kept
<1> DEFINE Done == Calm /\ StoreInv' /\ RowStep /\ Kept
<1>1. StoreInv /\ StoreTypeOK
  BY DEF Inv, StoreInv
<1>2. /\ cancelled \in [Worker -> BOOLEAN] /\ signals \in [Task -> Nat]
      /\ budget \in [BudgetKinds -> Nat]
  BY DEF Inv, ProcessTypeOK
<1>3. ASSUME NEW k \in BudgetKinds, Spend(k)
      PROVE  budget' \in [BudgetKinds -> Nat]
  BY <1>2, <1>3, SpendType
<1>4. ASSUME NEW t \in Task, Create(t) PROVE Done
  <2>1. Calm
    BY <1>2, <1>4 DEF Calm, Create, CreateTasks, memVars
  <2>2. StoreInv' /\ RowStep
    BY <1>1, <1>4, CreateRow DEF Create
  <2>3. Kept
    BY <1>1, <1>4 DEF Create, CreateTasks, Kept, StoreInv, GraphInv, Absent, IsRoot
  <2> QED BY <2>1, <2>2, <2>3
<1>5. ASSUME NEW t \in Task, Cancel(t) PROVE Done
  <2>1. budget' \in [BudgetKinds -> Nat]
    BY <1>3, <1>5 DEF Cancel, BudgetKinds
  <2>2. Calm
    BY <1>2, <1>5, <2>1 DEF Calm, Cancel, RequestTaskGraphCancellation
  <2>3. StoreInv' /\ RowStep
    BY <1>1, <1>5, RequestRow DEF Cancel
  <2>4. Kept
    BY <1>5 DEF Cancel, RequestTaskGraphCancellation, CancelledStatus, Kept
  <2> QED BY <2>2, <2>3, <2>4
<1>6. ASSUME NEW t \in Task, Signal(t) PROVE Done
  <2>1. Calm
    BY <1>2, <1>6 DEF Calm, Signal, storeVars
  <2>2. StoreInv' /\ RowStep
    BY <1>1, <1>6, NoRow DEF Signal
  <2>3. Kept
    BY <1>6 DEF Signal, storeVars, Kept
  <2> QED BY <2>1, <2>2, <2>3
<1>7. ASSUME NEW t \in Task, Prioritize(t) PROVE Done
  <2>1. budget' \in [BudgetKinds -> Nat]
    BY <1>3, <1>7 DEF Prioritize, BudgetKinds
  <2>2. Calm
    BY <1>2, <1>7, <2>1 DEF Calm, Prioritize, SetTaskPriority, memVars
  <2>3. StoreInv' /\ RowStep
    BY <1>1, <1>7, PriorityRow DEF Prioritize
  <2>4. Kept
    BY <1>7 DEF Prioritize, SetTaskPriority, Kept
  <2> QED BY <2>2, <2>3, <2>4
<1>8. ASSUME NEW t \in Task, Dismiss(t) PROVE Done
  <2>1. budget' \in [BudgetKinds -> Nat]
    BY <1>3, <1>8 DEF Dismiss, BudgetKinds
  <2>2. Calm
    BY <1>2, <1>8, <2>1 DEF Calm, Dismiss, DismissTask, memVars
  <2>3. StoreInv' /\ RowStep
    BY <1>1, <1>8, DismissRow DEF Dismiss
  <2>4. Kept
    BY <1>8 DEF Dismiss, DismissTask, Kept
  <2> QED BY <2>2, <2>3, <2>4
<1>9. ASSUME NEW t \in Task, Retry(t) PROVE Done
  <2>1. PICK S \in SUBSET Task, touched \in SUBSET Task : Requeued(S, touched)
    BY <1>9, RetryEffect
  <2>2. budget' \in [BudgetKinds -> Nat]
    BY <1>3, <1>9 DEF Retry, BudgetKinds
  <2>3. Calm
    BY <1>2, <1>9, <2>1, <2>2, ZenonT(30)
       DEF Calm, Retry, Requeued, resetExplicitRetryTasks, memVars
  <2>4. StoreInv' /\ RowStep
    BY <1>1, <1>2, <1>9, RetryRow
  <2>5. Kept
    BY <2>1 DEF Requeued, resetExplicitRetryTasks, CountRetry, explicitRetryEligible,
       explicitRetryStatus, Kept
  <2> QED BY <2>3, <2>4, <2>5
<1>10. ASSUME NEW t \in Task, Decide(t) PROVE Done
  <2>1. Calm
    BY <1>2, <1>10 DEF Calm, Decide, DecideApproval, memVars
  <2>2. StoreInv' /\ RowStep
    BY <1>1, <1>10, DecideRow DEF Decide
  <2>3. Kept
    BY <1>1, <1>10 DEF Decide, DecideApproval, SetStatus, Kept, StoreTypeOK
  <2> QED BY <2>1, <2>2, <2>3
<1>11. ASSUME Expire PROVE Done
  <2>1. Calm
    BY <1>2, <1>11 DEF Calm, Expire, ExpireApprovals, memVars
  <2>2. StoreInv' /\ RowStep
    BY <1>1, <1>11, ExpireRow DEF Expire
  <2>3. Kept
    BY <1>11 DEF Expire, ExpireApprovals, Kept
  <2> QED BY <2>1, <2>2, <2>3
<1>12. ASSUME Shutdown \/ UNCHANGED vars PROVE Done
  <2>1. budget' \in [BudgetKinds -> Nat]
    BY <1>2, <1>3, <1>12 DEF Shutdown, BudgetKinds, vars
  <2>2. UNCHANGED storeVars
    BY <1>12 DEF Shutdown, vars
  <2>3. Calm
    BY <1>2, <1>12, <2>1, ZenonT(30) DEF Calm, Shutdown, vars, storeVars, memVars
  <2> QED BY <1>1, <2>2, <2>3, NoRow DEF storeVars, Kept
<1> HIDE DEF Done
<1> QED
  BY <1>4, <1>5, <1>6, <1>7, <1>8, <1>9, <1>10, <1>11, <1>12 DEF Handles, Api, Done

-----------------------------------------------------------------------------
(* Every step preserves the store's part of the invariant ...               *)
LEMMA StoreStep ==
  ASSUME Inv, [Next]_vars
  PROVE  StoreInv' /\ RowStep
<1>1. StoreInv /\ \A w \in Worker : pc[w] # "idle" => job[w] \in Task
  BY DEF Inv, JobInv
<1>2. ASSUME NEW w \in Worker, Claim(w) PROVE StoreInv' /\ RowStep
  BY <1>1, <1>2, ClaimRow, ZenonT(30) DEF Claim
<1>3. ASSUME NEW w \in Worker, Start(w) PROVE StoreInv' /\ RowStep
  BY <1>1, <1>3, StartRow DEF Start
<1>4. ASSUME NEW w \in Worker, Register(w) \/ ShellExecute(w) PROVE StoreInv' /\ RowStep
  BY <1>1, <1>4, NoRow, ZenonT(30) DEF Register, ShellExecute
<1>5. ASSUME NEW w \in Worker, AgentProgress(w) PROVE StoreInv' /\ RowStep
  BY <1>1, <1>5, ProgressRow DEF AgentProgress, RunsAgent
<1>6. ASSUME NEW w \in Worker, ShellStart(w) PROVE StoreInv' /\ RowStep
  BY <1>1, <1>6, InvocationRow DEF ShellStart, RunsShell
<1>7. ASSUME NEW w \in Worker, ShellFinish(w) PROVE StoreInv' /\ RowStep
  <2>1. FinishToolInvocation(job[w], result[w] = "ok") /\ job[w] \in Task
    BY <1>1, <1>7 DEF ShellFinish
  <2> QED BY <1>1, <2>1, InvocationRow, ZenonT(30)
<1>8. CASE Stops
  BY <1>1, <1>8, NoRow, ZenonT(30) DEF Stops, Terminate, Crash, Forget
<1>9. CASE Recover
  BY <1>1, <1>9, RecoverRow DEF Recover
<1> QED
  BY <1>2, <1>3, <1>4, <1>5, <1>6, <1>7, <1>8, <1>9, NextCases, SettleEffect,
     ReleaseEffect, HandleEffect, ZenonT(30)

(* ... the types of the process, and the jobs of its workers, ...           *)
LEMMA TypeStep ==
  ASSUME Inv, [Next]_vars
  PROVE  ProcessTypeOK' /\ JobInv'
<1> USE NoneAssumption
<1>1. ProcessTypeOK /\ JobInv
  BY DEF Inv
<1>2. StoreTypeOK
  BY DEF Inv, StoreInv
<1>3. ASSUME NEW w \in Worker, Claim(w) PROVE ProcessTypeOK' /\ JobInv'
  <2>1. PICK t \in Task : job' = [job EXCEPT ![w] = t] /\ seen' = [seen EXCEPT ![w] = version[t] + 1]
    BY <1>3, ZenonT(30) DEF Claim
  <2>2. version[t] + 1 \in Nat
    BY <1>2 DEF StoreTypeOK
  <2> QED BY <1>1, <1>3, <2>1, <2>2, ZenonT(30) DEF Claim, Go, ProcessTypeOK, JobInv
<1>4. ASSUME NEW w \in Worker, Start(w) PROVE ProcessTypeOK' /\ JobInv'
  BY <1>1, <1>2, <1>4, ZenonT(30) DEF Start, Go, ProcessTypeOK, JobInv, Holding, Running, StoreTypeOK
<1>5. ASSUME NEW w \in Worker, Register(w) PROVE ProcessTypeOK' /\ JobInv'
  BY <1>1, <1>5, ZenonT(30) DEF Register, Go, ProcessTypeOK, JobInv, Holding, Running
<1>6. ASSUME NEW w \in Worker, AgentProgress(w) PROVE ProcessTypeOK' /\ JobInv'
  <2>1. budget' \in [BudgetKinds -> Nat]
    BY <1>1, <1>6, SpendType, ZenonT(30) DEF AgentProgress, BudgetKinds, ProcessTypeOK
  <2> QED BY <1>1, <1>6, <2>1, ZenonT(30) DEF AgentProgress, memVars, ProcessTypeOK, JobInv
<1>7. ASSUME NEW w \in Worker, ShellStart(w) PROVE ProcessTypeOK' /\ JobInv'
  BY <1>1, <1>7, ZenonT(30) DEF ShellStart, RunsShell, Go, ProcessTypeOK, JobInv, Holding, Running
<1>8. ASSUME NEW w \in Worker, ShellExecute(w) PROVE ProcessTypeOK' /\ JobInv'
  <2>1. PICK r \in {"ok", "error", "timeout"}, n \in {0, 1} :
           result' = [result EXCEPT ![w] = r] /\ effects' = [effects EXCEPT ![job[w]] = @ + n]
    BY <1>8, ZenonT(30) DEF ShellExecute
  <2>2. pc[w] = "executing" /\ job[w] \in Task /\ "executed" \in Holding
    BY <1>1, <1>8, ZenonT(30) DEF ShellExecute, JobInv, Holding, Running
  <2>3. effects[job[w]] + n \in Nat
    BY <1>1, <2>2 DEF ProcessTypeOK
  <2> QED
    BY <1>1, <1>8, <2>1, <2>2, <2>3, ZenonT(30) DEF ShellExecute, Go, ProcessTypeOK, JobInv
<1>9. ASSUME NEW w \in Worker, ShellFinish(w) PROVE ProcessTypeOK' /\ JobInv'
  BY <1>1, <1>9, ZenonT(30) DEF ShellFinish, Go, ProcessTypeOK, JobInv, Holding, Running
<1>10. ASSUME NEW w \in Worker, Settles(w) PROVE ProcessTypeOK' /\ JobInv'
  <2>1. pc[w] \in Holding /\ Settle(w) /\ budget' \in [BudgetKinds -> Nat]
    BY <1>10, SettleEffect, ZenonT(30)
  <2> QED BY <1>1, <2>1, ZenonT(30) DEF Settle, Go, ProcessTypeOK, JobInv, Holding, Running
<1>11. ASSUME NEW w \in Worker, Releases(w) PROVE ProcessTypeOK' /\ JobInv'
  <2>1. /\ Release(w) /\ active' \in [Task -> Worker \cup {None}]
        /\ budget' \in [BudgetKinds -> Nat]
    BY <1>11, ReleaseEffect
  <2> QED BY <1>1, <2>1 DEF Release, Go, ProcessTypeOK, JobInv
<1>12. CASE Handles
  <2>1. Calm
    BY <1>12, HandleEffect
  <2> QED BY <1>1, <2>1 DEF Calm, ProcessTypeOK, JobInv
<1>13. CASE Stops
  <2>1. budget' \in [BudgetKinds -> Nat]
    BY <1>1, <1>13, SpendType DEF Stops, Terminate, Crash, BudgetKinds, ProcessTypeOK
  <2>2. Forget
    BY <1>13 DEF Stops, Terminate, Crash
  <2> QED BY <1>1, <2>1, <2>2 DEF Forget, ProcessTypeOK, JobInv
<1>14. CASE Recover
  BY <1>1, <1>14 DEF Recover, memVars, ProcessTypeOK, JobInv
<1> QED
  BY <1>3, <1>4, <1>5, <1>6, <1>7, <1>8, <1>9, <1>10, <1>11, <1>12, <1>13, <1>14, NextCases

(* ... the exclusive ownership of tasks being executed, ...                 *)
LEMMA OwnKept ==
  ASSUME OwnInv,
         \A w \in Worker : pc'[w] \in Holding =>
            /\ pc[w] \in Holding /\ job'[w] = job[w] /\ attempt'[w] = attempt[w]
            /\ status'[job[w]] \in {"RUNNING", "CANCEL_REQUESTED"}
            /\ retry'[job[w]] = retry[job[w]]
  PROVE  OwnInv'
<1>1. SingleExecutor'
  BY ZenonT(30) DEF OwnInv, SingleExecutor
<1>2. ExecutorOwnsTask'
  BY ZenonT(30) DEF OwnInv, ExecutorOwnsTask
<1> QED BY <1>1, <1>2 DEF OwnInv

(* Every step keeps workers and the rows they hold together.               *)
LEMMA OwnStep ==
  ASSUME Inv, [Next]_vars
  PROVE  OwnInv'
<1>1. ProcessTypeOK /\ StoreTypeOK /\ JobInv /\ OwnInv
  BY DEF Inv, StoreInv
<1>2. \A w \in Worker : pc[w] \in Holding =>
         /\ job[w] \in Task /\ attempt[w] = retry[job[w]]
         /\ status[job[w]] \in {"RUNNING", "CANCEL_REQUESTED"}
  BY <1>1, Holder DEF Executing
<1>3. ASSUME Kept,
             \A w \in Worker : pc'[w] \in Holding =>
                pc[w] \in Holding /\ job'[w] = job[w] /\ attempt'[w] = attempt[w]
      PROVE  OwnInv'
  BY <1>1, <1>2, <1>3, OwnKept DEF Kept
<1>4. ASSUME NEW w \in Worker, Claim(w) PROVE OwnInv'
  <2>1. PICK t \in Task : ClaimNextTask(t) /\ job' = [job EXCEPT ![w] = t]
    BY <1>4, ZenonT(30) DEF Claim
  <2>2. Kept
    BY <1>1, <2>1 DEF ClaimNextTask, Claimable, SetStatus, Kept, StoreTypeOK
  <2>3. \A v \in Worker : pc'[v] \in Holding =>
           pc[v] \in Holding /\ job'[v] = job[v] /\ attempt'[v] = attempt[v]
    BY <1>1, <1>4, <2>1 DEF Claim, Go, ProcessTypeOK, Holding, Running
  <2> QED BY <1>3, <2>2, <2>3
<1>5. ASSUME NEW w \in Worker, Start(w) PROVE OwnInv'
  <2>1. /\ job[w] \in Task /\ status[job[w]] = "ASSIGNED"
        /\ status' = [status EXCEPT ![job[w]] = "RUNNING"] /\ retry' = retry
        /\ job' = job /\ attempt' = [attempt EXCEPT ![w] = retry[job[w]]]
        /\ pc' = [pc EXCEPT ![w] = "started"]
    BY <1>1, <1>5, ZenonT(30) DEF Start, StartTask, CanStart, SetStatus, Go, JobInv
  <2>2. \A v \in Worker : pc[v] \in Holding => job[v] # job[w]
    BY <1>2, <2>1
  <2>3. \A v \in Worker \ {w} : pc'[v] = pc[v] /\ attempt'[v] = attempt[v]
    BY <1>1, <2>1 DEF ProcessTypeOK
  <2>4. SingleExecutor'
    BY <1>1, <2>1, <2>2, <2>3 DEF OwnInv, SingleExecutor, Holding, Running
  <2>5. status'[job[w]] = "RUNNING" /\ attempt'[w] = retry[job[w]]
    BY <1>1, <2>1 DEF StoreTypeOK, ProcessTypeOK
  <2>6. ExecutorOwnsTask'
    BY <1>1, <1>2, <2>1, <2>2, <2>3, <2>5
       DEF ExecutorOwnsTask, Holding, Running, StoreTypeOK
  <2> QED BY <2>4, <2>6 DEF OwnInv
<1>6. ASSUME NEW w \in Worker, pc[w] \in Holding,
             \E there : pc' = [pc EXCEPT ![w] = there],
             UNCHANGED <<status, retry, job, attempt>>
      PROVE  OwnInv'
  <2>1. \A v \in Worker : pc'[v] \in Holding => pc[v] \in Holding
    BY <1>1, <1>6 DEF ProcessTypeOK
  <2>2. Kept
    BY <1>6 DEF Kept
  <2> QED BY <1>3, <1>6, <2>1, <2>2
<1>7. ASSUME NEW w \in Worker, AgentProgress(w) PROVE OwnInv'
  <2>1. Kept
    BY <1>1, <1>7 DEF AgentProgress, UpdateTaskProgress, SetStatus, Kept, StoreTypeOK
  <2>2. UNCHANGED <<pc, job, attempt>>
    BY <1>7 DEF AgentProgress, memVars
  <2> QED BY <1>3, <2>1, <2>2
<1>8. ASSUME NEW w \in Worker,
             Register(w) \/ ShellExecute(w) \/ ShellStart(w) \/ ShellFinish(w)
      PROVE  OwnInv'
  <2>1. pc[w] \in Holding
    BY <1>8, ZenonT(30) DEF Register, ShellExecute, ShellStart, RunsShell, ShellFinish, Holding, Running
  <2>2. UNCHANGED <<status, retry, job, attempt>>
    BY <1>8, ZenonT(30) DEF Register, ShellExecute, ShellStart, StartToolInvocation, ShellFinish,
       FinishToolInvocation, storeVars
  <2>3. \E there : pc' = [pc EXCEPT ![w] = there]
    BY <1>8, ZenonT(30) DEF Register, ShellExecute, ShellStart, ShellFinish, Go
  <2> QED BY <1>6, <2>1, <2>2, <2>3, ZenonT(30)
<1>9. ASSUME NEW w \in Worker, Settles(w) PROVE OwnInv'
  <2>1. pc[w] \in Holding /\ Settle(w) /\ Only(job[w])
    BY <1>9, SettleEffect
  <2>2. \A v \in Worker : pc'[v] \in Holding => v # w /\ pc[v] \in Holding
    BY <1>1, <2>1 DEF Settle, Go, ProcessTypeOK, Holding, Running
  <2>3. \A v \in Worker : pc'[v] \in Holding =>
           status'[job[v]] = status[job[v]] /\ retry'[job[v]] = retry[job[v]]
    BY <1>1, <1>2, <2>1, <2>2, ZenonT(30) DEF OwnInv, SingleExecutor, Only
  <2> QED BY <1>1, <1>2, <2>1, <2>2, <2>3, OwnKept, ZenonT(30) DEF Settle
<1>10. ASSUME NEW w \in Worker, Releases(w) PROVE OwnInv'
  <2>1. pc[w] \notin Holding /\ Release(w) /\ Kept
    BY <1>10, ReleaseEffect
  <2> QED BY <1>1, <1>3, <2>1 DEF Release, Go, ProcessTypeOK, Holding, Running
<1>11. CASE Handles
  <2>1. Calm /\ Kept
    BY <1>11, HandleEffect
  <2> QED BY <1>3, <2>1, ZenonT(30) DEF Calm
<1>12. CASE Stops
  <2>1. Forget
    BY <1>12 DEF Stops, Terminate, Crash
  <2> QED BY <1>1, <2>1, OwnKept DEF Forget, Holding, Running
<1>13. CASE Recover
  <2>1. \A w \in Worker : pc'[w] = "idle"
    BY <1>1, <1>13 DEF Recover, memVars, JobInv
  <2> QED BY <1>1, <2>1, OwnKept DEF Holding, Running
<1> QED
  BY <1>4, <1>5, <1>7, <1>8, <1>9, <1>10, <1>11, <1>12, <1>13, NextCases

(* ... and the bookkeeping of shell commands.                               *)
LEMMA ShellKept ==
  ASSUME ShellInv, RowStep, NeedsApproval \subseteq Task,
         UNCHANGED <<effects, invocation>>,
         \A w \in Worker : pc'[w] \in {"executing", "executed", "finished"} =>
            pc'[w] = pc[w] /\ job'[w] = job[w] /\ result'[w] = result[w]
  PROVE  ShellInv'
<1>1. ShellEffectAtMostOnce' /\ \A t \in Task : invocation'[t] = Absent => effects'[t] = 0
  BY ZenonT(30) DEF ShellInv, ShellEffectAtMostOnce
<1>2. EffectRequiresConsent'
  BY ZenonT(30) DEF ShellInv, EffectRequiresConsent, RowStep
<1> QED BY <1>1, <1>2 DEF ShellInv

(* Every step keeps consent, invocation and effect in order.               *)
LEMMA ShellStep ==
  ASSUME Inv, [Next]_vars
  PROVE  ShellInv'
<1>1. ProcessTypeOK /\ StoreTypeOK /\ GateInv /\ JobInv /\ OwnInv /\ ShellInv
  BY DEF Inv, StoreInv
<1>pc. pc \in [Worker -> {"idle", "claimed", "exiting"} \cup Holding]
  BY <1>1 DEF ProcessTypeOK
<1>2. RowStep /\ NeedsApproval \subseteq Task
  BY StoreStep, NeedsApprovalAssumption
<1>3. ASSUME UNCHANGED <<effects, invocation>>,
             \A w \in Worker : pc'[w] \in {"executing", "executed", "finished"} =>
                pc'[w] = pc[w] /\ job'[w] = job[w] /\ result'[w] = result[w]
      PROVE  ShellInv'
  BY <1>1, <1>2, <1>3, ShellKept, ZenonT(30)
<1>4. ASSUME NEW w \in Worker, Claim(w) PROVE ShellInv'
  <2>1. PICK t \in Task : ClaimNextTask(t) /\ job' = [job EXCEPT ![w] = t]
    BY <1>4, ZenonT(30) DEF Claim
  <2> QED BY <1>1, <1>3, <1>4, <2>1 DEF Claim, ClaimNextTask, Go, ProcessTypeOK
<1>5. ASSUME NEW w \in Worker, Start(w) PROVE ShellInv'
  BY <1>pc, <1>3, <1>5 DEF Start, StartTask, Go
<1>6. ASSUME NEW w \in Worker, Register(w) PROVE ShellInv'
  BY <1>pc, <1>3, <1>6 DEF Register, storeVars, Go
<1>7. ASSUME NEW w \in Worker, AgentProgress(w) PROVE ShellInv'
  BY <1>1, <1>3, <1>7 DEF AgentProgress, UpdateTaskProgress, memVars
<1>8. ASSUME NEW w \in Worker, pc[w] \in Holding
      PROVE  \A v \in Worker \ {w} : pc[v] \in Holding => job[v] # job[w]
  BY <1>1, <1>8 DEF OwnInv, SingleExecutor
<1>9. {"executing", "executed", "finished"} \subseteq Holding
  BY DEF Holding, Running
<1>10. ASSUME NEW w \in Worker, ShellStart(w) PROVE ShellInv'
  <2>1. /\ pc[w] = "running" /\ job[w] \in Task /\ invocation[job[w]] = Absent
        /\ pc' = [pc EXCEPT ![w] = "executing"]
        /\ invocation' = [invocation EXCEPT ![job[w]] = "STARTED"]
        /\ UNCHANGED <<job, result, effects>>
    BY <1>1, <1>10, ZenonT(30) DEF ShellStart, RunsShell, StartToolInvocation, Go, JobInv
  <2>2. effects[job[w]] = 0 /\ invocation'[job[w]] = "STARTED"
    BY <1>1, <2>1 DEF ShellInv, StoreTypeOK
  <2>3. \A t \in Task \ {job[w]} : invocation'[t] = invocation[t]
    BY <1>1, <2>1 DEF StoreTypeOK
  <2>4. \A v \in Worker \ {w} : pc'[v] = pc[v] /\ (pc[v] \in Holding => job[v] # job[w] /\ job[v] \in Task)
    BY <1>1, <1>pc, <1>8, <2>1, Holder, ZenonT(30) DEF Holding, Running
  <2>5. pc'[w] = "executing"
    BY <1>pc, <2>1
  <2>6. ShellEffectAtMostOnce' /\ EffectRequiresConsent'
    BY <1>1, <1>2, <2>1 DEF ShellInv, ShellEffectAtMostOnce, EffectRequiresConsent, RowStep
  <2>7. \A t \in Task : invocation'[t] = Absent => effects'[t] = 0
    BY <1>1, <2>1, <2>2, <2>3 DEF ShellInv
  <2>8. \A v \in Worker :
           /\ pc'[v] = "executing" => invocation'[job'[v]] = "STARTED" /\ effects'[job'[v]] = 0
           /\ pc'[v] = "executed" => invocation'[job'[v]] = "STARTED"
           /\ pc'[v] = "finished" /\ result'[v] = "ok" => invocation'[job'[v]] = "COMPLETED"
    BY <1>1, <1>9, <2>1, <2>2, <2>3, <2>4, <2>5 DEF ShellInv
  <2> QED BY <2>6, <2>7, <2>8 DEF ShellInv
<1>11. ASSUME NEW w \in Worker, ShellExecute(w) PROVE ShellInv'
  <2>1. PICK n \in {0, 1} : effects' = [effects EXCEPT ![job[w]] = @ + n]
    BY <1>11, ZenonT(30) DEF ShellExecute
  <2>2. /\ pc[w] = "executing" /\ job[w] \in Task
        /\ pc' = [pc EXCEPT ![w] = "executed"] /\ UNCHANGED <<invocation, approval, job>>
    BY <1>1, <1>11 DEF ShellExecute, Go, JobInv, storeVars
  <2>3. /\ effects[job[w]] = 0 /\ effects'[job[w]] \in {0, 1}
        /\ invocation[job[w]] = "STARTED"
    BY <1>1, <2>1, <2>2 DEF ShellInv, ProcessTypeOK
  <2>4. \A t \in Task \ {job[w]} : effects'[t] = effects[t]
    BY <1>1, <2>1 DEF ProcessTypeOK
  <2>5. \A v \in Worker \ {w} :
           /\ pc'[v] = pc[v] /\ result'[v] = result[v]
           /\ pc[v] \in Holding => job[v] # job[w] /\ job[v] \in Task
    BY <1>1, <1>8, <1>9, <1>11, <2>2, Holder DEF ShellExecute, ProcessTypeOK
  <2>6. pc'[w] = "executed"
    BY <1>pc, <2>2
  <2>7. ShellEffectAtMostOnce'
    <3>1. \A t \in Task : effects'[t] \in {0, 1} \/ effects'[t] = effects[t]
      BY <2>3, <2>4
    <3>2. \A t \in Task : effects[t] <= 1
      BY <1>1, ZenonT(30) DEF ShellInv, ShellEffectAtMostOnce
    <3>3. \A t \in Task : effects'[t] <= 1
      BY <3>1, <3>2
    <3> QED BY <3>3 DEF ShellEffectAtMostOnce
  <2>8. EffectRequiresConsent'
    <3>1. Executing(job[w])
      BY <1>1, <1>9, <2>2, Holder
    <3>2. job[w] \in NeedsApproval => approval[job[w]] = "CONSUMED"
      BY <1>1, <3>1 DEF GateInv, Executing, Absent
    <3> QED BY <1>1, <1>2, <2>2, <2>4, <3>2, ZenonT(30) DEF ShellInv, EffectRequiresConsent
  <2>9. \A t \in Task : invocation'[t] = Absent => effects'[t] = 0
    BY <1>1, <2>2, <2>3, <2>4 DEF ShellInv, Absent
  <2>10. \A v \in Worker :
           /\ pc'[v] = "executing" => invocation'[job'[v]] = "STARTED" /\ effects'[job'[v]] = 0
           /\ pc'[v] = "executed" => invocation'[job'[v]] = "STARTED"
           /\ pc'[v] = "finished" /\ result'[v] = "ok" => invocation'[job'[v]] = "COMPLETED"
    BY <1>1, <1>9, <2>2, <2>3, <2>4, <2>5, <2>6 DEF ShellInv
  <2> QED BY <2>7, <2>8, <2>9, <2>10, ZenonT(30) DEF ShellInv
<1>12. ASSUME NEW w \in Worker, ShellFinish(w) PROVE ShellInv'
  <2>1. /\ pc[w] = "executed" /\ job[w] \in Task
        /\ pc' = [pc EXCEPT ![w] = "finished"]
        /\ invocation' = [invocation EXCEPT
              ![job[w]] = IF result[w] = "ok" THEN "COMPLETED" ELSE "FAILED"]
        /\ UNCHANGED <<job, result, effects>>
    BY <1>1, <1>12, ZenonT(30) DEF ShellFinish, FinishToolInvocation, Go, JobInv
  <2>2. invocation'[job[w]] = IF result[w] = "ok" THEN "COMPLETED" ELSE "FAILED"
    BY <1>1, <2>1 DEF StoreTypeOK
  <2>3. \A t \in Task \ {job[w]} : invocation'[t] = invocation[t]
    BY <1>1, <2>1 DEF StoreTypeOK
  <2>4. \A v \in Worker \ {w} : pc'[v] = pc[v] /\ (pc[v] \in Holding => job[v] # job[w] /\ job[v] \in Task)
    BY <1>1, <1>pc, <1>8, <1>9, <2>1, Holder, ZenonT(30)
  <2>5. pc'[w] = "finished"
    BY <1>pc, <2>1
  <2>6. ShellEffectAtMostOnce' /\ EffectRequiresConsent'
    BY <1>1, <1>2, <2>1, ZenonT(30) DEF ShellInv, ShellEffectAtMostOnce, EffectRequiresConsent, RowStep
  <2>7. \A t \in Task : invocation'[t] = Absent => effects'[t] = 0
    BY <1>1, <2>1, <2>2, <2>3 DEF ShellInv, Absent
  <2>8. \A v \in Worker :
           /\ pc'[v] = "executing" => invocation'[job'[v]] = "STARTED" /\ effects'[job'[v]] = 0
           /\ pc'[v] = "executed" => invocation'[job'[v]] = "STARTED"
           /\ pc'[v] = "finished" /\ result'[v] = "ok" => invocation'[job'[v]] = "COMPLETED"
    BY <1>1, <1>9, <2>1, <2>2, <2>3, <2>4, <2>5 DEF ShellInv
  <2> QED BY <2>6, <2>7, <2>8 DEF ShellInv
<1>13. ASSUME NEW w \in Worker, Settles(w) PROVE ShellInv'
  <2>1. Settle(w) /\ invocation' = invocation
    BY <1>13, SettleEffect, ZenonT(30)
  <2> QED BY <1>pc, <1>3, <2>1, ZenonT(30) DEF Settle, Go
<1>14. ASSUME NEW w \in Worker, Releases(w) PROVE ShellInv'
  <2>1. Release(w) /\ invocation' = invocation
    BY <1>14, ReleaseEffect, ZenonT(30)
  <2> QED BY <1>1, <1>3, <2>1 DEF Release, Go, ProcessTypeOK
<1>15. CASE Handles
  <2>1. Calm
    BY <1>15, HandleEffect, ZenonT(30)
  <2> QED BY <1>3, <2>1, ZenonT(30) DEF Calm
<1>16. CASE Stops
  <2>1. Forget
    BY <1>16 DEF Stops, Terminate, Crash
  <2> QED BY <1>3, <2>1, ZenonT(30) DEF Forget, storeVars
<1>17. CASE Recover
  <2>1. (\A w \in Worker : pc'[w] = "idle") /\ effects' = effects
    BY <1>1, <1>17 DEF Recover, memVars, JobInv
  <2>2. \A t \in Task : invocation'[t] = IF Uncertain(t) THEN "FAILED" ELSE invocation[t]
    BY <1>17 DEF Recover, RecoverInterruptedTasks
  <2>3. ShellEffectAtMostOnce' /\ EffectRequiresConsent'
    BY <1>1, <1>2, <2>1, ZenonT(30) DEF ShellInv, ShellEffectAtMostOnce, EffectRequiresConsent, RowStep
  <2> QED BY <1>1, <2>1, <2>2, <2>3, ZenonT(30) DEF ShellInv, Absent
<1> QED
  BY <1>4, <1>5, <1>6, <1>7, <1>10, <1>11, <1>12, <1>13, <1>14, <1>15, <1>16, <1>17, NextCases

-----------------------------------------------------------------------------
(* The theorems.                                                            *)

(* Every part of RuntimeInv holds initially, and every step of a worker,    *)
(* handler, expiry, shutdown, crash or recovery preserves them together.    *)
THEOREM RuntimeInvariant == Spec => []RuntimeInv
<1>1. Init => RuntimeInv
  <2> SUFFICES ASSUME Init PROVE RuntimeInv
    OBVIOUS
  <2> USE DEF Init, StoreInit
  <2>1. StoreTypeOK
    BY DEF StoreTypeOK, Status
  <2>2. ProcessTypeOK
    BY BudgetAssumption DEF ProcessTypeOK
  <2>3. GraphInv /\ PendingIffWaiting /\ GateInv /\ SuccessIsRecorded /\ DependencyOrder
    BY RootOfAssumption, NeedsApprovalAssumption
       DEF GraphInv, PendingIffWaiting, GateInv, SuccessIsRecorded, DependencyOrder, Absent
  <2>4. OutcomeInv
    BY DEF OutcomeInv, OutcomeStored, Absent
  <2>5. JobInv /\ OwnInv
    BY DEF JobInv, OwnInv, SingleExecutor, ExecutorOwnsTask, Holding, Running
  <2>6. ShellInv
    BY NeedsApprovalAssumption DEF ShellInv, ShellEffectAtMostOnce, EffectRequiresConsent
  <2> QED BY <2>1, <2>2, <2>3, <2>4, <2>5, <2>6 DEF RuntimeInv, TypeOK, StoreInv
<1>2. RuntimeInv /\ [Next]_vars => RuntimeInv'
  <2> SUFFICES ASSUME RuntimeInv, [Next]_vars PROVE RuntimeInv'
    OBVIOUS
  <2>1. Inv /\ StoreTypeOK /\ GraphInv /\ DependencyOrder /\ OutcomeInv
    BY DEF RuntimeInv, TypeOK, StoreInv, Inv
  <2>2. StoreInv' /\ RowStep /\ ProcessTypeOK' /\ JobInv' /\ OwnInv' /\ ShellInv'
    BY <2>1, StoreStep, TypeStep, OwnStep, ShellStep
  <2>3. StoreTypeOK'
    BY <2>2 DEF StoreInv
  <2>4. DependencyOrder' /\ OutcomeInv'
    BY <2>1, <2>2, <2>3, DependencyStep, OutcomeStep
  <2> QED BY <2>2, <2>3, <2>4 DEF RuntimeInv, TypeOK
<1> QED BY <1>1, <1>2, PTL DEF Spec

(* Every step keeps RuntimeInv.                                            *)
LEMMA RuntimeSteps ==
  ASSUME RuntimeInv, [Next]_vars
  PROVE  RowStep /\ KeyIsNew /\ StaysCancelled
<1>1. Inv /\ StoreTypeOK /\ OutcomeInv
  BY DEF RuntimeInv, TypeOK, Inv
<1>2. StoreInv' /\ RowStep
  BY <1>1, StoreStep
<1>3. StoreTypeOK'
  BY <1>2 DEF StoreInv
<1> QED BY <1>1, <1>2, <1>3, OutcomeStep, CancellationStep

(* Every column of the store and every field of the process keeps its type. *)
THEOREM TypeCorrect == Spec => []TypeOK
  BY RuntimeInvariant, PTL DEF RuntimeInv

(* At most one worker executes a task, and while it does, the row stays     *)
(* RUNNING or CANCEL_REQUESTED at the attempt it read: the settling         *)
(* transactions of runtime.go never meet ErrConflict.                       *)
THEOREM ExecutionIsExclusive == Spec => [](SingleExecutor /\ ExecutorOwnsTask)
  BY RuntimeInvariant, PTL DEF RuntimeInv, OwnInv

(* A synthesis root is held or completed only over terminal children, for   *)
(* any number of children, retries, cancellations and restarts.             *)
THEOREM DependenciesComeFirst == Spec => []DependencyOrder
  BY RuntimeInvariant, PTL DEF RuntimeInv

(* A completed root has the answer of its current attempt on record.        *)
THEOREM OutcomesAreStored == Spec => []OutcomeStored
  BY RuntimeInvariant, PTL DEF RuntimeInv, OutcomeInv

(* The answer of a completing root never collides with an earlier one.      *)
THEOREM OutcomesAreFresh == Spec => OutcomeFresh
<1>1. RuntimeInv /\ [Next]_vars => [KeyIsNew]_vars
  BY RuntimeSteps
<1> QED BY <1>1, RuntimeInvariant, PTL DEF Spec, OutcomeFresh

(* A requested cancellation is never undone but by an explicit retry.       *)
THEOREM CancellationsStick == Spec => CancellationSticks
<1>1. RuntimeInv /\ [Next]_vars => [StaysCancelled]_vars
  BY RuntimeSteps
<1> QED BY <1>1, RuntimeInvariant, PTL DEF Spec, CancellationSticks

(* The command of a shell task is launched at most once, over any number of *)
(* crashes, recoveries, faults and re-deliveries.                           *)
THEOREM ShellRunsAtMostOnce == Spec => []ShellEffectAtMostOnce
  BY RuntimeInvariant, PTL DEF RuntimeInv, ShellInv

(* The command of a gated task is launched only after its approval was      *)
(* granted and consumed.                                                    *)
THEOREM ShellRunsWithConsent == Spec => []EffectRequiresConsent
  BY RuntimeInvariant, PTL DEF RuntimeInv, ShellInv

(* An approval is pending exactly while its task waits for it.              *)
THEOREM ApprovalsMatchTasks == Spec => []PendingIffWaiting
  BY RuntimeInvariant, PTL DEF RuntimeInv, StoreInv

(* A shell task is COMPLETED only if its invocation is recorded so.         *)
THEOREM ShellSuccessIsReal == Spec => []SuccessIsRecorded
  BY RuntimeInvariant, PTL DEF RuntimeInv, StoreInv

(***************************************************************************)
(* The abstract life cycle                                                 *)
(***************************************************************************)

(* In the vocabulary of the abstract specification, a step moves the phase  *)
(* of a task onward, or makes it ready again for one retry.                 *)
LEMMA PhaseMoves ==
  ASSUME RowStep, NEW t \in Task
  PROVE  \/ /\ PhaseOf(status'[t]) \in Lifecycle!Onward(PhaseOf(status[t]))
            /\ retry'[t] = retry[t]
         \/ /\ PhaseOf(status[t]) \in {"held", "ended"} /\ PhaseOf(status'[t]) = "ready"
            /\ retry[t] < MaxRetries[t] /\ retry'[t] = retry[t] + 1
<1>1. ASSUME NEW s, NEW r, Moved(s, r)
      PROVE  PhaseOf(r) \in Lifecycle!Onward(PhaseOf(s))
  <2> USE DEF PhaseOf, Lifecycle!Onward, Absent
  <2>1. CASE r = s
    BY <2>1
  <2>2. CASE s = Absent /\ r \in {"QUEUED", "WAITING_FOR_APPROVAL"}
    BY <2>2
  <2>3. CASE s = "WAITING_FOR_APPROVAL" /\ r \in {"QUEUED", "CANCELLED", "TIMED_OUT"}
    BY <2>3
  <2>4. CASE s \in {"CREATED", "QUEUED", "BLOCKED"} /\ r \in {"ASSIGNED", "CANCELLED"}
    BY <2>4
  <2>5. CASE s = "ASSIGNED" /\ r \in {"RUNNING", "CANCEL_REQUESTED", "FAILED"}
    BY <2>5
  <2>6. CASE /\ s \in {"RUNNING", "WAITING_FOR_CHILDREN"}
             /\ r \in {"CANCEL_REQUESTED", "COMPLETED", "PARTIALLY_COMPLETED", "FAILED",
                       "TIMED_OUT"}
    BY <2>6
  <2>7. CASE s = "CANCEL_REQUESTED" /\ Terminal(r)
    BY <2>7 DEF Terminal, TerminalStatus
  <2> QED BY <1>1, <2>1, <2>2, <2>3, <2>4, <2>5, <2>6, <2>7 DEF Moved
<1>2. \A s \in {"ASSIGNED", "RUNNING", "FAILED", "TIMED_OUT", "CANCELLED",
                "PARTIALLY_COMPLETED"} : PhaseOf(s) \in {"held", "ended"}
  BY DEF PhaseOf, Absent
<1>3. PhaseOf("QUEUED") = "ready"
  BY DEF PhaseOf, Absent
<1>4. CASE Moved(status[t], status'[t]) /\ retry'[t] = retry[t]
  BY <1>1, <1>4, ZenonT(30)
<1> QED BY <1>2, <1>3, <1>4, RowMoves, ZenonT(30)

(* Every behaviour of the runtime is, seen through statuses and retry       *)
(* counts, a behaviour of the abstract life cycle: COMPLETED is final, a    *)
(* stopped task is not resumed, each re-execution uses up one retry, and    *)
(* dependencies come first.                                                 *)
THEOREM RuntimeImplementsLifecycle == Spec => LifecycleSpec
<1>1. Init => Lifecycle!Init
  BY DEF Init, StoreInit, Lifecycle!Init, phaseMap, PhaseOf, Absent
<1>2. RuntimeInv /\ RuntimeInv' /\ [Next]_vars => [Lifecycle!Next]_<<phaseMap, retry>>
  <2> SUFFICES ASSUME RuntimeInv, RuntimeInv', [Next]_vars
               PROVE  Lifecycle!Next
    OBVIOUS
  <2>1. RowStep
    BY RuntimeSteps
  <2>2. \A t \in Task : phaseMap[t] = PhaseOf(status[t]) /\ phaseMap'[t] = PhaseOf(status'[t])
    BY DEF phaseMap
  <2>3. phaseMap' \in [Task -> Lifecycle!Phases]
    BY DEF phaseMap, PhaseOf, Lifecycle!Phases
  <2>4. \A t \in Task : Lifecycle!Advance(t) \/ Lifecycle!Rearm(t)
    BY <2>1, <2>2, PhaseMoves, ZenonT(30) DEF Lifecycle!Advance, Lifecycle!Rearm
  <2>5. \A t \in Task : Lifecycle!Ordered(t)
    <3> SUFFICES ASSUME NEW t \in Task, PhaseOf(status'[t]) \in {"held", "stopping", "done"},
                        NEW d \in Deps(t)
                 PROVE  PhaseOf(status'[d]) \in {"done", "ended"}
      BY <2>2 DEF Lifecycle!Ordered, Deps
    <3>1. status'[t] \in {"ASSIGNED", "RUNNING", "WAITING_FOR_CHILDREN",
                          "CANCEL_REQUESTED", "COMPLETED"}
      BY DEF PhaseOf, RuntimeInv, TypeOK, StoreTypeOK, Status, TerminalStatus
    <3>2. status'[d] \in TerminalStatus
      BY <3>1, ZenonT(30) DEF RuntimeInv, DependencyOrder, Deps, Terminal
    <3> QED BY <3>2 DEF PhaseOf, TerminalStatus, Absent
  <2> QED BY <2>3, <2>4, <2>5 DEF Lifecycle!Next
<1> QED
  BY <1>1, <1>2, RuntimeInvariant, PTL DEF Spec, LifecycleSpec, Lifecycle!Spec

=============================================================================
