---------------------------- MODULE TaskRuntime ----------------------------
(***************************************************************************)
(* The task runtime of Veqri Core (core/agents/runtime.go) over the durable *)
(* store of TaskStore: a pool of workers that claim, start, run and settle *)
(* tasks; the map of active cancel functions; the control API; and process *)
(* shutdown, crash and restart.                                            *)
(*                                                                         *)
(* A worker's steps are the points where it touches shared state.  Between *)
(* two of them any other worker, API handler or the crash may run.         *)
(***************************************************************************)
EXTENDS TaskStore

CONSTANTS
    Worker,         \* worker goroutines (cfg.WorkerCount of them)
    None,           \* no worker / no task
    Budget          \* the cases: how often each kind of environment event may happen

BudgetKinds == {"cancel", "priority", "retry", "dismiss", "progress", "fault", "crash"}

ASSUME NoneAssumption == None \notin Worker /\ None \notin Task

ASSUME BudgetAssumption == Budget \subseteq [BudgetKinds -> Nat]

VARIABLES
    mode,       \* "up", "stopping" (context cancelled, process alive) or "down"
    pc,         \* what each worker does next
    job,        \* the task a worker holds
    seen,       \* claimed.Version: the version the worker's claim returned
    attempt,    \* RetryCount of the snapshot StartTask returned
    cancelled,  \* the worker's context has been cancelled
    result,     \* how the shell command ended: "ok", "error" or "timeout"
    active,     \* Runtime.active: the worker whose cancel function is stored
    signals,    \* cancel handlers that still have to look a task up in active
    effects,    \* times the command of a shell task was launched (history)
    budget      \* what is left of the case

memVars  == <<pc, job, seen, attempt, cancelled, result, active, signals>>
vars     == <<storeVars, mode, memVars, effects, budget>>

Running  == {"running", "executing", "executed", "finished"}
Holding  == {"started"} \cup Running    \* StartTask succeeded, not settled

Spend(kind) ==
    /\ budget[kind] > 0
    /\ budget' = [budget EXCEPT ![kind] = @ - 1]

Go(w, there) == pc' = [pc EXCEPT ![w] = there]

Init ==
    /\ StoreInit
    /\ mode = "up"
    /\ pc = [w \in Worker |-> "idle"]
    /\ job = [w \in Worker |-> None]
    /\ seen = [w \in Worker |-> 0]
    /\ attempt = [w \in Worker |-> 0]
    /\ cancelled = [w \in Worker |-> FALSE]
    /\ result = [w \in Worker |-> None]
    /\ active = [t \in Task |-> None]
    /\ signals = [t \in Task |-> 0]
    /\ effects = [t \in Task |-> 0]
    /\ budget \in Budget

-----------------------------------------------------------------------------
(* worker and process: claim, start, register, ..., deferred clean-up.      *)

Claim(w) ==
    /\ mode = "up" /\ pc[w] = "idle"
    /\ \E t \in Task :
          /\ ClaimNextTask(t)
          /\ job' = [job EXCEPT ![w] = t]
          /\ seen' = [seen EXCEPT ![w] = version[t] + 1]
    /\ Go(w, "claimed")
    /\ UNCHANGED <<mode, attempt, cancelled, result, active, signals, effects, budget>>

Start(w) ==
    /\ mode = "up" /\ pc[w] = "claimed"
    /\ StartTask(job[w], seen[w])
    /\ attempt' = [attempt EXCEPT ![w] = retry[job[w]]]
    /\ Go(w, "started")
    /\ UNCHANGED <<mode, job, seen, cancelled, result, active, signals, effects, budget>>

(* process returns: its locals are gone and the worker loops.               *)
Release(w) ==
    /\ Go(w, "idle")
    /\ job' = [job EXCEPT ![w] = None]
    /\ seen' = [seen EXCEPT ![w] = 0]
    /\ attempt' = [attempt EXCEPT ![w] = 0]
    /\ cancelled' = [cancelled EXCEPT ![w] = FALSE]
    /\ result' = [result EXCEPT ![w] = None]
    /\ UNCHANGED <<mode, signals, effects>>

(* StartTask returned ErrConflict: the row was cancelled or its version     *)
(* moved since the claim.  The worker logs and forgets the task.            *)
StartConflict(w) ==
    /\ mode = "up" /\ pc[w] = "claimed"
    /\ ~CanStart(job[w], seen[w])
    /\ Release(w) /\ UNCHANGED <<storeVars, active, budget>>

(* StartTask failed for another reason: a database error, or the process    *)
(* context is already cancelled.  It is two statements, so the update may   *)
(* have been committed when reading the row back fails.                     *)
StartFault(w) ==
    /\ pc[w] = "claimed"
    /\ \/ mode = "stopping" /\ UNCHANGED budget
       \/ mode = "up" /\ Spend("fault")
    /\ StartTask(job[w], seen[w]) \/ UNCHANGED storeVars
    /\ Release(w) /\ UNCHANGED active

Register(w) ==
    /\ pc[w] = "started"
    /\ active' = [active EXCEPT ![job[w]] = w]
    /\ cancelled' = [cancelled EXCEPT ![w] = (mode = "stopping")]
    /\ Go(w, "running")
    /\ UNCHANGED <<storeVars, mode, job, seen, attempt, result, signals, effects, budget>>

(* The deferred function of process: delete(r.active, task.ID), whoever     *)
(* registered last.                                                         *)
Exit(w) ==
    /\ pc[w] = "exiting"
    /\ active' = [active EXCEPT ![job[w]] = None]
    /\ Release(w) /\ UNCHANGED <<storeVars, budget>>

(* What every settling step leaves alone.                                   *)
Settle(w) ==
    /\ Go(w, "exiting")
    /\ UNCHANGED <<mode, job, seen, attempt, cancelled, result, active, signals, effects>>

-----------------------------------------------------------------------------
(* processAgent: the runner returns a result or an error.                   *)

RunsAgent(w) == pc[w] = "running" /\ TaskType[job[w]] # "shell"

(* The synthesizer reports a partial result exactly when a child has no     *)
(* usable result; other agents decide for themselves.                       *)
PartialResult(t, partial) ==
    TaskType[t] = "synthesis" =>
        (partial <=> \E d \in Deps(t) :
                        status[d] \notin {"COMPLETED", "PARTIALLY_COMPLETED"})

AgentProgress(w) ==
    /\ RunsAgent(w) /\ UpdateTaskProgress(job[w])
    /\ Spend("progress")
    /\ UNCHANGED <<mode, memVars, effects>>

AgentComplete(w) ==
    /\ RunsAgent(w)
    /\ \E partial \in BOOLEAN :
          /\ PartialResult(job[w], partial)
          /\ CompleteTask(job[w], attempt[w], partial)
    /\ Settle(w) /\ UNCHANGED budget

(* A retryable error requeues the task; if the store refuses (cancelled     *)
(* meanwhile, or no retries left) the task fails.                           *)
AgentRetryable(w) ==
    /\ RunsAgent(w)
    /\ IF CanRequeue(job[w])
       THEN RequeueTaskForAutomaticRetry(job[w])
       ELSE FailTask(job[w], FALSE)
    /\ Settle(w) /\ UNCHANGED budget

(* A kill switch, an unavailable audit log, any other error, or the task    *)
(* deadline.                                                                *)
AgentFail(w) ==
    /\ RunsAgent(w)
    /\ \E timedOut \in BOOLEAN : FailTask(job[w], timedOut)
    /\ Settle(w) /\ UNCHANGED budget

(* The runner saw its context cancelled.  MarkTaskCancelled only accepts a  *)
(* CANCEL_REQUESTED row; finishFailure ignores its refusal.                 *)
AgentCancelled(w) ==
    /\ RunsAgent(w) /\ cancelled[w]
    /\ IF status[job[w]] = "CANCEL_REQUESTED"
       THEN MarkTaskCancelled(job[w]) ELSE UNCHANGED storeVars
    /\ Settle(w) /\ UNCHANGED budget

-----------------------------------------------------------------------------
(* processShell.                                                            *)

RunsShell(w) == pc[w] = "running" /\ TaskType[job[w]] = "shell"

(* Emergency stop, validation, privilege or canonical-form rejection.       *)
ShellReject(w) ==
    /\ RunsShell(w) /\ FailTask(job[w], FALSE)
    /\ Settle(w) /\ UNCHANGED budget

ShellStart(w) ==
    /\ RunsShell(w) /\ StartToolInvocation(job[w])
    /\ Go(w, "executing")
    /\ UNCHANGED <<mode, job, seen, attempt, cancelled, result, active, signals,
                   effects, budget>>

(* The idempotency key exists: complete from the stored output, or refuse.  *)
ShellDuplicate(w) ==
    /\ RunsShell(w) /\ invocation[job[w]] # Absent
    /\ IF invocation[job[w]] = "COMPLETED"
       THEN CompleteTask(job[w], attempt[w], FALSE)
       ELSE FailTask(job[w], FALSE)
    /\ Settle(w) /\ UNCHANGED budget

(* Execute: the command is launched (or not: a dry run, a staging error, a  *)
(* context cancelled beforehand) and ends.  A cancelled command is killed   *)
(* and reported as an ordinary non-zero exit.                               *)
ShellExecute(w) ==
    /\ pc[w] = "executing"
    /\ \E r \in {"ok", "error", "timeout"} : result' = [result EXCEPT ![w] = r]
    /\ \E n \in {0, 1} : effects' = [effects EXCEPT ![job[w]] = @ + n]
    /\ Go(w, "executed")
    /\ UNCHANGED <<storeVars, mode, job, seen, attempt, cancelled, active,
                   signals, budget>>

ShellFinish(w) ==
    /\ pc[w] = "executed"
    /\ FinishToolInvocation(job[w], result[w] = "ok")
    /\ Go(w, "finished")
    /\ UNCHANGED <<mode, job, seen, attempt, cancelled, result, active, signals,
                   effects, budget>>

ShellSettle(w) ==
    /\ pc[w] = "finished"
    /\ IF result[w] = "ok"
       THEN CompleteTask(job[w], attempt[w], FALSE)
       ELSE FailTask(job[w], result[w] = "timeout")
    /\ Settle(w) /\ UNCHANGED budget

-----------------------------------------------------------------------------
(* Persistence failures: the transaction that settles the task, or the one  *)
(* that finishes the invocation, is rolled back (its mandatory audit insert *)
(* failed, say).  finishFailure then fails the task, or fails to.           *)
SettleFault(w) ==
    /\ pc[w] \in {"running", "executed", "finished"}
    /\ Spend("fault")
    /\ FailTask(job[w], FALSE) \/ UNCHANGED storeVars
    /\ Settle(w)

-----------------------------------------------------------------------------
(* The control API.  Handlers run while the process is alive.               *)

Alive == mode # "down"

Create(r) ==
    /\ Alive /\ CreateTasks(r)
    /\ UNCHANGED <<mode, memVars, effects, budget>>

(* cancel: the graph transaction, then one lookup in active per task.       *)
Cancel(t) ==
    /\ Alive /\ Spend("cancel")
    /\ RequestTaskGraphCancellation(t)
    /\ signals' = [u \in Task |-> IF u \in Graph(t) THEN signals[u] + 1 ELSE signals[u]]
    /\ UNCHANGED <<mode, pc, job, seen, attempt, cancelled, result, active, effects>>

Signal(t) ==
    /\ Alive /\ signals[t] > 0
    /\ signals' = [signals EXCEPT ![t] = @ - 1]
    /\ cancelled' = [w \in Worker |-> cancelled[w] \/ active[t] = w]
    /\ UNCHANGED <<storeVars, mode, pc, job, seen, attempt, result, active,
                   effects, budget>>

Prioritize(t) ==
    /\ Alive /\ Spend("priority")
    /\ \E p \in Priorities : SetTaskPriority(t, p)
    /\ UNCHANGED <<mode, memVars, effects>>

Dismiss(t) ==
    /\ Alive /\ Spend("dismiss") /\ DismissTask(t)
    /\ UNCHANGED <<mode, memVars, effects>>

Retry(t) ==
    /\ Alive /\ Spend("retry")
    /\ retryRootTask(t) \/ retryGraphChild(t)
    /\ UNCHANGED <<mode, memVars, effects>>

Decide(t) ==
    /\ Alive
    /\ \E approved \in BOOLEAN : DecideApproval(t, approved)
    /\ UNCHANGED <<mode, memVars, effects, budget>>

Expire ==
    /\ Alive
    /\ \E S \in SUBSET Task : ExpireApprovals(S)
    /\ UNCHANGED <<mode, memVars, effects, budget>>

-----------------------------------------------------------------------------
(* Process life cycle.                                                      *)

(* The parent context of every worker is cancelled; the process exits when  *)
(* the HTTP server has shut down, without waiting for the workers.          *)
Shutdown ==
    /\ mode = "up" /\ Spend("crash")
    /\ mode' = "stopping"
    /\ cancelled' = [w \in Worker |-> TRUE]
    /\ UNCHANGED <<storeVars, pc, job, seen, attempt, result, active, signals, effects>>

Forget ==
    /\ mode' = "down"
    /\ pc' = [w \in Worker |-> "idle"]
    /\ job' = [w \in Worker |-> None]
    /\ seen' = [w \in Worker |-> 0]
    /\ attempt' = [w \in Worker |-> 0]
    /\ cancelled' = [w \in Worker |-> FALSE]
    /\ result' = [w \in Worker |-> None]
    /\ active' = [t \in Task |-> None]
    /\ signals' = [t \in Task |-> 0]
    /\ UNCHANGED <<storeVars, effects>>

Terminate == mode = "stopping" /\ Forget /\ UNCHANGED budget

Crash == mode = "up" /\ Spend("crash") /\ Forget

(* Runtime.Start: recovery precedes the workers.                            *)
Recover ==
    /\ mode = "down" /\ mode' = "up"
    /\ RecoverInterruptedTasks
    /\ UNCHANGED <<memVars, effects, budget>>

-----------------------------------------------------------------------------
WorkerStep(w) ==
    \/ Claim(w) \/ Start(w) \/ StartConflict(w) \/ Register(w) \/ Exit(w)
    \/ AgentComplete(w) \/ AgentRetryable(w) \/ AgentFail(w) \/ AgentCancelled(w)
    \/ ShellReject(w) \/ ShellStart(w) \/ ShellDuplicate(w) \/ ShellExecute(w)
    \/ ShellFinish(w) \/ ShellSettle(w)

Fault(w) == StartFault(w) \/ SettleFault(w)

Api(t) ==
    \/ Create(t) \/ Cancel(t) \/ Signal(t) \/ Prioritize(t) \/ Dismiss(t)
    \/ Retry(t) \/ Decide(t)

Process == Expire \/ Shutdown \/ Terminate \/ Crash \/ Recover

Next ==
    \/ \E w \in Worker : WorkerStep(w) \/ AgentProgress(w) \/ Fault(w)
    \/ \E t \in Task : Api(t)
    \/ Process

Spec == Init /\ [][Next]_vars

(* Workers poll every 750 ms and every run has a deadline; approvals are    *)
(* swept every 30 s; a cancel handler's loop runs to its end; a stopped or  *)
(* crashed Core is started again by its supervisor.                         *)
Fairness ==
    /\ \A w \in Worker : WF_vars(WorkerStep(w))
    /\ \A t \in Task : WF_vars(Signal(t))
    /\ WF_vars(Expire) /\ WF_vars(Terminate) /\ WF_vars(Recover)

FairSpec == Spec /\ Fairness

-----------------------------------------------------------------------------
(* Properties.                                                              *)

ProcessTypeOK ==
    /\ mode \in {"up", "stopping", "down"}
    /\ pc \in [Worker -> {"idle", "claimed", "exiting"} \cup Holding]
    /\ job \in [Worker -> Task \cup {None}]
    /\ seen \in [Worker -> Nat]
    /\ attempt \in [Worker -> Nat]
    /\ cancelled \in [Worker -> BOOLEAN]
    /\ result \in [Worker -> {None, "ok", "error", "timeout"}]
    /\ active \in [Task -> Worker \cup {None}]
    /\ signals \in [Task -> Nat]
    /\ effects \in [Task -> Nat]
    /\ budget \in [BudgetKinds -> Nat]

(* The columns of the store and the fields of the process keep their types, *)
(* over every worker step, handler, crash and recovery.                     *)
TypeOK == StoreTypeOK /\ ProcessTypeOK

(* A synthesis root is only ever assigned, run, cancelled while held, or     *)
(* completed while every task it depends on is terminal, whatever retries,   *)
(* cancellations and recoveries happened to those tasks (ClaimNextTask,      *)
(* retryGraphChild, RecoverInterruptedTasks).                                *)
DependencyOrder ==
    \A t \in Task :
        status[t] \in {"ASSIGNED", "RUNNING", "WAITING_FOR_CHILDREN",
                       "CANCEL_REQUESTED", "COMPLETED", "PARTIALLY_COMPLETED"}
        => \A d \in Deps(t) : Terminal(status[d])

(* No two workers execute the same task at the same time, although a task   *)
(* can be requeued and claimed again while the previous worker is still in  *)
(* its deferred clean-up (StartTask's version check).                       *)
SingleExecutor ==
    \A v, w \in Worker :
        pc[v] \in Holding /\ pc[w] \in Holding /\ job[v] = job[w] => v = w

(* While a worker executes a task its row stays RUNNING or CANCEL_REQUESTED *)
(* and keeps the attempt number the worker read: no API call, expiry or     *)
(* other worker settles or requeues it, so the ErrConflict branches of the  *)
(* settling transactions are never taken.                                   *)
ExecutorOwnsTask ==
    \A w \in Worker : pc[w] \in Holding =>
        /\ status[job[w]] \in {"RUNNING", "CANCEL_REQUESTED"}
        /\ attempt[w] = retry[job[w]]

(* A shell command is launched at most once for the life of its task, over  *)
(* crashes, recoveries, persistence failures and duplicate deliveries of    *)
(* the task to workers (StartToolInvocation's idempotency key).             *)
ShellEffectAtMostOnce == \A t \in Task : effects[t] <= 1

(* The command of a task that needed approval was launched only if that     *)
(* approval was granted and consumed (DecideApproval): a denied, expired or *)
(* cancelled request never runs.                                            *)
EffectRequiresConsent ==
    \A t \in NeedsApproval : effects[t] > 0 => approval[t] = "CONSUMED"

(* An approval is pending exactly while its task waits for it: no decision  *)
(* can be taken about a task that was cancelled or timed out, and no task   *)
(* waits for an approval that was already decided.                          *)
PendingIffWaiting ==
    \A t \in Task : approval[t] = "PENDING" <=> status[t] = "WAITING_FOR_APPROVAL"

(* A shell task is reported COMPLETED only when its recorded invocation     *)
(* completed; a started invocation of unknown outcome never becomes a       *)
(* success (processShell, RecoverInterruptedTasks).                         *)
SuccessIsRecorded ==
    \A t \in Task : TaskType[t] = "shell" /\ status[t] = "COMPLETED"
        => invocation[t] = "COMPLETED"

(* A completed or partially completed root has its final answer stored      *)
(* under the key of its current attempt (CompletionOutcome: never "complete *)
(* while losing its final answer").                                         *)
OutcomeStored ==
    \A t \in Task :
        IsRoot(t) /\ status[t] \in {"COMPLETED", "PARTIALLY_COMPLETED"}
        => <<t, retry[t]>> \in outcomes

KeyIsNew ==
    \A t \in Task :
        /\ IsRoot(t) /\ status[t] # status'[t]
        /\ status'[t] \in {"COMPLETED", "PARTIALLY_COMPLETED"}
        => <<t, retry[t]>> \notin outcomes /\ <<t, retry[t]>> \in outcomes'

(* When a root completes, the key of its answer is new, so INSERT OR IGNORE *)
(* cannot hide the answer behind one of an earlier attempt                  *)
(* (taskOutcomeAttemptSuffix).                                              *)
OutcomeFresh == [][KeyIsNew]_vars

StaysCancelled ==
    \A t \in Task :
        /\ status[t] = "CANCEL_REQUESTED" =>
              status'[t] = "CANCEL_REQUESTED" \/ Terminal(status'[t])
        /\ status[t] = "CANCELLED" /\ status'[t] # "CANCELLED" =>
              budget'["retry"] < budget["retry"]

(* A requested cancellation is never undone: the task goes from             *)
(* CANCEL_REQUESTED to a terminal status only, over crashes and recovery,   *)
(* and a cancelled task runs again only after an explicit retry.            *)
CancellationSticks == [][StaysCancelled]_vars

(* Every accepted task reaches a terminal status, if nobody cancels or      *)
(* reprioritizes it and the database works: over automatic retries,         *)
(* unanswered approvals, shutdowns and crashes.                             *)
EveryTaskSettles ==
    \A t \in Task : status[t] # Absent ~> Terminal(status[t])
=============================================================================
