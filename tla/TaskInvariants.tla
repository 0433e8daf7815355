--------------------------- MODULE TaskInvariants --------------------------
(***************************************************************************)
(* The inductive invariant of the task runtime: what has to be added to    *)
(* the properties of TaskRuntime for every step to preserve them, and what *)
(* a step may do to the row of a task.                                     *)
(***************************************************************************)
EXTENDS TaskRuntime

-----------------------------------------------------------------------------
(* The store.                                                               *)

(* A graph is created as a whole.                                           *)
GraphInv == \A t \in Task : status[t] = Absent <=> status[RootOf[t]] = Absent

(* A gated task gets past its approval only by consuming it.                *)
GateInv ==
    /\ \A t \in Task : approval[t] = "CONSUMED" => status[t] # Absent
    /\ \A t \in NeedsApproval : approval[t] # "CONSUMED" =>
          status[t] \in {Absent, "WAITING_FOR_APPROVAL", "CANCELLED", "TIMED_OUT"}

(* The outcome keys of a task are those of its attempts so far, and the key *)
(* of the current attempt is taken only once that attempt has completed.    *)
OutcomeInv ==
    /\ OutcomeStored
    /\ \A o \in outcomes :
          /\ o[2] <= retry[o[1]]
          /\ o[2] = retry[o[1]] => status[o[1]] \in {"COMPLETED", "PARTIALLY_COMPLETED"}

StoreInv ==
    StoreTypeOK /\ GraphInv /\ PendingIffWaiting /\ GateInv /\ SuccessIsRecorded

-----------------------------------------------------------------------------
(* The process.                                                             *)

(* A worker that is not idle holds a task, and a process that is down has   *)
(* no workers.                                                              *)
JobInv ==
    /\ \A w \in Worker : pc[w] # "idle" => job[w] \in Task
    /\ mode = "down" => \A w \in Worker : pc[w] = "idle"

OwnInv == SingleExecutor /\ ExecutorOwnsTask

(* No command ran before its invocation was recorded; the worker about to   *)
(* run it is the first to; a result of "ok" is on record before it is used. *)
ShellInv ==
    /\ ShellEffectAtMostOnce /\ EffectRequiresConsent
    /\ \A t \in Task : invocation[t] = Absent => effects[t] = 0
    /\ \A w \in Worker :
          /\ pc[w] = "executing" =>
                invocation[job[w]] = "STARTED" /\ effects[job[w]] = 0
          /\ pc[w] = "executed" => invocation[job[w]] = "STARTED"
          /\ pc[w] = "finished" /\ result[w] = "ok" =>
                invocation[job[w]] = "COMPLETED"

(* The conjunction that every step of the runtime preserves: the types, the *)
(* properties of TaskRuntime that are invariants, and what they rest on.    *)
RuntimeInv ==
    /\ TypeOK /\ StoreInv /\ DependencyOrder /\ OutcomeInv
    /\ JobInv /\ OwnInv /\ ShellInv

-----------------------------------------------------------------------------
(* What one step may do to the row of a task: nothing; creation with its    *)
(* graph; a decision or expiry; claim; start; completion, failure or        *)
(* cancellation of an execution; a cancellation request; failure by         *)
(* recovery; or a requeue that uses up one retry.                           *)

Executing(t) == status[t] \in {"RUNNING", "CANCEL_REQUESTED"}

Onwards(t) ==
    \/ status'[t] = status[t]
    \/ /\ status[t] = Absent
       /\ \A u \in Graph(t) : status'[u] = InitialStatus(u)
    \/ /\ status[t] = "WAITING_FOR_APPROVAL"
       /\ status'[t] \in {"QUEUED", "CANCELLED", "TIMED_OUT"}
    \/ /\ status[t] = "QUEUED" /\ status'[t] = "ASSIGNED"
       /\ \A d \in Deps(t) : Terminal(status[d]) /\ status'[d] = status[d]
    \/ status[t] = "ASSIGNED" /\ status'[t] = "RUNNING"
    \/ Executing(t) /\ status'[t] \in {"FAILED", "TIMED_OUT"}
    \/ /\ Executing(t) /\ status'[t] \in {"COMPLETED", "PARTIALLY_COMPLETED"}
       /\ IsRoot(t) => <<t, retry[t]>> \in outcomes'
    \/ status[t] = "CANCEL_REQUESTED" /\ status'[t] = "CANCELLED"
    \/ status[t] # Absent /\ status'[t] = CancelledStatus(status[t])
    \/ Interrupted(t) /\ status'[t] = "FAILED"

Requeue(t) ==
    /\ status'[t] = "QUEUED" /\ retry[t] < MaxRetries[t]
    /\ \/ Interrupted(t)
       \/ /\ status[t] \in explicitRetryStatus /\ TaskType[t] # "shell"
          /\ status'[RootOf[t]] = "QUEUED"
          /\ budget'["retry"] < budget["retry"]

RowStep ==
    /\ \A t \in Task : \/ Onwards(t) /\ retry'[t] = retry[t]
                       \/ Requeue(t) /\ retry'[t] = retry[t] + 1
    /\ \A t \in Task : approval[t] = "CONSUMED" => approval'[t] = "CONSUMED"
    /\ outcomes \subseteq outcomes'
    /\ \A o \in outcomes' \ outcomes : \E t \in Task :
          /\ o = <<t, retry[t]>> /\ Executing(t)
          /\ status'[t] \in {"COMPLETED", "PARTIALLY_COMPLETED"}
=============================================================================
