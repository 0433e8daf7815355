----------------------------- MODULE TaskClaims ----------------------------
(***************************************************************************)
(* What the repository's documents, comments and tests say of the task     *)
(* runtime and its code does not do.  TLC refutes each of them; README.md   *)
(* says on which instance, and quotes the claims.                          *)
(***************************************************************************)
EXTENDS TaskRuntime

(* "applies cancellation to every non-terminal node ... so delegated        *)
(* children cannot outlive the user's intent" (tasks.go): a task whose      *)
(* cancellation was requested ends.  A worker that claimed the task before  *)
(* the request gets ErrConflict from StartTask and drops it.                *)
CancellationTakesEffect ==
    \A t \in Task : status[t] = "CANCEL_REQUESTED" ~> Terminal(status[t])

(* "If every process-local signal is lost, workers poll persisted QUEUED    *)
(* tasks" (ARCHITECTURE.md): a queued task is eventually run and settled.   *)
(* Reprioritizing a task between its claim and its start moves the version  *)
(* the worker holds; nobody polls the ASSIGNED row.                         *)
QueuedTaskSettles ==
    \A t \in Task : status[t] = "QUEUED" ~> Terminal(status[t])

(* "makes the durable graph cancellation ... one persistence transaction    *)
(* before signalling workers" (runtime.go): once the handler has finished,  *)
(* the worker executing the task has been signalled.  It has not when it    *)
(* registers late, or when the deferred delete of an earlier worker removed *)
(* its cancel function.                                                     *)
CancelReachesWorker ==
    \A w \in Worker :
        /\ pc[w] \in Running /\ status[job[w]] = "CANCEL_REQUESTED"
        /\ signals[job[w]] = 0
        => cancelled[w]

(* "Restart recovery requeues agent work and unstarted tool work"           *)
(* (ARCHITECTURE.md).  Shell tasks are created with max_retries 0, so       *)
(* recovery fails the unstarted ones.                                       *)
RecoveryRequeuesUnstartedTools ==
    [][Recover => \A t \in Task :
          TaskType[t] = "shell" /\ Interrupted(t) /\ invocation[t] = Absent
          => status'[t] = "QUEUED"]_vars

(* ValidateTransition (model.go) calls every other change of a status an    *)
(* "invalid task transition".  The store never consults the table.          *)
TransitionsFollowTable ==
    [][\A t \in Task : status[t] # Absent =>
          CanTransition(status[t], status'[t])]_vars
=============================================================================
