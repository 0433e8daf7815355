--------------------------- MODULE TaskRefinement --------------------------
(* The runtime implements the abstract task life cycle.                     *)
EXTENDS TaskRuntime

PhaseOf(s) ==
    CASE s = Absent                                   -> "absent"
      [] s = "WAITING_FOR_APPROVAL"                   -> "waiting"
      [] s \in {"QUEUED", "CREATED", "BLOCKED"}       -> "ready"
      [] s \in {"ASSIGNED", "RUNNING", "WAITING_FOR_CHILDREN"} -> "held"
      [] s = "CANCEL_REQUESTED"                       -> "stopping"
      [] s = "COMPLETED"                              -> "done"
      [] OTHER                                        -> "ended"

phaseMap == [t \in Task |-> PhaseOf(status[t])]

Lifecycle == INSTANCE TaskLifecycle WITH phase <- phaseMap, attempts <- retry

(* Every behaviour of workers, handlers, expiry, crashes and recovery is,   *)
(* seen through task statuses and retry counts, a behaviour of the abstract *)
(* life cycle: COMPLETED is final, a stopped task is not resumed, each      *)
(* re-execution uses up a retry, and dependencies come first.               *)
LifecycleSpec == Lifecycle!Spec
=============================================================================
