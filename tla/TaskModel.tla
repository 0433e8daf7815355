----------------------------- MODULE TaskModel -----------------------------
(***************************************************************************)
(* The vocabulary of durable tasks (core/tasks/model.go): the statuses a   *)
(* task row can carry, which of them are terminal, and the transition      *)
(* table that the package publishes.                                       *)
(***************************************************************************)
EXTENDS Naturals

TerminalStatus ==
    {"COMPLETED", "PARTIALLY_COMPLETED", "FAILED", "CANCELLED", "TIMED_OUT"}

Status ==
    TerminalStatus \cup
    {"CREATED", "QUEUED", "ASSIGNED", "RUNNING", "WAITING_FOR_CHILDREN",
     "WAITING_FOR_APPROVAL", "BLOCKED", "CANCEL_REQUESTED"}

Terminal(s) == s \in TerminalStatus

(***************************************************************************)
(* The published transition table.  No transaction of the store consults   *)
(* it; only the package's own tests do.                                    *)
(***************************************************************************)
transitions ==
    [s \in Status |->
        CASE s = "CREATED"  -> {"QUEUED", "WAITING_FOR_APPROVAL", "CANCELLED"}
          [] s = "QUEUED"   -> {"ASSIGNED", "CANCEL_REQUESTED", "TIMED_OUT"}
          [] s = "ASSIGNED" -> {"RUNNING", "QUEUED", "CANCEL_REQUESTED"}
          [] s = "RUNNING"  ->
                {"WAITING_FOR_CHILDREN", "WAITING_FOR_APPROVAL", "COMPLETED",
                 "PARTIALLY_COMPLETED", "FAILED", "CANCEL_REQUESTED", "TIMED_OUT"}
          [] s = "WAITING_FOR_CHILDREN" ->
                {"RUNNING", "COMPLETED", "PARTIALLY_COMPLETED", "FAILED",
                 "CANCEL_REQUESTED"}
          [] s = "WAITING_FOR_APPROVAL" -> {"QUEUED", "CANCELLED", "TIMED_OUT"}
          [] s = "BLOCKED"  -> {"QUEUED", "CANCELLED"}
          [] s = "CANCEL_REQUESTED" -> {"CANCELLED", "COMPLETED", "FAILED"}
          [] OTHER -> {}]

CanTransition(from, to) == from = to \/ to \in transitions[from]
=============================================================================
