------------------------------- MODULE MCWork -------------------------------
(* Requests of one task, in two cases.  An agent request meets every control *)
(* and every fault once.  Two shell requests meet a cancellation, a failing  *)
(* write and two crashes: one is gated behind an approval and has no         *)
(* retries, as handleShell creates it, and one runs at once.  The store      *)
(* takes any max_retries, and its own tests create shell rows that have some *)
(* (transactional_work_test.go), so the second may be requeued by recovery.  *)
EXTENDS TaskInvariants, TaskRefinement, TaskClaims, TLC

CONSTANTS ask, gated, plain, wA, wB

MCTask       == {ask, gated, plain}
MCWorker     == {wA, wB}
MCRootOf     == [t \in MCTask |-> t]
MCTaskType   == [t \in MCTask |-> IF t = ask THEN "agent" ELSE "shell"]
MCMaxRetries == [t \in MCTask |-> IF t = gated THEN 0 ELSE 1]
MCNeeds      == {gated}
MCSymmetry   == Permutations(MCWorker)

NoBudget     == [k \in BudgetKinds |-> 0]
BudgetAll    == [k \in BudgetKinds |-> 1]
BudgetShell  == [NoBudget EXCEPT !["cancel"] = 1, !["crash"] = 2, !["fault"] = 1]
BudgetWork   == {BudgetAll, BudgetShell}

\* The states of the two cases; no task of one exists in the other.
AgentCase == budget["crash"] <= 1 /\ \A t \in {gated, plain} : status[t] = Absent
ShellCase == status[ask] = Absent /\ \A k \in BudgetKinds : BudgetShell[k] = 0 => budget[k] = 0
MCCases   == AgentCase \/ ShellCase
=============================================================================
