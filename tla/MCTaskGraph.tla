---------------------------- MODULE MCTaskGraph ----------------------------
(* A delegated request: a synthesis root that depends on two agent tasks.   *)
(* A request for one agent is a root without children.                      *)
EXTENDS TaskInvariants, TaskRefinement, TaskClaims, TLC

CONSTANTS top, kidA, kidB, wA, wB

MCTask      == {top, kidA, kidB}
MCLone      == {top}
MCWorker    == {wA, wB}
MCRootOf    == [t \in Task |-> top]
MCTaskType  == [t \in Task |-> IF t = top THEN "synthesis" ELSE "agent"]
MCLoneType  == [t \in Task |-> "agent"]
MCMaxRetries == [t \in Task |-> 1]

\* Children and workers are interchangeable.
MCSymmetry  == Permutations({kidA, kidB}) \cup Permutations(MCWorker)

NoBudget      == [k \in BudgetKinds |-> 0]
BudgetControl == {[NoBudget EXCEPT !["cancel"] = 1, !["retry"] = 1]}
BudgetCrash   == {[NoBudget EXCEPT !["crash"] = 1]}
BudgetCancel  == {[NoBudget EXCEPT !["cancel"] = 1]}
=============================================================================
