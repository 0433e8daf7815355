----------------------------- MODULE MCIngress -----------------------------
(***************************************************************************)
(* Instances of EventIngress for TLC: a delegated request, a text of the   *)
(* device and an event left pending, in one conversation, and a notice.    *)
(***************************************************************************)
EXTENDS EventIngress, TLC

MCConversationOf == [r \in Request |-> IF r \in Notice THEN "local" ELSE "chat"]
MCDelegates == [r \in Request |-> IF r = "asked" THEN Child ELSE {}]
IngressSymmetry == Permutations(Child) \cup Permutations(Handler)

None == [k \in Kinds |-> 0]

\* Repeated requests racing each other, recovery and a crash; the end of
\* graphs while the policy changes; expiry and retries.
MCBudgets ==
    {[None EXCEPT !["left"] = 1, !["submit"] = 3, !["work"] = 1, !["crash"] = 1],
     [None EXCEPT !["notice"] = 1, !["submit"] = 1, !["work"] = 3, !["policy"] = 2, !["cancel"] = 1, !["crash"] = 1],
     [None EXCEPT !["submit"] = 1, !["work"] = 4, !["policy"] = 2, !["cancel"] = 1, !["retry"] = 1, !["sweep"] = 1]}

\* Two texts of the device, one after the other, around a policy change.
MCElevates == {[None EXCEPT !["submit"] = 2, !["policy"] = 1]}
=============================================================================
