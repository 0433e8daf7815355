--------------------------- MODULE TaskLifecycle ---------------------------
(***************************************************************************)
(* What the runtime promises about a task, whatever workers, handlers,     *)
(* crashes and recoveries do: one abstract state machine per task.         *)
(*                                                                         *)
(* A task waits for consent, is ready, is held by the runtime, is being    *)
(* stopped, and ends.  "done" (COMPLETED) is final; "ended" (any other     *)
(* terminal status) can be made ready again, as can a held task whose      *)
(* attempt failed, and each time uses up one of its retries.  A task is    *)
(* held, stopped while held or done only while everything it depends on    *)
(* has ended.                                                              *)
(***************************************************************************)
EXTENDS Naturals

CONSTANTS Task, MaxRetries, Deps(_)

VARIABLES phase, attempts

Phases == {"absent", "waiting", "ready", "held", "stopping", "done", "ended"}

(* The phases a task may move to without using up a retry.                 *)
Onward(p) ==
    CASE p = "absent"   -> {"absent", "waiting", "ready"}
      [] p = "waiting"  -> {"waiting", "ready", "ended"}
      [] p = "ready"    -> {"ready", "held", "ended"}
      [] p = "held"     -> {"held", "stopping", "done", "ended"}
      [] p = "stopping" -> {"stopping", "done", "ended"}
      [] p = "done"     -> {"done"}
      [] p = "ended"    -> {"ended"}

Advance(t) == phase'[t] \in Onward(phase[t]) /\ attempts'[t] = attempts[t]

Rearm(t) ==
    /\ phase[t] \in {"held", "ended"} /\ phase'[t] = "ready"
    /\ attempts[t] < MaxRetries[t] /\ attempts'[t] = attempts[t] + 1

Ordered(t) ==
    phase'[t] \in {"held", "stopping", "done"} =>
        \A d \in Deps(t) : phase'[d] \in {"done", "ended"}

Init ==
    /\ phase = [t \in Task |-> "absent"]
    /\ attempts = [t \in Task |-> 0]

Next ==
    /\ phase' \in [Task -> Phases]
    /\ \A t \in Task : (Advance(t) \/ Rearm(t)) /\ Ordered(t)

Spec == Init /\ [][Next]_<<phase, attempts>>
=============================================================================
