---------------------------- MODULE PolicyEngine ----------------------------
(***************************************************************************)
(* core/policy: the decision about a tool request, and the switches it     *)
(* depends on.  An engine is a record of the emergency stop and the        *)
(* switches that were ever set; a switch that was never set is off.        *)
(***************************************************************************)
CONSTANTS Agent, Connector

ASSUME PolicyAssumption == Agent \cap Connector = {} /\ "none" \notin Agent \cup Connector

Switch == Agent \cup Connector

Risk  == {"READ_ONLY", "LOW", "STATE_CHANGING", "DESTRUCTIVE", "EXTERNAL_COMMUNICATION",
          "SECRET_ACCESS", "PRIVILEGED", "unknown"}
Trust == {"local", "trusted", "known", "untrusted"}

\* interpreter: a shell request that names a shell interpreter, or whose
\* arguments cannot be parsed; connector: none for a local request.
PolicyRequest ==
    [agent : Agent, connector : Connector \cup {"none"}, risk : Risk, trust : Trust, interpreter : BOOLEAN]

Switches == UNION {[S -> BOOLEAN] : S \in SUBSET Switch}

Engine == [stop : BOOLEAN, off : Switches]

NewEngine == [stop |-> FALSE, off |-> [s \in {} |-> FALSE]]

IsOff(e, s) == s \in DOMAIN e.off /\ e.off[s]

\* Loading merges: a switch the loaded state does not mention keeps its value.
LoadKillSwitches(e, state) ==
    [e EXCEPT !.off = [s \in DOMAIN e.off \cup DOMAIN state |->
                         IF s \in DOMAIN state THEN state[s] ELSE e.off[s]]]

Blocked(e, r) ==
    \/ e.stop
    \/ IsOff(e, r.agent)
    \/ r.connector # "none" /\ IsOff(e, r.connector)

Forbidden(r) == r.risk = "PRIVILEGED" \/ r.interpreter

Decision(r) ==
    CASE r.trust = "untrusted"   -> "REQUIRE_APPROVAL"
      [] r.trust # "untrusted" /\ r.risk = "READ_ONLY" ->
            IF r.trust \in {"local", "trusted"} THEN "ALLOW" ELSE "REQUIRE_APPROVAL"
      [] r.trust # "untrusted" /\ r.risk = "LOW" ->
            IF r.trust = "local" THEN "ALLOW" ELSE "REQUIRE_APPROVAL"
      [] r.trust # "untrusted" /\ r.risk \in {"STATE_CHANGING", "DESTRUCTIVE", "EXTERNAL_COMMUNICATION",
                                              "SECRET_ACCESS"} -> "REQUIRE_APPROVAL"
      [] OTHER -> "DENY"

Evaluate(e, r) == IF Blocked(e, r) \/ Forbidden(r) THEN "DENY" ELSE Decision(r)
=============================================================================
