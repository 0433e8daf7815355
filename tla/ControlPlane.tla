---------------------------- MODULE ControlPlane ----------------------------
(***************************************************************************)
(* What an administrator does to a running Core: the actions of the        *)
(* desktop application with their request identifiers, the emergency stop  *)
(* and the kill switches, over a process that may stop at any point.       *)
(***************************************************************************)
EXTENDS PolicyEngine, Naturals

CONSTANTS
    Action,     \* request identifiers of the desktop
    ActionOf,   \* [type, id, enabled] of each: kill_switch, emergency_stop or other
    Admin,      \* goroutines serving administrators
    MaxStops    \* bound on the restarts of Core

ASSUME ActionAssumption ==
    /\ ActionOf \in [Action -> [type : {"kill_switch", "emergency_stop", "other"},
                                id : Switch \cup {"none"}, enabled : BOOLEAN]]
    /\ \A q \in Action : ActionOf[q].type = "kill_switch" => ActionOf[q].id \in Switch
    /\ "none" \notin Action
    /\ MaxStops \in Nat

VARIABLES
    result,   \* desktop_action_results: status of each identifier
    effects,  \* how often the action of each stored identifier took effect
    admin,    \* what each goroutine is doing
    saved,    \* the committed settings, as the engine they load into
    engine,   \* the engine in memory
    alive,    \* Core is running
    overlap,  \* two goroutines were changing the policy at the same time
    stops

controlVars == <<result, effects, admin, saved, engine, alive, overlap, stops>>

Free == [at |-> "free"]

ControlInit ==
    /\ result = [q \in Action |-> "none"]
    /\ effects = [q \in Action |-> 0]
    /\ admin = [a \in Admin |-> Free]
    /\ saved = NewEngine /\ engine = NewEngine
    /\ alive = TRUE /\ overlap = FALSE /\ stops = 0

Changing(a) == admin[a].at \in {"commit", "apply"}

-----------------------------------------------------------------------------
(* handleDesktopAction.  A repeated identifier is answered with the stored *)
(* response once the action completed and refused while it is STARTED; in  *)
(* neither case does anything change.                                      *)

StartsUnresolved(q) == result[q] # "COMPLETED"

Starts(q) == result[q] = "none"

StartDesktopAction(a, q) ==
    /\ alive /\ admin[a] = Free /\ Starts(q)
    /\ result' = [result EXCEPT ![q] = "STARTED"]
    /\ admin' = [admin EXCEPT ![a] = [at |-> "perform", q |-> q]]
    /\ UNCHANGED <<effects, saved, engine, alive, overlap, stops>>

\* The actions whose effect is one transaction of the store: approvals, task
\* controls, revocations, calls, settings, backups and exports.
PerformOther(a) ==
    /\ alive /\ admin[a].at = "perform" /\ ActionOf[admin[a].q].type = "other"
    /\ effects' = [effects EXCEPT ![admin[a].q] = @ + 1]
    /\ admin' = [admin EXCEPT ![a].at = "complete"]
    /\ UNCHANGED <<result, saved, engine, alive, overlap, stops>>

SwitchedAlone(action) == [s \in {action.id} |-> action.enabled]

\* A policy change goes through the settings first: the switches are read from
\* the engine, changed and stored as a whole, and then loaded.
Switched(action) ==
    [s \in DOMAIN engine.off \cup {action.id} |-> IF s = action.id THEN action.enabled ELSE engine.off[s]]

BeginChange(a) ==
    /\ alive /\ admin[a].at = "perform"
    /\ LET action == ActionOf[admin[a].q] IN
       /\ action.type # "other"
       /\ admin' = [admin EXCEPT ![a] =
            [at |-> "commit", q |-> admin[a].q, type |-> action.type, stop |-> action.enabled,
             off |-> IF action.type = "kill_switch" THEN Switched(action) ELSE engine.off]]
    /\ overlap' = (overlap \/ \E b \in Admin : Changing(b))
    /\ UNCHANGED <<result, effects, saved, engine, alive, stops>>

\* POST /v1/emergency-stop has no identifier.
handleEmergencyStop(a, enabled) ==
    /\ alive /\ admin[a] = Free
    /\ admin' = [admin EXCEPT ![a] = [at |-> "commit", q |-> "none", type |-> "emergency_stop",
                                      stop |-> enabled, off |-> engine.off]]
    /\ overlap' = (overlap \/ \E b \in Admin : Changing(b))
    /\ UNCHANGED <<result, effects, saved, engine, alive, stops>>

\* The setting and its audit entry commit together.
SetSettingWithAudit(a) ==
    /\ alive /\ admin[a].at = "commit"
    /\ saved' = IF admin[a].type = "kill_switch" THEN [saved EXCEPT !.off = admin[a].off]
                                                 ELSE [saved EXCEPT !.stop = admin[a].stop]
    /\ effects' = IF admin[a].q = "none" THEN effects ELSE [effects EXCEPT ![admin[a].q] = @ + 1]
    /\ admin' = [admin EXCEPT ![a].at = "apply"]
    /\ UNCHANGED <<result, engine, alive, overlap, stops>>

AppliedEngine(a) ==
    IF admin[a].type = "kill_switch" THEN LoadKillSwitches(engine, admin[a].off)
                                     ELSE [engine EXCEPT !.stop = admin[a].stop]

ApplySetting(a) ==
    /\ alive /\ admin[a].at = "apply"
    /\ engine' = AppliedEngine(a)
    /\ admin' = [admin EXCEPT ![a] = IF @.q = "none" THEN Free ELSE [at |-> "complete", q |-> @.q]]
    /\ UNCHANGED <<result, effects, saved, alive, overlap, stops>>

\* An error keeps the row STARTED, whether the action or the storing of its
\* response failed.
ActionFails(a) ==
    /\ alive /\ admin[a].at \in {"perform", "commit", "complete"}
    /\ admin' = [admin EXCEPT ![a] = Free]
    /\ UNCHANGED <<result, effects, saved, engine, alive, overlap, stops>>

Completes(q) == result[q] = "STARTED"

CompleteDesktopAction(a) ==
    /\ alive /\ admin[a].at = "complete" /\ Completes(admin[a].q)
    /\ result' = [result EXCEPT ![admin[a].q] = "COMPLETED"]
    /\ admin' = [admin EXCEPT ![a] = Free]
    /\ UNCHANGED <<effects, saved, engine, alive, overlap, stops>>

-----------------------------------------------------------------------------
\* Responses older than desktopActionResultCleanupAge are removed; a sender
\* no longer repeats such an identifier for the same action.
ApplyStorageMaintenance(q) ==
    /\ alive /\ result[q] = "COMPLETED"
    /\ result' = [result EXCEPT ![q] = "none"]
    /\ effects' = [effects EXCEPT ![q] = 0]
    /\ UNCHANGED <<admin, saved, engine, alive, overlap, stops>>

CoreStops ==
    /\ alive /\ stops < MaxStops
    /\ alive' = FALSE /\ stops' = stops + 1
    /\ admin' = [a \in Admin |-> Free]
    /\ UNCHANGED <<result, effects, saved, engine, overlap>>

LoadedEngine == [LoadKillSwitches(NewEngine, saved.off) EXCEPT !.stop = saved.stop]

CoreStarts ==
    /\ ~alive /\ alive' = TRUE
    /\ engine' = LoadedEngine
    /\ UNCHANGED <<result, effects, admin, saved, overlap, stops>>

ControlNext ==
    \/ \E a \in Admin :
         \/ \E q \in Action : StartDesktopAction(a, q)
         \/ \E enabled \in BOOLEAN : handleEmergencyStop(a, enabled)
         \/ PerformOther(a) \/ BeginChange(a) \/ SetSettingWithAudit(a) \/ ApplySetting(a)
         \/ ActionFails(a) \/ CompleteDesktopAction(a)
    \/ \E q \in Action : ApplyStorageMaintenance(q)
    \/ CoreStops \/ CoreStarts

ControlSpec == ControlInit /\ [][ControlNext]_controlVars

-----------------------------------------------------------------------------
\* However often a desktop repeats a request whose answer it lost, and
\* wherever an error or the end of the process cut the first attempt off, the
\* action takes effect at most once.
ActionTakesEffectOnce == \A q \in Action : effects[q] <= 1

\* A restart decides every tool request as the running Core does: no answered
\* change of the policy is lost, and none is in force without being stored.
\* Overlapping changes are excepted: each stores all switches as it read them.
RestartKeepsPolicy ==
    alive /\ ~overlap /\ (\A a \in Admin : ~Changing(a)) =>
        \/ engine = LoadedEngine
        \/ \A r \in PolicyRequest : Evaluate(engine, r) = Evaluate(LoadedEngine, r)
=============================================================================
