------------------------------- MODULE ControlProofs -------------------------------
(***************************************************************************)
(* Proofs about how Core is controlled and what it keeps of that:          *)
(* administrative actions (ControlPlane), signed webhooks (WebhookReplay)  *)
(* and the durable files (DurableFiles).                                   *)
(***************************************************************************)
EXTENDS ControlPlane, WebhookReplay, DurableFiles, TLAPS

\* How long each prover may take over a leaf, in seconds.
USE SMTT(30), ZenonT(30)

(***************************************************************************)
(* Administrative actions                                                  *)
(***************************************************************************)

-----------------------------------------------------------------------------
(* What each goroutine may be doing.                                       *)

Serving  == [at : {"perform", "complete"}, q : Action]
ChangeOf == [at : {"commit", "apply"}, q : Action \cup {"none"}, type : {"kill_switch", "emergency_stop"},
             stop : BOOLEAN, off : Switches]

ControlTypeOK ==
    /\ result \in [Action -> {"none", "STARTED", "COMPLETED"}]
    /\ effects \in [Action -> Nat]
    /\ admin \in [Admin -> {Free} \cup Serving \cup ChangeOf]
    /\ saved \in Engine /\ engine \in Engine
    /\ alive \in BOOLEAN /\ overlap \in BOOLEAN

\* A step of a goroutine that serves an administrative request.
AdminStep(a) ==
    \/ \E q \in Action : StartDesktopAction(a, q)
    \/ \E enabled \in BOOLEAN : handleEmergencyStop(a, enabled)
    \/ PerformOther(a) \/ BeginChange(a) \/ SetSettingWithAudit(a) \/ ApplySetting(a)
    \/ ActionFails(a) \/ CompleteDesktopAction(a)

Holds(a, q) == admin[a] # Free /\ admin[a].q = q

\* A goroutine that holds an identifier is the only one, the identifier is
\* STARTED, and before the effect there has been none.
OnceInv ==
    /\ \A a \in Admin, q \in Action : Holds(a, q) =>
          /\ result[q] = "STARTED"
          /\ admin[a].at \in {"perform", "commit"} => effects[q] = 0
    /\ \A a, b \in Admin, q \in Action : Holds(a, q) /\ Holds(b, q) => a = b
    /\ \A q \in Action : result[q] = "none" => effects[q] = 0

ControlInv == ControlTypeOK /\ OnceInv /\ ActionTakesEffectOnce

\* Without overlapping changes memory follows the settings: it is equal to
\* them, or one goroutine is about to load what it has stored.
PolicyInv ==
    /\ ~alive => \A a \in Admin : admin[a] = Free
    /\ alive /\ ~overlap =>
         /\ \A a, b \in Admin : Changing(a) /\ Changing(b) => a = b
         /\ (\A a \in Admin : admin[a].at # "apply") => engine = saved
         /\ \A a \in Admin : admin[a].at = "commit" /\ admin[a].type = "kill_switch" =>
               DOMAIN engine.off \subseteq DOMAIN admin[a].off
         /\ \A a \in Admin : admin[a].at = "apply" => AppliedEngine(a) = saved

-----------------------------------------------------------------------------
(* core/policy                                                             *)

(* Engine.Evaluate: pressing the emergency stop or turning on a switch      *)
(* never changes a decision other than to DENY.                             *)
THEOREM EvaluateMonotone ==
  ASSUME NEW d \in Engine, NEW e \in Engine, NEW r \in PolicyRequest,
         d.stop => e.stop, \A s \in Switch : IsOff(d, s) => IsOff(e, s)
  PROVE  Evaluate(e, r) = Evaluate(d, r) \/ Evaluate(e, r) = "DENY"
<1>1. Blocked(d, r) => Blocked(e, r)
  BY PolicyAssumption DEF Blocked, PolicyRequest, Switch
<1> QED
  BY <1>1 DEF Evaluate

(* A set of switches is a function on its domain.                          *)
LEMMA SwitchesFacts ==
  ASSUME NEW f \in Switches
  PROVE  /\ DOMAIN f \subseteq Switch
         /\ f = [s \in DOMAIN f |-> f[s]]
         /\ \A s \in DOMAIN f : f[s] \in BOOLEAN
  BY DEF Switches

(* And conversely.                                                         *)
LEMMA SwitchesMade ==
  ASSUME NEW D \in SUBSET Switch, NEW f, f = [s \in D |-> f[s]], \A s \in D : f[s] \in BOOLEAN
  PROVE  f \in Switches
<1>1. f \in [D -> BOOLEAN]
  OBVIOUS
<1> QED
  BY <1>1 DEF Switches

(* LoadKillSwitches: a state that mentions every switch of the engine       *)
(* replaces them.                                                           *)
LEMMA LoadReplaces ==
  ASSUME NEW e \in Engine, NEW f \in Switches, DOMAIN e.off \subseteq DOMAIN f
  PROVE  LoadKillSwitches(e, f) = [e EXCEPT !.off = f]
<1>1. DOMAIN e.off \cup DOMAIN f = DOMAIN f
  OBVIOUS
<1>2. [s \in DOMAIN f |-> IF s \in DOMAIN f THEN f[s] ELSE e.off[s]] = f
  BY SwitchesFacts
<1> QED
  BY <1>1, <1>2 DEF LoadKillSwitches

(* A new engine is an engine.                                              *)
LEMMA NewEngineType == NewEngine \in Engine
<1>1. [s \in {} |-> FALSE] \in [{} -> BOOLEAN]
  OBVIOUS
<1> QED
  BY <1>1 DEF NewEngine, Engine, Switches

(* Loading what was stored gives it back.                                  *)
LEMMA LoadedIsSaved ==
  ASSUME saved \in Engine
  PROVE  LoadedEngine = saved
<1>1. saved.off \in Switches /\ NewEngine \in Engine /\ DOMAIN NewEngine.off = {}
  BY NewEngineType DEF Engine, NewEngine
<1>2. LoadKillSwitches(NewEngine, saved.off) = [NewEngine EXCEPT !.off = saved.off]
  BY <1>1, LoadReplaces
<1> QED
  BY <1>1, <1>2 DEF LoadedEngine, NewEngine, Engine

(* A merge of two sets of switches is one.                                  *)
LEMMA LoadType ==
  ASSUME NEW e \in Engine, NEW f \in Switches
  PROVE  LoadKillSwitches(e, f) \in Engine
<1> DEFINE g == [s \in DOMAIN e.off \cup DOMAIN f |-> IF s \in DOMAIN f THEN f[s] ELSE e.off[s]]
<1>1. e.off \in Switches
  BY DEF Engine
<1>2. DOMAIN e.off \cup DOMAIN f \in SUBSET Switch
  BY <1>1, SwitchesFacts
<1>3. \A s \in DOMAIN e.off \cup DOMAIN f : g[s] \in BOOLEAN
  BY <1>1, SwitchesFacts
<1>4. g \in Switches
  <2> HIDE DEF g
  <2>1. g = [s \in DOMAIN e.off \cup DOMAIN f |-> g[s]]
    BY DEF g
  <2> QED
    BY <1>2, <1>3, <2>1, SwitchesMade
<1>5. LoadKillSwitches(e, f) = [e EXCEPT !.off = g]
  BY DEF LoadKillSwitches
<1> HIDE DEF g
<1> QED
  BY <1>4, <1>5 DEF Engine

(* Switched: the switches of the engine and the one that is changed.        *)
LEMMA SwitchedType ==
  ASSUME engine \in Engine, NEW q \in Action, ActionOf[q].type = "kill_switch"
  PROVE  Switched(ActionOf[q]) \in Switches /\ DOMAIN engine.off \subseteq DOMAIN Switched(ActionOf[q])
<1> DEFINE action == ActionOf[q]
           D == DOMAIN engine.off \cup {action.id}
           g == [s \in D |-> IF s = action.id THEN action.enabled ELSE engine.off[s]]
<1>1. engine.off \in Switches /\ action.enabled \in BOOLEAN /\ action.id \in Switch
  BY ActionAssumption DEF Engine
<1>2. D \in SUBSET Switch
  BY <1>1, SwitchesFacts
<1>3. \A s \in D : g[s] \in BOOLEAN
  BY <1>1, SwitchesFacts
<1>4. Switched(action) = g /\ DOMAIN g = D
  BY DEF Switched
<1>5. g \in Switches
  <2> HIDE DEF g, D
  <2>1. g = [s \in D |-> g[s]]
    BY DEF g
  <2> QED
    BY <1>2, <1>3, <2>1, SwitchesMade
<1> QED
  BY <1>4, <1>5

-----------------------------------------------------------------------------
(* Actions take effect once                                                *)

(* The steps of one goroutine change only what it is doing and the row of   *)
(* the identifier it holds.                                                 *)
LEMMA AdminKeepsType ==
  ASSUME ControlTypeOK, NEW a \in Admin, AdminStep(a)
  PROVE  ControlTypeOK'
<1> USE DEF ControlTypeOK
<1>1. ASSUME NEW q \in Action, StartDesktopAction(a, q) PROVE ControlTypeOK'
  BY <1>1 DEF StartDesktopAction, Serving
<1>2. ASSUME NEW enabled \in BOOLEAN, handleEmergencyStop(a, enabled) PROVE ControlTypeOK'
  <2>1. [at |-> "commit", q |-> "none", type |-> "emergency_stop", stop |-> enabled, off |-> engine.off] \in ChangeOf
    BY DEF ChangeOf, Engine
  <2> QED
    BY <1>2, <2>1 DEF handleEmergencyStop
<1>3. CASE PerformOther(a)
  <2>1. admin[a] \in Serving /\ admin[a].q \in Action
    BY <1>3 DEF PerformOther, Serving, ChangeOf, Free
  <2>2. [admin[a] EXCEPT !.at = "complete"] \in Serving
    BY <2>1 DEF Serving
  <2> QED
    BY <1>3, <2>1, <2>2 DEF PerformOther
<1>4. CASE BeginChange(a)
  <2>1. admin[a] \in Serving /\ admin[a].q \in Action
    BY <1>4 DEF BeginChange, Serving, ChangeOf, Free
  <2> DEFINE action == ActionOf[admin[a].q]
             change == [at |-> "commit", q |-> admin[a].q, type |-> action.type, stop |-> action.enabled,
                        off |-> IF action.type = "kill_switch" THEN Switched(action) ELSE engine.off]
  <2>2. action.type \in {"kill_switch", "emergency_stop"} /\ action.enabled \in BOOLEAN
    BY <1>4, <2>1, ActionAssumption DEF BeginChange
  <2>3. (IF action.type = "kill_switch" THEN Switched(action) ELSE engine.off) \in Switches
    BY <2>1, SwitchedType DEF Engine
  <2>4. change \in ChangeOf
    BY <2>1, <2>2, <2>3 DEF ChangeOf
  <2>5. admin' = [admin EXCEPT ![a] = change]
    BY <1>4 DEF BeginChange
  <2> QED
    BY <1>4, <2>4, <2>5 DEF BeginChange
<1>5. CASE SetSettingWithAudit(a)
  <2>1. admin[a] \in ChangeOf
    BY <1>5 DEF SetSettingWithAudit, Serving, Free
  <2>2. [admin[a] EXCEPT !.at = "apply"] \in ChangeOf
    BY <2>1 DEF ChangeOf
  <2>3. saved' \in Engine
    BY <1>5, <2>1 DEF SetSettingWithAudit, ChangeOf, Engine
  <2>4. effects' \in [Action -> Nat]
    BY <1>5, <2>1 DEF SetSettingWithAudit, ChangeOf
  <2> QED
    BY <1>5, <2>2, <2>3, <2>4 DEF SetSettingWithAudit
<1>6. CASE ApplySetting(a)
  <2>1. admin[a] \in ChangeOf
    BY <1>6 DEF ApplySetting, Serving, Free
  <2>2. engine' \in Engine
    <3>1. AppliedEngine(a) \in Engine
      BY <2>1, LoadType DEF AppliedEngine, ChangeOf, Engine
    <3> QED
      BY <1>6, <3>1 DEF ApplySetting
  <2>3. (IF admin[a].q = "none" THEN Free ELSE [at |-> "complete", q |-> admin[a].q]) \in {Free} \cup Serving
    BY <2>1 DEF ChangeOf, Serving
  <2> QED
    BY <1>6, <2>2, <2>3 DEF ApplySetting
<1>7. CASE ActionFails(a)
  BY <1>7 DEF ActionFails
<1>8. CASE CompleteDesktopAction(a)
  BY <1>8, ZenonT(30) DEF CompleteDesktopAction
<1> QED
  BY <1>1, <1>2, <1>3, <1>4, <1>5, <1>6, <1>7, <1>8 DEF AdminStep

(* An identifier is held from its STARTED row to the end of the request, and *)
(* its effect happens on the way from "perform" or "commit" to the next step. *)
LEMMA AdminKeepsOnce ==
  ASSUME ControlInv, NEW a \in Admin, AdminStep(a)
  PROVE  OnceInv' /\ ActionTakesEffectOnce'
<1> DEFINE Goal == OnceInv' /\ ActionTakesEffectOnce'
<1>0. /\ OnceInv /\ ActionTakesEffectOnce
      /\ result \in [Action -> {"none", "STARTED", "COMPLETED"}] /\ effects \in [Action -> Nat]
      /\ admin \in [Admin -> {Free} \cup Serving \cup ChangeOf]
  BY DEF ControlInv, ControlTypeOK
<1>1. ASSUME NEW q \in Action, StartDesktopAction(a, q) PROVE Goal
  BY <1>0, <1>1 DEF OnceInv, ActionTakesEffectOnce, Holds, StartDesktopAction, Starts, Free
<1>2. ASSUME NEW enabled \in BOOLEAN, handleEmergencyStop(a, enabled) PROVE Goal
  BY <1>0, <1>2, ActionAssumption DEF OnceInv, ActionTakesEffectOnce, Holds, handleEmergencyStop
<1>3. CASE PerformOther(a)
  <2>1. admin[a] \in Serving /\ admin[a] # Free
    BY <1>0, <1>3 DEF PerformOther, ChangeOf, Free
  <2> QED
    BY <1>0, <1>3, <2>1 DEF OnceInv, ActionTakesEffectOnce, Holds, PerformOther, Serving
<1>4. CASE BeginChange(a)
  <2>1. admin[a] \in Serving /\ admin[a] # Free
    BY <1>0, <1>4 DEF BeginChange, ChangeOf, Free
  <2>2. /\ admin'[a] # Free /\ admin'[a].q = admin[a].q /\ admin'[a].at = "commit"
        /\ \A b \in Admin \ {a} : admin'[b] = admin[b]
        /\ UNCHANGED <<result, effects>>
    BY <1>0, <1>4 DEF BeginChange, Free
  <2>3. admin[a].at = "perform"
    BY <1>4 DEF BeginChange
  <2> QED
    BY <1>0, <2>1, <2>2, <2>3 DEF OnceInv, ActionTakesEffectOnce, Holds, Serving
<1>5. CASE SetSettingWithAudit(a)
  <2>1. admin[a] \in ChangeOf /\ admin[a] # Free
    BY <1>0, <1>5 DEF SetSettingWithAudit, Serving, Free
  <2>2. /\ admin'[a] # Free /\ admin'[a].q = admin[a].q /\ admin'[a].at = "apply"
        /\ \A b \in Admin \ {a} : admin'[b] = admin[b]
        /\ result' = result
    BY <1>0, <1>5, <2>1 DEF SetSettingWithAudit, Free, ChangeOf
  <2>3. CASE admin[a].q = "none"
    <3>1. effects' = effects /\ "none" \notin Action
      BY <1>5, <2>3, ActionAssumption DEF SetSettingWithAudit
    <3> QED
      BY <1>0, <2>1, <2>2, <2>3, <3>1 DEF OnceInv, ActionTakesEffectOnce, Holds
  <2>4. CASE admin[a].q # "none"
    <3>1. admin[a].q \in Action /\ effects[admin[a].q] = 0 /\ result[admin[a].q] = "STARTED"
      BY <1>0, <1>5, <2>1, <2>4 DEF SetSettingWithAudit, ChangeOf, OnceInv, Holds
    <3>2. effects' = [effects EXCEPT ![admin[a].q] = @ + 1]
      BY <1>5, <2>4 DEF SetSettingWithAudit
    <3> QED
      BY <1>0, <2>1, <2>2, <3>1, <3>2 DEF OnceInv, ActionTakesEffectOnce, Holds
  <2> QED
    BY <2>3, <2>4
<1>6. CASE ApplySetting(a)
  <2>1. admin[a] \in ChangeOf /\ admin[a] # Free
    BY <1>0, <1>6 DEF ApplySetting, Serving, Free
  <2>2. /\ admin'[a] = Free \/ (admin'[a].q = admin[a].q /\ admin'[a].at = "complete")
        /\ \A b \in Admin \ {a} : admin'[b] = admin[b]
        /\ UNCHANGED <<result, effects>>
    BY <1>0, <1>6 DEF ApplySetting
  <2> QED
    BY <1>0, <2>1, <2>2 DEF OnceInv, ActionTakesEffectOnce, Holds
<1>7. CASE ActionFails(a)
  BY <1>0, <1>7 DEF OnceInv, ActionTakesEffectOnce, Holds, ActionFails
<1>8. CASE CompleteDesktopAction(a)
  <2>1. admin[a] \in Serving /\ admin[a] # Free
    BY <1>0, <1>8 DEF CompleteDesktopAction, ChangeOf, Free
  <2> QED
    BY <1>0, <1>8, <2>1 DEF OnceInv, ActionTakesEffectOnce, Holds, CompleteDesktopAction, Serving, Completes
<1> HIDE DEF Goal
<1> QED
  BY <1>1, <1>2, <1>3, <1>4, <1>5, <1>6, <1>7, <1>8, ZenonT(30) DEF AdminStep, Goal

(* The end of the process frees every identifier and leaves its row STARTED; *)
(* maintenance removes only rows nobody holds.                              *)
LEMMA ControlStepKeepsInv == ControlInv /\ [ControlNext]_controlVars => ControlInv'
<1> SUFFICES ASSUME ControlInv, [ControlNext]_controlVars PROVE ControlInv'
  OBVIOUS
<1>1. ASSUME NEW a \in Admin, AdminStep(a)
      PROVE  ControlInv'
  BY <1>1, AdminKeepsType, AdminKeepsOnce DEF ControlInv
<1>2. ASSUME NEW q \in Action, ApplyStorageMaintenance(q) PROVE ControlInv'
  BY <1>2 DEF ApplyStorageMaintenance, ControlInv, ControlTypeOK, OnceInv, ActionTakesEffectOnce, Holds
<1>3. CASE CoreStops
  BY <1>3, ZenonT(30) DEF CoreStops, ControlInv, ControlTypeOK, OnceInv, ActionTakesEffectOnce, Holds
<1>4. CASE CoreStarts
  <2>1. LoadedEngine \in Engine
    BY LoadedIsSaved DEF ControlInv, ControlTypeOK
  <2> QED
    BY <1>4, <2>1 DEF CoreStarts, ControlInv, ControlTypeOK, OnceInv, ActionTakesEffectOnce, Holds
<1>5. CASE UNCHANGED controlVars
  BY <1>5 DEF controlVars, ControlInv, ControlTypeOK, OnceInv, ActionTakesEffectOnce, Holds
<1> QED
  BY <1>1, <1>2, <1>3, <1>4, <1>5 DEF ControlNext, AdminStep

(* The initial state satisfies the invariant.                              *)
LEMMA ControlInitInv == ControlInit => ControlInv
<1> SUFFICES ASSUME ControlInit PROVE ControlInv
  OBVIOUS
<1>1. ControlTypeOK
  BY NewEngineType, ZenonT(30) DEF ControlInit, ControlTypeOK
<1>2. OnceInv
  BY DEF ControlInit, OnceInv, Holds
<1>3. ActionTakesEffectOnce
  BY DEF ControlInit, ActionTakesEffectOnce
<1> QED
  BY <1>1, <1>2, <1>3 DEF ControlInv

(* handleDesktopAction, StartDesktopAction, CompleteDesktopAction: whatever  *)
(* is repeated, fails or is cut off by a restart, and however many           *)
(* identifiers and administrators there are, an action takes effect at most  *)
(* once.                                                                     *)
THEOREM ActionTakesEffectOnceTheorem == ControlSpec => []ActionTakesEffectOnce
<1>1. ControlInit => ControlInv
  BY ControlInitInv
<1>2. ControlInv => ActionTakesEffectOnce
  BY DEF ControlInv
<1> QED
  BY <1>1, <1>2, ControlStepKeepsInv, PTL DEF ControlSpec

-----------------------------------------------------------------------------
(* A restart keeps the policy                                              *)

(* The steps of one goroutine.  A second change that begins while another is *)
(* under way sets overlap, so below only one goroutine is changing.          *)
LEMMA AdminKeepsPolicy ==
  ASSUME ControlTypeOK, PolicyInv, NEW a \in Admin, AdminStep(a)
  PROVE  PolicyInv'
<1> USE DEF ControlTypeOK, PolicyInv, Changing
<1>0. alive /\ alive' = alive
  BY DEF AdminStep, StartDesktopAction, handleEmergencyStop, PerformOther, BeginChange, SetSettingWithAudit,
         ApplySetting, ActionFails, CompleteDesktopAction
<1> DEFINE Goal == /\ \A b, c \in Admin : Changing(b)' /\ Changing(c)' => b = c
                   /\ (\A b \in Admin : admin'[b].at # "apply") => engine' = saved'
                   /\ \A b \in Admin : admin'[b].at = "commit" /\ admin'[b].type = "kill_switch" =>
                         DOMAIN engine'.off \subseteq DOMAIN admin'[b].off
                   /\ \A b \in Admin : admin'[b].at = "apply" => AppliedEngine(b)' = saved'
<1>1. SUFFICES ASSUME ~overlap' PROVE Goal
  BY <1>0
<1>2. ASSUME UNCHANGED <<saved, engine, overlap>>, ~ Changing(a) \/ admin[a].at = "commit",
             admin'[a].at \in {"free", "perform", "complete"},
             \A b \in Admin \ {a} : admin'[b] = admin[b]
      PROVE  Goal
  <2>1. \A b \in Admin : Changing(b)' => Changing(b) /\ admin'[b] = admin[b]
    BY <1>2
  <2>2. \A b \in Admin : admin'[b].at = "apply" <=> admin[b].at = "apply"
    BY <1>2
  <2>3. ~ overlap /\ \A b \in Admin : Changing(b)' => AppliedEngine(b)' = AppliedEngine(b)
    BY <1>1, <1>2, <2>1 DEF AppliedEngine
  <2> QED
    BY <1>0, <1>2, <2>1, <2>2, <2>3
<1>3. ASSUME NEW q \in Action, StartDesktopAction(a, q) PROVE Goal
  <2>1. ~ Changing(a) /\ admin'[a].at = "perform" /\ \A b \in Admin \ {a} : admin'[b] = admin[b]
    BY <1>3 DEF StartDesktopAction, Free
  <2> HIDE DEF Goal, PolicyInv
  <2> QED
    BY <1>2, <1>3, <2>1 DEF StartDesktopAction
<1>4. CASE PerformOther(a)
  <2>1. admin[a] \in Serving
    BY <1>4 DEF PerformOther, ChangeOf, Free
  <2> QED
    BY <1>2, <1>4, <2>1 DEF PerformOther, Serving
<1>5. CASE ActionFails(a)
  BY <1>2, <1>5 DEF ActionFails, Free
<1>6. CASE CompleteDesktopAction(a)
  BY <1>2, <1>6 DEF CompleteDesktopAction, Free
<1>7. ASSUME UNCHANGED <<saved, engine>>, \A b \in Admin : ~ Changing(b),
             admin'[a].at = "commit", \A b \in Admin \ {a} : admin'[b] = admin[b],
             admin'[a].type = "kill_switch" => DOMAIN engine.off \subseteq DOMAIN admin'[a].off,
             ~ overlap
      PROVE  Goal
  <2>1. \A b \in Admin : Changing(b)' => b = a
    BY <1>7
  <2>2. engine = saved
    BY <1>0, <1>7
  <2> QED
    BY <1>0, <1>1, <1>7, <2>1, <2>2
<1>8. ASSUME NEW enabled \in BOOLEAN, handleEmergencyStop(a, enabled) PROVE Goal
  <2>1. ~ overlap /\ \A b \in Admin : ~ Changing(b)
    BY <1>1, <1>8, ZenonT(30) DEF handleEmergencyStop
  <2> QED
    BY <1>7, <1>8, <2>1 DEF handleEmergencyStop
<1>9. CASE BeginChange(a)
  <2>1. ~ overlap /\ \A b \in Admin : ~ Changing(b)
    BY <1>1, <1>9, ZenonT(30) DEF BeginChange
  <2>2. admin[a] \in Serving
    BY <1>9 DEF BeginChange, ChangeOf, Free
  <2>3. admin'[a].type = "kill_switch" => DOMAIN engine.off \subseteq DOMAIN admin'[a].off
    BY <1>9, <2>2, SwitchedType DEF BeginChange, Serving
  <2> QED
    BY <1>7, <1>9, <2>1, <2>3 DEF BeginChange
<1>10. CASE SetSettingWithAudit(a)
  <2>1. admin[a] \in ChangeOf /\ ~ overlap
    BY <1>1, <1>10 DEF SetSettingWithAudit, Serving, Free
  <2>2. \A b \in Admin : Changing(b) => b = a
    BY <1>0, <1>10, <2>1 DEF SetSettingWithAudit
  <2>3. engine = saved
    BY <1>0, <1>10, <2>1, <2>2 DEF SetSettingWithAudit
  <2>4. /\ admin'[a] = [admin[a] EXCEPT !.at = "apply"]
        /\ \A b \in Admin \ {a} : admin'[b] = admin[b] /\ ~ Changing(b)
        /\ engine' = engine
    BY <1>10, <2>2 DEF SetSettingWithAudit
  <2>5. AppliedEngine(a)' = saved'
    <3>1. CASE admin[a].type = "kill_switch"
      <4>1. DOMAIN engine.off \subseteq DOMAIN admin[a].off
        BY <1>0, <1>10, <2>1, <3>1 DEF SetSettingWithAudit
      <4>2. LoadKillSwitches(engine, admin[a].off) = [engine EXCEPT !.off = admin[a].off]
        BY <2>1, <4>1, LoadReplaces DEF ChangeOf
      <4>3. AppliedEngine(a)' = LoadKillSwitches(engine, admin[a].off)
        BY <2>1, <2>4, <3>1 DEF AppliedEngine, ChangeOf
      <4> QED
        BY <1>10, <2>3, <3>1, <4>2, <4>3 DEF SetSettingWithAudit
    <3>2. CASE admin[a].type # "kill_switch"
      BY <1>10, <2>1, <2>3, <2>4, <3>2 DEF SetSettingWithAudit, AppliedEngine, ChangeOf
    <3> QED
      BY <3>1, <3>2, ZenonT(30)
  <2>6. admin'[a].at = "apply"
    BY <2>1, <2>4 DEF ChangeOf
  <2> QED
    BY <1>0, <1>1, <2>4, <2>5, <2>6, ZenonT(30)
<1>11. CASE ApplySetting(a)
  <2>1. ~ overlap /\ engine' = AppliedEngine(a) /\ AppliedEngine(a) = saved /\ saved' = saved
    BY <1>0, <1>1, <1>11 DEF ApplySetting
  <2>2. \A b \in Admin : Changing(b) => b = a
    BY <1>0, <1>11, <2>1 DEF ApplySetting
  <2>3. \A b \in Admin : ~ Changing(b)'
    BY <1>11, <2>2 DEF ApplySetting, Free
  <2> QED
    BY <1>0, <1>1, <2>1, <2>3
<1> HIDE DEF Goal
<1> QED
  BY <1>3, <1>4, <1>5, <1>6, <1>8, <1>9, <1>10, <1>11 DEF AdminStep

(* Every step keeps PolicyInv.                                             *)
LEMMA ControlStepKeepsPolicy == ControlInv /\ PolicyInv /\ [ControlNext]_controlVars => PolicyInv'
<1> SUFFICES ASSUME ControlInv, PolicyInv, [ControlNext]_controlVars PROVE PolicyInv'
  OBVIOUS
<1>0. ControlTypeOK
  BY DEF ControlInv
<1>1. ASSUME NEW a \in Admin, AdminStep(a)
      PROVE  PolicyInv'
  BY <1>0, <1>1, AdminKeepsPolicy
<1>2. ASSUME NEW q \in Action, ApplyStorageMaintenance(q) PROVE PolicyInv'
  BY <1>2 DEF ApplyStorageMaintenance, PolicyInv, Changing, AppliedEngine
<1>3. CASE CoreStops
  BY <1>3 DEF CoreStops, PolicyInv
<1>4. CASE CoreStarts
  <2>1. engine' = saved /\ saved' = saved /\ alive'
    BY <1>0, <1>4, LoadedIsSaved DEF CoreStarts, ControlTypeOK
  <2>2. \A a \in Admin : admin'[a].at = "free"
    BY <1>4 DEF CoreStarts, PolicyInv, Free
  <2> QED
    BY <2>1, <2>2 DEF PolicyInv, Changing
<1>5. CASE UNCHANGED controlVars
  BY <1>5 DEF controlVars, PolicyInv, Changing, AppliedEngine
<1> QED
  BY <1>1, <1>2, <1>3, <1>4, <1>5 DEF ControlNext, AdminStep

(* SetSettingWithAudit before LoadKillSwitches or SetEmergencyStop, and the  *)
(* settings read when Core starts: wherever an error or the end of the       *)
(* process cuts changes off that do not overlap, the engine of the running   *)
(* Core decides as the one a restart would load.                             *)
THEOREM RestartKeepsPolicyTheorem == ControlSpec => []RestartKeepsPolicy
<1>1. ControlInit => ControlInv /\ PolicyInv
  BY ControlInitInv DEF ControlInit, PolicyInv, Changing, Free
<1>2. ControlInv /\ PolicyInv => RestartKeepsPolicy
  BY LoadedIsSaved DEF ControlInv, ControlTypeOK, PolicyInv, RestartKeepsPolicy, Changing
<1> QED
  BY <1>1, <1>2, ControlStepKeepsInv, ControlStepKeepsPolicy, PTL DEF ControlSpec

(***************************************************************************)
(* Webhooks                                                                *)
(***************************************************************************)

Verified == [at : {"verified"}, m : Message, since : Nat]

ReplayTypeOK ==
    /\ now \in Nat
    /\ \A kept \in nonces : kept.received \in Nat
    /\ receiver \in [Receiver -> {Quiet} \cup Verified]
    /\ accepted \in [Message -> Nat]

\* A goroutine stores the nonce at most Lag after it compared the timestamp.
VerifiedInTime ==
    \A h \in Receiver : receiver[h] # Quiet =>
        LET r == receiver[h] IN
        /\ r.since <= now /\ now <= r.since + Lag
        /\ r.since <= StampOf[r.m] + Window /\ StampOf[r.m] <= r.since + Window

\* An accepted message is remembered by a kept no older than its window, or
\* nobody can be holding it any more.
Remembered(m) ==
    \/ \E kept \in nonces : kept.nonce = NonceOf[m] /\ StampOf[m] <= kept.received + Window
    \/ StampOf[m] + Window + Lag < now

ReplayInv ==
    /\ ReplayTypeOK
    /\ VerifiedInTime
    /\ \A m \in Message : accepted[m] > 0 => Remembered(m)
    /\ NoReplay

(* UseWebhookNonce: a nonce is stored and the old rows are dropped in one   *)
(* transaction.                                                             *)
LEMMA UseKeepsReplayInv ==
  ASSUME ReplayInv, NEW h \in Receiver, UseWebhookNonce(h)
  PROVE  ReplayInv'
<1> DEFINE m == receiver[h].m
<1>1. receiver[h] \in Verified /\ m \in Message /\ now' = now /\ now \in Nat
  BY DEF ReplayInv, ReplayTypeOK, UseWebhookNonce, Quiet, Verified
<1>2. /\ receiver' \in [Receiver -> {Quiet} \cup Verified]
      /\ receiver' = [receiver EXCEPT ![h] = Quiet]
  BY DEF ReplayInv, ReplayTypeOK, UseWebhookNonce
<1>3. VerifiedInTime'
  BY <1>1, <1>2 DEF ReplayInv, ReplayTypeOK, VerifiedInTime
<1>4. CASE \E kept \in nonces : kept.nonce = NonceOf[m]
  <2>1. UNCHANGED <<nonces, accepted>>
    BY <1>4 DEF UseWebhookNonce
  <2> QED
    BY <1>1, <1>2, <1>3, <2>1 DEF ReplayInv, ReplayTypeOK, Remembered, NoReplay
<1>5. CASE ~ \E kept \in nonces : kept.nonce = NonceOf[m]
  <2> DEFINE new == [nonce |-> NonceOf[m], received |-> now]
  <2>1. /\ nonces' = {kept \in nonces : ~Forgotten(kept)} \cup {new}
        /\ accepted' = [accepted EXCEPT ![m] = @ + 1]
    BY <1>5 DEF UseWebhookNonce
  <2>2. StampOf[m] \in Nat /\ Window \in Nat /\ Lag \in Nat /\ Keep \in Nat /\ Keep >= 2 * Window + Lag
    BY <1>1, ReplayAssumption
  <2>3. /\ receiver[h].since \in Nat /\ receiver[h].since <= now /\ now <= receiver[h].since + Lag
        /\ receiver[h].since <= StampOf[m] + Window /\ StampOf[m] <= receiver[h].since + Window
    BY <1>1 DEF ReplayInv, VerifiedInTime, Verified, Quiet
  <2>4. ~(StampOf[m] + Window + Lag < now) /\ StampOf[m] <= now + Window
    BY <1>1, <2>2, <2>3
  <2>5. accepted[m] = 0
    BY <1>1, <1>5, <2>4 DEF ReplayInv, ReplayTypeOK, Remembered
  <2>6. accepted' \in [Message -> Nat] /\ NoReplay'
    BY <1>1, <2>1, <2>5 DEF ReplayInv, ReplayTypeOK, NoReplay
  <2>7. ReplayTypeOK'
    BY <1>1, <1>2, <2>1, <2>6 DEF ReplayInv, ReplayTypeOK
  <2>8. ASSUME NEW n \in Message, accepted'[n] > 0
        PROVE  Remembered(n)'
    <3>1. CASE n = m
      <4>1. new \in nonces' /\ new.nonce = NonceOf[n] /\ StampOf[n] <= new.received + Window
        BY <2>1, <2>4, <3>1
      <4> QED
        BY <4>1 DEF Remembered
    <3>2. CASE n # m
      <4>1. Remembered(n) /\ StampOf[n] \in Nat
        BY <2>1, <2>8, <3>2, ReplayAssumption, ZenonT(30) DEF ReplayInv, ReplayTypeOK
      <4>2. CASE StampOf[n] + Window + Lag < now
        BY <1>1, <4>2 DEF Remembered
      <4>3. ASSUME NEW kept \in nonces, kept.nonce = NonceOf[n], StampOf[n] <= kept.received + Window
            PROVE  Remembered(n)'
        <5>1. kept.received \in Nat
          BY DEF ReplayInv, ReplayTypeOK
        <5>2. CASE Forgotten(kept)
          BY <1>1, <2>2, <4>1, <4>3, <5>1, <5>2 DEF Forgotten, Remembered
        <5>3. CASE ~Forgotten(kept)
          BY <2>1, <4>3, <5>3, ZenonT(30) DEF Remembered
        <5> QED
          BY <5>2, <5>3
      <4> QED
        BY <4>1, <4>2, <4>3 DEF Remembered
    <3> QED
      BY <3>1, <3>2
  <2> QED
    BY <1>3, <2>6, <2>7, <2>8 DEF ReplayInv
<1> QED
  BY <1>4, <1>5

(* UseWebhookNonce: for all windows, lags and retentions with               *)
(* Keep >= 2 * Window + Lag, no signed webhook is accepted twice.           *)
THEOREM NoReplayTheorem == ReplaySpec => []NoReplay
<1>1. ReplayInit => ReplayInv
  BY ReplayAssumption
     DEF ReplayInit, ReplayInv, ReplayTypeOK, VerifiedInTime, NoReplay, Remembered, Quiet
<1>2. ReplayInv /\ [ReplayNext]_replayVars => ReplayInv'
  <2> SUFFICES ASSUME ReplayInv, [ReplayNext]_replayVars PROVE ReplayInv'
    OBVIOUS
  <2>1. ASSUME NEW h \in Receiver, UseWebhookNonce(h) PROVE ReplayInv'
    BY <2>1, UseKeepsReplayInv
  <2>2. ASSUME NEW h \in Receiver, NEW m \in Message, Verify(h, m) PROVE ReplayInv'
    <3>1. /\ now \in Nat /\ StampOf[m] \in Nat /\ Window \in Nat /\ Lag \in Nat
          /\ UNCHANGED <<now, nonces, accepted>> /\ InWindow(m)
      BY <2>2, ReplayAssumption DEF Verify, ReplayInv, ReplayTypeOK
    <3>2. /\ receiver' = [receiver EXCEPT ![h] = [at |-> "verified", m |-> m, since |-> now]]
          /\ receiver' \in [Receiver -> {Quiet} \cup Verified]
      BY <2>2, <3>1 DEF Verify, ReplayInv, ReplayTypeOK, Verified
    <3>3. VerifiedInTime'
      BY <3>1, <3>2 DEF ReplayInv, ReplayTypeOK, VerifiedInTime, InWindow
    <3> QED
      BY <3>1, <3>2, <3>3 DEF ReplayInv, ReplayTypeOK, Remembered, NoReplay
  <2>3. CASE ReplayTick
    <3>1. now' = now + 1 /\ now \in Nat /\ Window \in Nat /\ Lag \in Nat /\ UNCHANGED <<nonces, receiver, accepted>>
      BY <2>3, ReplayAssumption DEF ReplayTick, ReplayInv, ReplayTypeOK
    <3>2. VerifiedInTime'
      <4> SUFFICES ASSUME NEW h \in Receiver, receiver[h] # Quiet
                   PROVE  LET r == receiver[h] IN
                          /\ r.since <= now' /\ now' <= r.since + Lag
                          /\ r.since <= StampOf[r.m] + Window /\ StampOf[r.m] <= r.since + Window
        BY <3>1 DEF VerifiedInTime
      <4>1. receiver[h].since \in Nat /\ now < receiver[h].since + Lag
        BY <2>3 DEF ReplayTick, ReplayInv, ReplayTypeOK, Verified
      <4> QED
        BY <3>1, <4>1 DEF ReplayInv, VerifiedInTime
    <3>3. ASSUME NEW m \in Message, Remembered(m) PROVE Remembered(m)'
      BY <3>1, <3>3, ReplayAssumption DEF Remembered
    <3> QED
      BY <3>1, <3>2, <3>3 DEF ReplayInv, ReplayTypeOK, NoReplay
  <2>4. CASE UNCHANGED replayVars
    BY <2>4 DEF replayVars, ReplayInv, ReplayTypeOK, VerifiedInTime, Remembered, NoReplay
  <2> QED
    BY <2>1, <2>2, <2>3, <2>4 DEF ReplayNext
<1>3. ReplayInv => NoReplay
  BY DEF ReplayInv
<1> QED
  BY <1>1, <1>2, <1>3, PTL DEF ReplaySpec

(***************************************************************************)
(* Durable files                                                           *)
(***************************************************************************)

FileTypeOK ==
    /\ kind \in FileKind
    /\ step \in Nat /\ step <= Len(Steps)
    /\ status \in {"idle", "working", "acknowledged", "failed", "dead"}
    /\ entry \in {"none", "temporary", "final"} /\ entryOnDisk \in {"none", "temporary", "final"}
    /\ data \in {"none", "partial", "whole"} /\ dataOnDisk \in {"none", "partial", "whole"}
    /\ verified \in BOOLEAN

\* The step after which the content is on disk, and the one after which it
\* has its name.
SyncedAt == IF kind = "backup" THEN 4 ELSE 3

NamedAt == IF kind = "backup" THEN 5 ELSE IF kind = "workspace" THEN 4 ELSE 1

\* What the steps done so far have left, while the writer is at work.
StepsLeave ==
    status \in {"idle", "working"} =>
       /\ status = "idle" => step = 0
       /\ data = IF step = 0 THEN "none" ELSE IF step = 1 THEN "partial" ELSE "whole"
       /\ entry = IF step = 0 THEN "none" ELSE IF step < NamedAt THEN "temporary" ELSE "final"
       /\ kind # "token" /\ step >= SyncedAt => dataOnDisk = "whole"
       /\ kind = "backup" /\ step >= 3 => verified
       /\ kind \in {"backup", "export"} /\ Done => entryOnDisk = "final"

\* A final name, in the cache or on disk, names content that is on disk.
NamedIsSynced ==
    (kind \in {"backup", "workspace"} /\ "final" \in {entry, entryOnDisk}) =>
       /\ data = "whole" /\ dataOnDisk = "whole"
       /\ kind = "backup" => verified

ReportedIsSynced ==
    (kind \in {"backup", "export"} /\ status = "acknowledged") =>
       entry = "final" /\ entryOnDisk = "final" /\ data = "whole" /\ dataOnDisk = "whole"

FileInv == FileTypeOK /\ StepsLeave /\ NamedIsSynced /\ ReportedIsSynced

(* The steps of the four writers, one by one.                              *)
LEMMA StepsAre ==
  /\ kind = "backup" => /\ Len(Steps) = 6 /\ Steps[1] = "createTemporary" /\ Steps[2] = "write"
                        /\ Steps[3] = "verify" /\ Steps[4] = "sync" /\ Steps[5] = "rename"
                        /\ Steps[6] = "syncDir"
  /\ kind = "export" => /\ Len(Steps) = 4 /\ Steps[1] = "createFinal" /\ Steps[2] = "write"
                        /\ Steps[3] = "sync" /\ Steps[4] = "syncDir"
  /\ kind = "workspace" => /\ Len(Steps) = 5 /\ Steps[1] = "createTemporary" /\ Steps[2] = "write"
                           /\ Steps[3] = "sync" /\ Steps[4] = "rename" /\ Steps[5] = "trySyncDir"
  /\ kind = "token" => Len(Steps) = 2 /\ Steps[1] = "createFinal" /\ Steps[2] = "write"
BY DEF Steps, BackupSteps, ExportSteps, WorkspaceSteps, TokenSteps

(* A step of a writer: sync comes before rename in the backup and the      *)
(* workspace file, and before the directory is synced in the export.       *)
LEMMA StepDoneKeepsInv ==
  ASSUME FileInv, stepDone
  PROVE  FileInv'
<1>0. FileTypeOK /\ StepsLeave /\ NamedIsSynced /\ ReportedIsSynced
  BY DEF FileInv
<1> DEFINE s == Steps[step + 1]
<1>1. /\ entry' = CASE s = "createTemporary" -> "temporary"
                    [] s \in {"createFinal", "rename"} -> "final"
                    [] OTHER -> entry
      /\ data' = CASE s \in {"createTemporary", "createFinal"} -> "partial"
                   [] s = "write" -> "whole"
                   [] OTHER -> data
      /\ dataOnDisk' = IF s = "sync" THEN data ELSE dataOnDisk
      /\ entryOnDisk' = IF s = "syncDir" THEN entry ELSE entryOnDisk
      /\ verified' = (verified \/ s = "verify")
  BY DEF stepDone
<1>2. /\ status \in {"idle", "working"} /\ step # Len(Steps) /\ step' = step + 1
      /\ status' = "working" /\ kind' = kind /\ Steps' = Steps /\ step \in Nat
      /\ Len(Steps) \in Nat /\ step <= Len(Steps) /\ SyncedAt' = SyncedAt /\ NamedAt' = NamedAt
  BY <1>0, StepsAre DEF stepDone, Done, Steps, FileTypeOK, SyncedAt, NamedAt, FileKind
<1>a. step \in Nat /\ step <= Len(Steps) /\ step # Len(Steps)
  BY <1>2
<1>3. /\ entry' \in {"none", "temporary", "final"} /\ entryOnDisk' \in {"none", "temporary", "final"}
      /\ data' \in {"none", "partial", "whole"} /\ dataOnDisk' \in {"none", "partial", "whole"}
  BY <1>0, <1>1 DEF FileTypeOK
<1>4. verified' \in BOOLEAN
  BY <1>1
<1>5. FileTypeOK'
  BY <1>0, <1>2, <1>3, <1>4 DEF FileTypeOK
<1>6. CASE kind = "backup"
  <2>0. SyncedAt = 4 /\ NamedAt = 5 /\ Len(Steps) = 6
    BY <1>6, StepsAre DEF SyncedAt, NamedAt
  <2>1. step \in 0..5 /\ SyncedAt = 4 /\ NamedAt = 5 /\ Len(Steps) = 6
    BY <1>a, <2>0
  <2>2. verified => verified'
    BY <1>1, ZenonT(30)
  <2>3. s = "verify" => verified'
    BY <1>1, ZenonT(30)
  <2>4. step' >= 3 => verified'
    BY <1>0, <1>2, <1>6, <2>1, <2>2, <2>3, StepsAre DEF StepsLeave
  <2>5. StepsLeave'
    BY <1>0, <1>1, <1>2, <1>6, <2>1, <2>4, StepsAre DEF StepsLeave, Done
  <2>6. NamedIsSynced'
    BY <1>0, <1>1, <1>2, <1>6, <2>1, <2>2, <2>4, StepsAre DEF StepsLeave, NamedIsSynced
  <2> QED
    BY <1>2, <1>5, <2>5, <2>6 DEF FileInv, ReportedIsSynced
<1>7. CASE kind = "workspace"
  <2>0. SyncedAt = 3 /\ NamedAt = 4 /\ Len(Steps) = 5
    BY <1>7, StepsAre DEF SyncedAt, NamedAt
  <2>1. step \in 0..4 /\ SyncedAt = 3 /\ NamedAt = 4 /\ Len(Steps) = 5
    BY <1>a, <2>0
  <2>2. StepsLeave'
    BY <1>0, <1>1, <1>2, <1>7, <2>1, StepsAre DEF StepsLeave, Done
  <2>3. NamedIsSynced'
    BY <1>0, <1>1, <1>2, <1>7, <2>1, StepsAre DEF StepsLeave, NamedIsSynced
  <2> QED
    BY <1>2, <1>5, <2>2, <2>3 DEF FileInv, ReportedIsSynced
<1>8. CASE kind = "export"
  <2>0. SyncedAt = 3 /\ NamedAt = 1 /\ Len(Steps) = 4
    BY <1>8, StepsAre DEF SyncedAt, NamedAt
  <2>1. step \in 0..3 /\ SyncedAt = 3 /\ NamedAt = 1 /\ Len(Steps) = 4
    BY <1>a, <2>0
  <2>2. StepsLeave'
    BY <1>0, <1>1, <1>2, <1>8, <2>1, StepsAre DEF StepsLeave, Done
  <2> QED
    BY <1>2, <1>5, <1>8, <2>2 DEF FileInv, ReportedIsSynced, NamedIsSynced
<1>9. CASE kind = "token"
  <2>0. SyncedAt = 3 /\ NamedAt = 1 /\ Len(Steps) = 2
    BY <1>9, StepsAre DEF SyncedAt, NamedAt
  <2>1. step \in 0..1 /\ SyncedAt = 3 /\ NamedAt = 1 /\ Len(Steps) = 2
    BY <1>a, <2>0
  <2>2. StepsLeave'
    BY <1>0, <1>1, <1>2, <1>9, <2>1, StepsAre DEF StepsLeave, Done
  <2> QED
    BY <1>2, <1>5, <1>9, <2>2 DEF FileInv, ReportedIsSynced, NamedIsSynced
<1> QED
  BY <1>0, <1>6, <1>7, <1>8, <1>9 DEF FileTypeOK, FileKind

(* Acknowledging, failing, writing back, dying and losing power.  A power  *)
(* failure replaces the cache by the disk, and a final name on disk has    *)
(* its content there.                                                      *)
LEMMA OtherFileStepsKeepInv ==
  ASSUME FileInv,
         acknowledge \/ stepFails \/ writeBack \/ processDies \/ powerFails \/ UNCHANGED fileVars
  PROVE  FileInv'
<1>0. FileTypeOK /\ StepsLeave /\ NamedIsSynced /\ ReportedIsSynced
  BY DEF FileInv
<1>1. kind' = kind /\ step' = step /\ verified' = verified
  BY DEF acknowledge, stepFails, writeBack, processDies, powerFails, fileVars
<1>2. Steps' = Steps /\ SyncedAt' = SyncedAt /\ NamedAt' = NamedAt
  BY <1>1 DEF Steps, SyncedAt, NamedAt
<1> USE DEF FileInv, FileTypeOK, NamedIsSynced, ReportedIsSynced
<1>3. CASE acknowledge
  <2>1. Len(Steps) >= NamedAt /\ (kind # "token" => Len(Steps) >= SyncedAt) /\ Len(Steps) >= 2
        /\ Len(Steps) \in Nat /\ NamedAt \in Nat
    BY <1>0, StepsAre DEF SyncedAt, NamedAt, FileKind
  <2> QED
    BY <1>0, <1>1, <1>2, <1>3, <2>1 DEF acknowledge, StepsLeave, Done
<1>4. CASE stepFails
  <2>1. entry' \in {entry, "none"}
    BY <1>0, <1>4 DEF stepFails, AfterFailure, FileKind
  <2> QED
    BY <1>0, <1>1, <1>2, <1>4, <2>1 DEF stepFails, StepsLeave
<1>5. CASE writeBack
  <2>1. FileTypeOK'
    BY <1>0, <1>1, <1>2, <1>5 DEF writeBack
  <2>2. StepsLeave'
    <3>1. /\ UNCHANGED <<status, data, entry>> /\ entryOnDisk' \in {entry, entryOnDisk}
          /\ dataOnDisk = "whole" => dataOnDisk' = "whole"
      BY <1>5 DEF writeBack
    <3>2. Done' = Done
      BY <1>1, <1>2 DEF Done
    <3>3. kind \in {"backup", "export"} /\ Done => 0 # step /\ ~(step < NamedAt)
      BY <1>0, StepsAre DEF Done, NamedAt
    <3> QED
      BY <1>0, <1>1, <1>2, <3>1, <3>2, <3>3 DEF StepsLeave
  <2>3. NamedIsSynced' /\ ReportedIsSynced'
    BY <1>0, <1>1, <1>2, <1>5 DEF writeBack
  <2> QED
    BY <2>1, <2>2, <2>3
<1>6. CASE processDies
  BY <1>0, <1>1, <1>2, <1>6 DEF processDies, StepsLeave
<1>7. CASE powerFails
  <2>1. status' \notin {"idle", "working"}
    BY <1>7 DEF powerFails
  <2> QED
    BY <1>0, <1>1, <1>2, <1>7, <2>1 DEF powerFails, StepsLeave
<1>8. CASE UNCHANGED fileVars
  BY <1>0, <1>1, <1>2, <1>8 DEF fileVars, StepsLeave, Done
<1> QED
  BY <1>3, <1>4, <1>5, <1>6, <1>7, <1>8, ZenonT(30)

(* createBackupAt, WriteNewPrivateFile and atomicWrite: whatever fails and *)
(* whenever, a published backup or workspace file is whole, and a reported *)
(* backup or export is still there after a power failure.                  *)
THEOREM FilesAreDurableHolds == FileSpec => []FilesAreDurable
<1>1. FileInit => FileInv
  <2> SUFFICES ASSUME FileInit PROVE FileInv
    OBVIOUS
  <2>1. Len(Steps) \in Nat /\ Len(Steps) > 0
    BY StepsAre DEF FileInit, FileKind
  <2>2. FileTypeOK
    <3>1. step \in Nat /\ step <= Len(Steps)
      BY <2>1 DEF FileInit
    <3> QED
      BY <3>1, ZenonT(30) DEF FileInit, FileTypeOK
  <2>3. StepsLeave
    BY <2>1 DEF FileInit, StepsLeave, Done, SyncedAt
  <2> QED
    BY <2>2, <2>3 DEF FileInit, FileInv, NamedIsSynced, ReportedIsSynced
<1>2. FileInv /\ [FileNext]_fileVars => FileInv'
  BY StepDoneKeepsInv, OtherFileStepsKeepInv DEF FileNext
<1>3. FileInv => FilesAreDurable
  BY DEF FileInv, NamedIsSynced, ReportedIsSynced, FilesAreDurable, PublishedIsWhole,
         ReportedFileSurvives
<1> QED
  BY <1>1, <1>2, <1>3, PTL DEF FileSpec


=============================================================================
