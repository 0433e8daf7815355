------------------------------- MODULE PeerProofs -------------------------------
(***************************************************************************)
(* Proofs about Core and the processes beside it: the desktop that manages *)
(* it (ManagedCore) and the stream to the phone (DeviceChannel).           *)
(***************************************************************************)
EXTENDS ManagedCore, DeviceChannel, TLAPS

\* How long each prover may take over a leaf, in seconds.
USE SMTT(30), ZenonT(30)

(***************************************************************************)
(* The managed Core                                                        *)
(***************************************************************************)

BridgeFields == [core : Proc \cup {NoProc}, startupErr : BOOLEAN, shuttingDown : BOOLEAN,
                 ready : BOOLEAN, child : Proc \cup {NoProc}, coreExited : BOOLEAN]

ManagedTypeOK ==
    /\ mode \in {"managed", "external"}
    /\ core \in [Proc -> CoreStates]
    /\ cancelled \subseteq Proc
    /\ phase \in {"off", "running", "stopping", "leaving"}
    /\ startup \in {"idle", "probing", "starting", "done"}
    /\ bridge \in BridgeFields
    /\ stopping \in Proc \cup {NoProc}
    /\ quit \in BOOLEAN
    /\ call \in [pc : {"idle", "waiting", "verifying", "verified"},
                 owner : Proc \cup {NoProc}, early : BOOLEAN]
    /\ configured \in [core : Proc \cup {NoProc}, early : BOOLEAN]
    /\ launches \in Nat
    /\ children \subseteq Proc /\ abandoned \subseteq Proc

\* Only one process has the address.
OneListener == \A p, q \in Proc : Listening(p) /\ Listening(q) => p = q

\* Which child the desktop remembers, in each part of its life.
BridgeFollowsPhase ==
    /\ phase = "off" => startup = "idle" /\ bridge = NewBridge
    /\ startup # "done" => bridge.child = NoProc /\ phase # "stopping"
    /\ bridge.core \in {NoProc, bridge.child}
    /\ phase = "stopping" => stopping = bridge.child /\ stopping # NoProc
    /\ phase = "running" => ~bridge.shuttingDown
    /\ bridge.child # NoProc => bridge.child \in children /\ core[bridge.child] # "none"
    /\ mode = "managed" /\ phase = "running" /\ startup = "done" /\ ~bridge.startupErr =>
          bridge.core = bridge.child /\ bridge.child # NoProc

\* A child that still runs and was not left behind is the one the desktop
\* remembers or is waiting for.
ChildrenAccounted ==
    \A p \in children :
       \/ p \in abandoned \/ core[p] = "dead"
       \/ p = bridge.child /\ (p = bridge.core \/ phase = "stopping")

\* What a call of GetRuntimeConfig that was not early has seen so far.
CallFollowsChild ==
    /\ call.pc # "idle" /\ ~call.early => startup = "done"
    /\ mode = "managed" /\ call.pc # "idle" /\ ~call.early =>
          /\ bridge.child # NoProc
          /\ call.pc \in {"waiting", "verifying"} => call.owner = bridge.child
          /\ call.pc = "verifying" => core[bridge.child] \in {"serving", "draining", "dead"}
          /\ call.pc = "verified" =>
                call.owner = bridge.child \/ core[bridge.child] \in {"draining", "dead"}
    /\ configured.core # NoProc /\ ~configured.early => startup = "done"

ManagedInv ==
    /\ ManagedTypeOK
    /\ OneListener /\ BridgeFollowsPhase /\ ChildrenAccounted /\ CallFollowsChild
    /\ WindowServedByOwnCore /\ LostCoreQuits

(* The invariant of the supervisor holds before the desktop is opened.     *)
LEMMA ManagedInitially == ManagedInit => ManagedInv
<1> SUFFICES ASSUME ManagedInit PROVE ManagedInv
  OBVIOUS
<1> USE DEF ManagedInit, NewBridge, IdleCall, Unconfigured
<1>1. ManagedTypeOK
  BY ZenonT(30) DEF ManagedTypeOK, BridgeFields, CoreStates
<1>2. OneListener /\ ChildrenAccounted
  BY DEF OneListener, Listening, ChildrenAccounted
<1>3. BridgeFollowsPhase
  BY DEF BridgeFollowsPhase
<1>4. CallFollowsChild /\ WindowServedByOwnCore /\ LostCoreQuits
  BY DEF CallFollowsChild, WindowServedByOwnCore, LostCoreQuits
<1> QED
  BY <1>1, <1>2, <1>3, <1>4 DEF ManagedInv

(* A process only moves on: it never comes back from "dead", and from       *)
(* "serving" it can only drain or die.                                      *)
Onward(p) ==
    /\ core'[p] = "none" => core[p] = "none"
    /\ core[p] = "dead" => core'[p] = "dead"
    /\ core[p] = "draining" => core'[p] \in {"draining", "dead"}
    /\ core[p] = "serving" => core'[p] \in {"serving", "draining", "dead"}

(* A step of a Core process leaves the supervisor's memory alone;          *)
(* processes only move on, so what the desktop knows of its child stays    *)
(* true.                                                                   *)
LEMMA CoreMovesOn ==
  ASSUME ManagedInv, coreStays, cancelled' \subseteq Proc, core' \in [Proc -> CoreStates],
         \A p \in Proc : Onward(p), OneListener'
  PROVE  ManagedInv'
<1> USE DEF coreStays
<1>1. ManagedTypeOK'
  BY DEF ManagedInv, ManagedTypeOK
<1>2. bridge.child \in Proc \cup {NoProc} /\ children \subseteq Proc
  BY DEF ManagedInv, ManagedTypeOK, BridgeFields
<1>3. BridgeFollowsPhase'
  BY <1>2 DEF ManagedInv, BridgeFollowsPhase, Onward
<1>4. ChildrenAccounted'
  BY <1>2 DEF ManagedInv, ChildrenAccounted, Onward
<1>5. CallFollowsChild'
  BY <1>2 DEF ManagedInv, CallFollowsChild, Onward
<1>6. WindowServedByOwnCore' /\ LostCoreQuits'
  BY <1>2 DEF ManagedInv, WindowServedByOwnCore, LostCoreQuits, Onward
<1> QED
  BY <1>1, <1>3, <1>4, <1>5, <1>6 DEF ManagedInv

(* Listening is the one step that adds a listener, and it adds none when   *)
(* there is one: the bound address is what keeps two Cores apart.          *)
LEMMA CoreStepKeepsInv ==
  ASSUME ManagedInv, NEW p \in Proc,
         \/ coreListens(p) \/ coreOpens(p) \/ coreServes(p) \/ coreDrains(p)
         \/ coreExits(p) \/ serviceStarts(p) \/ coreSignalled(p)
  PROVE  ManagedInv'
<1> USE DEF Onward, OneListener, Listening
<1>1. core \in [Proc -> CoreStates] /\ cancelled \subseteq Proc /\ OneListener
  BY DEF ManagedInv, ManagedTypeOK
<1>2. CASE coreListens(p)
  <2>1. /\ coreStays /\ cancelled' \subseteq Proc /\ core' \in [Proc -> CoreStates]
        /\ \A q \in Proc : Onward(q)
    BY <1>1, <1>2 DEF coreListens, CoreStates
  <2>2. OneListener'
    BY <1>1, <1>2 DEF coreListens, CoreStates
  <2> QED
    BY <2>1, <2>2, CoreMovesOn
<1>3. CASE coreOpens(p)
  <2>1. PICK next \in {"open", "dead"} : core' = [core EXCEPT ![p] = next]
    BY <1>3, ZenonT(30) DEF coreOpens
  <2>2. /\ coreStays /\ cancelled' \subseteq Proc /\ core' \in [Proc -> CoreStates]
        /\ \A q \in Proc : Onward(q)
    BY <1>1, <1>3, <2>1 DEF coreOpens, CoreStates
  <2>3. OneListener'
    BY <1>1, <1>3, <2>1 DEF coreOpens
  <2> QED
    BY <2>2, <2>3, CoreMovesOn
<1>4. CASE coreServes(p)
  <2>1. /\ coreStays /\ cancelled' \subseteq Proc /\ core' \in [Proc -> CoreStates]
        /\ \A q \in Proc : Onward(q)
    BY <1>1, <1>4 DEF coreServes, CoreStates
  <2>2. OneListener'
    BY <1>1, <1>4 DEF coreServes
  <2> QED
    BY <2>1, <2>2, CoreMovesOn
<1>5. CASE coreDrains(p) \/ coreExits(p) \/ serviceStarts(p)
  <2>1. /\ coreStays /\ cancelled' \subseteq Proc /\ core' \in [Proc -> CoreStates]
        /\ \A q \in Proc : Onward(q)
    BY <1>1, <1>5 DEF coreDrains, coreExits, serviceStarts, CoreStates
  <2>2. OneListener'
    BY <1>1, <1>5 DEF coreDrains, coreExits, serviceStarts
  <2> QED
    BY <2>1, <2>2, CoreMovesOn
<1>6. CASE coreSignalled(p)
  <2>1. /\ coreStays /\ cancelled' \subseteq Proc /\ core' = core
    BY <1>1, <1>6 DEF coreSignalled
  <2> QED
    BY <1>1, <2>1, CoreMovesOn
<1> QED
  BY <1>2, <1>3, <1>4, <1>5, <1>6

(* Startup, and its probe for a Core that already answers.                 *)
LEMMA StartupKeepsInv ==
  ASSUME ManagedInv, Startup \/ startupProbe
  PROVE  ManagedInv'
<1> USE DEF NewBridge, IdleCall, Unconfigured
<1>0. /\ ManagedTypeOK /\ OneListener /\ BridgeFollowsPhase /\ ChildrenAccounted
      /\ CallFollowsChild /\ WindowServedByOwnCore /\ LostCoreQuits
  BY DEF ManagedInv
<1>1. CASE Startup
  <2>1. ManagedTypeOK'
    <3>1. bridge' \in BridgeFields
      BY <1>1 DEF Startup, BridgeFields
    <3>2. startup' \in {"idle", "probing", "starting", "done"} /\ launches' \in Nat
      BY <1>0, <1>1 DEF Startup, ManagedTypeOK
    <3> QED
      BY <1>0, <1>1, <3>1, <3>2, ZenonT(30) DEF Startup, ManagedTypeOK
  <2>2. OneListener' /\ ChildrenAccounted'
    BY <1>0, <1>1 DEF Startup, OneListener, Listening, ChildrenAccounted, BridgeFollowsPhase
  <2>3. BridgeFollowsPhase' /\ CallFollowsChild'
    BY <1>0, <1>1 DEF Startup, BridgeFollowsPhase, CallFollowsChild
  <2>4. WindowServedByOwnCore' /\ LostCoreQuits'
    BY <1>0, <1>1 DEF Startup, WindowServedByOwnCore, LostCoreQuits
  <2> QED
    BY <2>1, <2>2, <2>3, <2>4 DEF ManagedInv
<1>2. CASE startupProbe
  <2>1. ManagedTypeOK'
    <3>1. bridge' \in BridgeFields
      BY <1>0, <1>2, ZenonT(30) DEF startupProbe, ManagedTypeOK, BridgeFields
    <3> QED
      BY <1>0, <1>2, <3>1 DEF startupProbe, ManagedTypeOK
  <2>2. /\ startup = "probing" /\ startup' \in {"starting", "done"}
        /\ bridge'.child = bridge.child /\ bridge'.core = bridge.core
        /\ bridge'.shuttingDown = bridge.shuttingDown /\ bridge'.ready = bridge.ready
        /\ bridge'.coreExited = bridge.coreExited /\ phase # "off"
        /\ startup' = "done" => bridge'.startupErr
    BY <1>0, <1>2 DEF startupProbe, ManagedTypeOK, BridgeFields
  <2>3. UNCHANGED <<mode, core, phase, stopping, quit, call, configured, children, abandoned>>
    BY <1>0, <1>2 DEF startupProbe
  <2>4. OneListener' /\ ChildrenAccounted'
    BY <1>0, <2>2, <2>3 DEF OneListener, Listening, ChildrenAccounted
  <2>5. BridgeFollowsPhase' /\ CallFollowsChild'
    BY <1>0, <2>2, <2>3 DEF BridgeFollowsPhase, CallFollowsChild
  <2>6. WindowServedByOwnCore' /\ LostCoreQuits'
    BY <1>0, <2>2, <2>3 DEF WindowServedByOwnCore, LostCoreQuits
  <2> QED
    BY <2>1, <2>4, <2>5, <2>6 DEF ManagedInv
<1> QED
  BY <1>1, <1>2

(* startManagedCore: the new child is the only one the bridge remembers,   *)
(* because every earlier one is dead or was left behind.                   *)
LEMMA StartChildKeepsInv ==
  ASSUME ManagedInv, startManagedCore
  PROVE  ManagedInv'
<1>0. /\ ManagedTypeOK /\ OneListener /\ BridgeFollowsPhase /\ ChildrenAccounted
      /\ CallFollowsChild /\ WindowServedByOwnCore /\ LostCoreQuits
  BY DEF ManagedInv
<1>1. /\ startup = "starting" /\ startup' = "done" /\ phase # "off" /\ phase # "stopping"
      /\ bridge.child = NoProc /\ bridge.core = NoProc
      /\ UNCHANGED <<mode, cancelled, phase, stopping, quit, call, configured,
                     launches, abandoned>>
  BY <1>0, ZenonT(30) DEF startManagedCore, BridgeFollowsPhase
<1>2. /\ core \in [Proc -> CoreStates] /\ bridge \in BridgeFields /\ children \subseteq Proc
      /\ abandoned \subseteq Proc
  BY <1>0 DEF ManagedTypeOK
<1>3. call.pc = "idle" \/ call.early
  BY <1>0, <1>1 DEF CallFollowsChild
<1>4. configured.core = NoProc \/ configured.early
  BY <1>0, <1>1 DEF CallFollowsChild
<1>5. CallFollowsChild' /\ WindowServedByOwnCore'
  BY <1>1, <1>3, <1>4 DEF CallFollowsChild, WindowServedByOwnCore
<1>6. ASSUME NEW p \in Proc, core[p] = "none", core' = [core EXCEPT ![p] = "starting"],
             children' = children \cup {p},
             bridge' = [bridge EXCEPT !.core = p, !.child = p, !.coreExited = FALSE]
      PROVE  ManagedInv'
  <2>1. /\ bridge' \in BridgeFields /\ bridge'.core = p /\ bridge'.child = p
        /\ bridge'.shuttingDown = bridge.shuttingDown /\ ~bridge'.coreExited
    BY <1>2, <1>6, ZenonT(30) DEF BridgeFields
  <2>2. core' \in [Proc -> CoreStates] /\ children' \subseteq Proc /\ p # NoProc
    BY <1>2, <1>6, ManagedAssumption DEF CoreStates
  <2>3. ManagedTypeOK'
    BY <1>0, <1>1, <2>1, <2>2 DEF ManagedTypeOK
  <2>4. OneListener' /\ ChildrenAccounted'
    BY <1>0, <1>1, <1>2, <1>6, <2>1, ManagedAssumption
       DEF OneListener, Listening, ChildrenAccounted
  <2>5. BridgeFollowsPhase' /\ LostCoreQuits'
    BY <1>0, <1>1, <1>2, <1>6, <2>1, <2>2 DEF BridgeFollowsPhase, LostCoreQuits
  <2> QED
    BY <1>5, <2>3, <2>4, <2>5 DEF ManagedInv
<1>7. ASSUME bridge' = [bridge EXCEPT !.startupErr = TRUE], UNCHANGED <<core, children>>
      PROVE  ManagedInv'
  <2>1. /\ bridge' \in BridgeFields /\ bridge'.core = NoProc /\ bridge'.child = NoProc
        /\ bridge'.shuttingDown = bridge.shuttingDown /\ bridge'.startupErr
        /\ bridge'.ready = bridge.ready /\ bridge'.coreExited = bridge.coreExited
    BY <1>1, <1>2, <1>7, ZenonT(30) DEF BridgeFields
  <2>2. ManagedTypeOK'
    BY <1>0, <1>1, <1>7, <2>1 DEF ManagedTypeOK
  <2>3. OneListener' /\ ChildrenAccounted'
    BY <1>0, <1>1, <1>7, <2>1 DEF OneListener, Listening, ChildrenAccounted
  <2>4. BridgeFollowsPhase' /\ LostCoreQuits'
    BY <1>0, <1>1, <1>7, <2>1 DEF BridgeFollowsPhase, LostCoreQuits
  <2> QED
    BY <1>5, <2>2, <2>3, <2>4 DEF ManagedInv
<1> QED
  BY <1>6, <1>7, ZenonT(30) DEF startManagedCore

(* GetRuntimeConfig, step by step.  A call that is not early waits for the *)
(* child itself; when another process answers the credential check, the    *)
(* child no longer serves, because only one process has the address.       *)
LEMMA CallKeepsInv ==
  ASSUME ManagedInv,
         GetRuntimeConfig \/ waitForVeqriCore \/ verifyVeqriCoreCredential \/ configReturned
  PROVE  ManagedInv'
<1>0. /\ ManagedTypeOK /\ OneListener /\ BridgeFollowsPhase /\ ChildrenAccounted
      /\ CallFollowsChild /\ WindowServedByOwnCore /\ LostCoreQuits
  BY DEF ManagedInv
<1>1. callStays
  BY ZenonT(30) DEF GetRuntimeConfig, waitForVeqriCore, verifyVeqriCoreCredential, configReturned
<1>2. /\ bridge \in BridgeFields /\ core \in [Proc -> CoreStates]
      /\ call \in [pc : {"idle", "waiting", "verifying", "verified"},
                   owner : Proc \cup {NoProc}, early : BOOLEAN]
      /\ configured \in [core : Proc \cup {NoProc}, early : BOOLEAN]
  BY <1>0 DEF ManagedTypeOK
<1>3. ASSUME UNCHANGED <<bridge, configured>>, CallFollowsChild',
             call' \in [pc : {"idle", "waiting", "verifying", "verified"},
                        owner : Proc \cup {NoProc}, early : BOOLEAN]
      PROVE  ManagedInv'
  <2>1. ManagedTypeOK'
    BY <1>0, <1>1, <1>3 DEF ManagedTypeOK, callStays
  <2>2. OneListener' /\ BridgeFollowsPhase' /\ ChildrenAccounted'
    BY <1>0, <1>1, <1>3, ZenonT(30)
       DEF callStays, OneListener, Listening, BridgeFollowsPhase, ChildrenAccounted
  <2>3. WindowServedByOwnCore' /\ LostCoreQuits'
    BY <1>0, <1>1, <1>3, ZenonT(30) DEF callStays, WindowServedByOwnCore, LostCoreQuits
  <2> QED
    BY <1>3, <2>1, <2>2, <2>3 DEF ManagedInv
<1>4. ASSUME UNCHANGED <<bridge, configured>>, call' = IdleCall
      PROVE  ManagedInv'
  <2>1. CallFollowsChild'
    BY <1>0, <1>1, <1>4 DEF callStays, CallFollowsChild, IdleCall
  <2>2. call' \in [pc : {"idle", "waiting", "verifying", "verified"},
                   owner : Proc \cup {NoProc}, early : BOOLEAN]
    BY <1>4 DEF IdleCall
  <2> QED
    BY <1>3, <1>4, <2>1, <2>2
<1>5. CASE GetRuntimeConfig
  <2>1. /\ phase = "running" /\ ~bridge.startupErr /\ UNCHANGED <<bridge, configured>>
        /\ call' = [pc |-> "waiting", owner |-> bridge.core, early |-> startup # "done"]
    BY <1>5 DEF GetRuntimeConfig
  <2>2. call' \in [pc : {"idle", "waiting", "verifying", "verified"},
                   owner : Proc \cup {NoProc}, early : BOOLEAN]
    BY <1>2, <2>1 DEF BridgeFields
  <2>3. CallFollowsChild'
    BY <1>0, <1>1, <2>1, ZenonT(30) DEF callStays, CallFollowsChild, BridgeFollowsPhase
  <2> QED
    BY <1>3, <2>1, <2>2, <2>3
<1>6. CASE waitForVeqriCore
  <2>1. ASSUME NEW q \in Proc, AnswersProbe(q, call.owner),
               call' = [call EXCEPT !.pc = "verifying"]
        PROVE  ManagedInv'
    <3>1. /\ call' \in [pc : {"idle", "waiting", "verifying", "verified"},
                        owner : Proc \cup {NoProc}, early : BOOLEAN]
          /\ call'.owner = call.owner /\ call'.early = call.early
          /\ call'.pc = "verifying" /\ call.pc = "waiting" /\ UNCHANGED <<bridge, configured>>
      BY <1>2, <1>6, <2>1 DEF waitForVeqriCore
    <3>2. CallFollowsChild'
      BY <1>0, <1>1, <2>1, <3>1 DEF callStays, CallFollowsChild, AnswersProbe
    <3> QED
      BY <1>3, <3>1, <3>2
  <2> QED
    BY <1>4, <1>6, <2>1 DEF waitForVeqriCore
<1>7. CASE verifyVeqriCoreCredential
  <2>1. ASSUME NEW q \in Proc, core[q] = "serving",
               call' = [call EXCEPT !.pc = "verified", !.owner = q]
        PROVE  ManagedInv'
    <3>1. /\ call' \in [pc : {"idle", "waiting", "verifying", "verified"},
                        owner : Proc \cup {NoProc}, early : BOOLEAN]
          /\ call'.owner = q /\ call'.early = call.early
          /\ call'.pc = "verified" /\ call.pc = "verifying" /\ UNCHANGED <<bridge, configured>>
      BY <1>2, <1>7, <2>1, ZenonT(30) DEF verifyVeqriCoreCredential
    <3>2. bridge.child \in Proc /\ core[bridge.child] = "serving" => q = bridge.child
      BY <1>0, <2>1 DEF OneListener, Listening
    <3>3. bridge.child # NoProc => bridge.child \in Proc
      BY <1>2 DEF BridgeFields
    <3>4. CallFollowsChild'
      BY <1>0, <1>1, <2>1, <3>1, <3>2, <3>3 DEF callStays, CallFollowsChild
    <3> QED
      BY <1>3, <3>1, <3>4
  <2> QED
    BY <1>4, <1>7, <2>1, ZenonT(30) DEF verifyVeqriCoreCredential
<1>8. CASE configReturned
  <2>1. CASE bridge.coreExited
    BY <1>4, <1>8, <2>1 DEF configReturned, markCoreReady
  <2>2. CASE ~bridge.coreExited
    <3>1. /\ bridge' = [bridge EXCEPT !.ready = TRUE] /\ call.pc = "verified"
          /\ configured' = [core |-> call.owner, early |-> call.early]
          /\ call' = IdleCall
      BY <1>8, <2>2 DEF configReturned, markCoreReady
    <3>2. /\ bridge' \in BridgeFields /\ bridge'.core = bridge.core
          /\ bridge'.child = bridge.child /\ bridge'.coreExited = bridge.coreExited
          /\ bridge'.shuttingDown = bridge.shuttingDown
          /\ bridge'.startupErr = bridge.startupErr
      BY <1>2, <3>1, ZenonT(30) DEF BridgeFields
    <3>3. /\ configured' \in [core : Proc \cup {NoProc}, early : BOOLEAN]
          /\ call' \in [pc : {"idle", "waiting", "verifying", "verified"},
                        owner : Proc \cup {NoProc}, early : BOOLEAN]
      BY <1>2, <3>1 DEF IdleCall
    <3>4. ManagedTypeOK'
      BY <1>0, <1>1, <3>2, <3>3 DEF ManagedTypeOK, callStays
    <3>5. OneListener' /\ ChildrenAccounted'
      BY <1>0, <1>1, <3>2 DEF callStays, OneListener, Listening, ChildrenAccounted
    <3>6. BridgeFollowsPhase'
      BY <1>0, <1>1, <3>2, <1>8 DEF callStays, BridgeFollowsPhase, configReturned
    <3>7. CallFollowsChild' /\ WindowServedByOwnCore'
      BY <1>0, <1>1, <3>1, <3>2
         DEF callStays, CallFollowsChild, WindowServedByOwnCore, IdleCall
    <3>8. LostCoreQuits'
      BY <2>2, <3>2 DEF LostCoreQuits
    <3> QED
      BY <3>4, <3>5, <3>6, <3>7, <3>8 DEF ManagedInv
  <2> QED
    BY <2>1, <2>2
<1> QED
  BY <1>5, <1>6, <1>7, <1>8

(* The waiting goroutine, Shutdown, and the end of the desktop process.    *)
LEMMA DesktopKeepsInv ==
  ASSUME ManagedInv,
         recordManagedCoreExit \/ Shutdown \/ shutdownWaits \/ desktopEnds
  PROVE  ManagedInv'
<1>0. /\ ManagedTypeOK /\ OneListener /\ BridgeFollowsPhase /\ ChildrenAccounted
      /\ CallFollowsChild /\ WindowServedByOwnCore /\ LostCoreQuits
  BY DEF ManagedInv
<1>1. /\ bridge \in BridgeFields /\ core \in [Proc -> CoreStates] /\ stopping \in Proc \cup {NoProc}
      /\ children \subseteq Proc /\ abandoned \subseteq Proc /\ cancelled \subseteq Proc
  BY <1>0 DEF ManagedTypeOK
<1>2. CASE recordManagedCoreExit
  <2>1. /\ bridge' \in BridgeFields /\ bridge'.core = bridge.core
        /\ bridge'.child = bridge.child /\ bridge'.ready = bridge.ready
        /\ bridge'.shuttingDown = bridge.shuttingDown
        /\ bridge'.startupErr = bridge.startupErr
    BY <1>1, <1>2, ZenonT(30) DEF recordManagedCoreExit, BridgeFields
  <2>2. quit' = (quit \/ (bridge.ready /\ ~bridge.shuttingDown)) /\ quit' \in BOOLEAN
    BY <1>2 DEF recordManagedCoreExit
  <2>3. UNCHANGED <<mode, core, cancelled, phase, startup, stopping, call, configured,
                    launches, children, abandoned>> /\ phase # "off"
    BY <1>2 DEF recordManagedCoreExit
  <2>4. ManagedTypeOK'
    BY <1>0, <2>1, <2>2, <2>3 DEF ManagedTypeOK
  <2>5. OneListener' /\ ChildrenAccounted' /\ BridgeFollowsPhase'
    BY <1>0, <2>1, <2>3
       DEF OneListener, Listening, ChildrenAccounted, BridgeFollowsPhase
  <2>6. CallFollowsChild' /\ WindowServedByOwnCore'
    BY <1>0, <2>1, <2>3 DEF CallFollowsChild, WindowServedByOwnCore
  <2>7. LostCoreQuits'
    BY <1>0, <2>1, <2>2, <2>3, ZenonT(30) DEF LostCoreQuits, BridgeFollowsPhase
  <2> QED
    BY <2>4, <2>5, <2>6, <2>7 DEF ManagedInv
<1>3. CASE Shutdown
  <2>1. /\ bridge' \in BridgeFields /\ bridge'.core = NoProc
        /\ bridge'.child = bridge.child /\ ~bridge'.ready
        /\ bridge'.startupErr = bridge.startupErr
    BY <1>1, <1>3, ZenonT(30) DEF Shutdown, BridgeFields
  <2>2. /\ phase = "running" /\ stopping' = bridge.core
        /\ phase' = IF bridge.core = NoProc THEN "leaving" ELSE "stopping"
        /\ UNCHANGED <<mode, core, startup, quit, call, configured, launches, children, abandoned>>
    BY <1>3 DEF Shutdown
  <2>3. cancelled' \subseteq Proc /\ stopping' \in Proc \cup {NoProc}
    BY <1>1, <1>3 DEF Shutdown, BridgeFields
  <2>4. ManagedTypeOK'
    BY <1>0, <2>1, <2>2, <2>3 DEF ManagedTypeOK
  <2>5. OneListener' /\ ChildrenAccounted'
    BY <1>0, <1>1, <2>1, <2>2, ManagedAssumption
       DEF OneListener, Listening, ChildrenAccounted, BridgeFollowsPhase
  <2>6. BridgeFollowsPhase'
    BY <1>0, <2>1, <2>2, ZenonT(30) DEF BridgeFollowsPhase
  <2>7. CallFollowsChild' /\ WindowServedByOwnCore' /\ LostCoreQuits'
    BY <1>0, <2>1, <2>2, ZenonT(30) DEF CallFollowsChild, WindowServedByOwnCore, LostCoreQuits
  <2> QED
    BY <2>4, <2>5, <2>6, <2>7 DEF ManagedInv
<1>4. CASE shutdownWaits
  <2>1. /\ phase = "stopping" /\ phase' = "leaving" /\ stopping' = NoProc
        /\ stopping = bridge.child /\ stopping \in Proc
        /\ core' = [core EXCEPT ![stopping] = "dead"]
        /\ UNCHANGED <<mode, cancelled, startup, bridge, quit, call, configured, launches,
                       children, abandoned>>
    BY <1>0, <1>1, <1>4, ZenonT(30) DEF shutdownWaits, BridgeFollowsPhase
  <2>2. core' \in [Proc -> CoreStates]
    BY <1>1, <2>1 DEF CoreStates
  <2>3. ManagedTypeOK'
    BY <1>0, <2>1, <2>2 DEF ManagedTypeOK
  <2>4. OneListener' /\ ChildrenAccounted'
    BY <1>0, <1>1, <2>1 DEF OneListener, Listening, ChildrenAccounted
  <2>5. BridgeFollowsPhase'
    BY <1>0, <1>1, <2>1 DEF BridgeFollowsPhase
  <2>6. CallFollowsChild' /\ WindowServedByOwnCore' /\ LostCoreQuits'
    BY <1>0, <1>1, <2>1 DEF CallFollowsChild, WindowServedByOwnCore, LostCoreQuits
  <2> QED
    BY <2>3, <2>4, <2>5, <2>6 DEF ManagedInv
<1>5. CASE desktopEnds
  <2> DEFINE left == ({bridge.core} \cup (IF phase = "stopping" THEN {stopping} ELSE {}))
                        \ {NoProc}
  <2>1. /\ phase' = "off" /\ startup' = "idle" /\ call' = IdleCall /\ bridge' = NewBridge
        /\ stopping' = NoProc /\ configured' = Unconfigured /\ quit' = FALSE
        /\ UNCHANGED <<mode, core, launches, children>>
        /\ cancelled' = cancelled \cup left /\ abandoned' = abandoned \cup left
    BY <1>5 DEF desktopEnds
  <2>2. left \subseteq Proc
    BY <1>1 DEF BridgeFields
  <2>3. /\ bridge' \in BridgeFields
        /\ configured' \in [core : Proc \cup {NoProc}, early : BOOLEAN]
        /\ call' \in [pc : {"idle", "waiting", "verifying", "verified"},
                        owner : Proc \cup {NoProc}, early : BOOLEAN]
    BY <2>1 DEF NewBridge, IdleCall, Unconfigured, BridgeFields
  <2>4. ManagedTypeOK'
    BY <1>0, <2>1, <2>2, <2>3, ZenonT(30) DEF ManagedTypeOK
  <2>5. OneListener'
    BY <1>0, <2>1 DEF OneListener, Listening
  <2>6. ChildrenAccounted'
    BY <1>0, <1>1, <2>1, ManagedAssumption DEF ChildrenAccounted, BridgeFollowsPhase
  <2>7. BridgeFollowsPhase' /\ CallFollowsChild' /\ WindowServedByOwnCore' /\ LostCoreQuits'
    BY <2>1, ZenonT(30) DEF BridgeFollowsPhase, CallFollowsChild, WindowServedByOwnCore, LostCoreQuits,
                NewBridge, IdleCall, Unconfigured
  <2> QED
    BY <2>4, <2>5, <2>6, <2>7 DEF ManagedInv
<1> QED
  BY <1>2, <1>3, <1>4, <1>5

(* A step that changes nothing keeps the invariant.                        *)
LEMMA ManagedStutters ==
  ASSUME ManagedInv, UNCHANGED managedVars
  PROVE  ManagedInv'
BY DEF managedVars, ManagedInv, ManagedTypeOK, OneListener, Listening, BridgeFollowsPhase,
       ChildrenAccounted, CallFollowsChild, WindowServedByOwnCore, LostCoreQuits

(* The inductive invariant of the supervisor.                              *)
THEOREM ManagedInvHolds == ManagedSpec => []ManagedInv
<1>1. ManagedInv /\ [ManagedNext]_managedVars => ManagedInv'
  BY CoreStepKeepsInv, StartupKeepsInv, StartChildKeepsInv, CallKeepsInv, DesktopKeepsInv,
     ManagedStutters DEF ManagedNext
<1> QED
  BY ManagedInitially, <1>1, PTL DEF ManagedSpec

(* internal/coreapp/run.go and apps/desktop/native/bridge.go, for every    *)
(* number of processes and launches: two Cores have the database open only *)
(* while one drains, and two children of the desktop only when it left one *)
(* behind without waiting.                                                 *)
THEOREM OneActiveCoreHolds == ManagedSpec => []OneActiveCore
<1>1. ManagedInv => OneActiveCore
  <2> SUFFICES ASSUME ManagedInv, NEW p \in Proc, NEW q \in Proc, p # q,
                      StoreOpen(p), StoreOpen(q)
               PROVE  /\ "draining" \in {core[p], core[q]}
                      /\ {p, q} \subseteq children => {p, q} \cap abandoned # {}
    BY DEF OneActiveCore
  <2>1. "draining" \in {core[p], core[q]}
    BY DEF ManagedInv, OneListener, StoreOpen, Listening
  <2>2. core[p] # "dead" /\ core[q] # "dead"
    BY DEF StoreOpen
  <2>3. {p, q} \subseteq children => p \in abandoned \/ q \in abandoned
    BY <2>2 DEF ManagedInv, ChildrenAccounted
  <2> QED
    BY <2>1, <2>3
<1> QED
  BY <1>1, ManagedInvHolds, PTL

(* markCoreReady and recordManagedCoreExit, for every interleaving of      *)
(* calls, exits and closings: a managed window is served by its own child  *)
(* or is told to quit.                                                     *)
THEOREM WindowHasItsCoreHolds == ManagedSpec => []WindowHasItsCore
<1>1. ManagedInv => WindowHasItsCore
  BY DEF ManagedInv, WindowHasItsCore
<1> QED
  BY <1>1, ManagedInvHolds, PTL

(***************************************************************************)
(* The stream to the phone                                                 *)
(***************************************************************************)

Frame ==
         [type : {"snapshot"}, rows : [Item -> 0..MaxVersion], retention : BOOLEAN]
    \cup [type : {"changed"}, row : Change]
    \cup [type : {"result"}, committed : BOOLEAN]

Received == [event : Frame, generation : Nat]

ChannelTypeOK ==
    /\ version \in [Item -> 0..MaxVersion]
    /\ posting \in [Writer -> Change \cup {Nothing}]
    /\ queue \in [Subscriber -> Seq(Change)]
    /\ serving \in {"none", "subscribed", "streaming", "ended"}
    /\ down \in Seq(Frame) /\ up \in SUBSET (Nat \X BOOLEAN)
    /\ policy \in BOOLEAN /\ overtaken \in BOOLEAN /\ socket \in BOOLEAN /\ retainTranscript \in BOOLEAN
    /\ retentionOutcomeUnknown \in BOOLEAN /\ awaitingAuthoritativeSnapshot \in BOOLEAN
    /\ socketGeneration \in Nat
    /\ inbox \in Seq(Received)
    /\ pendingCommit \in {NoCommit, "on", "off"}

\* A frame the client may still handle: in the socket, or in its queue and of
\* the current stream.
InFlight(f) ==
    \/ \E i \in DOMAIN down : down[i] = f
    \/ \E j \in DOMAIN inbox : inbox[j].event = f /\ inbox[j].generation = socketGeneration

\* There are not two frames of this type on their way.
Once(k) ==
    /\ \A i, j \in DOMAIN down : down[i].type = k /\ down[j].type = k => i = j
    /\ \A i, j \in DOMAIN inbox :
          /\ inbox[i].event.type = k /\ inbox[i].generation = socketGeneration
          /\ inbox[j].event.type = k /\ inbox[j].generation = socketGeneration
          => i = j
    /\ \A i \in DOMAIN down, j \in DOMAIN inbox :
          ~(down[i].type = k /\ inbox[j].event.type = k /\ inbox[j].generation = socketGeneration)

\* A command of the current stream that Core has not read yet.
Asked(v) == <<socketGeneration, v>> \in up

\* A stream begins with its catch-up, and the client asks for a change only
\* when it has it.  A question is followed by at most one result, and none
\* is asked before: so a result says how the policy compares with the value
\* asked for, unless a command of an earlier stream got in between.
ChannelInv ==
    /\ ~socket => serving = "none"
    /\ serving \in {"none", "subscribed"} => \A f : ~InFlight(f)
    /\ serving \in {"none", "subscribed"} /\ socket => awaitingAuthoritativeSnapshot
    /\ \A c \in up : c[1] <= socketGeneration
    /\ \A j \in DOMAIN inbox : inbox[j].generation <= socketGeneration
    /\ pendingCommit # NoCommit => socket /\ requireRetentionOutcomeKnown
    /\ Once("snapshot") /\ Once("result")
    /\ \A f : InFlight(f) /\ f.type = "snapshot" =>
          awaitingAuthoritativeSnapshot /\ (~overtaken => f.retention = policy)
    /\ \A f : InFlight(f) /\ f.type = "result" =>
          /\ ~awaitingAuthoritativeSnapshot
          /\ pendingCommit = NoCommit => retentionOutcomeUnknown
          /\ pendingCommit # NoCommit /\ ~overtaken =>
                IF f.committed THEN policy = (pendingCommit = "on") ELSE policy = retainTranscript
          /\ \A v \in BOOLEAN : ~Asked(v)
    /\ \A v \in BOOLEAN : Asked(v) =>
          /\ socket /\ ~awaitingAuthoritativeSnapshot /\ ~Asked(~v)
          /\ pendingCommit = NoCommit => retentionOutcomeUnknown
          /\ pendingCommit # NoCommit => v = (pendingCommit = "on") /\ (~overtaken => policy = retainTranscript)
    /\ PrivacyAgreed

(* The sequence without positions.                                         *)
LEMMA NoPositions ==
  ASSUME NEW S, NEW s \in Seq(S), DOMAIN s = {}
  PROVE  s = <<>>
  OBVIOUS

(* Sequences, position by position.                                        *)
LEMMA Positions ==
  ASSUME NEW S, NEW s \in Seq(S)
  PROVE  /\ Len(s) \in Nat /\ DOMAIN s = 1..Len(s)
         /\ \A e \in S : /\ Append(s, e) \in Seq(S) /\ DOMAIN Append(s, e) = 1..(Len(s) + 1)
                         /\ \A i \in 1..(Len(s) + 1) : Append(s, e)[i] = IF i = Len(s) + 1 THEN e ELSE s[i]
         /\ s # <<>> => /\ Tail(s) \in Seq(S) /\ DOMAIN Tail(s) = 1..(Len(s) - 1) /\ Len(s) >= 1 /\ Head(s) = s[1]
                        /\ \A i \in 1..(Len(s) - 1) : Tail(s)[i] = s[i + 1]
  OBVIOUS

(* Core writes a frame.                                                    *)
LEMMA FrameWritten ==
  ASSUME ChannelTypeOK, NEW e \in Frame, down' = Append(down, e), UNCHANGED <<inbox, socketGeneration>>
  PROVE  /\ \A f : InFlight(f)' => InFlight(f) \/ f = e
         /\ \A k : Once(k) /\ (\A f : InFlight(f) /\ f.type = k => e.type # k) => Once(k)'
<1>1. /\ Len(down) \in Nat /\ DOMAIN down = 1..Len(down) /\ DOMAIN down' = 1..(Len(down) + 1)
      /\ \A i \in 1..(Len(down) + 1) : down'[i] = IF i = Len(down) + 1 THEN e ELSE down[i]
  BY Positions DEF ChannelTypeOK
<1>2. \A f : InFlight(f)' => InFlight(f) \/ f = e
  BY <1>1 DEF InFlight
<1>3. ASSUME NEW k, Once(k), \A f : InFlight(f) /\ f.type = k => e.type # k PROVE Once(k)'
  <2>1. CASE e.type = k
    <3>1. /\ \A i \in DOMAIN down : down[i].type # k
          /\ \A j \in DOMAIN inbox : ~(inbox[j].event.type = k /\ inbox[j].generation = socketGeneration)
      BY <1>3, <2>1 DEF InFlight
    <3> QED
      BY <1>1, <3>1 DEF Once
  <2>2. CASE e.type # k
    <3>1. \A i \in DOMAIN down' : down'[i].type = k => i \in DOMAIN down /\ down[i].type = k
      BY <1>1, <2>2
    <3> QED
      BY <1>3, <3>1 DEF Once
  <2> QED
    BY <2>1, <2>2
<1> QED
  BY <1>2, <1>3

(* onMessage queues a frame or drops it.                                   *)
LEMMA FrameQueued ==
  ASSUME ChannelTypeOK, down # <<>>, down' = Tail(down), UNCHANGED socketGeneration,
         inbox' \in {inbox, Append(inbox, [event |-> Head(down), generation |-> socketGeneration])}
  PROVE  /\ \A f : InFlight(f)' => InFlight(f)
         /\ \A k : Once(k) => Once(k)'
<1> DEFINE e == [event |-> Head(down), generation |-> socketGeneration]
<1>1. /\ Len(down) \in Nat /\ Len(down) >= 1 /\ DOMAIN down = 1..Len(down) /\ DOMAIN down' = 1..(Len(down) - 1)
      /\ \A i \in 1..(Len(down) - 1) : down'[i] = down[i + 1]
      /\ Head(down) = down[1] /\ Head(down) \in Frame
  BY Positions DEF ChannelTypeOK
<1>2. e \in Received /\ e.event = down[1] /\ e.generation = socketGeneration
  BY <1>1 DEF ChannelTypeOK, Received
<1>3. /\ Len(inbox) \in Nat /\ DOMAIN inbox = 1..Len(inbox)
      /\ DOMAIN inbox' \subseteq 1..(Len(inbox) + 1)
      /\ \A j \in DOMAIN inbox' : inbox'[j] = IF j = Len(inbox) + 1 THEN e ELSE inbox[j]
  <2>1. inbox \in Seq(Received) /\ inbox' \in {inbox, Append(inbox, e)}
    BY DEF ChannelTypeOK
  <2> HIDE DEF e
  <2> QED
    BY <1>2, <2>1, Positions
<1> HIDE DEF e
<1>4. \A j \in DOMAIN inbox' : j # Len(inbox) + 1 => j \in DOMAIN inbox
  BY <1>3
<1>5. \A i \in DOMAIN down' : i + 1 \in DOMAIN down /\ i + 1 # 1 /\ down'[i] = down[i + 1]
  BY <1>1
<1>6. \A f : InFlight(f)' => InFlight(f)
  BY <1>1, <1>2, <1>3, <1>4, <1>5 DEF InFlight
<1>7. ASSUME NEW k, Once(k) PROVE Once(k)'
  <2>1. \A i, j \in DOMAIN down' : down'[i].type = k /\ down'[j].type = k => i = j
    BY <1>1, <1>5, <1>7 DEF Once
  <2>2. 1 \in DOMAIN down
    BY <1>1
  <2>3. \A i, j \in DOMAIN inbox' :
          /\ inbox'[i].event.type = k /\ inbox'[i].generation = socketGeneration
          /\ inbox'[j].event.type = k /\ inbox'[j].generation = socketGeneration
          => i = j
    BY <1>2, <1>3, <1>4, <1>7, <2>2 DEF Once
  <2>4. \A i \in DOMAIN down', j \in DOMAIN inbox' :
          ~(down'[i].type = k /\ inbox'[j].event.type = k /\ inbox'[j].generation = socketGeneration)
    BY <1>2, <1>3, <1>4, <1>5, <1>7, <2>2 DEF Once
  <2> QED
    BY <2>1, <2>3, <2>4 DEF Once
<1> QED
  BY <1>6, <1>7

(* The client takes a frame from its queue.                                *)
LEMMA FrameTaken ==
  ASSUME ChannelTypeOK, inbox # <<>>, inbox' = Tail(inbox), UNCHANGED <<down, socketGeneration>>
  PROVE  /\ Head(inbox) \in Received
         /\ \A f : InFlight(f)' => InFlight(f)
         /\ \A k : Once(k) => Once(k)'
         /\ \A j \in DOMAIN inbox' : \E i \in DOMAIN inbox : inbox'[j] = inbox[i]
         /\ Head(inbox).generation = socketGeneration =>
               /\ InFlight(Head(inbox).event)
               /\ \A f : InFlight(f)' /\ Once(f.type) => f.type # Head(inbox).event.type
<1>1. /\ Len(inbox) \in Nat /\ Len(inbox) >= 1 /\ DOMAIN inbox = 1..Len(inbox) /\ DOMAIN inbox' = 1..(Len(inbox) - 1)
      /\ \A i \in 1..(Len(inbox) - 1) : inbox'[i] = inbox[i + 1]
      /\ Head(inbox) = inbox[1] /\ inbox[1] \in Received
  BY Positions DEF ChannelTypeOK
<1>2. 1 \in DOMAIN inbox /\ \A i \in DOMAIN inbox' : i + 1 \in DOMAIN inbox /\ i + 1 # 1 /\ inbox'[i] = inbox[i + 1]
  BY <1>1
<1>3. \A f : InFlight(f)' => InFlight(f)
  BY <1>2 DEF InFlight
<1>4. ASSUME NEW k, Once(k) PROVE Once(k)'
  <2>1. \A i, j \in DOMAIN inbox' : i + 1 = j + 1 => i = j
    BY <1>1
  <2> QED
    BY <1>2, <1>4, <2>1 DEF Once
<1>5. ASSUME inbox[1].generation = socketGeneration, NEW f, InFlight(f)', Once(f.type) PROVE f.type # inbox[1].event.type
  BY <1>2, <1>5 DEF InFlight, Once
<1>6. inbox[1].generation = socketGeneration => InFlight(inbox[1].event)
  BY <1>2 DEF InFlight
<1> QED
  BY <1>1, <1>2, <1>3, <1>4, <1>5, <1>6

(* A new generation: nothing of it is on its way yet.                      *)
LEMMA FramesOutdated ==
  ASSUME ChannelTypeOK, ChannelInv, down' = <<>>, UNCHANGED inbox, socketGeneration' = socketGeneration + 1
  PROVE  /\ \A f : ~InFlight(f)'
         /\ \A k : Once(k)'
         /\ \A c \in up : c[1] < socketGeneration'
         /\ \A j \in DOMAIN inbox' : inbox'[j].generation < socketGeneration'
<1>1. \A c \in up : c[1] < socketGeneration'
  <2>1. up \in SUBSET (Nat \X BOOLEAN) /\ socketGeneration \in Nat /\ \A c \in up : c[1] <= socketGeneration
    BY DEF ChannelInv, ChannelTypeOK
  <2> QED
    BY <2>1
<1>2. \A j \in DOMAIN inbox : inbox[j].generation \in Nat /\ inbox[j].generation < socketGeneration'
  <2>1. inbox \in Seq(Received) /\ socketGeneration \in Nat /\ \A j \in DOMAIN inbox : inbox[j].generation <= socketGeneration
    BY DEF ChannelInv, ChannelTypeOK
  <2>2. \A j \in DOMAIN inbox : inbox[j] \in Received
    BY <2>1
  <2>3. \A j \in DOMAIN inbox : inbox[j].generation \in Nat
    BY <2>2 DEF Received
  <2> QED
    BY <2>1, <2>3
<1>3. DOMAIN down' = {}
  OBVIOUS
<1>4. socketGeneration' \in Nat
  BY DEF ChannelTypeOK
<1> QED
  BY <1>1, <1>2, <1>3, <1>4 DEF InFlight, Once

(* The writers, and what they hand to the hub.                             *)
LEMMA HubKeepsTypes ==
  ASSUME ChannelTypeOK,
         \/ HubWork
         \/ Subscribe(Phone) \/ Unsubscribe(Phone) \/ Take(Phone)
         \/ UNCHANGED hubVars
  PROVE  version' \in [Item -> 0..MaxVersion] /\ posting' \in [Writer -> Change \cup {Nothing}] /\ queue' \in [Subscriber -> Seq(Change)]
<1> USE HubAssumption, PhoneAssumption
<1>1. version \in [Item -> 0..MaxVersion] /\ posting \in [Writer -> Change \cup {Nothing}] /\ queue \in [Subscriber -> Seq(Change)]
  BY ZenonT(30) DEF ChannelTypeOK
<1>2. ASSUME NEW w \in Writer, NEW i \in Item, Commit(w, i)
      PROVE  version' \in [Item -> 0..MaxVersion] /\ posting' \in [Writer -> Change \cup {Nothing}] /\ UNCHANGED queue
  <2>1. version[i] + 1 \in 1..MaxVersion
    BY <1>1, <1>2 DEF Commit
  <2>2. [item |-> i, version |-> version[i] + 1] \in Change
    BY <2>1 DEF Change
  <2> QED
    BY <1>1, <1>2, <2>1, <2>2 DEF Commit
<1>3. ASSUME NEW w \in Writer, Publish(w)
      PROVE  UNCHANGED version /\ posting' \in [Writer -> Change \cup {Nothing}] /\ queue' \in [Subscriber -> Seq(Change)]
  <2>1. posting[w] \in Change
    BY <1>1, <1>3 DEF Publish
  <2>2. \A s \in Subscriber : Append(queue[s], posting[w]) \in Seq(Change)
    BY <1>1, <2>1
  <2> QED
    BY <1>1, <1>3, <2>2 DEF Publish
<1>4. CASE Subscribe(Phone) \/ Unsubscribe(Phone)
  <2>1. <<>> \in Seq(Change)
    OBVIOUS
  <2> QED
    BY <1>1, <1>4, <2>1, ZenonT(30) DEF Subscribe, Unsubscribe
<1>5. CASE Take(Phone)
  <2>1. Tail(queue[Phone]) \in Seq(Change)
    BY <1>1, <1>5 DEF Take
  <2> QED
    BY <1>1, <1>5, <2>1 DEF Take
<1> QED
  BY <1>1, <1>2, <1>3, <1>4, <1>5 DEF HubWork, hubVars

(* The frames Core writes.                                                 *)
LEMMA CoreFrames ==
  ASSUME ChannelTypeOK
  PROVE  /\ [type |-> "snapshot", rows |-> version, retention |-> policy] \in Frame
         /\ queue[Phone] # <<>> => [type |-> "changed", row |-> Head(queue[Phone])] \in Frame
         /\ \A b \in BOOLEAN : [type |-> "result", committed |-> b] \in Frame
<1>1. version \in [Item -> 0..MaxVersion] /\ policy \in BOOLEAN
  BY DEF ChannelTypeOK
<1>2. queue[Phone] # <<>> => Head(queue[Phone]) \in Change
  <2>1. queue[Phone] \in Seq(Change)
    BY PhoneAssumption DEF ChannelTypeOK
  <2> QED
    BY <2>1
<1> QED
  BY <1>1, <1>2 DEF Frame

(* What stays if nothing on its way changes.                               *)
LEMMA FramesStay ==
  ASSUME UNCHANGED <<down, inbox, socketGeneration>>
  PROVE  (\A f : InFlight(f)' <=> InFlight(f)) /\ \A k : Once(k)' <=> Once(k)
  BY DEF InFlight, Once

(* Writers, and the handler's subscription and end.                        *)
LEMMA HandlerKeepsChannel ==
  ASSUME ChannelTypeOK, ChannelInv,
         \/ HubWork /\ UNCHANGED phoneVars
         \/ UNCHANGED <<hubVars, phoneVars>>
         \/ handleDeviceWebSocket \/ handlerReturns
  PROVE  ChannelTypeOK' /\ ChannelInv'
<1>1. /\ UNCHANGED <<down, up, policy, overtaken, socket, socketGeneration, inbox,
                     pendingCommit, retainTranscript, retentionOutcomeUnknown, awaitingAuthoritativeSnapshot>>
      /\ HubWork \/ Subscribe(Phone) \/ UNCHANGED hubVars
      /\ \/ UNCHANGED serving
         \/ serving = "none" /\ serving' = "subscribed" /\ socket
         \/ serving = "streaming" /\ serving' = "ended"
  BY DEF phoneVars, clientSide, handleDeviceWebSocket, handlerReturns
<1>2. ChannelTypeOK'
  BY <1>1, HubKeepsTypes DEF ChannelTypeOK
<1>3. (\A f : InFlight(f)' <=> InFlight(f)) /\ (\A k : Once(k)' <=> Once(k)) /\ \A v : Asked(v)' <=> Asked(v)
  BY <1>1, FramesStay DEF Asked
<1>4. PrivacyAgreed' /\ (requireRetentionOutcomeKnown' <=> requireRetentionOutcomeKnown)
  BY <1>1, ZenonT(30) DEF ChannelInv, PrivacyAgreed, requireRetentionOutcomeKnown
<1> QED
  BY <1>1, <1>2, <1>3, <1>4, ZenonT(30) DEF ChannelInv

(* The catch-up and the events of a stream.                                *)
LEMMA EventsKeepChannel ==
  ASSUME ChannelTypeOK, ChannelInv, androidCatchup \/ androidEvent
  PROVE  ChannelTypeOK' /\ ChannelInv'
<1>1. PICK e \in Frame :
         /\ down' = Append(down, e)
         /\ UNCHANGED <<up, policy, socket, socketGeneration, inbox,
                        pendingCommit, retainTranscript, retentionOutcomeUnknown, awaitingAuthoritativeSnapshot>>
         /\ Take(Phone) \/ UNCHANGED hubVars
         /\ \/ e.type = "snapshot" /\ e.retention = policy /\ serving = "subscribed" /\ overtaken' = FALSE
            \/ e.type = "changed" /\ serving = "streaming" /\ UNCHANGED overtaken
         /\ serving' = "streaming"
  <2>1. CASE androidCatchup
    BY <2>1, CoreFrames, ZenonT(30) DEF androidCatchup, clientSide
  <2>2. CASE androidEvent
    BY <2>2, CoreFrames, ZenonT(30) DEF androidEvent, clientSide, Take
  <2> QED
    BY <2>1, <2>2, ZenonT(30)
<1>2. ChannelTypeOK'
  <2>1. down' \in Seq(Frame)
    BY <1>1, Positions, ZenonT(30) DEF ChannelTypeOK
  <2> QED
    BY <1>1, <2>1, HubKeepsTypes, ZenonT(30) DEF ChannelTypeOK
<1>3. /\ \A f : InFlight(f)' => InFlight(f) \/ f = e
      /\ \A k : Once(k) /\ (\A f : InFlight(f) /\ f.type = k => e.type # k) => Once(k)'
  BY <1>1, FrameWritten
<1>4. \A v : Asked(v)' <=> Asked(v)
  BY <1>1 DEF Asked
<1>5. requireRetentionOutcomeKnown' <=> requireRetentionOutcomeKnown
  BY <1>1 DEF requireRetentionOutcomeKnown
<1>6. CASE e.type = "snapshot"
  <2>1. socket /\ awaitingAuthoritativeSnapshot /\ (\A f : ~InFlight(f)) /\ serving = "subscribed" /\ e.retention = policy
        /\ overtaken' = FALSE
    BY <1>1, <1>6, ZenonT(30) DEF ChannelInv, ChannelTypeOK
  <2>2. Once("snapshot")' /\ Once("result")'
    BY <1>3, <2>1 DEF ChannelInv
  <2>3. pendingCommit = NoCommit /\ (\A v \in BOOLEAN : ~Asked(v)) /\ PrivacyAgreed'
    BY <1>1, <2>1 DEF ChannelInv, requireRetentionOutcomeKnown, PrivacyAgreed
  <2> QED
    BY <1>1, <1>2, <1>3, <1>4, <1>5, <1>6, <2>1, <2>2, <2>3, ZenonT(30) DEF ChannelInv
<1>7. CASE e.type = "changed"
  <2>0. serving = "streaming" /\ serving' = "streaming" /\ overtaken' = overtaken /\ socket /\ socket'
    BY <1>1, <1>7, ZenonT(30) DEF ChannelInv
  <2>1. Once("snapshot")' /\ Once("result")'
    BY <1>3, <1>7 DEF ChannelInv
  <2>2. PrivacyAgreed'
    BY <1>1, <1>5, <1>7 DEF ChannelInv, PrivacyAgreed
  <2>3. \A f : /\ InFlight(f)' /\ f.type = "snapshot" => InFlight(f)
               /\ InFlight(f)' /\ f.type = "result" => InFlight(f)
    BY <1>3, <1>7
  <2> QED
    BY <1>1, <1>2, <1>4, <1>5, <2>0, <2>1, <2>2, <2>3, ZenonT(30) DEF ChannelInv
<1> QED
  BY <1>1, <1>6, <1>7

(* Core reads a privacy command, of this stream or of an earlier one.      *)
LEMMA CommandsKeepChannel ==
  ASSUME ChannelTypeOK, ChannelInv, NEW c \in up, NEW answer \in {"COMMITTED", "REJECTED", "limited"},
         readDeviceCommands(c, answer)
  PROVE  ChannelTypeOK' /\ ChannelInv'
<1> DEFINE e == [type |-> "result", committed |-> answer = "COMMITTED"]
<1>1. /\ c \in Nat \X BOOLEAN /\ c[1] <= socketGeneration /\ up' = up \ {c}
      /\ UNCHANGED <<serving, socket, socketGeneration, inbox,
                     pendingCommit, retainTranscript, retentionOutcomeUnknown, awaitingAuthoritativeSnapshot, hubVars>>
  BY ZenonT(30) DEF readDeviceCommands, clientSide, ChannelTypeOK, ChannelInv
<1>2. e \in Frame /\ e.type = "result" /\ e.committed = (answer = "COMMITTED")
  BY CoreFrames, ZenonT(30)
<1>3. /\ policy' = IF answer = "COMMITTED" THEN c[2] ELSE policy
      /\ overtaken' = (overtaken \/ (answer = "COMMITTED" /\ c[1] # socketGeneration))
      /\ down' = IF answer # "limited" /\ c[1] = socketGeneration /\ serving = "streaming" THEN Append(down, e) ELSE down
  BY DEF readDeviceCommands, setTranscriptRetention
<1> HIDE DEF e
<1>4. policy' \in BOOLEAN /\ overtaken' \in BOOLEAN
  BY <1>1, <1>3 DEF ChannelTypeOK
<1>5. ChannelTypeOK'
  <2>1. down' \in Seq(Frame)
    BY <1>2, <1>3, Positions, ZenonT(30) DEF ChannelTypeOK
  <2>2. up' \in SUBSET (Nat \X BOOLEAN)
    BY <1>1 DEF ChannelTypeOK
  <2> QED
    BY <1>1, <1>4, <2>1, <2>2, HubKeepsTypes DEF ChannelTypeOK
<1>6. requireRetentionOutcomeKnown' <=> requireRetentionOutcomeKnown
  BY <1>1 DEF requireRetentionOutcomeKnown
<1>7. \A v \in BOOLEAN : Asked(v)' => Asked(v)
  BY <1>1 DEF Asked
<1>8. CASE c[1] # socketGeneration
  <2>1. (\A f : InFlight(f)' <=> InFlight(f)) /\ (\A k : Once(k)' <=> Once(k))
    BY <1>1, <1>3, <1>8, FramesStay
  <2>2. overtaken' \/ (policy' = policy /\ overtaken' = overtaken)
    BY <1>3, <1>8, ZenonT(30) DEF ChannelTypeOK
  <2>3. PrivacyAgreed'
    BY <1>1, <1>6, <2>2 DEF ChannelInv, PrivacyAgreed
  <2>4. \A d \in up' : d[1] <= socketGeneration
    BY <1>1 DEF ChannelInv
  <2>5. \A v \in BOOLEAN : Asked(v)' => ~Asked(~v)'
    BY <1>7, ZenonT(30) DEF ChannelInv
  <2>6. CASE overtaken'
    BY <1>1, <1>5, <1>6, <1>7, <2>1, <2>3, <2>4, <2>5, <2>6, ZenonT(30) DEF ChannelInv
  <2>7. CASE policy' = policy /\ overtaken' = overtaken
    BY <1>1, <1>5, <1>6, <1>7, <2>1, <2>3, <2>4, <2>5, <2>7, ZenonT(30) DEF ChannelInv
  <2> QED
    BY <2>2, <2>6, <2>7
<1>9. CASE c[1] = socketGeneration
  <2>1. c[2] \in BOOLEAN /\ Asked(c[2])
    <3>1. PICK g \in Nat, v \in BOOLEAN : c = <<g, v>>
      BY <1>1
    <3>2. c[1] = g /\ c[2] = v
      BY <3>1
    <3>3. <<socketGeneration, v>> \in up
      BY <1>9, <3>1, <3>2
    <3> QED
      BY <3>2, <3>3 DEF Asked
  <2>2. /\ socket /\ ~awaitingAuthoritativeSnapshot /\ ~Asked(~c[2])
        /\ pendingCommit = NoCommit => retentionOutcomeUnknown
        /\ pendingCommit # NoCommit => c[2] = (pendingCommit = "on") /\ (~overtaken => policy = retainTranscript)
    BY <2>1, ZenonT(30) DEF ChannelInv
  <2>3. \A v \in BOOLEAN : ~Asked(v)'
    <3>1. ~Asked(c[2])'
      BY <1>1, <1>9 DEF Asked
    <3> QED
      BY <1>7, <2>1, <2>2, <3>1
  <2>4. \A f : InFlight(f) => f.type # "snapshot" /\ f.type # "result"
    BY <2>1, <2>2 DEF ChannelInv
  <2>5. (\A f : InFlight(f)' => InFlight(f) \/ (f = e /\ serving = "streaming")) /\ Once("snapshot")' /\ Once("result")'
    <3>1. CASE down' = down
      BY <1>1, <3>1, FramesStay, ZenonT(30) DEF ChannelInv
    <3>2. CASE down' = Append(down, e) /\ serving = "streaming"
      BY <1>1, <1>2, <2>4, <3>2, FrameWritten, ZenonT(30) DEF ChannelInv
    <3> QED
      BY <1>3, <3>1, <3>2
  <2>6. overtaken' = overtaken
    BY <1>3, <1>9 DEF ChannelTypeOK
  <2>7. PrivacyAgreed'
    BY <1>1, <1>6, <2>2 DEF PrivacyAgreed, requireRetentionOutcomeKnown
  <2>8. pendingCommit # NoCommit /\ ~overtaken =>
          IF e.committed THEN policy' = (pendingCommit = "on") ELSE policy' = retainTranscript
    BY <1>2, <1>3, <2>2, ZenonT(30)
  <2>9. \A f : InFlight(f)' /\ f.type = "result" => f = e
    BY <2>4, <2>5
  <2>10. \A f : InFlight(f)' => f.type # "snapshot"
    BY <1>2, <2>4, <2>5
  <2>11. serving \in {"none", "subscribed"} => \A f : ~InFlight(f)'
    BY <2>5, ZenonT(30) DEF ChannelInv
  <2> QED
    BY <1>1, <1>5, <1>6, <2>2, <2>3, <2>5, <2>6, <2>7, <2>8, <2>9, <2>10, <2>11, ZenonT(30) DEF ChannelInv
<1> QED
  BY <1>8, <1>9

(* The client's sockets open and close.                                    *)
LEMMA SocketsKeepChannel ==
  ASSUME ChannelTypeOK, ChannelInv, openSocket \/ onClosed
  PROVE  ChannelTypeOK' /\ ChannelInv'
<1>1. /\ UNCHANGED <<up, policy, overtaken, inbox, retainTranscript>>
      /\ socketGeneration' = socketGeneration + 1
      /\ serving' = "none" /\ down' = <<>> /\ pendingCommit' = NoCommit
      /\ retentionOutcomeUnknown' = (retentionOutcomeUnknown \/ pendingCommit # NoCommit)
      /\ \/ socket' = FALSE /\ UNCHANGED awaitingAuthoritativeSnapshot
         \/ socket' = TRUE /\ awaitingAuthoritativeSnapshot' = TRUE
      /\ Unsubscribe(Phone) \/ UNCHANGED hubVars
  <2>1. CASE onClosed
    BY <2>1 DEF onClosed, failPendingCommandCommits
  <2>2. CASE openSocket
    <3>1. serving = "none" /\ pendingCommit = NoCommit /\ ~socket
      BY <2>2, ZenonT(30) DEF ChannelInv, openSocket
    <3>2. DOMAIN down = {}
      BY <3>1, ZenonT(30) DEF ChannelInv, InFlight
    <3>a. down \in Seq(Frame)
      BY DEF ChannelTypeOK
    <3>3. down = <<>>
      BY <3>2, <3>a, NoPositions, ZenonT(30)
    <3> QED
      BY <2>2, <3>1, <3>3, ZenonT(30) DEF openSocket, coreSide, ChannelTypeOK
  <2> QED
    BY <2>1, <2>2, ZenonT(30)
<1>2. ChannelTypeOK'
  <2>0. <<>> \in Seq(Frame) /\ socketGeneration + 1 \in Nat
    BY DEF ChannelTypeOK
  <2>1. down' \in Seq(Frame) /\ socketGeneration' \in Nat
    BY <1>1, <2>0, ZenonT(30)
  <2>2. socket' \in BOOLEAN /\ retentionOutcomeUnknown' \in BOOLEAN /\ awaitingAuthoritativeSnapshot' \in BOOLEAN
    BY <1>1, ZenonT(30) DEF ChannelTypeOK
  <2> QED
    BY <1>1, <2>1, <2>2, HubKeepsTypes, ZenonT(30) DEF ChannelTypeOK
<1>3. /\ \A f : ~InFlight(f)'
      /\ \A k : Once(k)'
      /\ \A c \in up : c[1] < socketGeneration'
      /\ \A j \in DOMAIN inbox' : inbox'[j].generation < socketGeneration'
  BY <1>1, FramesOutdated, ZenonT(30)
<1>4. ASSUME NEW v \in BOOLEAN, Asked(v)' PROVE FALSE
  <2>1. <<socketGeneration', v>> \in up
    BY <1>1, <1>4 DEF Asked
  <2>2. <<socketGeneration', v>>[1] < socketGeneration'
    BY <1>3, <2>1
  <2>3. socketGeneration' \in Nat
    BY <1>2 DEF ChannelTypeOK
  <2> QED
    BY <2>2, <2>3
<1>5. ASSUME requireRetentionOutcomeKnown', ~overtaken' PROVE retainTranscript' = policy'
  <2>1. ~retentionOutcomeUnknown' /\ ~awaitingAuthoritativeSnapshot'
    BY <1>5 DEF requireRetentionOutcomeKnown
  <2>2. pendingCommit = NoCommit /\ ~retentionOutcomeUnknown
    <3>1. retentionOutcomeUnknown' = (retentionOutcomeUnknown \/ pendingCommit # NoCommit)
      BY <1>1, ZenonT(30)
    <3> QED
      BY <2>1, <3>1, ZenonT(30)
  <2>3. ~awaitingAuthoritativeSnapshot
    <3>1. awaitingAuthoritativeSnapshot' = awaitingAuthoritativeSnapshot \/ awaitingAuthoritativeSnapshot' = TRUE
      BY <1>1, ZenonT(30)
    <3> QED
      BY <2>1, <3>1, ZenonT(30)
  <2> QED
    BY <1>1, <1>5, <2>2, <2>3 DEF ChannelInv, PrivacyAgreed, requireRetentionOutcomeKnown
<1>6. /\ \A c \in up' : c[1] <= socketGeneration'
      /\ \A j \in DOMAIN inbox' : inbox'[j].generation <= socketGeneration'
  <2>1. \A m, n \in Nat : m < n => m <= n
    OBVIOUS
  <2>2. \A c \in up : c[1] \in Nat
    BY DEF ChannelTypeOK
  <2>3. \A j \in DOMAIN inbox : inbox[j].generation \in Nat
    <3>1. \A j \in DOMAIN inbox : inbox[j] \in Received
      BY DEF ChannelTypeOK
    <3> QED
      BY <3>1 DEF Received
  <2>4. socketGeneration' \in Nat
    BY <1>1 DEF ChannelTypeOK
  <2> QED
    BY <1>1, <1>3, <2>1, <2>2, <2>3, <2>4
<1> QED
  BY <1>1, <1>2, <1>3, <1>4, <1>5, <1>6, ZenonT(30) DEF ChannelInv, PrivacyAgreed

(* The client queues a frame, asks for a change, or stops waiting for it.  *)
LEMMA ClientKeepsChannel ==
  ASSUME ChannelTypeOK, ChannelInv, enqueue \/ commitTimesOut \/ \E value \in BOOLEAN : setRetainTranscript(value)
  PROVE  ChannelTypeOK' /\ ChannelInv'
<1>1. UNCHANGED <<serving, policy, overtaken, socket, socketGeneration, retainTranscript, awaitingAuthoritativeSnapshot, hubVars>>
  BY DEF enqueue, commitTimesOut, setRetainTranscript, coreSide
<1>2. CASE enqueue
  <2>1. /\ down # <<>> /\ down' = Tail(down) /\ UNCHANGED <<up, pendingCommit, retentionOutcomeUnknown>>
        /\ inbox' \in {inbox, Append(inbox, [event |-> Head(down), generation |-> socketGeneration])}
    BY <1>2 DEF enqueue
  <2>2. (\A f : InFlight(f)' => InFlight(f)) /\ \A k : Once(k) => Once(k)'
    BY <1>1, <2>1, FrameQueued
  <2>3. Head(down) \in Frame /\ down' \in Seq(Frame)
    BY <2>1, Positions DEF ChannelTypeOK
  <2> DEFINE e == [event |-> Head(down), generation |-> socketGeneration]
  <2>4. e \in Received /\ e.generation = socketGeneration
    BY <2>3 DEF Received, ChannelTypeOK
  <2>5. inbox \in Seq(Received) /\ inbox' \in {inbox, Append(inbox, e)}
    BY <2>1 DEF ChannelTypeOK
  <2> HIDE DEF e
  <2>6. inbox' \in Seq(Received) /\ \A j \in DOMAIN inbox' : inbox'[j] = e \/ (j \in DOMAIN inbox /\ inbox'[j] = inbox[j])
    BY <2>4, <2>5, Positions
  <2>7. \A j \in DOMAIN inbox' : inbox'[j].generation <= socketGeneration
    <3>1. socketGeneration <= socketGeneration /\ \A j \in DOMAIN inbox : inbox[j].generation <= socketGeneration
      BY DEF ChannelInv, ChannelTypeOK
    <3> QED
      BY <2>4, <2>6, <3>1
  <2>8. ChannelTypeOK'
    BY <1>1, <2>1, <2>3, <2>6, HubKeepsTypes, ZenonT(30) DEF ChannelTypeOK
  <2>9. (\A v : Asked(v)' <=> Asked(v)) /\ (requireRetentionOutcomeKnown' <=> requireRetentionOutcomeKnown) /\ PrivacyAgreed'
    BY <1>1, <2>1, ZenonT(30) DEF Asked, requireRetentionOutcomeKnown, PrivacyAgreed, ChannelInv
  <2> QED
    BY <1>1, <2>1, <2>2, <2>7, <2>8, <2>9, ZenonT(30) DEF ChannelInv
<1>3. CASE commitTimesOut
  <2>1. UNCHANGED <<down, inbox, up>> /\ pendingCommit' = NoCommit /\ retentionOutcomeUnknown' = TRUE
    BY <1>3, ZenonT(30) DEF commitTimesOut, failPendingCommandCommits, coreSide, ChannelTypeOK
  <2>2. (\A f : InFlight(f)' <=> InFlight(f)) /\ (\A k : Once(k)' <=> Once(k)) /\ \A v : Asked(v)' <=> Asked(v)
    BY <1>1, <2>1, FramesStay DEF Asked
  <2>3. ChannelTypeOK'
    BY <1>1, <2>1, HubKeepsTypes, ZenonT(30) DEF ChannelTypeOK
  <2>4. PrivacyAgreed'
    BY <2>1 DEF PrivacyAgreed, requireRetentionOutcomeKnown
  <2> QED
    BY <1>1, <2>1, <2>2, <2>3, <2>4, ZenonT(30) DEF ChannelInv
<1>4. ASSUME NEW value \in BOOLEAN, setRetainTranscript(value) PROVE ChannelTypeOK' /\ ChannelInv'
  <2>1. /\ UNCHANGED <<down, inbox, retentionOutcomeUnknown>> /\ up' = up \cup {<<socketGeneration, value>>}
        /\ pendingCommit = NoCommit /\ pendingCommit' = (IF value THEN "on" ELSE "off")
        /\ requireRetentionOutcomeKnown /\ socket
    BY <1>4 DEF setRetainTranscript
  <2>2. (\A f : InFlight(f)' <=> InFlight(f)) /\ (\A k : Once(k)' <=> Once(k))
    BY <1>1, <2>1, FramesStay
  <2>3. socketGeneration \in Nat /\ <<socketGeneration, value>> \in Nat \X BOOLEAN /\ <<socketGeneration, value>>[1] = socketGeneration
    BY DEF ChannelTypeOK
  <2>4. ChannelTypeOK'
    <3>1. up' \in SUBSET (Nat \X BOOLEAN)
      BY <2>1, <2>3 DEF ChannelTypeOK
    <3>2. pendingCommit' \in {NoCommit, "on", "off"}
      BY <2>1
    <3> QED
      BY <1>1, <2>1, <3>1, <3>2, HubKeepsTypes, ZenonT(30) DEF ChannelTypeOK
  <2>5. ~retentionOutcomeUnknown /\ ~awaitingAuthoritativeSnapshot /\ (requireRetentionOutcomeKnown' <=> requireRetentionOutcomeKnown)
    BY <1>1, <2>1 DEF requireRetentionOutcomeKnown
  <2>6. (\A v \in BOOLEAN : ~Asked(v)) /\ (\A f : InFlight(f) => f.type \notin {"snapshot", "result"})
        /\ (~overtaken => policy = retainTranscript)
    BY <2>1, <2>5, ZenonT(30) DEF ChannelInv, PrivacyAgreed
  <2>7. \A v \in BOOLEAN : Asked(v)' <=> v = value
    BY <1>1, <2>1, <2>6 DEF Asked
  <2>8. pendingCommit' # NoCommit /\ value = (pendingCommit' = "on")
    BY <2>1 DEF NoCommit
  <2>9. \A c \in up' : c[1] <= socketGeneration
    <3>1. socketGeneration <= socketGeneration
      BY <2>3
    <3> QED
      BY <2>1, <2>3, <3>1 DEF ChannelInv
  <2>10. PrivacyAgreed'
    BY <2>8 DEF PrivacyAgreed
  <2>11. ~Asked(~value)'
    BY <2>7, ZenonT(30)
  <2> QED
    BY <1>1, <2>1, <2>2, <2>4, <2>5, <2>6, <2>7, <2>8, <2>9, <2>10, <2>11, ZenonT(30) DEF ChannelInv
<1> QED
  BY <1>2, <1>3, <1>4

(* The client handles a frame: the catch-up, an event, a result, or one of *)
(* an earlier stream, which it drops.                                      *)
LEMMA DeliveryKeepsChannel ==
  ASSUME ChannelTypeOK, ChannelInv, deliverEvent
  PROVE  ChannelTypeOK' /\ ChannelInv'
<1> DEFINE e == Head(inbox).event
<1>1. /\ UNCHANGED <<serving, down, up, policy, overtaken, socket, socketGeneration, hubVars>>
      /\ inbox # <<>> /\ inbox' = Tail(inbox)
  BY DEF deliverEvent, coreSide
<1>2. /\ Head(inbox) \in Received
      /\ \A f : InFlight(f)' => InFlight(f)
      /\ \A k : Once(k) => Once(k)'
      /\ \A j \in DOMAIN inbox' : \E i \in DOMAIN inbox : inbox'[j] = inbox[i]
      /\ Head(inbox).generation = socketGeneration =>
               /\ InFlight(e)
               /\ \A f : InFlight(f)' /\ Once(f.type) => f.type # e.type
  BY <1>1, FrameTaken, ZenonT(30)
<1>3. e \in Frame /\ inbox' \in Seq(Received)
  <2>1. inbox' \in Seq(Received)
    BY <1>1, Positions DEF ChannelTypeOK
  <2> QED
    BY <1>2, <2>1 DEF Received
<1>4. CASE \/ Head(inbox).generation # socketGeneration
           \/ Head(inbox).generation = socketGeneration /\ e.type = "changed"
  <2>1. UNCHANGED <<pendingCommit, retainTranscript, retentionOutcomeUnknown, awaitingAuthoritativeSnapshot>>
    BY <1>4, ZenonT(30) DEF deliverEvent, shouldDeliverSocketEvent, handleEvent
  <2>2. ChannelTypeOK'
    BY <1>1, <1>3, <2>1, HubKeepsTypes, ZenonT(30) DEF ChannelTypeOK
  <2>3. (\A v : Asked(v)' <=> Asked(v)) /\ (requireRetentionOutcomeKnown' <=> requireRetentionOutcomeKnown) /\ PrivacyAgreed'
    BY <1>1, <2>1, ZenonT(30) DEF Asked, requireRetentionOutcomeKnown, PrivacyAgreed, ChannelInv
  <2> HIDE DEF e
  <2> QED
    BY <1>1, <1>2, <2>1, <2>2, <2>3, ZenonT(30) DEF ChannelInv
<1>5. CASE Head(inbox).generation = socketGeneration /\ e.type = "snapshot"
  <2>1. InFlight(e) /\ (\A f : InFlight(f)' => InFlight(f) /\ f.type # "snapshot")
    BY <1>2, <1>5, ZenonT(30) DEF ChannelInv
  <2>2. awaitingAuthoritativeSnapshot /\ (~overtaken => e.retention = policy) /\ socket /\ serving \notin {"none", "subscribed"}
    BY <1>5, <2>1, ZenonT(30) DEF ChannelInv
  <2>3. applyAuthoritativeSnapshot(e)
    BY <1>5, ZenonT(30) DEF deliverEvent, shouldDeliverSocketEvent, handleEvent
  <2>4. /\ retainTranscript' = e.retention /\ retentionOutcomeUnknown' = FALSE /\ awaitingAuthoritativeSnapshot' = FALSE
        /\ UNCHANGED pendingCommit
    BY <2>2, <2>3, ZenonT(30) DEF applyAuthoritativeSnapshot
  <2>5. pendingCommit = NoCommit /\ (\A v \in BOOLEAN : ~Asked(v)) /\ \A f : InFlight(f) => f.type # "result"
    BY <2>2 DEF ChannelInv, requireRetentionOutcomeKnown
  <2>6. e.retention \in BOOLEAN
    BY <1>3, <1>5 DEF Frame
  <2>7. ChannelTypeOK'
    BY <1>1, <1>3, <2>4, <2>6, HubKeepsTypes, ZenonT(30) DEF ChannelTypeOK
  <2>8. \A v \in BOOLEAN : ~Asked(v)'
    BY <1>1, <2>5 DEF Asked
  <2>9. PrivacyAgreed'
    BY <1>1, <2>2, <2>4 DEF PrivacyAgreed
  <2> HIDE DEF e
  <2> QED
    BY <1>1, <1>2, <2>1, <2>2, <2>4, <2>5, <2>7, <2>8, <2>9, ZenonT(30) DEF ChannelInv
<1>6. CASE Head(inbox).generation = socketGeneration /\ e.type = "result"
  <2>1. InFlight(e) /\ (\A f : InFlight(f)' => InFlight(f) /\ f.type # "result")
    BY <1>2, <1>6, ZenonT(30) DEF ChannelInv
  <2>2. /\ ~awaitingAuthoritativeSnapshot
        /\ pendingCommit = NoCommit => retentionOutcomeUnknown
        /\ pendingCommit # NoCommit /\ ~overtaken =>
                IF e.committed THEN policy = (pendingCommit = "on") ELSE policy = retainTranscript
        /\ \A v \in BOOLEAN : ~Asked(v)
    BY <1>6, <2>1, ZenonT(30) DEF ChannelInv
  <2>3. commitResult(e.committed)
    BY <1>6, ZenonT(30) DEF deliverEvent, shouldDeliverSocketEvent, handleEvent
  <2>4. /\ pendingCommit' = NoCommit /\ UNCHANGED <<retentionOutcomeUnknown, awaitingAuthoritativeSnapshot>>
        /\ retainTranscript' = IF e.committed /\ pendingCommit # NoCommit THEN pendingCommit = "on" ELSE retainTranscript
    BY <2>3 DEF commitResult
  <2>5. e.committed \in BOOLEAN
    BY <1>3, <1>6 DEF Frame
  <2>6. retainTranscript' \in BOOLEAN
    BY <2>4, ZenonT(30) DEF ChannelTypeOK
  <2>7. ChannelTypeOK'
    BY <1>1, <1>3, <2>4, <2>6, HubKeepsTypes, ZenonT(30) DEF ChannelTypeOK
  <2>8. \A v \in BOOLEAN : ~Asked(v)'
    BY <1>1, <2>2 DEF Asked
  <2>9. PrivacyAgreed'
    BY <1>1, <2>2, <2>4, <2>5 DEF PrivacyAgreed, requireRetentionOutcomeKnown
  <2>10. \A f : InFlight(f) => f.type # "snapshot"
    BY <2>2 DEF ChannelInv
  <2> HIDE DEF e
  <2> QED
    BY <1>1, <1>2, <2>1, <2>2, <2>4, <2>7, <2>8, <2>9, <2>10, ZenonT(30) DEF ChannelInv
<1>7. e.type \in {"snapshot", "changed", "result"}
  BY <1>3 DEF Frame
<1> QED
  BY <1>4, <1>5, <1>6, <1>7

(* The stream and the privacy command, for any number of streams, commands *)
(* and writers and a queue of any length: when the phone takes its         *)
(* preference for settled it is the one Core stores, although commands     *)
(* time out, answers are dropped with a full queue or a closed socket, and *)
(* commands of an earlier stream are still read.                           *)
THEOREM PrivacyAgreedHolds == PhoneSpec => []PrivacyAgreed
<1>1. HubInit /\ PhoneInit => ChannelTypeOK /\ ChannelInv
  <2> SUFFICES ASSUME HubInit, PhoneInit PROVE ChannelTypeOK /\ ChannelInv
    OBVIOUS
  <2>1. DOMAIN down = {} /\ DOMAIN inbox = {} /\ up = {}
    BY DEF PhoneInit
  <2>2. ChannelTypeOK
    <3>1. \A S : <<>> \in Seq(S)
      OBVIOUS
    <3>2. version \in [Item -> 0..MaxVersion] /\ posting \in [Writer -> Change \cup {Nothing}] /\ queue \in [Subscriber -> Seq(Change)]
      BY <3>1, HubAssumption DEF HubInit
    <3>3. down \in Seq(Frame) /\ inbox \in Seq(Received) /\ up \in SUBSET (Nat \X BOOLEAN)
      BY <3>1 DEF PhoneInit
    <3> QED
      BY <3>2, <3>3, ZenonT(30) DEF ChannelTypeOK, PhoneInit
  <2>3. \A f : ~InFlight(f)
    BY <2>1 DEF InFlight
  <2>4. \A k : Once(k)
    BY <2>1 DEF Once
  <2>5. \A v : ~Asked(v)
    BY <2>1 DEF Asked
  <2> QED
    BY <2>1, <2>2, <2>3, <2>4, <2>5, ZenonT(30) DEF PhoneInit, ChannelInv, PrivacyAgreed
<1>2. ChannelTypeOK /\ ChannelInv /\ [PhoneNext]_<<hubVars, phoneVars>> => ChannelTypeOK' /\ ChannelInv'
  BY HandlerKeepsChannel, EventsKeepChannel, CommandsKeepChannel, SocketsKeepChannel, ClientKeepsChannel,
     DeliveryKeepsChannel DEF PhoneNext
<1>3. ChannelInv => PrivacyAgreed
  BY DEF ChannelInv
<1> QED
  BY <1>1, <1>2, <1>3, PTL DEF PhoneSpec


=============================================================================
