---------------------------- MODULE ManagedCore ----------------------------
(* The desktop supervisor (apps/desktop/native/bridge.go, main.go) and the  *)
(* Core processes it starts (internal/coreapp/run.go).  The desktop starts   *)
(* the same executable as a child, owns it through the write end of a pipe   *)
(* on its stdin, proves ownership through a token the child answers with,    *)
(* and waits for it when it closes.  A standalone Core may use the same port *)
(* and the same data directory.                                              *)
(* Wails, which is external, runs Startup on a goroutine of its own: the     *)
(* window may call GetRuntimeConfig, or be closed, while Startup still runs. *)
EXTENDS Naturals, FiniteSets

CONSTANTS
    Proc,         \* processes that may become a Core, each at most once
    MaxLaunches   \* how often the desktop is opened

NoProc == "no process"

ASSUME ManagedAssumption == NoProc \notin Proc /\ MaxLaunches \in Nat

CoreStates == {"none", "starting", "bound", "open", "serving", "draining", "dead"}

VARIABLES
    mode,       \* VEQRI_DESKTOP_CORE_MODE
    core,       \* the state of each process
    cancelled,  \* processes whose context is cancelled: stdin at EOF, or a signal
    phase,      \* the desktop process: off, running, stopping, leaving
    startup,    \* the Startup goroutine: idle, probing, starting, done
    bridge,     \* the fields of Bridge
    stopping,   \* the child Shutdown waits for
    quit,       \* wailsruntime.Quit was called
    call,       \* the GetRuntimeConfig call in progress
    configured, \* the Core the window was configured with, and whether the call was early
    launches,   \* history: how often the desktop was opened
    children,   \* history: processes a desktop started
    abandoned   \* history: children the desktop left without waiting for

managedVars == <<mode, core, cancelled, phase, startup, bridge, stopping, quit,
                 call, configured, launches, children, abandoned>>

NewBridge == [core |-> NoProc, startupErr |-> FALSE, shuttingDown |-> FALSE,
              ready |-> FALSE, child |-> NoProc, coreExited |-> FALSE]

IdleCall == [pc |-> "idle", owner |-> NoProc, early |-> FALSE]

Unconfigured == [core |-> NoProc, early |-> FALSE]

ManagedInit ==
    /\ mode \in {"managed", "external"}
    /\ core = [p \in Proc |-> "none"]
    /\ cancelled = {}
    /\ phase = "off"
    /\ startup = "idle"
    /\ bridge = NewBridge
    /\ stopping = NoProc
    /\ quit = FALSE
    /\ call = IdleCall
    /\ configured = Unconfigured
    /\ launches = 0
    /\ children = {}
    /\ abandoned = {}

Listening(p) == core[p] \in {"bound", "open", "serving"}

StoreOpen(p) == core[p] \in {"open", "serving", "draining"}

(***************************************************************************)
(* A Core process                                                          *)
(***************************************************************************)
coreStays == UNCHANGED <<mode, phase, startup, bridge, stopping, quit, call,
                         configured, launches, children, abandoned>>

\* Run takes the address before it touches the data directory; a second
\* Core on the address ends here.
coreListens(p) ==
    /\ core[p] = "starting"
    /\ core' = [core EXCEPT ![p] =
                   IF \E q \in Proc : Listening(q) THEN "dead" ELSE "bound"]
    /\ UNCHANGED cancelled
    /\ coreStays

\* A Core that opened the store first and then listened.
coreOpensUnbound(p) ==
    /\ core[p] \in {"starting", "bound"}
    /\ \E next \in {"open", "dead"} : core' = [core EXCEPT ![p] = next]
    /\ UNCHANGED cancelled
    /\ coreStays

\* The private directory, the admin token, the database and its migrations;
\* each may fail, and a cancelled context makes the database fail.
coreOpens(p) ==
    /\ core[p] = "bound"
    /\ \E next \in {"open", "dead"} : core' = [core EXCEPT ![p] = next]
    /\ UNCHANGED cancelled
    /\ coreStays

\* Agents, policy, recovery and workers start; then the listener is served.
coreServes(p) ==
    /\ core[p] = "open"
    /\ core' = [core EXCEPT ![p] = "serving"]
    /\ UNCHANGED cancelled
    /\ coreStays

\* The cancelled context makes Run call httpServer.Shutdown: the listener is
\* closed at once, the store only when Run returns.
coreDrains(p) ==
    /\ core[p] = "serving"
    /\ p \in cancelled
    /\ core' = [core EXCEPT ![p] = "draining"]
    /\ UNCHANGED cancelled
    /\ coreStays

\* Run returns, or the server fails.
coreExits(p) ==
    /\ core[p] \in {"serving", "draining"}
    /\ core' = [core EXCEPT ![p] = "dead"]
    /\ UNCHANGED cancelled
    /\ coreStays

\* A standalone veqri-core is started.
serviceStarts(p) ==
    /\ core[p] = "none"
    /\ core' = [core EXCEPT ![p] = "starting"]
    /\ UNCHANGED cancelled
    /\ coreStays

\* A signal tells a Core, standalone or managed, to stop.
coreSignalled(p) ==
    /\ Listening(p) /\ p \notin cancelled
    /\ cancelled' = cancelled \cup {p}
    /\ UNCHANGED core
    /\ coreStays

(***************************************************************************)
(* Startup                                                                 *)
(***************************************************************************)
Startup ==
    /\ phase = "off" /\ launches < MaxLaunches
    /\ phase' = "running"
    /\ startup' = IF mode = "managed" THEN "probing" ELSE "done"
    /\ bridge' = NewBridge
    /\ quit' = FALSE
    /\ call' = IdleCall
    /\ configured' = Unconfigured
    /\ launches' = launches + 1
    /\ UNCHANGED <<mode, core, cancelled, stopping, children, abandoned>>

\* A Core that answers within 750 ms is somebody else's.
startupProbe ==
    /\ phase # "off" /\ startup = "probing"
    /\ \/ /\ \E q \in Proc : core[q] = "serving"
          /\ startup' = "done"
          /\ bridge' = [bridge EXCEPT !.startupErr = TRUE]
       \/ /\ startup' = "starting"
          /\ UNCHANGED bridge
    /\ UNCHANGED <<mode, core, cancelled, phase, stopping, quit, call, configured,
                   launches, children, abandoned>>

\* The child is started and the bridge remembers it, even when Shutdown has
\* already run; or the child cannot be started.
startManagedCore ==
    /\ phase # "off" /\ startup = "starting"
    /\ startup' = "done"
    /\ \/ \E p \in Proc :
             /\ core[p] = "none"
             /\ core' = [core EXCEPT ![p] = "starting"]
             /\ children' = children \cup {p}
             /\ bridge' = [bridge EXCEPT !.core = p, !.child = p, !.coreExited = FALSE]
       \/ /\ bridge' = [bridge EXCEPT !.startupErr = TRUE]
          /\ UNCHANGED <<core, children>>
    /\ UNCHANGED <<mode, cancelled, phase, stopping, quit, call, configured,
                   launches, abandoned>>

\* The goroutine that waits for the child, in a desktop that still runs.
recordManagedCoreExit ==
    /\ phase # "off"
    /\ bridge.child # NoProc /\ core[bridge.child] = "dead" /\ ~bridge.coreExited
    /\ bridge' = [bridge EXCEPT !.coreExited = TRUE]
    /\ quit' = (quit \/ (bridge.ready /\ ~bridge.shuttingDown))
    /\ UNCHANGED <<mode, core, cancelled, phase, startup, stopping, call, configured,
                   launches, children, abandoned>>

(***************************************************************************)
(* GetRuntimeConfig                                                        *)
(***************************************************************************)
callStays == UNCHANGED <<mode, core, cancelled, phase, startup, stopping, quit,
                         launches, children, abandoned>>

\* The owner token is read under the lock, and is empty while Startup has
\* not yet started the child.
GetRuntimeConfig ==
    /\ phase = "running" /\ call.pc = "idle" /\ ~bridge.startupErr
    /\ call' = [pc |-> "waiting", owner |-> bridge.core, early |-> startup # "done"]
    /\ UNCHANGED <<bridge, configured>>
    /\ callStays

\* probeVeqriCore: health, the owner proof when there is an owner, readiness.
AnswersProbe(q, owner) == core[q] = "serving" /\ owner \in {NoProc, q}

waitForVeqriCore ==
    /\ phase # "off" /\ call.pc = "waiting"
    /\ \/ /\ \E q \in Proc : AnswersProbe(q, call.owner)
          /\ call' = [call EXCEPT !.pc = "verifying"]
       \/ call' = IdleCall            \* coreDone was signalled, or 15 s are over
    /\ UNCHANGED <<bridge, configured>>
    /\ callStays

\* markCoreReady without the look at coreExited.
markCoreReadyBlindly(q) ==
    /\ bridge' = [bridge EXCEPT !.ready = TRUE]
    /\ configured' = [core |-> q, early |-> call.early]

markCoreReady(q) ==
    IF bridge.coreExited THEN UNCHANGED <<bridge, configured>>
    ELSE /\ bridge' = [bridge EXCEPT !.ready = TRUE]
         /\ configured' = [core |-> q, early |-> call.early]

\* loadAdminToken and verifyVeqriCoreCredential talk to whoever listens now.
verifyVeqriCoreCredential ==
    /\ phase # "off" /\ call.pc = "verifying"
    /\ \/ \E q \in Proc :
             /\ core[q] = "serving"
             /\ call' = [call EXCEPT !.pc = "verified", !.owner = q]
       \/ call' = IdleCall
    /\ UNCHANGED <<bridge, configured>>
    /\ callStays

configReturned ==
    /\ phase # "off" /\ call.pc = "verified"
    /\ markCoreReady(call.owner)
    /\ call' = IdleCall
    /\ callStays

(***************************************************************************)
(* Shutdown, and the end of the desktop process                            *)
(***************************************************************************)
Shutdown ==
    /\ phase = "running"
    /\ phase' = IF bridge.core = NoProc THEN "leaving" ELSE "stopping"
    /\ stopping' = bridge.core
    /\ cancelled' = cancelled \cup ({bridge.core} \ {NoProc})
    /\ bridge' = [bridge EXCEPT !.shuttingDown = TRUE, !.core = NoProc, !.ready = FALSE]
    /\ UNCHANGED <<mode, core, startup, quit, call, configured, launches, children, abandoned>>

\* A Shutdown that only closes the pipe.
shutdownDoesNotWait ==
    /\ phase = "stopping"
    /\ UNCHANGED core
    /\ phase' = "leaving"
    /\ stopping' = NoProc
    /\ UNCHANGED <<mode, cancelled, startup, bridge, quit, call, configured, launches,
                   children, abandoned>>

\* The child is gone, or is killed after 12 s.
shutdownWaits ==
    /\ phase = "stopping"
    /\ core' = [core EXCEPT ![stopping] = "dead"]
    /\ phase' = "leaving"
    /\ stopping' = NoProc
    /\ UNCHANGED <<mode, cancelled, startup, bridge, quit, call, configured, launches,
                   children, abandoned>>

\* The process ends, after Shutdown or by a crash.  The system closes the
\* write end of the pipe of a child that is still remembered.
desktopEnds ==
    /\ phase # "off"
    /\ phase' = "off"
    /\ startup' = "idle"
    /\ call' = IdleCall
    /\ LET left == ({bridge.core} \cup (IF phase = "stopping" THEN {stopping} ELSE {}))
                      \ {NoProc}
       IN /\ cancelled' = cancelled \cup left
          /\ abandoned' = abandoned \cup left
    /\ bridge' = NewBridge
    /\ stopping' = NoProc
    /\ configured' = Unconfigured
    /\ quit' = FALSE
    /\ UNCHANGED <<mode, core, launches, children>>

ManagedNext ==
    \/ \E p \in Proc :
          \/ coreListens(p)
          \/ coreOpens(p)
          \/ coreServes(p)
          \/ coreDrains(p)
          \/ coreExits(p)
          \/ serviceStarts(p)
          \/ coreSignalled(p)
    \/ Startup
    \/ startupProbe
    \/ startManagedCore
    \/ recordManagedCoreExit
    \/ GetRuntimeConfig
    \/ waitForVeqriCore
    \/ verifyVeqriCoreCredential
    \/ configReturned
    \/ Shutdown
    \/ shutdownWaits
    \/ desktopEnds

ManagedSpec == ManagedInit /\ [][ManagedNext]_managedVars

(***************************************************************************)
(* Claims                                                                  *)
(***************************************************************************)
\* At most one Core works on the database.  Two have it open only while one
\* of them drains; and if the desktop started both, it left one behind
\* without waiting: it crashed, or was closed while Startup was starting it.
OneActiveCore ==
    \A p, q \in Proc :
       p # q /\ StoreOpen(p) /\ StoreOpen(q) =>
          /\ "draining" \in {core[p], core[q]}
          /\ {p, q} \subseteq children => {p, q} \cap abandoned # {}

\* In managed mode the window is configured with the child of this desktop,
\* unless the call began before Startup had started it, or the child is on
\* its way out: then LostCoreQuits takes over.
WindowServedByOwnCore ==
    (mode = "managed" /\ configured.core # NoProc /\ ~configured.early) =>
       /\ bridge.child # NoProc
       /\ configured.core = bridge.child \/ core[bridge.child] \in {"draining", "dead"}

\* A window that was configured does not outlive its Core: whichever of
\* markCoreReady and recordManagedCoreExit comes second notices the other.
LostCoreQuits ==
    (phase = "running" /\ bridge.ready /\ bridge.coreExited) => quit

\* A managed window is served by the child of its desktop and goes with it.
WindowHasItsCore == WindowServedByOwnCore /\ LostCoreQuits
=============================================================================
