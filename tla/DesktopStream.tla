--------------------------- MODULE DesktopStream ---------------------------
(***************************************************************************)
(* The desktop application's view of Core: a stream of events that only    *)
(* say "something changed, as of this revision", and snapshots fetched     *)
(* when they arrive (internal/api/desktop.go, DesktopContext.tsx).         *)
(***************************************************************************)
EXTENDS EventHub, FiniteSets

CONSTANTS
    MaxRefresh,  \* bound on the refreshes the client starts
    MaxDrops     \* bound on the streams the network breaks

Desk == "desktop"   \* the subscriber

ASSUME DeskAssumption == Desk \in Subscriber /\ MaxRefresh \in Nat /\ MaxDrops \in Nat

VARIABLES
    desktopRevision, \* the process-wide counter
    stream,          \* closed, accepted, or live once subscribed
    wire,            \* revisions of the event frames on their way
    refreshSequence, \* number of the client's latest refresh
    loads,           \* snapshots being fetched
    snapshot,        \* snapshotRef: what the client shows
    refreshTimer,    \* a debounced refresh is scheduled
    drops

deskVars == <<desktopRevision, stream, wire, refreshSequence, loads, snapshot, refreshTimer, drops>>

Unread == [i \in {} |-> 0]

DeskInit ==
    /\ desktopRevision = 0 /\ stream = "closed" /\ wire = <<>>
    /\ refreshSequence = 0 /\ loads = {} /\ refreshTimer = FALSE /\ drops = 0
    /\ snapshot = [revision |-> 0, rows |-> Unread, live |-> FALSE]

nextDesktopRevision == desktopRevision + 1

-----------------------------------------------------------------------------
(* The client                                                              *)

refresh ==
    /\ refreshSequence < MaxRefresh
    /\ refreshSequence' = refreshSequence + 1
    /\ loads' = loads \cup {[seq |-> refreshSequence + 1, revision |-> 0, rows |-> Unread, live |-> FALSE]}

\* onopen of the reconnecting stream; Core has accepted and not yet subscribed.
onopen ==
    /\ stream = "closed" /\ wire = <<>>
    /\ stream' = "accepted"
    /\ refresh
    /\ UNCHANGED <<hubVars, desktopRevision, wire, snapshot, refreshTimer, drops>>

onEvent ==
    /\ wire # <<>> /\ wire' = Tail(wire)
    /\ refreshTimer' = (refreshTimer \/ Head(wire) >= snapshot.revision)
    /\ UNCHANGED <<hubVars, desktopRevision, stream, refreshSequence, loads, snapshot, drops>>

timerFires ==
    /\ refreshTimer /\ refreshTimer' = FALSE
    /\ refresh
    /\ UNCHANGED <<hubVars, desktopRevision, stream, wire, snapshot, drops>>

Superseded(load) == load.seq # refreshSequence

\* Every table is read, and the answer put together.
Assembled(load) == DOMAIN load.rows = Item

snapshotLoaded(load) ==
    /\ load \in loads /\ Assembled(load)
    /\ loads' = loads \ {load}
    /\ snapshot' = IF Superseded(load) THEN snapshot
                   ELSE [revision |-> load.revision, rows |-> load.rows, live |-> load.live]
    /\ UNCHANGED <<hubVars, desktopRevision, stream, wire, refreshSequence, refreshTimer, drops>>

-----------------------------------------------------------------------------
(* Core                                                                    *)

\* desktopSnapshot takes its revision first and then reads table by table.
takeRevision(load) ==
    /\ load \in loads /\ load.revision = 0
    /\ desktopRevision' = nextDesktopRevision
    /\ loads' = (loads \ {load}) \cup {[load EXCEPT !.revision = nextDesktopRevision]}
    /\ UNCHANGED <<hubVars, stream, wire, refreshSequence, snapshot, refreshTimer, drops>>

RevisionTaken(load) == load.revision # 0

readRow(load, i) ==
    /\ load \in loads /\ RevisionTaken(load) /\ i \notin DOMAIN load.rows
    /\ loads' = (loads \ {load}) \cup
         {[load EXCEPT !.rows = [j \in DOMAIN load.rows \cup {i} |->
                                   IF j = i THEN version[i] ELSE load.rows[j]],
                       !.live = stream = "live" /\ (load.rows = Unread \/ @)]}
    /\ UNCHANGED <<hubVars, desktopRevision, stream, wire, refreshSequence, snapshot, refreshTimer, drops>>

subscribeDesktop ==
    /\ stream = "accepted" /\ stream' = "live"
    /\ Subscribe(Desk)
    /\ UNCHANGED <<desktopRevision, wire, refreshSequence, loads, snapshot, refreshTimer, drops>>

writeDesktopEvent ==
    /\ stream = "live" /\ Take(Desk)
    /\ desktopRevision' = nextDesktopRevision
    /\ wire' = Append(wire, nextDesktopRevision)
    /\ UNCHANGED <<stream, refreshSequence, loads, snapshot, refreshTimer, drops>>

\* The hub closed the channel: the handler returns after the last event.
streamEnds ==
    /\ stream = "live" /\ Drained(Desk)
    /\ stream' = "closed"
    /\ UNCHANGED <<hubVars, desktopRevision, wire, refreshSequence, loads, snapshot, refreshTimer, drops>>

networkDrops ==
    /\ stream # "closed" /\ drops < MaxDrops
    /\ drops' = drops + 1
    /\ stream' = "closed" /\ wire' = <<>>
    /\ Unsubscribe(Desk)
    /\ UNCHANGED <<desktopRevision, refreshSequence, loads, snapshot, refreshTimer>>

DeskNext ==
    \/ HubWork /\ UNCHANGED deskVars
    \/ onopen \/ onEvent \/ timerFires
    \/ \E load \in loads : snapshotLoaded(load) \/ takeRevision(load) \/ \E i \in Item : readRow(load, i)
    \/ subscribeDesktop \/ writeDesktopEvent \/ streamEnds \/ networkDrops

-----------------------------------------------------------------------------
DeskSettled ==
    AllPublished /\ stream = "live" /\ Desk \in linked /\ queue[Desk] = <<>> /\ wire = <<>>
        /\ loads = {} /\ ~refreshTimer

\* Once the stream is quiet the desktop shows the committed rows: an event it
\* ignored as older than its snapshot, a reload another one overtook and a
\* stream the hub cut off for falling behind lose no change.  The snapshot
\* must have been read while the stream was subscribed: the client reloads as
\* soon as the socket opens, which is before Core subscribes it.
DesktopShowsStore == DeskSettled /\ snapshot.live => snapshot.rows = version
=============================================================================
