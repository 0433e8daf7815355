--------------------------- MODULE DeviceChannel ---------------------------
(***************************************************************************)
(* The stream between Core and a paired phone (internal/api/android.go,    *)
(* OkHttpCoreTransport.kt, VeqriRepository.kt): catch-up and deltas down,  *)
(* the commit-acknowledged privacy command up, and what the client may     *)
(* believe after a timeout, a lost stream or a full queue.                 *)
(***************************************************************************)
EXTENDS EventHub

CONSTANTS
    InboxSize,     \* EVENT_QUEUE_CAPACITY
    MaxStreams,    \* bound on the sockets the client opens
    MaxCommands    \* bound on the privacy commands it sends

Phone == "phone"   \* the subscriber

ASSUME PhoneAssumption == Phone \in Subscriber /\ InboxSize \in Nat /\ MaxStreams \in Nat /\ MaxCommands \in Nat

VARIABLES
    serving,    \* Core's handler of the current socket: none, subscribed, streaming
    down,       \* frames Core has written to the current socket
    up,         \* commands read from no socket yet: <<generation, value>>
    policy,     \* transcript retention stored for the device
    overtaken,  \* a command of an earlier stream committed after the last catch-up
    socket,     \* the client holds a socket
    socketGeneration,
    inbox,      \* eventChannel
    backlogged, \* the client closes the socket because its queue was full
    view,       \* rows the client shows
    pendingCommit,          \* value the client waits to see committed, or none
    retainTranscript,       \* the client's preference
    retentionOutcomeUnknown,
    awaitingAuthoritativeSnapshot,
    commands    \* privacy commands sent

phoneVars == <<serving, down, up, policy, overtaken, socket, socketGeneration, inbox, backlogged, view,
               pendingCommit, retainTranscript, retentionOutcomeUnknown,
               awaitingAuthoritativeSnapshot, commands>>

coreSide   == <<serving, down, up, policy, overtaken>>
clientSide == <<socket, socketGeneration, inbox, backlogged, view, pendingCommit, retainTranscript,
                retentionOutcomeUnknown, awaitingAuthoritativeSnapshot, commands>>

NoCommit == "none"

PhoneInit ==
    /\ serving = "none" /\ down = <<>> /\ up = {} /\ policy = TRUE /\ overtaken = FALSE
    /\ socket = FALSE /\ socketGeneration = 0 /\ inbox = <<>> /\ backlogged = FALSE
    /\ view = version
    /\ pendingCommit = NoCommit /\ retainTranscript = TRUE
    /\ retentionOutcomeUnknown = FALSE /\ awaitingAuthoritativeSnapshot = FALSE
    /\ commands = 0

-----------------------------------------------------------------------------
(* Core                                                                    *)

\* The handler subscribes before it reads the rows of the catch-up, so that a
\* change falls into one or the other.
handleDeviceWebSocket ==
    /\ socket /\ serving = "none" /\ down = <<>> /\ ~backlogged
    /\ serving' = "subscribed"
    /\ Subscribe(Phone)
    /\ UNCHANGED <<down, up, policy, overtaken, clientSide>>

androidCatchup ==
    /\ serving = "subscribed" /\ serving' = "streaming"
    /\ down' = Append(down, [type |-> "snapshot", rows |-> version, retention |-> policy])
    /\ overtaken' = FALSE
    /\ UNCHANGED <<hubVars, up, policy, clientSide>>

androidEvent ==
    /\ serving = "streaming" /\ Take(Phone)
    /\ down' = Append(down, [type |-> "changed", row |-> Head(queue[Phone])])
    /\ UNCHANGED <<serving, up, policy, overtaken, clientSide>>

handlerReturns ==
    /\ serving = "streaming" /\ Drained(Phone)
    /\ serving' = "ended"
    /\ UNCHANGED <<hubVars, down, up, policy, overtaken, clientSide>>

\* handleDeviceCommand of the privacy command: the value and its audit entry
\* commit together, or neither does.
setTranscriptRetention(c, outcome) ==
    /\ policy' = IF outcome = "COMMITTED" THEN c[2] ELSE policy
    /\ overtaken' = (overtaken \/ (outcome = "COMMITTED" /\ c[1] # socketGeneration))

\* A command is read from its socket also when the client has closed it
\* meanwhile: it was in the buffer before the close frame.  The rate limiter
\* answers without a result.
readDeviceCommands(c, outcome) ==
    /\ c \in up /\ up' = up \ {c}
    /\ setTranscriptRetention(c, outcome)
    /\ down' = IF outcome # "limited" /\ c[1] = socketGeneration /\ serving = "streaming"
               THEN Append(down, [type |-> "result", committed |-> outcome = "COMMITTED"]) ELSE down
    /\ UNCHANGED <<hubVars, serving, clientSide>>

-----------------------------------------------------------------------------
(* OkHttpCoreTransport                                                     *)

openSocket ==
    /\ ~socket /\ socketGeneration < MaxStreams
    /\ backlogged => Len(inbox) * 2 <= InboxSize
    /\ socket' = TRUE /\ backlogged' = FALSE
    /\ socketGeneration' = socketGeneration + 1
    /\ awaitingAuthoritativeSnapshot' = TRUE
    /\ UNCHANGED <<hubVars, coreSide, inbox, view, pendingCommit, retainTranscript,
                   retentionOutcomeUnknown, commands>>

\* onMessage; a full queue closes the socket and nothing more is accepted.
enqueue ==
    /\ socket /\ down # <<>> /\ ~backlogged
    /\ down' = Tail(down)
    /\ IF Len(inbox) < InboxSize
       THEN /\ inbox' = Append(inbox, [event |-> Head(down), generation |-> socketGeneration])
            /\ UNCHANGED backlogged
       ELSE backlogged' = TRUE /\ UNCHANGED inbox
    /\ UNCHANGED <<hubVars, serving, up, policy, overtaken, socket, socketGeneration, view, pendingCommit,
                   retainTranscript, retentionOutcomeUnknown, awaitingAuthoritativeSnapshot, commands>>

failPendingCommandCommits ==
    /\ pendingCommit' = NoCommit
    /\ retentionOutcomeUnknown' = (retentionOutcomeUnknown \/ pendingCommit # NoCommit)

\* onClosed and onFailure: the network broke, Core's handler returned, or the
\* client closed the socket itself.
onClosed ==
    /\ socket /\ socket' = FALSE
    /\ socketGeneration' = socketGeneration + 1
    /\ failPendingCommandCommits
    /\ serving' = "none" /\ down' = <<>>
    /\ Unsubscribe(Phone)
    /\ UNCHANGED <<up, policy, overtaken, inbox, backlogged, view, retainTranscript,
                   awaitingAuthoritativeSnapshot, commands>>

shouldDeliverAny(generation) == TRUE

shouldDeliverSocketEvent(generation) == generation = socketGeneration

commitResult(committed) ==
    /\ pendingCommit' = NoCommit
    /\ retainTranscript' = IF committed /\ pendingCommit # NoCommit THEN pendingCommit = "on"
                                                                    ELSE retainTranscript
    /\ UNCHANGED <<view, retentionOutcomeUnknown, awaitingAuthoritativeSnapshot>>

applyAuthoritativeSnapshot(event) ==
    /\ view' = event.rows
    /\ retainTranscript' = event.retention
    /\ retentionOutcomeUnknown' = FALSE
    /\ awaitingAuthoritativeSnapshot' = (awaitingAuthoritativeSnapshot /\ ~socket)
    /\ UNCHANGED pendingCommit

handleEvent(event) ==
    CASE event.type = "snapshot" -> applyAuthoritativeSnapshot(event)
      [] event.type = "changed"  ->
            /\ view' = [view EXCEPT ![event.row.item] = event.row.version]
            /\ UNCHANGED <<pendingCommit, retainTranscript, retentionOutcomeUnknown, awaitingAuthoritativeSnapshot>>
      [] event.type = "result"   -> commitResult(event.committed)

deliverEvent ==
    /\ inbox # <<>> /\ inbox' = Tail(inbox)
    /\ IF shouldDeliverSocketEvent(Head(inbox).generation)
       THEN handleEvent(Head(inbox).event)
       ELSE UNCHANGED <<view, pendingCommit, retainTranscript, retentionOutcomeUnknown,
                        awaitingAuthoritativeSnapshot>>
    /\ UNCHANGED <<hubVars, coreSide, socket, socketGeneration, backlogged, commands>>

-----------------------------------------------------------------------------
(* VeqriRepository.setRetainTranscript over sendAwaitingCommit             *)

requireRetentionOutcomeKnown == ~retentionOutcomeUnknown /\ ~awaitingAuthoritativeSnapshot

setRetainTranscript(value) ==
    /\ pendingCommit = NoCommit /\ requireRetentionOutcomeKnown
    /\ socket /\ commands < MaxCommands
    /\ commands' = commands + 1
    /\ up' = up \cup {<<socketGeneration, value>>}
    /\ pendingCommit' = IF value THEN "on" ELSE "off"
    /\ UNCHANGED <<hubVars, serving, down, policy, overtaken, socket, socketGeneration, inbox, backlogged, view,
                   retainTranscript, retentionOutcomeUnknown, awaitingAuthoritativeSnapshot>>

\* The wait ends after COMMAND_COMMIT_TIMEOUT_MILLIS and the client closes the
\* socket; the close takes effect in onClosed.
commitTimesOut ==
    /\ pendingCommit # NoCommit
    /\ failPendingCommandCommits
    /\ UNCHANGED <<hubVars, coreSide, socket, socketGeneration, inbox, backlogged, view,
                   retainTranscript, awaitingAuthoritativeSnapshot, commands>>

PhoneNext ==
    \/ HubWork /\ UNCHANGED phoneVars
    \/ handleDeviceWebSocket \/ androidCatchup \/ androidEvent \/ handlerReturns
    \/ \E c \in up, outcome \in {"COMMITTED", "REJECTED", "limited"} : readDeviceCommands(c, outcome)
    \/ openSocket \/ enqueue \/ onClosed \/ deliverEvent
    \/ \E value \in BOOLEAN : setRetainTranscript(value)
    \/ commitTimesOut

PhoneSpec == HubInit /\ PhoneInit /\ [][PhoneNext]_<<hubVars, phoneVars>>

-----------------------------------------------------------------------------
PhoneSettled ==
    AllPublished /\ serving = "streaming" /\ Phone \in linked /\ queue[Phone] = <<>>
        /\ down = <<>> /\ inbox = <<>> /\ ~backlogged

\* Once the stream is quiet the phone shows the committed rows, also after it
\* was cut off by the hub, ran into its own full queue or changed streams with
\* old events still queued.  The one exception is a row whose writers
\* published in another order than they committed.
PhoneShowsStore ==
    PhoneSettled => \A i \in Item : view[i] = version[i] \/ published[i] # version[i]

\* When the phone takes its privacy preference for settled, it is the one Core
\* stores: a timeout, a lost stream and a late result never leave it with a
\* belief of its own.  A command of a closed stream that commits after the
\* catch-up of the next one is excepted: nothing tells the phone of it.
PrivacyAgreed ==
    requireRetentionOutcomeKnown /\ pendingCommit = NoCommit /\ ~overtaken => retainTranscript = policy
=============================================================================
