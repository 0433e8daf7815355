---------------------------- MODULE Transcripts ----------------------------
(***************************************************************************)
(* Where the text of a request is kept and how it is removed: the          *)
(* conversations, turns, events and task graphs of core/persistence, seen  *)
(* through the content they hold.  A request is one idempotency key of one *)
(* source; its row collects the event, the task graph the event caused and *)
(* its turns.  Tasks follow the lifecycle of TaskStore, reduced to what    *)
(* decides whether a graph may be scrubbed, expired or retried.            *)
(***************************************************************************)
EXTENDS FiniteSets, Naturals

CONSTANTS
    Conversation,   \* external keys
    Request,        \* <<source, idempotency key>> of the events
    ConversationOf, \* conversation_key of each request
    Child,          \* names of the children of a graph
    Delegates,      \* delegated children of each request's graph
    External,       \* requests answered through a connector without simulator
    MaxRetries      \* max_retries of a task

ASSUME RequestAssumption ==
    /\ ConversationOf \in [Request -> Conversation]
    /\ Delegates \in [Request -> SUBSET Child] /\ "root" \notin Child
    /\ External \subseteq Request
    /\ MaxRetries \in Nat

VARIABLES
    conv,   \* rows of conversations: there, retained, title
    row,    \* rows of each request: event, task graph, turns
    device, \* durable transcript default of the device
    owed    \* roots whose caller has yet to call ScrubTerminalTaskGraph

transcriptVars == <<conv, row, device, owed>>

Text     == "text"       \* what the user wrote or an agent answered
Disabled == "disabled"   \* '[transcript retention disabled]'
Expired  == "expired"    \* expiredContentMarker
Blank    == "blank"      \* '{}' and empty columns

Ended     == {"completed", "partial", "failed", "cancelled"}
Retriable == {"partial", "failed", "cancelled"}

Node(r)     == {"root"} \cup Delegates[r]
Caused(r)   == row[r].node["root"] # "absent"
GraphOver(g) == \A n \in DOMAIN g.node : g.node[n] \in Ended
Of(c)       == {r \in Request : ConversationOf[r] = c}
Retained(r) == conv[ConversationOf[r]].retained

NoRow(r) == [status |-> "absent", payload |-> Blank, made |-> 0,
             node |-> [n \in Node(r) |-> "absent"], retry |-> [n \in Node(r) |-> 0],
             goal |-> Blank, out |-> {}, turns |-> {}, delivery |-> "none"]

-----------------------------------------------------------------------------
(* Removing content.  Each operator maps rows to rows and is used inside   *)
(* the transaction that calls it.                                          *)

terminalTaskGraphSafeToScrub(g) == GraphOver(g)

scrubTerminalTaskGraphContent(g) == [g EXCEPT !.goal = Disabled, !.out = {}]

EventPayloadsCleared(rows, c) ==
    [r \in Request |-> IF r \in Of(c) THEN [rows[r] EXCEPT !.payload = Blank] ELSE rows[r]]

scrubTerminalConversationTasks(rows, c) ==
    [r \in Request |-> IF r \in Of(c) /\ terminalTaskGraphSafeToScrub(rows[r])
                       THEN scrubTerminalTaskGraphContent(rows[r]) ELSE rows[r]]

TurnsDeleted(rows, c) ==
    [r \in Request |-> IF r \in Of(c) THEN [rows[r] EXCEPT !.turns = {}] ELSE rows[r]]

DisabledRows(rows, c) ==
    scrubTerminalConversationTasks(EventPayloadsCleared(TurnsDeleted(rows, c), c), c)

disableTranscriptRetention(conversation) ==
    [conversation EXCEPT !.retained = FALSE, !.title = Disabled]

\* The scrub of one graph: nothing unless its conversation is not retained
\* and every node has ended.
GraphScrubbed(rows, r) ==
    IF Retained(r) \/ ~terminalTaskGraphSafeToScrub(rows[r]) THEN rows
    ELSE LET cleared == EventPayloadsCleared(rows, ConversationOf[r])
         IN  [cleared EXCEPT ![r] = scrubTerminalTaskGraphContent(@)]

ScrubTerminalTaskGraph(r) ==
    /\ r \in owed
    /\ owed' = owed \ {r}
    /\ row' = GraphScrubbed(row, r)
    /\ UNCHANGED <<conv, device>>

-----------------------------------------------------------------------------
(* Policy                                                                  *)

setTranscriptRetention(c, enabled) ==
    IF enabled
    THEN /\ conv' = [conv EXCEPT ![c].retained = TRUE]
         /\ UNCHANGED row
    ELSE /\ conv' = [conv EXCEPT ![c] = disableTranscriptRetention(@)]
         /\ row' = DisabledRows(row, c)

SetTranscriptRetentionWithAudit(c, enabled) ==
    /\ conv[c].there
    /\ setTranscriptRetention(c, enabled)
    /\ UNCHANGED <<device, owed>>

\* named: the command names its current conversation
SetDeviceTranscriptRetention(c, named, enabled) ==
    /\ IF named THEN conv[c].there /\ setTranscriptRetention(c, enabled)
                ELSE UNCHANGED <<conv, row>>
    /\ device' = enabled
    /\ UNCHANGED owed

-----------------------------------------------------------------------------
(* Execution of the graph, as far as it moves content                      *)

Claim(r, n) ==
    /\ row[r].node[n] = "queued"
    /\ n = "root" => \A d \in Delegates[r] : row[r].node[d] \in Ended
    /\ row' = [row EXCEPT ![r].node[n] = "running"]
    /\ UNCHANGED <<conv, device, owed>>

CompleteTaskWithArtifacts(r, n) ==
    /\ n # "root" /\ row[r].node[n] \in {"running", "cancelling"}
    /\ row' = [row EXCEPT ![r].node[n] = "completed", ![r].out = @ \cup {n}]
    /\ UNCHANGED <<conv, device, owed>>

RootStatus(r) ==
    IF \A d \in Delegates[r] : row[r].node[d] = "completed" THEN "completed" ELSE "partial"

Outcome(r) ==
    [row[r] EXCEPT !.node["root"] = RootStatus(r),
                   !.out = @ \cup {"root"},
                   !.turns = IF Retained(r) THEN @ \cup {"assistant"} ELSE @,
                   !.delivery = IF r \in External THEN "PENDING" ELSE @]

CompleteTaskWithOutcome(r) ==
    /\ row[r].node["root"] \in {"running", "cancelling"}
    /\ LET stored == [row EXCEPT ![r] = Outcome(r)] IN
       row' = IF Retained(r) THEN stored
              ELSE GraphScrubbed(EventPayloadsCleared(stored, ConversationOf[r]), r)
    /\ UNCHANGED <<conv, device, owed>>

FailTaskUnscrubbed(r, n) ==
    /\ row[r].node[n] \in {"running", "cancelling"}
    /\ row' = [row EXCEPT ![r].node[n] = "failed", ![r].out = @ \cup {n}]
    /\ UNCHANGED <<conv, device, owed>>

FailTask(r, n) ==
    /\ row[r].node[n] \in {"running", "cancelling"}
    /\ row' = [row EXCEPT ![r].node[n] = "failed", ![r].out = @ \cup {n}]
    /\ owed' = owed \cup {r}
    /\ UNCHANGED <<conv, device>>

MarkTaskCancelled(r, n) ==
    /\ row[r].node[n] = "cancelling"
    /\ row' = [row EXCEPT ![r].node[n] = "cancelled"]
    /\ owed' = owed \cup {r}
    /\ UNCHANGED <<conv, device>>

RequestTaskGraphCancellation(r) ==
    /\ Caused(r) /\ ~GraphOver(row[r])
    /\ row' = [row EXCEPT ![r].node = [n \in Node(r) |->
                 IF @[n] = "queued" THEN "cancelled"
                 ELSE IF @[n] = "running" THEN "cancelling" ELSE @[n]]]
    /\ owed' = owed \cup {r}
    /\ UNCHANGED <<conv, device>>

explicitRetryEligibleExpired(r, n) ==
    row[r].retry[n] < MaxRetries /\ row[r].node[n] \in Retriable /\ Retained(r)

explicitRetryEligible(r, n) ==
    /\ row[r].goal # Expired
    /\ row[r].retry[n] < MaxRetries
    /\ row[r].node[n] \in Retriable
    /\ Retained(r)

resetExplicitRetryTask(r, N) ==
    row' = [row EXCEPT ![r].node = [n \in Node(r) |-> IF n \in N THEN "queued" ELSE @[n]],
                       ![r].retry = [n \in Node(r) |-> IF n \in N THEN @[n] + 1 ELSE @[n]],
                       ![r].out = @ \ N]

retryGraphRoot(r) ==
    /\ explicitRetryEligible(r, "root")
    /\ LET again == {d \in Delegates[r] : explicitRetryEligible(r, d)} IN
       /\ again = {} /\ Delegates[r] # {} => row[r].node["root"] # "partial"
       /\ resetExplicitRetryTask(r, again \cup {"root"})
    /\ UNCHANGED <<conv, device, owed>>

retryGraphChild(r, n) ==
    /\ n # "root" /\ explicitRetryEligible(r, n)
    /\ \/ row[r].node["root"] = "queued" /\ resetExplicitRetryTask(r, {n})
       \/ explicitRetryEligible(r, "root") /\ resetExplicitRetryTask(r, {"root", n})
    /\ UNCHANGED <<conv, device, owed>>

-----------------------------------------------------------------------------
(* Expiry and restart                                                      *)

\* Work the sweep may not touch: unfinished, or its delivery still open.
Protected(r) == Caused(r) /\ (~GraphOver(row[r]) \/ row[r].delivery = "PENDING")

Busy(c) == \E r \in Of(c) : Protected(r)

\* What is left of an expired graph.
GraphSwept(g) == [g EXCEPT !.goal = Expired, !.out = {}]

\* received: the requests received before the cutoff; over: those of them
\* whose graph also ended before it; stale: conversations untouched since.
ApplyRetentionSweep(received, over, stale) ==
    /\ over \subseteq received
    /\ \A c \in stale : {r \in Of(c) : row[r].status # "absent"} \subseteq received
    /\ conv' = [c \in Conversation |->
         IF c \in stale /\ conv[c].there /\ conv[c].retained /\ ~Busy(c)
         THEN [conv[c] EXCEPT !.title = Expired] ELSE conv[c]]
    /\ row' = [r \in Request |->
         LET quiet  == r \in received /\ ~Busy(ConversationOf[r])
             turns  == IF ~quiet THEN row[r].turns
                       ELSE row[r].turns \ ({"user"} \cup IF r \in over THEN {"assistant"} ELSE {})
             swept  == [row[r] EXCEPT !.turns = turns,
                          !.payload = IF quiet /\ @ # Blank /\ row[r].status # "PENDING" THEN Blank ELSE @]
         IN  IF r \in over /\ Caused(r) /\ ~Protected(r)
             THEN GraphSwept(swept) ELSE swept]
    /\ UNCHANGED <<device, owed>>

InterruptedNode(r, n) ==
    CASE row[r].node[n] = "cancelling" -> "cancelled"
      [] row[r].node[n] = "running" ->
            IF row[r].retry[n] < MaxRetries THEN "queued" ELSE "failed"
      [] OTHER -> row[r].node[n]

Interrupted(r) ==
    [row[r] EXCEPT
        !.node = [n \in Node(r) |-> InterruptedNode(r, n)],
        !.retry = [n \in Node(r) |-> IF row[r].node[n] = "running" /\ @[n] < MaxRetries
                                     THEN @[n] + 1 ELSE @[n]],
        !.out = @ \cup {n \in Node(r) : row[r].node[n] = "running" /\ row[r].retry[n] >= MaxRetries}]

ScrubUnansweredTaskGraphs(rows) ==
    [r \in Request |->
        IF GraphOver(rows[r]) /\ ~Retained(r) /\ \A n \in Node(r) : rows[r].node[n] # "completed"
        THEN scrubTerminalTaskGraphContent([rows[r] EXCEPT !.payload = Blank]) ELSE rows[r]]

ScrubTerminalNonRetainedTaskGraphs(rows) ==
    LET due == {r \in Request : rows[r].node["root"] # "absent" /\ GraphOver(rows[r]) /\ ~Retained(r)}
    IN  [r \in Request |->
            LET cleared == IF \E d \in due : ConversationOf[d] = ConversationOf[r]
                           THEN [rows[r] EXCEPT !.payload = Blank] ELSE rows[r]
            IN  IF r \in due THEN scrubTerminalTaskGraphContent(cleared) ELSE cleared]

RecoverInterruptedTasks ==
    /\ row' = ScrubTerminalNonRetainedTaskGraphs([r \in Request |-> Interrupted(r)])
    /\ UNCHANGED <<conv, device>>
=============================================================================
