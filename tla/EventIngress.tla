---------------------------- MODULE EventIngress ----------------------------
(***************************************************************************)
(* How requests become durable work: /v1/ask, the connectors, local        *)
(* events, replay and the device's send_text all end in submitAsk, which   *)
(* calls Store.CreateAskWork.  The handlers run concurrently with each     *)
(* other, with the recovery of pending events after a start and with the   *)
(* policy changes, workers and sweeps of Transcripts; senders repeat a     *)
(* request whose answer they lost.                                         *)
(***************************************************************************)
EXTENDS Transcripts

CONSTANTS
    Handler,          \* goroutines serving requests
    Notice,           \* local events without text or goal
    DeviceText,       \* requests the device sends as conversation.send_text
    Stored,           \* requests an earlier build may leave PENDING with text
    RetainDefault,    \* config.TranscriptRetention
    Budgets           \* bounds on repeated or exceptional steps, one per scenario

Kinds == {"left", "submit", "notice", "work", "policy", "cancel", "retry", "sweep", "crash"}

ASSUME IngressAssumption ==
    /\ Notice \subseteq Request /\ DeviceText \subseteq Request /\ Stored \subseteq Request
    /\ RetainDefault \in BOOLEAN
    /\ Budgets \subseteq [Kinds -> Nat]

VARIABLES
    call,     \* the request each handler works on, and how far it is
    pending,  \* events recoverPendingEvents has listed and not yet handled
    listed,   \* recoverPendingEvents has listed the events of this start
    up,       \* Core is running
    budget

ingressVars == <<call, pending, listed, up>>
vars == <<transcriptVars, ingressVars, budget>>

Recovery == "recovery"       \* the goroutine of recoverPendingEvents
Caller   == Handler \cup {Recovery}

Idle == [at |-> "idle"]

Spend(kind) == budget[kind] > 0 /\ budget' = [budget EXCEPT ![kind] = @ - 1]

Init ==
    /\ conv = [c \in Conversation |-> [there |-> FALSE, retained |-> FALSE, title |-> Blank]]
    /\ budget \in Budgets
    /\ \E left \in SUBSET Stored :
         /\ Cardinality(left) = budget["left"]
         /\ row = [r \in Request |-> IF r \in left
                     THEN [NoRow(r) EXCEPT !.status = "PENDING", !.payload = Text] ELSE NoRow(r)]
    /\ device = RetainDefault
    /\ owed = {}
    /\ call = [h \in Caller |-> Idle]
    /\ pending = {} /\ listed = FALSE /\ up = TRUE

-----------------------------------------------------------------------------
(* Callers of submitAsk.  retain is the policy the record is built with;   *)
(* apply says that the request named it (RetainTranscript # nil).          *)

Submit(h, r, retain, apply) ==
    call' = [call EXCEPT ![h] = [at |-> "lookup", r |-> r, retain |-> retain,
                                 apply |-> apply, recover |-> FALSE]]

Arrives(h, r) ==
    /\ up /\ call[h] = Idle /\ Spend("submit")
    /\ r \notin Notice \cup DeviceText
    /\ UNCHANGED <<transcriptVars, pending, listed, up>>

\* /v1/ask may name the policy.
handleAsk(h, r) ==
    /\ Arrives(h, r)
    /\ \/ Submit(h, r, RetainDefault, FALSE)
       \/ \E retain \in BOOLEAN : Submit(h, r, retain, TRUE)

\* A verified message of Slack, Mattermost or the webhook, and a local event
\* with a goal: none of them names a policy.  Its identifier is the request's key,
\* so that a message delivered again is the same request.
handleConnectorEvent(h, r) == Arrives(h, r) /\ Submit(h, r, RetainDefault, FALSE)

\* The simulator makes an identifier up where none is given; such a message is a
\* request of its own.
handleConnectorSimulator(h, r) == Arrives(h, r) /\ Submit(h, r, RetainDefault, FALSE)

\* conversation.send_text, up to the reading of Core's policies.  A command
\* that names its conversation is cut down to that conversation's policy.
deviceTranscriptRetention(override) == override /\ device

sendText(h, r, named, override) ==
    /\ up /\ call[h] = Idle /\ Spend("submit")
    /\ r \in DeviceText
    /\ named => conv[ConversationOf[r]].there
    /\ Submit(h, r, deviceTranscriptRetention(override) /\ (named => Retained(r)), TRUE)
    /\ UNCHANGED <<transcriptVars, pending, listed, up>>

\* A replay of an event whose text is still stored is a request of its own.
handleReplayEvent(h, r, again) ==
    /\ up /\ call[h] = Idle /\ Spend("submit")
    /\ again \notin Notice \cup DeviceText \cup Stored /\ again # r
    /\ ConversationOf[again] = ConversationOf[r]
    /\ row[r].status # "absent" /\ row[again].status = "absent"
    /\ row[r].payload = Text
    /\ Submit(h, again, RetainDefault, FALSE)
    /\ UNCHANGED <<transcriptVars, pending, listed, up>>

-----------------------------------------------------------------------------
(* Store.CreateAskWork                                                     *)

EventPayload(retain) == IF retain THEN Text ELSE Disabled

Return(h, answer) ==
    call' = [call EXCEPT ![h] =
        IF h = Recovery /\ answer # "error" THEN [at |-> "mark", r |-> call[h].r] ELSE Idle]

Proceed(h, recover) ==
    call' = [call EXCEPT ![h].at = "commit", ![h].recover = recover]

\* The event and its root task are looked up before the transaction begins.
LookupEvent(h) ==
    /\ up /\ call[h].at = "lookup"
    /\ LET e == row[call[h].r] IN
       CASE e.status = "absent"                       -> Proceed(h, FALSE)
         [] e.status # "absent" /\ Caused(call[h].r)  -> Return(h, "duplicate")
         [] e.status # "absent" /\ ~Caused(call[h].r) ->
              IF e.payload = EventPayload(call[h].retain) THEN Proceed(h, TRUE)
                                                          ELSE Return(h, "error")
    /\ UNCHANGED <<transcriptVars, pending, listed, up, budget>>

EventKeyUnchecked(c) == FALSE

\* The unique keys of events and of tasks.
EventKeyTaken(c) == ~c.recover /\ row[c.r].status # "absent"

TaskKeyTaken(c)  == c.recover /\ Caused(c.r)

UpsertedConversation(old, retain) ==
    IF ~old.there
    THEN [there |-> TRUE, retained |-> retain, title |-> EventPayload(retain)]
    ELSE [old EXCEPT !.title = IF old.retained /\ @ = Expired THEN EventPayload(retain) ELSE @]

AppliedPolicy(conversation, c) ==
    IF ~c.apply THEN conversation
    ELSE IF c.retain THEN [conversation EXCEPT !.retained = TRUE]
                     ELSE disableTranscriptRetention(conversation)

AskGraph(g, r, retained) ==
    [g EXCEPT !.status = "PROCESSED", !.made = @ + 1, !.goal = Text,
              !.node = [n \in Node(r) |-> "queued"],
              !.turns = IF retained THEN @ \cup {"user"} ELSE @]

CreateAskWork(h) ==
    /\ up /\ call[h].at = "commit"
    /\ LET c == call[h]
           k == ConversationOf[c.r]
       IN  IF EventKeyTaken(c)
           THEN /\ Return(h, IF Caused(c.r) THEN "duplicate" ELSE "error")
                /\ UNCHANGED <<conv, row>>
           ELSE IF TaskKeyTaken(c)
           THEN /\ Return(h, "error")
                /\ UNCHANGED <<conv, row>>
           ELSE LET actual   == AppliedPolicy(UpsertedConversation(conv[k], c.retain), c)
                    received == IF c.recover THEN row
                                ELSE [row EXCEPT ![c.r].payload = EventPayload(c.retain)]
                    scrubbed == IF c.apply /\ ~c.retain THEN DisabledRows(received, k) ELSE received
                IN  /\ conv' = [conv EXCEPT ![k] = actual]
                    /\ row' = [scrubbed EXCEPT ![c.r] = AskGraph(@, c.r, actual.retained)]
                    /\ Return(h, "created")
    /\ UNCHANGED <<device, owed, pending, listed, up, budget>>

-----------------------------------------------------------------------------
(* Events without work, and the events a stopped process left pending      *)

Marked(r, status) == row' = [row EXCEPT ![r].status = status]

IngestEvent(h, r) ==
    /\ up /\ call[h] = Idle /\ Spend("notice")
    /\ r \in Notice /\ row[r].status = "absent"
    /\ Marked(r, "PENDING")
    /\ call' = [call EXCEPT ![h] = [at |-> "mark", r |-> r]]
    /\ UNCHANGED <<conv, device, owed, pending, listed, up>>

MarkEventProcessed(h) ==
    /\ up /\ call[h].at = "mark"
    /\ Marked(call[h].r, "PROCESSED")
    /\ call' = [call EXCEPT ![h] = Idle]
    /\ UNCHANGED <<conv, device, owed, pending, listed, up, budget>>

ListPendingEvents ==
    /\ up /\ ~listed /\ listed' = TRUE
    /\ pending' = {<<r, row[r].payload>> : r \in {q \in Request : row[q].status = "PENDING"}}
    /\ UNCHANGED <<transcriptVars, call, up, budget>>

Recoverable(p) == p[1] \notin Notice /\ p[2] = Text

recoverPendingEvent(p) ==
    /\ up /\ call[Recovery] = Idle /\ p \in pending
    /\ pending' = pending \ {p}
    /\ IF Recoverable(p)
       THEN Submit(Recovery, p[1], RetainDefault, FALSE) /\ UNCHANGED row
       ELSE Marked(p[1], "FAILED") /\ UNCHANGED call
    /\ UNCHANGED <<conv, device, owed, listed, up, budget>>

-----------------------------------------------------------------------------
Crash ==
    /\ up /\ Spend("crash")
    /\ up' = FALSE /\ listed' = FALSE /\ pending' = {} /\ owed' = {}
    /\ call' = [h \in Caller |-> Idle]
    /\ UNCHANGED <<conv, row, device>>

Restart ==
    /\ ~up /\ up' = TRUE
    /\ RecoverInterruptedTasks
    /\ UNCHANGED <<owed, call, pending, listed, budget>>

Run(action) == up /\ action /\ UNCHANGED <<ingressVars, budget>>

Work(r) ==
    \/ Run(ScrubTerminalTaskGraph(r))
    \/ Run(CompleteTaskWithOutcome(r))
    \/ \E n \in Node(r) : \/ up /\ Spend("work") /\ Claim(r, n) /\ UNCHANGED ingressVars
                          \/ Run(CompleteTaskWithArtifacts(r, n))
                          \/ Run(FailTask(r, n))
                          \/ Run(MarkTaskCancelled(r, n))

Policy ==
    /\ up /\ Spend("policy") /\ UNCHANGED ingressVars
    /\ \E c \in Conversation, enabled \in BOOLEAN :
         \/ SetTranscriptRetentionWithAudit(c, enabled)
         \/ /\ \E r \in DeviceText : ConversationOf[r] = c
            /\ \E named \in BOOLEAN : SetDeviceTranscriptRetention(c, named, enabled)

Control(r) ==
    /\ up /\ UNCHANGED ingressVars
    /\ \/ Spend("cancel") /\ RequestTaskGraphCancellation(r)
       \/ Spend("retry") /\ retryGraphRoot(r)
       \/ Spend("retry") /\ \E n \in Delegates[r] : retryGraphChild(r, n)

Sweep ==
    /\ up /\ Spend("sweep") /\ UNCHANGED ingressVars
    /\ \E received \in SUBSET {r \in Request : row[r].status # "absent"} :
         \E over \in SUBSET {r \in received : GraphOver(row[r])}, stale \in SUBSET Conversation :
            ApplyRetentionSweep(received, over, stale)

Next ==
    \/ \E h \in Handler, r \in Request :
         \/ handleAsk(h, r)
         \/ handleConnectorEvent(h, r)
         \/ handleConnectorSimulator(h, r)
         \/ \E named, override \in BOOLEAN : sendText(h, r, named, override)
         \/ \E again \in Request : handleReplayEvent(h, r, again)
         \/ IngestEvent(h, r)
    \/ \E h \in Caller : LookupEvent(h) \/ CreateAskWork(h) \/ MarkEventProcessed(h)
    \/ ListPendingEvents
    \/ \E p \in pending : recoverPendingEvent(p)
    \/ \E r \in Request : Work(r) \/ Control(r)
    \/ Policy
    \/ Sweep
    \/ Crash
    \/ Restart

Spec == Init /\ [][Next]_vars

-----------------------------------------------------------------------------
(* What ingress and transcript privacy promise.                            *)

TypeOK ==
    /\ conv \in [Conversation -> [there : BOOLEAN, retained : BOOLEAN,
                                   title : {Text, Disabled, Expired, Blank}]]
    /\ \A r \in Request :
         /\ row[r].status \in {"absent", "PENDING", "PROCESSED", "FAILED"}
         /\ row[r].payload \in {Text, Disabled, Blank}
         /\ row[r].goal \in {Text, Disabled, Expired, Blank}
         /\ Caused(r) = (row[r].goal # Blank)
         /\ row[r].out \subseteq Node(r)
         /\ \A n \in Node(r) : row[r].retry[n] \in 0..MaxRetries
    /\ device \in BOOLEAN
    /\ owed \subseteq Request

\* However often a sender repeats a request, and whatever handler, restart or
\* recovery of pending events it meets, the request causes one task graph.
OneGraphPerRequest == \A r \in Request : row[r].made <= 1

\* An event marked PROCESSED has its graph, and an event with a graph is no
\* longer PENDING, so the next start does not submit it again: the event and
\* the work commit together, also where the recovery of pending events races
\* a repeated request.
ProcessedHasGraph ==
    \A r \in Request \ Notice :
        /\ row[r].status = "PROCESSED" => Caused(r)
        /\ Caused(r) => row[r].status # "PENDING"

\* Rows are well formed, and events and graphs match: TypeOK and the two above.
EventsMatchGraphs == TypeOK /\ OneGraphPerRequest /\ ProcessedHasGraph

ContentKept(r) ==
    row[r].goal = Text \/ row[r].out # {} \/ row[r].turns # {} \/ row[r].payload = Text

\* A delegated child that completes after its graph was cancelled is the one
\* way a graph ends without a scrub (CompleteTaskWithArtifacts does none).
EndedByLateChild(r) ==
    row[r].node["root"] = "cancelled" /\ \E d \in Delegates[r] : row[r].node[d] = "completed"

\* Once every node of a graph in a non-retained conversation has ended, and
\* the caller that ended it has made its scrub call, none of its text is
\* stored, whatever order policy changes, completions, cancellations,
\* retries and new requests came in.
NonRetainedGraphIsScrubbed ==
    \A r \in Request :
        up /\ Caused(r) /\ GraphOver(row[r]) /\ ~Retained(r) /\ r \notin owed /\ ~EndedByLateChild(r)
            => ~ContentKept(r)

\* A start leaves no text of an ended graph in a non-retained conversation,
\* also where a scrub was lost with the process that owed it.
RestartReconciles ==
    [][~up /\ up' => \A r \in Request :
          (Caused(r) /\ GraphOver(row[r]) /\ ~Retained(r) => ~ContentKept(r))']_vars

\* The sweep never takes the prompt of unfinished work, and a retry never
\* runs a prompt the sweep has taken.
SweepSparesOpenWork == \A r \in Request : Protected(r) => row[r].goal # Expired

\* docs/PROTOCOL.md: content commands cannot elevate retention; a conversation
\* an administrator disabled stays disabled until the explicit command.
ContentCannotElevate ==
    [][\A c \in Conversation : conv[c].there /\ ~conv[c].retained /\ conv'[c].retained =>
          ~\E h \in Handler : call[h].at = "commit" /\ call[h].r \in DeviceText /\ call'[h] # call[h]]_vars
=============================================================================
