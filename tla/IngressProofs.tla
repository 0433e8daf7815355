------------------------------- MODULE IngressProofs -------------------------------
(***************************************************************************)
(* Proofs about the events and utterances that enter Core (EventIngress).  *)
(*                                                                         *)
(* One graph per event, and the privacy of transcripts: the inductive      *)
(* invariant IngressInv says of every row what RowOK says, and of a row in *)
(* a conversation that is not retained that it has no turns and, once its  *)
(* graph is over and no scrub is owed, no other text either.               *)
(***************************************************************************)
EXTENDS EventIngress, TLAPS

\* How long each prover may take over a leaf, in seconds.
USE SMTT(30), ZenonT(30)

(* The values that content columns take.                                   *)
Content == {Text, Disabled, Expired, Blank}

NodeState == {"absent", "queued", "running", "cancelling"} \cup Ended

RowType(r) ==
    [status : {"absent", "PENDING", "PROCESSED", "FAILED"}, payload : {Text, Disabled, Blank},
     made : Nat, node : [Node(r) -> NodeState], retry : [Node(r) -> 0..MaxRetries],
     goal : Content, out : SUBSET Node(r), turns : SUBSET {"user", "assistant"},
     delivery : {"none", "PENDING"}]

(* Calls that are making work, and calls that mark an event.               *)
Making == [at : {"lookup", "commit"}, r : Request, retain : BOOLEAN, apply : BOOLEAN,
           recover : BOOLEAN]
Marking == [at : {"mark"}, r : Request]

IngressTypeOK ==
    /\ conv \in [Conversation -> [there : BOOLEAN, retained : BOOLEAN, title : Content]]
    /\ row = [r \in Request |-> row[r]]
    /\ \A r \in Request : row[r] \in RowType(r)
    /\ device \in BOOLEAN
    /\ owed \subseteq Request
    /\ call \in [Caller -> {Idle} \cup Making \cup Marking]
    /\ pending \subseteq Request \X {Text, Disabled, Blank}
    /\ up \in BOOLEAN

\* What holds of the row g of request r by itself: it has made as many
\* graphs as it has, the graph has a prompt, an event without work is not
\* marked as processed, an expired prompt belongs to a graph that is over
\* and delivered, and a root that was ever claimed has no child at work.
RowOK(r, g) ==
    LET caused == g.node["root"] # "absent" IN
    /\ g.made = IF caused THEN 1 ELSE 0
    /\ caused <=> g.goal # Blank
    /\ g.status = "absent" => ~caused
    /\ r \notin Notice => /\ g.status = "PROCESSED" => caused
                          /\ caused => g.status # "PENDING"
    /\ g.goal = Expired => GraphOver(g) /\ g.delivery # "PENDING"
    /\ g.node["root"] \notin {"absent", "queued", "cancelled"} =>
          \A d \in Delegates[r] : g.node[d] \in Ended

LateChild(r, g) ==
    g.node["root"] = "cancelled" /\ \E d \in Delegates[r] : g.node[d] = "completed"

Kept(g) == g.goal = Text \/ g.out # {} \/ g.turns # {} \/ g.payload = Text

\* A graph that is over and was not ended by a late child is clean.
Clean(r, g) == GraphOver(g) /\ ~LateChild(r, g) => ~Kept(g)

\* What a conversation that is not retained asks of the row of a request.
Private(r, g) ==
    /\ g.turns = {}
    /\ up /\ r \notin owed => Clean(r, g)

IngressInv ==
    /\ IngressTypeOK
    /\ \A c \in Conversation : conv[c].retained => conv[c].there
    /\ \A r \in Request : RowOK(r, row[r]) /\ (~Retained(r) => Private(r, row[r]))
    /\ \A h \in Caller : call[h].at = "mark" /\ call[h].r \notin Notice => Caused(call[h].r)

-----------------------------------------------------------------------------
(* Rows                                                                    *)

(* The nodes of a graph are its root and its delegated children.           *)
LEMMA NodeFacts ==
  ASSUME NEW r \in Request
  PROVE  /\ "root" \in Node(r) /\ "root" \notin Delegates[r]
         /\ \A d \in Delegates[r] : d \in Node(r) /\ d # "root"
         /\ \A n \in Node(r) : n = "root" \/ n \in Delegates[r]
  BY RequestAssumption DEF Node

(* A graph is over when all its nodes have ended; then it exists.          *)
LEMMA OverFacts ==
  ASSUME NEW r \in Request, NEW g \in RowType(r)
  PROVE  /\ GraphOver(g) <=> \A n \in Node(r) : g.node[n] \in Ended
         /\ GraphOver(g) => g.node["root"] # "absent" /\ \A d \in Delegates[r] : g.node[d] \in Ended
  BY NodeFacts DEF GraphOver, RowType, Ended

\* h is g with some of its content removed; the prompt of a graph only once
\* the graph is over, and to "expired" only once it is delivered.
Trimmed(r, g, h) ==
    /\ h \in RowType(r)
    /\ h.node = g.node /\ h.made = g.made /\ h.status = g.status /\ h.delivery = g.delivery
    /\ h.payload \in {g.payload, Blank} /\ h.out \subseteq g.out /\ h.turns \subseteq g.turns
    /\ \/ h.goal = g.goal
       \/ GraphOver(g) /\ h.goal = Disabled
       \/ GraphOver(g) /\ g.delivery # "PENDING" /\ h.goal = Expired

(* Removing content from a row leaves what holds of the row.               *)
LEMMA TrimmedKeeps ==
  ASSUME NEW r \in Request, NEW g \in RowType(r), NEW h, Trimmed(r, g, h)
  PROVE  /\ RowOK(r, g) => RowOK(r, h)
         /\ Clean(r, g) => Clean(r, h)
         /\ g.turns = {} => h.turns = {}
         /\ GraphOver(h) <=> GraphOver(g)
         /\ LateChild(r, h) <=> LateChild(r, g)
<1>1. h.node = g.node /\ (GraphOver(h) <=> GraphOver(g)) /\ (LateChild(r, h) <=> LateChild(r, g))
  BY DEF Trimmed, GraphOver, LateChild
<1>2. RowOK(r, g) => RowOK(r, h)
  BY <1>1, OverFacts DEF Trimmed, RowOK, Text, Disabled, Expired, Blank
<1>3. Kept(h) => Kept(g)
  BY DEF Trimmed, Kept, Text, Disabled, Expired, Blank
<1>4. g.turns = {} => h.turns = {}
  BY DEF Trimmed
<1> QED
  BY <1>1, <1>2, <1>3, <1>4 DEF Clean

(* Disabling a conversation only removes content, removes all of it from   *)
(* the graphs of the conversation that are over, and touches no other      *)
(* conversation.                                                           *)
LEMMA DisabledRowsFacts ==
  ASSUME NEW rows, \A r \in Request : rows[r] \in RowType(r), NEW c \in Conversation
  PROVE  LET after == DisabledRows(rows, c) IN
         /\ after = [r \in Request |-> after[r]]
         /\ \A r \in Request : Trimmed(r, rows[r], after[r])
         /\ \A r \in Of(c) : after[r].turns = {} /\ Clean(r, after[r])
         /\ \A r \in Request \ Of(c) : after[r] = rows[r]
<1> DEFINE after == DisabledRows(rows, c)
<1>1. after = [r \in Request |-> after[r]]
  BY DEF DisabledRows, scrubTerminalConversationTasks
<1>2. ASSUME NEW r \in Request, r \notin Of(c) PROVE after[r] = rows[r]
  BY <1>2 DEF DisabledRows, scrubTerminalConversationTasks, EventPayloadsCleared, TurnsDeleted
<1>3. ASSUME NEW r \in Request, r \in Of(c)
      PROVE  Trimmed(r, rows[r], after[r]) /\ after[r].turns = {} /\ Clean(r, after[r])
  <2> DEFINE g == rows[r]
             h == [[g EXCEPT !.turns = {}] EXCEPT !.payload = Blank]
  <2>1. after[r] = IF GraphOver(h) THEN [h EXCEPT !.goal = Disabled, !.out = {}] ELSE h
    BY <1>3 DEF DisabledRows, scrubTerminalConversationTasks, EventPayloadsCleared, TurnsDeleted,
                terminalTaskGraphSafeToScrub, scrubTerminalTaskGraphContent
  <2>2. /\ h \in RowType(r) /\ h.turns = {} /\ h.payload = Blank /\ h.node = g.node
        /\ h.made = g.made /\ h.status = g.status /\ h.delivery = g.delivery
        /\ h.goal = g.goal /\ h.out = g.out
    BY ZenonT(30) DEF RowType
  <2>3. GraphOver(h) <=> GraphOver(g)
    BY <2>2 DEF GraphOver
  <2> HIDE DEF h
  <2>4. CASE ~GraphOver(h)
    BY <2>1, <2>2, <2>3, <2>4 DEF Trimmed, Clean
  <2>5. CASE GraphOver(h)
    <3> DEFINE k == [h EXCEPT !.goal = Disabled, !.out = {}]
    <3>1. /\ k \in RowType(r) /\ k.turns = {} /\ k.payload = Blank /\ k.node = g.node
          /\ k.made = g.made /\ k.status = g.status /\ k.delivery = g.delivery
          /\ k.goal = Disabled /\ k.out = {}
      BY <2>2, ZenonT(30) DEF RowType, Content
    <3>2. after[r] = k
      BY <2>1, <2>5
    <3> HIDE DEF k
    <3>3. Trimmed(r, g, k)
      BY <2>3, <2>5, <3>1 DEF Trimmed
    <3>4. ~Kept(k)
      BY <3>1 DEF Kept, Text, Disabled, Blank
    <3> QED
      BY <3>1, <3>2, <3>3, <3>4 DEF Clean
  <2> QED
    BY <2>4, <2>5
<1>4. \A r \in Request : rows[r] \in RowType(r) => Trimmed(r, rows[r], rows[r])
  BY DEF Trimmed
<1> QED
  BY <1>1, <1>2, <1>3, <1>4 DEF Of

(* The scrub of a graph only removes content, and leaves none in the graph *)
(* when its conversation is not retained.                                  *)
LEMMA GraphScrubbedFacts ==
  ASSUME NEW rows, rows = [q \in Request |-> rows[q]], \A q \in Request : rows[q] \in RowType(q),
         NEW r \in Request
  PROVE  LET after == GraphScrubbed(rows, r) IN
         /\ after = [q \in Request |-> after[q]]
         /\ \A q \in Request : Trimmed(q, rows[q], after[q])
         /\ ~Retained(r) /\ rows[r].turns = {} => Clean(r, after[r])
<1> DEFINE after == GraphScrubbed(rows, r)
<1>0. \A q \in Request : Trimmed(q, rows[q], rows[q])
  BY DEF Trimmed
<1>1. CASE Retained(r) \/ ~GraphOver(rows[r])
  <2>1. after = rows
    BY <1>1 DEF GraphScrubbed, terminalTaskGraphSafeToScrub
  <2> QED
    BY <1>0, <1>1, <2>1 DEF Clean
<1>2. CASE ~Retained(r) /\ GraphOver(rows[r])
  <2> DEFINE cleared == EventPayloadsCleared(rows, ConversationOf[r])
  <2>1. after = [cleared EXCEPT ![r] = scrubTerminalTaskGraphContent(@)]
    BY <1>2 DEF GraphScrubbed, terminalTaskGraphSafeToScrub
  <2>2. /\ cleared = [q \in Request |-> cleared[q]]
        /\ \A q \in Request : cleared[q] \in {rows[q], [rows[q] EXCEPT !.payload = Blank]}
        /\ cleared[r] = [rows[r] EXCEPT !.payload = Blank]
    BY DEF EventPayloadsCleared, Of
  <2> HIDE DEF cleared
  <2>3. \A q \in Request : Trimmed(q, rows[q], cleared[q])
    <3>1. ASSUME NEW q \in Request PROVE Trimmed(q, rows[q], [rows[q] EXCEPT !.payload = Blank])
      <4>1. rows[q] \in RowType(q)
        OBVIOUS
      <4> QED
        BY <4>1, ZenonT(30) DEF Trimmed, RowType
    <3> QED
      BY <1>0, <2>2, <3>1
  <2>4. \A q \in Request : after[q] = IF q = r THEN [cleared[r] EXCEPT !.goal = Disabled, !.out = {}] ELSE cleared[q]
    BY <2>1, <2>2 DEF scrubTerminalTaskGraphContent
  <2>5. after = [q \in Request |-> after[q]]
    BY <2>1, <2>2
  <2>6. Trimmed(r, rows[r], after[r]) /\ (rows[r].turns = {} => Clean(r, after[r]))
    <3> DEFINE g == rows[r]
               k == [[g EXCEPT !.payload = Blank] EXCEPT !.goal = Disabled, !.out = {}]
    <3>1. g \in RowType(r) /\ after[r] = k
      BY <2>2, <2>4, ZenonT(30)
    <3>2. /\ k \in RowType(r) /\ k.turns = g.turns /\ k.payload = Blank /\ k.node = g.node
          /\ k.made = g.made /\ k.status = g.status /\ k.delivery = g.delivery
          /\ k.goal = Disabled /\ k.out = {}
      BY <3>1, ZenonT(30) DEF RowType, Content
    <3> HIDE DEF k
    <3>3. Trimmed(r, g, k)
      BY <1>2, <3>2 DEF Trimmed
    <3>4. g.turns = {} => ~Kept(k)
      BY <3>2 DEF Kept, Text, Disabled, Blank
    <3> QED
      BY <3>1, <3>3, <3>4 DEF Clean
  <2> QED
    BY <2>3, <2>4, <2>5, <2>6
<1> QED
  BY <1>1, <1>2

-----------------------------------------------------------------------------
(* Steps of workers and of the administrator                               *)

(* A step of a running Core on the rows, seen from each row.               *)
LEMMA RowsStep ==
  ASSUME IngressInv, up = TRUE, UNCHANGED <<conv, call, pending, up>>,
         device' \in BOOLEAN, owed' \subseteq Request,
         row' = [q \in Request |-> row'[q]],
         \A q \in Request :
            /\ row'[q] \in RowType(q) /\ RowOK(q, row'[q])
            /\ Caused(q) => row'[q].node["root"] # "absent"
            /\ ~Retained(q) => row'[q].turns = {} /\ (q \notin owed' => Clean(q, row'[q]))
  PROVE  IngressInv'
<1>1. IngressTypeOK'
  BY DEF IngressInv, IngressTypeOK
<1>2. \A q \in Request : RowOK(q, row'[q]) /\ (~Retained(q)' => Private(q, row[q])')
  BY DEF Retained, Private
<1>3. \A h \in Caller : call'[h].at = "mark" /\ call'[h].r \notin Notice => Caused(call[h].r)'
  <2> SUFFICES ASSUME NEW h \in Caller, call[h].at = "mark", call[h].r \notin Notice
               PROVE  row'[call[h].r].node["root"] # "absent"
    BY DEF Caused
  <2>1. call[h] \in Marking
    BY DEF IngressInv, IngressTypeOK, Idle, Making, Marking
  <2>2. call[h].r \in Request /\ Caused(call[h].r)
    BY <2>1 DEF IngressInv, Marking
  <2> QED
    BY <2>2
<1> QED
  BY <1>1, <1>2, <1>3 DEF IngressInv, Retained

(* A step on the row of one request.                                       *)
LEMMA OneRowStep ==
  ASSUME IngressInv, up = TRUE, UNCHANGED <<conv, device, call, pending, up>>,
         NEW r \in Request, NEW g \in RowType(r), row' = [row EXCEPT ![r] = g], RowOK(r, g),
         owed' \in {owed, owed \cup {r}},
         Caused(r) => g.node["root"] # "absent",
         ~Retained(r) => g.turns = {} /\ (r \notin owed' => Clean(r, g))
  PROVE  IngressInv'
<1>1. /\ row = [q \in Request |-> row[q]] /\ device \in BOOLEAN /\ owed \subseteq Request
      /\ \A q \in Request : row[q] \in RowType(q) /\ RowOK(q, row[q]) /\ (~Retained(q) => Private(q, row[q]))
  BY DEF IngressInv, IngressTypeOK
<1>2. /\ row' = [q \in Request |-> row'[q]]
      /\ \A q \in Request : row'[q] = IF q = r THEN g ELSE row[q]
  BY <1>1
<1>3. owed' \subseteq Request /\ device' \in BOOLEAN /\ \A q \in Request : q # r /\ q \notin owed' => q \notin owed
  BY <1>1
<1>4. ASSUME NEW q \in Request
      PROVE  /\ row'[q] \in RowType(q) /\ RowOK(q, row'[q])
             /\ Caused(q) => row'[q].node["root"] # "absent"
             /\ ~Retained(q) => row'[q].turns = {} /\ (q \notin owed' => Clean(q, row'[q]))
  <2>1. CASE q = r
    BY <1>2, <2>1
  <2>2. CASE q # r
    BY <1>1, <1>2, <1>3, <2>2 DEF Private, Caused
  <2> QED
    BY <2>1, <2>2
<1> QED
  BY <1>2, <1>3, <1>4, RowsStep

(* The invariant, seen from one row.                                       *)
LEMMA RowFacts ==
  ASSUME IngressInv, NEW r \in Request
  PROVE  /\ row[r] \in RowType(r) /\ RowOK(r, row[r]) /\ row = [q \in Request |-> row[q]]
         /\ ~Retained(r) => row[r].turns = {} /\ (up /\ r \notin owed => Clean(r, row[r]))
  BY DEF IngressInv, IngressTypeOK, Private

(* A claim: a root is claimed only when its children have ended.           *)
LEMMA ClaimKeeps ==
  ASSUME IngressInv, up = TRUE, NEW r \in Request, NEW n \in Node(r), Claim(r, n),
         UNCHANGED ingressVars
  PROVE  IngressInv'
<1> DEFINE o == row[r]
           g == [o EXCEPT !.node[n] = "running"]
<1>1. o \in RowType(r) /\ RowOK(r, o) /\ (~Retained(r) => o.turns = {})
  BY RowFacts
<1>2. row' = [row EXCEPT ![r] = g] /\ UNCHANGED <<conv, device, owed, call, pending, up>>
  BY RowFacts DEF Claim, ingressVars
<1>3. /\ g \in RowType(r) /\ g.node = [o.node EXCEPT ![n] = "running"] /\ g.made = o.made
      /\ g.status = o.status /\ g.goal = o.goal /\ g.delivery = o.delivery /\ g.turns = o.turns
  BY <1>1 DEF RowType, NodeState
<1> HIDE DEF g
<1>4. /\ \A m \in Node(r) : g.node[m] = IF m = n THEN "running" ELSE o.node[m]
      /\ o.node[n] = "queued" /\ ~GraphOver(o) /\ ~GraphOver(g)
      /\ n = "root" => \A d \in Delegates[r] : o.node[d] \in Ended
  BY <1>1, <1>3, OverFacts DEF RowType, Claim, Ended
<1>5. RowOK(r, g) /\ (o.node["root"] # "absent" => g.node["root"] # "absent")
  BY <1>1, <1>3, <1>4, NodeFacts DEF RowOK, Ended
<1>6. Clean(r, g)
  BY <1>4 DEF Clean
<1> QED
  BY <1>1, <1>2, <1>3, <1>5, <1>6, OneRowStep, ZenonT(30) DEF Caused

(* A child that completes does not end a graph whose root is not           *)
(* cancelled; a graph with a cancelled root it ends as a late child.       *)
LEMMA CompleteChildKeeps ==
  ASSUME IngressInv, up = TRUE, NEW r \in Request, NEW n \in Node(r),
         CompleteTaskWithArtifacts(r, n), UNCHANGED ingressVars
  PROVE  IngressInv'
<1> DEFINE o == row[r]
           g == [o EXCEPT !.node[n] = "completed", !.out = @ \cup {n}]
<1>1. o \in RowType(r) /\ RowOK(r, o) /\ (~Retained(r) => o.turns = {})
  BY RowFacts
<1>2. row' = [row EXCEPT ![r] = g] /\ UNCHANGED <<conv, device, owed, call, pending, up>>
  BY RowFacts, ZenonT(30) DEF CompleteTaskWithArtifacts, ingressVars
<1>3. /\ g \in RowType(r) /\ g.node = [o.node EXCEPT ![n] = "completed"] /\ g.made = o.made
      /\ g.status = o.status /\ g.goal = o.goal /\ g.delivery = o.delivery /\ g.turns = o.turns
  BY <1>1, ZenonT(30) DEF RowType, NodeState, Ended
<1> HIDE DEF g
<1>4. /\ \A m \in Node(r) : g.node[m] = IF m = n THEN "completed" ELSE o.node[m]
      /\ o.node[n] \in {"running", "cancelling"} /\ ~GraphOver(o)
      /\ n # "root" /\ n \in Delegates[r]
  BY <1>1, <1>3, OverFacts, NodeFacts DEF RowType, CompleteTaskWithArtifacts, Ended
<1>5. o.node["root"] \in {"absent", "queued", "cancelled"} /\ g.node["root"] = o.node["root"]
  BY <1>1, <1>4, NodeFacts DEF RowOK, Ended
<1>6. RowOK(r, g)
  BY <1>1, <1>3, <1>4, <1>5 DEF RowOK
<1>7. Clean(r, g)
  <2>1. GraphOver(g) => g.node["root"] \in Ended
    BY <1>3, OverFacts, NodeFacts, ZenonT(30)
  <2>2. GraphOver(g) => g.node["root"] = "cancelled"
    BY <1>5, <2>1 DEF Ended
  <2>3. g.node[n] = "completed"
    BY <1>4
  <2> QED
    BY <1>4, <2>2, <2>3 DEF Clean, LateChild
<1> QED
  BY <1>1, <1>2, <1>3, <1>5, <1>6, <1>7, OneRowStep, ZenonT(30) DEF Caused

(* A node that fails or is cancelled leaves its caller owing the scrub.    *)
LEMMA EndNodeKeeps ==
  ASSUME IngressInv, up = TRUE, NEW r \in Request, NEW n \in Node(r),
         FailTask(r, n) \/ MarkTaskCancelled(r, n), UNCHANGED ingressVars
  PROVE  IngressInv'
<1> DEFINE o == row[r]
           f == [o EXCEPT !.node[n] = "failed", !.out = @ \cup {n}]
           c == [o EXCEPT !.node[n] = "cancelled"]
<1>1. o \in RowType(r) /\ RowOK(r, o) /\ (~Retained(r) => o.turns = {})
  BY RowFacts
<1>2. /\ row' = [row EXCEPT ![r] = f] \/ row' = [row EXCEPT ![r] = c]
      /\ o.node[n] \in {"running", "cancelling"}
      /\ owed' = owed \cup {r} /\ UNCHANGED <<conv, device, call, pending, up>>
  BY RowFacts, ZenonT(30) DEF FailTask, MarkTaskCancelled, ingressVars
<1>3. /\ f \in RowType(r) /\ f.node = [o.node EXCEPT ![n] = "failed"] /\ f.made = o.made
      /\ f.status = o.status /\ f.goal = o.goal /\ f.delivery = o.delivery /\ f.turns = o.turns
  BY <1>1, ZenonT(30) DEF RowType, NodeState, Ended
<1>4. /\ c \in RowType(r) /\ c.node = [o.node EXCEPT ![n] = "cancelled"] /\ c.made = o.made
      /\ c.status = o.status /\ c.goal = o.goal /\ c.delivery = o.delivery /\ c.turns = o.turns
  BY <1>1 DEF RowType, NodeState, Ended
<1> HIDE DEF f, c
<1>5. ASSUME NEW g \in RowType(r), NEW s \in {"failed", "cancelled"},
             g.node = [o.node EXCEPT ![n] = s], g.made = o.made,
             g.status = o.status, g.goal = o.goal, g.delivery = o.delivery
      PROVE  RowOK(r, g) /\ (o.node["root"] # "absent" => g.node["root"] # "absent")
  <2>1. /\ \A m \in Node(r) : g.node[m] = IF m = n THEN s ELSE o.node[m]
        /\ ~GraphOver(o)
    BY <1>1, <1>2, <1>5, OverFacts DEF RowType, Ended
  <2> QED
    BY <1>1, <1>2, <1>5, <2>1, NodeFacts, ZenonT(30) DEF RowOK, Ended
<1> QED
  BY <1>1, <1>2, <1>3, <1>4, <1>5, OneRowStep DEF Caused

(* A cancellation leaves its caller owing the scrub.                       *)
LEMMA CancelGraphKeeps ==
  ASSUME IngressInv, up = TRUE, NEW r \in Request,
         RequestTaskGraphCancellation(r), UNCHANGED ingressVars
  PROVE  IngressInv'
<1> DEFINE o == row[r]
           nodes == [n \in Node(r) |-> IF o.node[n] = "queued" THEN "cancelled"
                                       ELSE IF o.node[n] = "running" THEN "cancelling" ELSE o.node[n]]
           g == [o EXCEPT !.node = nodes]
<1>1. o \in RowType(r) /\ RowOK(r, o) /\ (~Retained(r) => o.turns = {})
  BY RowFacts
<1>2. /\ row' = [row EXCEPT ![r] = g] /\ o.node["root"] # "absent" /\ ~GraphOver(o)
      /\ owed' = owed \cup {r} /\ UNCHANGED <<conv, device, call, pending, up>>
  BY RowFacts DEF RequestTaskGraphCancellation, ingressVars, Caused
<1>3. nodes \in [Node(r) -> NodeState]
  BY <1>1 DEF RowType, NodeState, Ended
<1>4. /\ g \in RowType(r) /\ g.node = nodes /\ g.made = o.made
      /\ g.status = o.status /\ g.goal = o.goal /\ g.delivery = o.delivery /\ g.turns = o.turns
  BY <1>1, <1>3 DEF RowType
<1> HIDE DEF g
<1>5. RowOK(r, g) /\ g.node["root"] # "absent"
  BY <1>1, <1>2, <1>4, NodeFacts DEF RowOK, Ended
<1> QED
  BY <1>1, <1>2, <1>4, <1>5, OneRowStep, ZenonT(30) DEF Caused

(* A root that completes ends its graph, because its children ended before *)
(* it was claimed, and scrubs in the same transaction what is not          *)
(* retained.                                                               *)
LEMMA CompleteRootKeeps ==
  ASSUME IngressInv, up = TRUE, NEW r \in Request, CompleteTaskWithOutcome(r), UNCHANGED ingressVars
  PROVE  IngressInv'
<1> DEFINE o == row[r]
           g == Outcome(r)
           stored == [row EXCEPT ![r] = g]
           cleared == EventPayloadsCleared(stored, ConversationOf[r])
<1>1. /\ o \in RowType(r) /\ RowOK(r, o) /\ (~Retained(r) => o.turns = {})
      /\ row = [q \in Request |-> row[q]]
  BY RowFacts
<1>2. /\ o.node["root"] \in {"running", "cancelling"} /\ UNCHANGED <<conv, device, owed, call, pending, up>>
      /\ row' = IF Retained(r) THEN stored ELSE GraphScrubbed(cleared, r)
  BY DEF CompleteTaskWithOutcome, ingressVars
<1>3. /\ g \in RowType(r) /\ g.node = [o.node EXCEPT !["root"] = RootStatus(r)] /\ g.made = o.made
      /\ g.status = o.status /\ g.goal = o.goal
      /\ ~Retained(r) => g.turns = o.turns
  <2>1. RootStatus(r) \in {"completed", "partial"} /\ "root" \in Node(r)
    BY NodeFacts DEF RootStatus
  <2> QED
    BY <1>1, <2>1, ZenonT(30) DEF Outcome, RowType, NodeState, Ended
<1>4. /\ \A m \in Node(r) : g.node[m] = IF m = "root" THEN RootStatus(r) ELSE o.node[m]
      /\ RootStatus(r) \in {"completed", "partial"} /\ ~GraphOver(o)
      /\ \A d \in Delegates[r] : o.node[d] \in Ended
  BY <1>1, <1>2, <1>3, OverFacts, NodeFacts DEF RowType, RootStatus, Ended, RowOK
<1> HIDE DEF g
<1>5. RowOK(r, g) /\ g.node["root"] # "absent"
  BY <1>1, <1>2, <1>3, <1>4, NodeFacts DEF RowOK, Ended
<1>6. CASE Retained(r)
  BY <1>1, <1>2, <1>3, <1>5, <1>6, OneRowStep, ZenonT(30)
<1>7. CASE ~Retained(r)
  <2>1. /\ stored = [q \in Request |-> stored[q]]
        /\ \A q \in Request : stored[q] = IF q = r THEN g ELSE row[q]
    BY <1>1
  <2>2. \A q \in Request : /\ stored[q] \in RowType(q) /\ RowOK(q, stored[q])
                           /\ Caused(q) => stored[q].node["root"] # "absent"
                           /\ ~Retained(q) => stored[q].turns = {}
                           /\ ~Retained(q) /\ q # r /\ q \notin owed => Clean(q, stored[q])
    BY <1>1, <1>3, <1>5, <1>7, <2>1, RowFacts, ZenonT(30) DEF Caused
  <2> HIDE DEF stored
  <2>3. /\ cleared = [q \in Request |-> cleared[q]]
        /\ \A q \in Request : Trimmed(q, stored[q], cleared[q])
    <3>1. \A q \in Request : Trimmed(q, stored[q], [stored[q] EXCEPT !.payload = Blank]) /\ Trimmed(q, stored[q], stored[q])
      <4> SUFFICES ASSUME NEW q \in Request
                   PROVE  Trimmed(q, stored[q], [stored[q] EXCEPT !.payload = Blank]) /\ Trimmed(q, stored[q], stored[q])
        OBVIOUS
      <4>1. stored[q] \in RowType(q)
        BY <2>2
      <4> QED
        BY <4>1 DEF Trimmed, RowType
    <3> QED
      BY <3>1 DEF EventPayloadsCleared
  <2> HIDE DEF cleared
  <2>4. \A q \in Request : /\ cleared[q] \in RowType(q) /\ RowOK(q, cleared[q])
                           /\ Caused(q) => cleared[q].node["root"] # "absent"
                           /\ ~Retained(q) => cleared[q].turns = {}
                           /\ ~Retained(q) /\ q # r /\ q \notin owed => Clean(q, cleared[q])
    BY <2>2, <2>3, TrimmedKeeps DEF Trimmed
  <2> DEFINE after == GraphScrubbed(cleared, r)
  <2>5. /\ after = [q \in Request |-> after[q]]
        /\ \A q \in Request : Trimmed(q, cleared[q], after[q])
        /\ Clean(r, after[r])
    BY <1>7, <2>3, <2>4, GraphScrubbedFacts
  <2> HIDE DEF after
  <2>6. \A q \in Request : /\ after[q] \in RowType(q) /\ RowOK(q, after[q])
                           /\ Caused(q) => after[q].node["root"] # "absent"
                           /\ ~Retained(q) => after[q].turns = {} /\ (q \notin owed => Clean(q, after[q]))
    BY <2>4, <2>5, TrimmedKeeps DEF Trimmed
  <2>7. row' = after
    BY <1>2, <1>7 DEF after
  <2>8. device' \in BOOLEAN /\ owed' \subseteq Request
    BY <1>2 DEF IngressInv, IngressTypeOK
  <2> QED
    BY <1>2, <2>5, <2>6, <2>7, <2>8, RowsStep
<1> QED
  BY <1>6, <1>7

(* The scrub call pays what was owed.                                      *)
LEMMA ScrubKeeps ==
  ASSUME IngressInv, up = TRUE, NEW r \in Request, ScrubTerminalTaskGraph(r), UNCHANGED ingressVars
  PROVE  IngressInv'
<1> DEFINE after == GraphScrubbed(row, r)
<1>1. /\ row = [q \in Request |-> row[q]]
      /\ \A q \in Request : /\ row[q] \in RowType(q) /\ RowOK(q, row[q])
                            /\ ~Retained(q) => row[q].turns = {} /\ (q \notin owed => Clean(q, row[q]))
  BY RowFacts DEF IngressInv, IngressTypeOK
<1>2. /\ after = [q \in Request |-> after[q]]
      /\ \A q \in Request : Trimmed(q, row[q], after[q])
      /\ ~Retained(r) => Clean(r, after[r])
  BY <1>1, GraphScrubbedFacts
<1>3. /\ row' = after /\ owed' = owed \ {r} /\ UNCHANGED <<conv, device, call, pending, up>>
      /\ device' \in BOOLEAN /\ owed' \subseteq Request
  BY DEF ScrubTerminalTaskGraph, ingressVars, IngressInv, IngressTypeOK
<1> HIDE DEF after
<1>4. \A q \in Request : /\ after[q] \in RowType(q) /\ RowOK(q, after[q])
                         /\ Caused(q) => after[q].node["root"] # "absent"
                         /\ ~Retained(q) => after[q].turns = {} /\ (q \notin owed' => Clean(q, after[q]))
  BY <1>1, <1>2, <1>3, TrimmedKeeps DEF Trimmed, Caused
<1> QED
  BY <1>2, <1>3, <1>4, RowsStep

(* A retry happens in a retained conversation only, with a prompt that was *)
(* not taken, and reopens the graph at its root.                           *)
LEMMA RetryKeeps ==
  ASSUME IngressInv, up = TRUE, NEW r \in Request,
         retryGraphRoot(r) \/ \E n \in Delegates[r] : retryGraphChild(r, n),
         UNCHANGED ingressVars
  PROVE  IngressInv'
<1> DEFINE o == row[r]
<1>1. o \in RowType(r) /\ RowOK(r, o) /\ row = [q \in Request |-> row[q]]
  BY RowFacts
<1>2. PICK N \in SUBSET Node(r) :
         /\ resetExplicitRetryTask(r, N)
         /\ \A n \in N : o.retry[n] < MaxRetries
         /\ ("root" \in N /\ o.node["root"] # "absent") \/ o.node["root"] = "queued"
  <2>1. ASSUME retryGraphRoot(r)
        PROVE  \E N \in SUBSET Node(r) :
                  /\ resetExplicitRetryTask(r, N)
                  /\ \A n \in N : o.retry[n] < MaxRetries
                  /\ ("root" \in N /\ o.node["root"] # "absent") \/ o.node["root"] = "queued"
    <3> DEFINE again == {d \in Delegates[r] : explicitRetryEligible(r, d)}
    <3>1. /\ resetExplicitRetryTask(r, again \cup {"root"}) /\ o.node["root"] # "absent"
          /\ \A n \in again \cup {"root"} : o.retry[n] < MaxRetries
          /\ again \cup {"root"} \subseteq Node(r)
      BY <2>1, NodeFacts, ZenonT(30) DEF retryGraphRoot, explicitRetryEligible, Retriable
    <3> QED
      BY <3>1
  <2>2. ASSUME NEW n \in Delegates[r], retryGraphChild(r, n)
        PROVE  \E N \in SUBSET Node(r) :
                  /\ resetExplicitRetryTask(r, N)
                  /\ \A m \in N : o.retry[m] < MaxRetries
                  /\ ("root" \in N /\ o.node["root"] # "absent") \/ o.node["root"] = "queued"
    <3>1. CASE o.node["root"] = "queued" /\ resetExplicitRetryTask(r, {n})
      BY <2>2, <3>1, NodeFacts DEF retryGraphChild, explicitRetryEligible
    <3>2. CASE explicitRetryEligible(r, "root") /\ resetExplicitRetryTask(r, {"root", n})
      BY <2>2, <3>2, NodeFacts DEF retryGraphChild, explicitRetryEligible, Retriable
    <3> QED
      BY <2>2, <3>1, <3>2 DEF retryGraphChild
  <2> QED
    BY <2>1, <2>2
<1>3. /\ Retained(r) /\ o.goal # Expired /\ UNCHANGED <<conv, device, owed, call, pending, up>>
  BY ZenonT(30) DEF retryGraphRoot, retryGraphChild, explicitRetryEligible, ingressVars
<1> DEFINE nodes == [n \in Node(r) |-> IF n \in N THEN "queued" ELSE o.node[n]]
           tries == [n \in Node(r) |-> IF n \in N THEN o.retry[n] + 1 ELSE o.retry[n]]
           g == [o EXCEPT !.node = nodes, !.retry = tries, !.out = @ \ N]
<1>4. row' = [row EXCEPT ![r] = g]
  BY <1>1, <1>2, ZenonT(30) DEF resetExplicitRetryTask
<1>5. nodes \in [Node(r) -> NodeState] /\ tries \in [Node(r) -> 0..MaxRetries]
  <2>1. o.node \in [Node(r) -> NodeState] /\ o.retry \in [Node(r) -> 0..MaxRetries]
    BY <1>1 DEF RowType
  <2> QED
    BY <1>2, <2>1, RequestAssumption DEF NodeState
<1>6. /\ g \in RowType(r) /\ g.node = nodes /\ g.made = o.made
      /\ g.status = o.status /\ g.goal = o.goal /\ g.delivery = o.delivery /\ g.turns = o.turns
  <2> HIDE DEF nodes, tries
  <2> QED
    BY <1>1, <1>5, ZenonT(30) DEF RowType
<1>7. g.node["root"] = "queued"
  BY <1>2, <1>6, NodeFacts
<1> HIDE DEF g
<1>8. RowOK(r, g)
  BY <1>1, <1>2, <1>3, <1>6, <1>7 DEF RowOK
<1> QED
  BY <1>3, <1>4, <1>6, <1>7, <1>8, OneRowStep, ZenonT(30)

ConvType == [Conversation -> [there : BOOLEAN, retained : BOOLEAN, title : Content]]

(* A step of a running Core that also changes conversations.               *)
LEMMA ConvStep ==
  ASSUME IngressInv, up = TRUE, UNCHANGED <<call, pending, up, owed>>, device' \in BOOLEAN,
         conv' \in ConvType, \A c \in Conversation : conv'[c].retained => conv'[c].there,
         row' = [q \in Request |-> row'[q]],
         \A q \in Request :
            /\ Trimmed(q, row[q], row'[q])
            /\ ~conv'[ConversationOf[q]].retained =>
                  \/ ~Retained(q)
                  \/ row'[q].turns = {} /\ Clean(q, row'[q])
  PROVE  IngressInv'
<1>1. \A q \in Request : /\ row[q] \in RowType(q) /\ RowOK(q, row[q])
                         /\ ~Retained(q) => row[q].turns = {} /\ (q \notin owed => Clean(q, row[q]))
  BY RowFacts
<1>2. \A q \in Request : /\ row'[q] \in RowType(q) /\ RowOK(q, row'[q])
                         /\ row'[q].node = row[q].node
                         /\ ~Retained(q) => row'[q].turns = {} /\ (q \notin owed => Clean(q, row'[q]))
  BY <1>1, TrimmedKeeps DEF Trimmed
<1>3. IngressTypeOK'
  BY <1>2 DEF IngressInv, IngressTypeOK, ConvType
<1>4. \A q \in Request : RowOK(q, row'[q]) /\ (~Retained(q)' => Private(q, row[q])')
  BY <1>2 DEF Retained, Private
<1>5. \A h \in Caller : call'[h].at = "mark" /\ call'[h].r \notin Notice => Caused(call[h].r)'
  <2> SUFFICES ASSUME NEW h \in Caller, call[h].at = "mark", call[h].r \notin Notice
               PROVE  row'[call[h].r].node["root"] # "absent"
    BY DEF Caused
  <2>1. call[h] \in Marking
    BY DEF IngressInv, IngressTypeOK, Idle, Making, Marking
  <2>2. call[h].r \in Request /\ Caused(call[h].r)
    BY <2>1 DEF IngressInv, Marking
  <2> QED
    BY <1>2, <2>2 DEF Caused
<1> QED
  BY <1>3, <1>4, <1>5 DEF IngressInv, RowOK

(* Enabling gives no row a duty; disabling removes what it must.           *)
LEMMA SetRetentionKeeps ==
  ASSUME IngressInv, up = TRUE, NEW c \in Conversation, NEW enabled \in BOOLEAN,
         conv[c].there, setTranscriptRetention(c, enabled),
         device' \in BOOLEAN, UNCHANGED <<owed, call, pending, up>>
  PROVE  IngressInv'
<1>1. /\ row = [q \in Request |-> row[q]] /\ conv \in ConvType
      /\ \A q \in Request : row[q] \in RowType(q)
      /\ \A k \in Conversation : conv[k].retained => conv[k].there
  BY RowFacts DEF IngressInv, IngressTypeOK, ConvType
<1>2. \A q \in Request : Trimmed(q, row[q], row[q]) /\ ConversationOf[q] \in Conversation
  BY <1>1, RequestAssumption DEF Trimmed
<1>3. CASE enabled
  <2>1. row' = row /\ conv' = [conv EXCEPT ![c].retained = TRUE]
    BY <1>3 DEF setTranscriptRetention
  <2>2. conv' \in ConvType /\ \A k \in Conversation : conv'[k].retained => conv'[k].there
    BY <1>1, <2>1, ZenonT(30) DEF ConvType
  <2>3. \A q \in Request : ~conv'[ConversationOf[q]].retained => ~Retained(q)
    BY <1>1, <1>2, <2>1 DEF ConvType, Retained
  <2> QED
    BY <1>1, <1>2, <2>1, <2>2, <2>3, ConvStep
<1>4. CASE ~enabled
  <2>1. row' = DisabledRows(row, c) /\ conv' = [conv EXCEPT ![c] = disableTranscriptRetention(@)]
    BY <1>4 DEF setTranscriptRetention
  <2>2. conv' \in ConvType /\ \A k \in Conversation : conv'[k].retained => conv'[k].there
    BY <1>1, <2>1, ZenonT(30) DEF ConvType, disableTranscriptRetention, Content
  <2>3. /\ row' = [q \in Request |-> row'[q]]
        /\ \A q \in Request : Trimmed(q, row[q], row'[q])
        /\ \A q \in Of(c) : row'[q].turns = {} /\ Clean(q, row'[q])
    BY <1>1, <2>1, DisabledRowsFacts
  <2>4. \A q \in Request : q \notin Of(c) /\ ~conv'[ConversationOf[q]].retained => ~Retained(q)
    BY <1>1, <1>2, <2>1 DEF ConvType, Retained, Of
  <2> QED
    BY <2>2, <2>3, <2>4, ConvStep
<1> QED
  BY <1>3, <1>4

(* A change of policy by the administrator or the device.                  *)
LEMMA PolicyKeeps ==
  ASSUME IngressInv, Policy
  PROVE  IngressInv'
<1>0. up = TRUE /\ UNCHANGED ingressVars /\ device \in BOOLEAN
  BY DEF Policy, IngressInv, IngressTypeOK
<1>1. PICK c \in Conversation, enabled \in BOOLEAN :
         \/ SetTranscriptRetentionWithAudit(c, enabled)
         \/ \E named \in BOOLEAN : SetDeviceTranscriptRetention(c, named, enabled)
  BY DEF Policy
<1>2. CASE SetTranscriptRetentionWithAudit(c, enabled)
  BY <1>0, <1>2, SetRetentionKeeps DEF SetTranscriptRetentionWithAudit, ingressVars
<1>3. ASSUME NEW named \in BOOLEAN, SetDeviceTranscriptRetention(c, named, enabled)
      PROVE  IngressInv'
  <2>1. CASE named
    BY <1>0, <1>3, <2>1, SetRetentionKeeps DEF SetDeviceTranscriptRetention, ingressVars
  <2>2. CASE ~named
    <3>1. UNCHANGED <<conv, row, owed, call, pending, up>> /\ device' \in BOOLEAN
      BY <1>0, <1>3, <2>2 DEF SetDeviceTranscriptRetention, ingressVars
    <3>2. /\ row = [q \in Request |-> row[q]]
          /\ \A q \in Request : /\ row[q] \in RowType(q) /\ RowOK(q, row[q])
                                /\ ~Retained(q) => row[q].turns = {} /\ (q \notin owed => Clean(q, row[q]))
      BY <1>0, RowFacts DEF IngressInv, IngressTypeOK
    <3> QED
      BY <1>0, <3>1, <3>2, RowsStep, ZenonT(30) DEF Caused, IngressInv, IngressTypeOK
  <2> QED
    BY <2>1, <2>2
<1> QED
  BY <1>1, <1>2, <1>3

(* The sweep only removes content, and takes the prompt of a graph only    *)
(* once it is over and delivered.                                          *)
LEMMA SweepKeeps ==
  ASSUME IngressInv, Sweep
  PROVE  IngressInv'
<1>0. up = TRUE /\ UNCHANGED ingressVars /\ device \in BOOLEAN
  BY DEF Sweep, IngressInv, IngressTypeOK
<1>1. PICK received \in SUBSET Request, over \in SUBSET Request, stale \in SUBSET Conversation :
         /\ \A r \in over : GraphOver(row[r])
         /\ ApplyRetentionSweep(received, over, stale)
  BY DEF Sweep
<1>2. /\ row = [q \in Request |-> row[q]] /\ conv \in ConvType
      /\ \A q \in Request : row[q] \in RowType(q)
      /\ \A k \in Conversation : conv[k].retained => conv[k].there
  BY <1>0, RowFacts DEF IngressInv, IngressTypeOK, ConvType
<1>3. /\ conv' \in ConvType
      /\ \A k \in Conversation : conv'[k].retained = conv[k].retained /\ conv'[k].there = conv[k].there
      /\ UNCHANGED <<owed, device, call, pending, up>>
  <2>1. UNCHANGED <<owed, device, call, pending, up>>
    BY <1>0, <1>1, ZenonT(30) DEF ApplyRetentionSweep, ingressVars
  <2>2. conv' = [c \in Conversation |->
                   IF c \in stale /\ conv[c].there /\ conv[c].retained /\ ~Busy(c)
                   THEN [conv[c] EXCEPT !.title = Expired] ELSE conv[c]]
    BY <1>1, ZenonT(30) DEF ApplyRetentionSweep
  <2> QED
    BY <1>2, <2>1, <2>2 DEF ConvType, Content
<1>4. row' = [q \in Request |-> row'[q]]
  BY <1>1, ZenonT(30) DEF ApplyRetentionSweep
<1>5. ASSUME NEW q \in Request PROVE Trimmed(q, row[q], row'[q])
  <2> DEFINE o == row[q]
             quiet == q \in received /\ ~Busy(ConversationOf[q])
             turns == IF ~quiet THEN o.turns
                      ELSE o.turns \ ({"user"} \cup IF q \in over THEN {"assistant"} ELSE {})
             load  == IF quiet /\ o.payload # Blank /\ o.status # "PENDING" THEN Blank ELSE o.payload
             swept == [o EXCEPT !.turns = turns, !.payload = load]
             k     == [swept EXCEPT !.goal = Expired, !.out = {}]
  <2>1. row'[q] = IF q \in over /\ Caused(q) /\ ~Protected(q) THEN k ELSE swept
    BY <1>1, <1>2, ZenonT(30) DEF ApplyRetentionSweep, GraphSwept
  <2>2. o \in RowType(q) /\ turns \subseteq o.turns /\ load \in {o.payload, Blank}
    BY <1>2
  <2> HIDE DEF turns, load
  <2>3. /\ swept \in RowType(q) /\ swept.turns = turns /\ swept.payload = load /\ swept.node = o.node
        /\ swept.made = o.made /\ swept.status = o.status /\ swept.delivery = o.delivery
        /\ swept.goal = o.goal /\ swept.out = o.out
    BY <2>2, ZenonT(30) DEF RowType
  <2>4. /\ k \in RowType(q) /\ k.turns = turns /\ k.payload = load /\ k.node = o.node
        /\ k.made = o.made /\ k.status = o.status /\ k.delivery = o.delivery
        /\ k.goal = Expired /\ k.out = {}
    <3> HIDE DEF swept
    <3> QED
      BY <2>3, ZenonT(30) DEF RowType, Content
  <2> HIDE DEF swept, k
  <2>5. Trimmed(q, o, swept)
    BY <2>2, <2>3 DEF Trimmed
  <2>6. q \in over /\ Caused(q) /\ ~Protected(q) => Trimmed(q, o, k)
    BY <1>1, <2>2, <2>4 DEF Trimmed, Protected
  <2> QED
    BY <2>1, <2>5, <2>6
<1>6. \A q \in Request : ~conv'[ConversationOf[q]].retained => ~Retained(q)
  BY <1>3, RequestAssumption DEF Retained
<1> QED
  BY <1>0, <1>2, <1>3, <1>4, <1>5, <1>6, ConvStep

-----------------------------------------------------------------------------
(* Steps of the callers                                                    *)

CallType == [Caller -> {Idle} \cup Making \cup Marking]

(* A step of a caller, seen from each row and each call.                   *)
LEMMA CallStep ==
  ASSUME IngressInv, up = TRUE, UNCHANGED <<device, owed, up>>,
         conv' \in ConvType, \A c \in Conversation : conv'[c].retained => conv'[c].there,
         row' = [q \in Request |-> row'[q]],
         \A q \in Request :
            /\ row'[q] \in RowType(q) /\ RowOK(q, row'[q])
            /\ Caused(q) => row'[q].node["root"] # "absent"
            /\ ~conv'[ConversationOf[q]].retained =>
                  row'[q].turns = {} /\ (q \notin owed => Clean(q, row'[q])),
         call' \in CallType, pending' \subseteq Request \X {Text, Disabled, Blank},
         \A h \in Caller : call'[h].at = "mark" /\ call'[h].r \notin Notice =>
            call'[h] = call[h] \/ row'[call'[h].r].node["root"] # "absent"
  PROVE  IngressInv'
<1>1. IngressTypeOK'
  BY DEF IngressInv, IngressTypeOK, ConvType, CallType
<1>2. \A q \in Request : RowOK(q, row'[q]) /\ (~Retained(q)' => Private(q, row[q])')
  BY DEF Retained, Private
<1>3. \A h \in Caller : call'[h].at = "mark" /\ call'[h].r \notin Notice => Caused(call[h].r)'
  <2> SUFFICES ASSUME NEW h \in Caller, call'[h].at = "mark", call'[h].r \notin Notice,
                      call'[h] = call[h]
               PROVE  row'[call'[h].r].node["root"] # "absent"
    BY DEF Caused
  <2>1. call[h] \in Marking
    BY DEF IngressInv, IngressTypeOK, Idle, Making, Marking
  <2>2. call[h].r \in Request /\ Caused(call[h].r)
    BY <2>1 DEF IngressInv, Marking
  <2> QED
    BY <2>2
<1> QED
  BY <1>1, <1>2, <1>3, ZenonT(30) DEF IngressInv, RowOK

(* A step of a caller that leaves the store alone.                         *)
LEMMA CallOnlyStep ==
  ASSUME IngressInv, up = TRUE, UNCHANGED <<conv, row, device, owed, up>>,
         call' \in CallType, pending' \subseteq Request \X {Text, Disabled, Blank},
         \A h \in Caller : call'[h].at = "mark" /\ call'[h].r \notin Notice =>
            call'[h] = call[h] \/ Caused(call'[h].r)
  PROVE  IngressInv'
<1>1. /\ conv \in ConvType /\ row = [q \in Request |-> row[q]]
      /\ \A c \in Conversation : conv[c].retained => conv[c].there
  BY DEF IngressInv, IngressTypeOK, ConvType
<1>2. \A q \in Request :
         /\ row[q] \in RowType(q) /\ RowOK(q, row[q])
         /\ ~conv[ConversationOf[q]].retained => row[q].turns = {} /\ (q \notin owed => Clean(q, row[q]))
  BY RowFacts DEF Retained
<1> QED
  BY <1>1, <1>2, CallStep, ZenonT(30) DEF Caused

(* What a call holds at each of its stages.                                *)
LEMMA CallFacts ==
  ASSUME IngressInv, NEW h \in Caller
  PROVE  /\ call \in CallType /\ pending \subseteq Request \X {Text, Disabled, Blank}
         /\ call[h].at \in {"lookup", "commit"} => call[h] \in Making
         /\ call[h].at = "mark" => call[h] \in Marking
  BY DEF IngressInv, IngressTypeOK, CallType, Idle, Making, Marking

(* Handing a request to submitAsk leaves the store alone.                  *)
LEMMA SubmitKeeps ==
  ASSUME IngressInv, up = TRUE, NEW h \in Caller, NEW r \in Request,
         NEW retain \in BOOLEAN, NEW apply \in BOOLEAN, Submit(h, r, retain, apply),
         pending' \subseteq pending, UNCHANGED <<conv, row, device, owed, up>>
  PROVE  IngressInv'
<1> DEFINE c == [at |-> "lookup", r |-> r, retain |-> retain, apply |-> apply, recover |-> FALSE]
<1>1. c \in Making /\ c.at # "mark" /\ call' = [call EXCEPT ![h] = c]
  BY DEF Making, Submit
<1>2. call \in CallType /\ pending' \subseteq Request \X {Text, Disabled, Blank}
  BY CallFacts
<1> HIDE DEF c
<1>3. call' \in CallType /\ \A k \in Caller : call'[k] = call[k] \/ call'[k].at # "mark"
  BY <1>1, <1>2 DEF CallType
<1> QED
  BY <1>2, <1>3, CallOnlyStep, ZenonT(30)

(* Every way a request arrives ends in submitAsk.                          *)
LEMMA ArrivalsKeep ==
  ASSUME IngressInv, NEW h \in Handler, NEW r \in Request,
         \/ handleAsk(h, r)
         \/ handleConnectorEvent(h, r)
         \/ handleConnectorSimulator(h, r)
         \/ \E named, override \in BOOLEAN : sendText(h, r, named, override)
         \/ \E again \in Request : handleReplayEvent(h, r, again)
  PROVE  IngressInv'
<1>1. h \in Caller /\ RetainDefault \in BOOLEAN
  BY IngressAssumption DEF Caller
<1>2. /\ up = TRUE /\ UNCHANGED <<conv, row, device, owed, pending, up>>
      /\ \E q \in Request, retain \in BOOLEAN, apply \in BOOLEAN : Submit(h, q, retain, apply)
  <2>1. CASE handleAsk(h, r)
    BY <1>1, <2>1, ZenonT(30) DEF handleAsk, Arrives, transcriptVars, IngressInv, IngressTypeOK
  <2>2. CASE handleConnectorEvent(h, r) \/ handleConnectorSimulator(h, r)
    BY <1>1, <2>2, ZenonT(30) DEF handleConnectorEvent, handleConnectorSimulator, Arrives, transcriptVars,
                      IngressInv, IngressTypeOK
  <2>3. ASSUME NEW named \in BOOLEAN, NEW override \in BOOLEAN, sendText(h, r, named, override)
        PROVE  /\ up = TRUE /\ UNCHANGED <<conv, row, device, owed, pending, up>>
               /\ \E q \in Request, retain \in BOOLEAN, apply \in BOOLEAN : Submit(h, q, retain, apply)
    <3> DEFINE retain == deviceTranscriptRetention(override) /\ (named => Retained(r))
    <3>1. retain \in BOOLEAN
      OBVIOUS
    <3>2. /\ up = TRUE /\ UNCHANGED <<conv, row, device, owed, pending, up>>
          /\ Submit(h, r, retain, TRUE)
      BY <2>3, ZenonT(30) DEF sendText, transcriptVars, IngressInv, IngressTypeOK
    <3> HIDE DEF retain
    <3> QED
      BY <3>1, <3>2, ZenonT(30)
  <2>4. ASSUME NEW again \in Request, handleReplayEvent(h, r, again)
        PROVE  /\ up = TRUE /\ UNCHANGED <<conv, row, device, owed, pending, up>>
               /\ \E q \in Request, retain \in BOOLEAN, apply \in BOOLEAN : Submit(h, q, retain, apply)
    BY <1>1, <2>4, ZenonT(30) DEF handleReplayEvent, transcriptVars, IngressInv, IngressTypeOK
  <2> QED
    BY <2>1, <2>2, <2>3, <2>4, ZenonT(30)
<1> QED
  BY <1>1, <1>2, SubmitKeeps

(* Only a recovery whose request has its graph goes on to mark the event.  *)
LEMMA ReturnFacts ==
  ASSUME IngressInv, NEW h \in Caller, NEW answer, Return(h, answer), call[h].at \in {"lookup", "commit"}
  PROVE  /\ call[h] \in Making /\ call' \in CallType
         /\ \A k \in Caller : call'[k].at = "mark" =>
               call'[k] = call[k] \/ (k = h /\ answer # "error" /\ call'[k].r = call[h].r)
<1> DEFINE mark == [at |-> "mark", r |-> call[h].r]
           c == IF h = Recovery /\ answer # "error" THEN mark ELSE Idle
<1>1. call \in CallType /\ call[h] \in Making /\ call' = [call EXCEPT ![h] = c]
  BY CallFacts DEF Return
<1>2. mark \in Marking /\ mark.r = call[h].r /\ Idle.at # "mark"
  BY <1>1 DEF Making, Marking, Idle
<1> HIDE DEF mark
<1>3. c \in {Idle} \cup Marking /\ (c.at = "mark" => answer # "error" /\ c.r = call[h].r)
  BY <1>2
<1> HIDE DEF c
<1> QED
  BY <1>1, <1>3 DEF CallType

(* The lookup before the transaction leaves the store alone.               *)
LEMMA LookupKeeps ==
  ASSUME IngressInv, NEW h \in Caller, LookupEvent(h)
  PROVE  IngressInv'
<1>1. /\ up = TRUE /\ call[h].at = "lookup" /\ UNCHANGED <<conv, row, device, owed, pending, up>>
      /\ call \in CallType /\ call[h] \in Making /\ pending' \subseteq Request \X {Text, Disabled, Blank}
  BY CallFacts DEF LookupEvent, transcriptVars, IngressInv, IngressTypeOK
<1>2. \/ \E recover \in BOOLEAN : Proceed(h, recover)
      \/ Caused(call[h].r) /\ Return(h, "duplicate")
      \/ Return(h, "error")
  BY ZenonT(30) DEF LookupEvent
<1>3. ASSUME NEW recover \in BOOLEAN, Proceed(h, recover) PROVE IngressInv'
  <2> DEFINE c == [call[h] EXCEPT !.at = "commit", !.recover = recover]
  <2>1. c \in Making /\ c.at # "mark" /\ call' = [call EXCEPT ![h] = c]
    BY <1>1, <1>3, ZenonT(30) DEF Making, Proceed
  <2> HIDE DEF c
  <2>2. call' \in CallType /\ \A k \in Caller : call'[k] = call[k] \/ call'[k].at # "mark"
    BY <1>1, <2>1 DEF CallType
  <2> QED
    BY <1>1, <2>2, CallOnlyStep
<1>4. CASE Caused(call[h].r) /\ Return(h, "duplicate")
  BY <1>1, <1>4, ReturnFacts, CallOnlyStep
<1>5. CASE Return(h, "error")
  BY <1>1, <1>5, ReturnFacts, CallOnlyStep
<1> QED
  BY <1>2, <1>3, <1>4, <1>5

(* The transaction of CreateAskWork: the unique keys of events and tasks   *)
(* keep a request from a second graph, whatever was looked up before, and  *)
(* a policy the request names takes effect on its conversation with it.    *)
LEMMA CreateAskWorkKeeps ==
  ASSUME IngressInv, NEW h \in Caller, CreateAskWork(h)
  PROVE  IngressInv'
<1> DEFINE c == call[h]
           r == c.r
           k == ConversationOf[r]
           o == row[r]
<1>1. /\ up = TRUE /\ call[h].at = "commit" /\ UNCHANGED <<device, owed, pending, up>>
      /\ call \in CallType /\ call[h] \in Making /\ pending' \subseteq Request \X {Text, Disabled, Blank}
  BY CallFacts, ZenonT(30) DEF CreateAskWork, IngressInv, IngressTypeOK
<1>2. /\ r \in Request /\ k \in Conversation /\ c.retain \in BOOLEAN /\ c.apply \in BOOLEAN
      /\ c.recover \in BOOLEAN
  BY <1>1, RequestAssumption DEF Making
<1>3. CASE EventKeyTaken(c)
  <2>1. /\ UNCHANGED <<conv, row>>
        /\ \E answer \in {"duplicate", "error"} : Return(h, answer) /\ (answer = "duplicate" => Caused(r))
    BY <1>3 DEF CreateAskWork
  <2> QED
    BY <1>1, <2>1, ReturnFacts, CallOnlyStep
<1>4. CASE ~EventKeyTaken(c) /\ TaskKeyTaken(c)
  <2>1. UNCHANGED <<conv, row>> /\ Return(h, "error")
    BY <1>4 DEF CreateAskWork
  <2> QED
    BY <1>1, <2>1, ReturnFacts, CallOnlyStep
<1>5. CASE ~EventKeyTaken(c) /\ ~TaskKeyTaken(c)
  <2> DEFINE actual   == AppliedPolicy(UpsertedConversation(conv[k], c.retain), c)
             received == IF c.recover THEN row
                         ELSE [row EXCEPT ![r].payload = EventPayload(c.retain)]
             scrubbed == IF c.apply /\ ~c.retain THEN DisabledRows(received, k) ELSE received
             g        == AskGraph(scrubbed[r], r, actual.retained)
  <2>1. /\ conv' = [conv EXCEPT ![k] = actual]
        /\ row' = [scrubbed EXCEPT ![r] = g]
        /\ Return(h, "created")
    BY <1>5, ZenonT(30) DEF CreateAskWork
  <2>2. /\ row = [q \in Request |-> row[q]] /\ conv \in ConvType
        /\ \A b \in Conversation : conv[b].retained => conv[b].there
        /\ \A q \in Request : /\ row[q] \in RowType(q) /\ RowOK(q, row[q])
                              /\ ~Retained(q) => row[q].turns = {} /\ (q \notin owed => Clean(q, row[q]))
    BY <1>1, RowFacts DEF IngressInv, IngressTypeOK, ConvType
  <2>3. ~Caused(r) /\ o.made = 0
    BY <1>2, <1>5, <2>2, ZenonT(30) DEF EventKeyTaken, TaskKeyTaken, RowOK, Caused
  <2>4. /\ actual \in [there : BOOLEAN, retained : BOOLEAN, title : Content] /\ actual.there
        /\ ~actual.retained => ~conv[k].retained \/ (c.apply /\ ~c.retain)
    <3> DEFINE old == conv[k]
               mid == UpsertedConversation(old, c.retain)
    <3>1. old \in [there : BOOLEAN, retained : BOOLEAN, title : Content] /\ (old.retained => old.there)
      BY <1>2, <2>2 DEF ConvType
    <3>2. /\ mid \in [there : BOOLEAN, retained : BOOLEAN, title : Content] /\ mid.there
          /\ old.there => mid.retained = old.retained
      BY <1>2, <3>1, ZenonT(30) DEF UpsertedConversation, EventPayload, Content
    <3> HIDE DEF mid
    <3>3. actual = AppliedPolicy(mid, c)
      BY DEF mid
    <3> QED
      BY <1>2, <3>1, <3>2, <3>3, ZenonT(30) DEF AppliedPolicy, disableTranscriptRetention, Content
  <2> HIDE DEF actual
  <2>5. /\ received = [q \in Request |-> received[q]]
        /\ \A q \in Request : /\ received[q] \in RowType(q) /\ (q # r => received[q] = row[q])
                              /\ received[q].turns = row[q].turns /\ received[q].made = row[q].made
                              /\ received[q].delivery = row[q].delivery
    <3>1. CASE c.recover
      BY <2>2, <3>1
    <3>2. CASE ~c.recover
      <4> DEFINE p == [o EXCEPT !.payload = EventPayload(c.retain)]
      <4>1. o \in RowType(r) /\ EventPayload(c.retain) \in {Text, Disabled, Blank}
        BY <1>2, <2>2 DEF EventPayload
      <4>2. p \in RowType(r) /\ p.turns = o.turns /\ p.made = o.made /\ p.delivery = o.delivery
        BY <4>1 DEF RowType
      <4>3. received = [row EXCEPT ![r] = p]
        BY <1>2, <2>2, <3>2
      <4> HIDE DEF p, received
      <4> QED
        BY <1>2, <2>2, <4>2, <4>3
    <3> QED
      BY <1>2, <3>1, <3>2, ZenonT(30)
  <2> HIDE DEF received
  <2>6. /\ scrubbed = [q \in Request |-> scrubbed[q]]
        /\ \A q \in Request : Trimmed(q, received[q], scrubbed[q])
        /\ c.apply /\ ~c.retain => \A q \in Of(k) : scrubbed[q].turns = {} /\ Clean(q, scrubbed[q])
    <3>1. CASE c.apply /\ ~c.retain
      BY <1>2, <2>5, <3>1, DisabledRowsFacts
    <3>2. CASE ~(c.apply /\ ~c.retain)
      BY <2>5, <3>2, ZenonT(30) DEF Trimmed
    <3> QED
      BY <3>1, <3>2, ZenonT(30)
  <2> HIDE DEF scrubbed
  <2>7. /\ scrubbed[r] \in RowType(r) /\ scrubbed[r].made = 0
        /\ ~actual.retained => scrubbed[r].turns = {}
    <3>1. /\ scrubbed[r] \in RowType(r) /\ scrubbed[r].made = 0
          /\ scrubbed[r].turns \subseteq o.turns
      BY <1>2, <2>3, <2>5, <2>6 DEF Trimmed
    <3>2. ~conv[k].retained => o.turns = {}
      BY <1>2, <2>2 DEF Retained
    <3>3. c.apply /\ ~c.retain => scrubbed[r].turns = {}
      BY <1>2, <2>6 DEF Of
    <3> QED
      BY <2>4, <3>1, <3>2, <3>3, ZenonT(30)
  <2>8. /\ g \in RowType(r) /\ g.status = "PROCESSED" /\ g.made = 1 /\ g.goal = Text
        /\ g.node = [n \in Node(r) |-> "queued"]
        /\ ~actual.retained => g.turns = {}
    <3> DEFINE s == scrubbed[r]
               nodes == [n \in Node(r) |-> "queued"]
               turns == IF actual.retained THEN s.turns \cup {"user"} ELSE s.turns
    <3>1. nodes \in [Node(r) -> NodeState]
      BY DEF NodeState
    <3>2. turns \subseteq {"user", "assistant"} /\ (~actual.retained => turns = {})
      BY <2>7, ZenonT(30) DEF RowType
    <3>3. g = [s EXCEPT !.status = "PROCESSED", !.made = s.made + 1, !.goal = Text,
                        !.node = nodes, !.turns = turns]
      BY DEF AskGraph
    <3>4. s.made + 1 = 1 /\ s.made + 1 \in Nat
      BY <2>7
    <3> HIDE DEF nodes, turns, s, g
    <3>5. s \in RowType(r)
      BY <2>7 DEF s
    <3> QED
      BY <3>1, <3>2, <3>3, <3>4, <3>5, ZenonT(30) DEF RowType, Content, nodes
  <2> HIDE DEF g
  <2>9. g.node["root"] = "queued" /\ RowOK(r, g) /\ Clean(r, g)
    <3>1. g.node["root"] = "queued"
      BY <1>2, <2>8, NodeFacts
    <3>2. ~GraphOver(g)
      BY <1>2, <2>8, <3>1, OverFacts, NodeFacts DEF Ended
    <3> QED
      BY <2>8, <3>1, <3>2 DEF RowOK, Clean, Text, Blank, Expired
  <2>10. \A q \in Request : row'[q] = IF q = r THEN g ELSE scrubbed[q]
    BY <2>1, <2>6
  <2>11. row' = [q \in Request |-> row'[q]]
    BY <2>1, <2>6
  <2>12. /\ conv' \in ConvType
         /\ \A b \in Conversation : conv'[b] = IF b = k THEN actual ELSE conv[b]
         /\ \A b \in Conversation : conv'[b].retained => conv'[b].there
    BY <1>2, <2>1, <2>2, <2>4 DEF ConvType
  <2>13. ASSUME NEW q \in Request, q # r
         PROVE  /\ row'[q] \in RowType(q) /\ RowOK(q, row'[q])
                /\ Caused(q) => row'[q].node["root"] # "absent"
                /\ ~conv'[ConversationOf[q]].retained =>
                      row'[q].turns = {} /\ (q \notin owed => Clean(q, row'[q]))
    <3>1. row'[q] = scrubbed[q] /\ Trimmed(q, row[q], scrubbed[q]) /\ row[q] \in RowType(q)
      BY <2>2, <2>5, <2>6, <2>10, <2>13
    <3>2. /\ RowOK(q, scrubbed[q]) /\ scrubbed[q] \in RowType(q) /\ scrubbed[q].node = row[q].node
          /\ ~Retained(q) => scrubbed[q].turns = {} /\ (q \notin owed => Clean(q, scrubbed[q]))
      BY <2>2, <3>1, TrimmedKeeps DEF Trimmed
    <3>3. ~conv'[ConversationOf[q]].retained =>
             ~Retained(q) \/ (q \in Of(k) /\ c.apply /\ ~c.retain)
      BY <1>2, <2>4, <2>12, RequestAssumption DEF Retained, Of
    <3> QED
      BY <2>6, <3>1, <3>2, <3>3 DEF Caused
  <2>14. /\ row'[r] \in RowType(r) /\ RowOK(r, row'[r]) /\ row'[r].node["root"] # "absent"
         /\ ~conv'[ConversationOf[r]].retained => row'[r].turns = {} /\ Clean(r, row'[r])
    BY <1>2, <2>8, <2>9, <2>10, <2>12
  <2>15. /\ call' \in CallType
         /\ \A b \in Caller : call'[b].at = "mark" /\ call'[b].r \notin Notice =>
               call'[b] = call[b] \/ row'[call'[b].r].node["root"] # "absent"
    BY <1>1, <2>1, <2>14, ReturnFacts
  <2> HIDE DEF r, k
  <2> QED
    BY <1>1, <2>11, <2>12, <2>13, <2>14, <2>15, CallStep
<1> QED
  BY <1>3, <1>4, <1>5

(* Marking an event, where the mark says no more than is true.             *)
LEMMA MarkedKeeps ==
  ASSUME IngressInv, up = TRUE, NEW r \in Request, NEW status \in {"PENDING", "PROCESSED", "FAILED"},
         r \notin Notice => (status = "PROCESSED" => Caused(r)) /\ (Caused(r) => status # "PENDING"),
         Marked(r, status), UNCHANGED <<conv, device, owed, up>>,
         call' \in CallType, pending' \subseteq pending,
         \A h \in Caller : call'[h].at = "mark" /\ call'[h].r \notin Notice => call'[h] = call[h]
  PROVE  IngressInv'
<1> DEFINE o == row[r]
           g == [o EXCEPT !.status = status]
<1>1. /\ row = [q \in Request |-> row[q]] /\ conv \in ConvType
      /\ pending' \subseteq Request \X {Text, Disabled, Blank}
      /\ \A b \in Conversation : conv[b].retained => conv[b].there
      /\ \A q \in Request : /\ row[q] \in RowType(q) /\ RowOK(q, row[q])
                            /\ ~Retained(q) => row[q].turns = {} /\ (q \notin owed => Clean(q, row[q]))
  BY RowFacts DEF IngressInv, IngressTypeOK, ConvType
<1>2. row' = [row EXCEPT ![r] = g]
  BY <1>1 DEF Marked
<1>3. /\ g \in RowType(r) /\ g.status = status /\ g.made = o.made /\ g.node = o.node
      /\ g.goal = o.goal /\ g.delivery = o.delivery /\ g.turns = o.turns /\ g.out = o.out
      /\ g.payload = o.payload
  <2>1. o \in RowType(r)
    BY <1>1
  <2> QED
    BY <2>1 DEF RowType
<1> HIDE DEF g
<1>4. (GraphOver(g) <=> GraphOver(o)) /\ (LateChild(r, g) <=> LateChild(r, o)) /\ (Kept(g) <=> Kept(o))
  BY <1>3 DEF GraphOver, LateChild, Kept
<1>5. RowOK(r, g) /\ (Clean(r, o) => Clean(r, g))
  BY <1>1, <1>3, <1>4 DEF RowOK, Clean, Caused
<1>6. /\ row' = [q \in Request |-> row'[q]]
      /\ \A q \in Request : row'[q] = IF q = r THEN g ELSE row[q]
  BY <1>1, <1>2
<1>7. \A q \in Request :
         /\ row'[q] \in RowType(q) /\ RowOK(q, row'[q])
         /\ Caused(q) => row'[q].node["root"] # "absent"
         /\ ~conv'[ConversationOf[q]].retained =>
               row'[q].turns = {} /\ (q \notin owed => Clean(q, row'[q]))
  BY <1>1, <1>3, <1>5, <1>6 DEF Caused, Retained
<1> QED
  BY <1>1, <1>6, <1>7, CallStep

(* An event without work is stored as PENDING.                             *)
LEMMA IngestKeeps ==
  ASSUME IngressInv, NEW h \in Handler, NEW r \in Request, IngestEvent(h, r)
  PROVE  IngressInv'
<1> DEFINE mark == [at |-> "mark", r |-> r]
<1>1. /\ up = TRUE /\ r \in Notice /\ Marked(r, "PENDING") /\ call' = [call EXCEPT ![h] = mark]
      /\ UNCHANGED <<conv, device, owed, pending, up>> /\ h \in Caller
  BY DEF IngestEvent, IngressInv, IngressTypeOK, Caller
<1>2. mark \in Marking /\ mark.r = r /\ call \in CallType
  BY <1>1, CallFacts DEF Marking
<1> HIDE DEF mark
<1>3. /\ call' \in CallType
      /\ \A k \in Caller : call'[k].at = "mark" /\ call'[k].r \notin Notice => call'[k] = call[k]
  BY <1>1, <1>2 DEF CallType
<1> QED
  BY <1>1, <1>3, MarkedKeeps, ZenonT(30)

(* An event is marked as processed only after its work was made.           *)
LEMMA MarkProcessedKeeps ==
  ASSUME IngressInv, NEW h \in Caller, MarkEventProcessed(h)
  PROVE  IngressInv'
<1>1. /\ up = TRUE /\ call[h].at = "mark" /\ Marked(call[h].r, "PROCESSED")
      /\ call' = [call EXCEPT ![h] = Idle] /\ UNCHANGED <<conv, device, owed, pending, up>>
      /\ call \in CallType /\ call[h] \in Marking
  BY CallFacts DEF MarkEventProcessed, IngressInv, IngressTypeOK
<1>2. call[h].r \in Request /\ (call[h].r \notin Notice => Caused(call[h].r))
  BY <1>1 DEF Marking, IngressInv
<1>3. /\ call' \in CallType
      /\ \A k \in Caller : call'[k].at = "mark" /\ call'[k].r \notin Notice => call'[k] = call[k]
  BY <1>1 DEF CallType, Idle
<1> QED
  BY <1>1, <1>2, <1>3, MarkedKeeps, ZenonT(30)

(* Listing the pending events.                                             *)
LEMMA ListKeeps ==
  ASSUME IngressInv, ListPendingEvents
  PROVE  IngressInv'
<1>1. /\ up = TRUE /\ UNCHANGED <<conv, row, device, owed, call, up>>
      /\ pending' = {<<r, row[r].payload>> : r \in {q \in Request : row[q].status = "PENDING"}}
  BY DEF ListPendingEvents, transcriptVars, IngressInv, IngressTypeOK
<1>2. \A r \in Request : row[r].payload \in {Text, Disabled, Blank}
  BY RowFacts DEF RowType
<1>3. pending' \subseteq Request \X {Text, Disabled, Blank}
  BY <1>1, <1>2
<1>4. call' \in CallType
  BY <1>1 DEF IngressInv, IngressTypeOK, CallType
<1> QED
  BY <1>1, <1>3, <1>4, CallOnlyStep

(* A pending event is submitted again or marked as failed.                 *)
LEMMA RecoverPendingKeeps ==
  ASSUME IngressInv, NEW p \in pending, recoverPendingEvent(p)
  PROVE  IngressInv'
<1>1. /\ up = TRUE /\ pending' \subseteq pending /\ UNCHANGED <<conv, device, owed, up>>
      /\ p[1] \in Request /\ Recovery \in Caller /\ RetainDefault \in BOOLEAN /\ call \in CallType
  BY IngressAssumption DEF recoverPendingEvent, IngressInv, IngressTypeOK, Caller, CallType
<1>2. CASE Recoverable(p)
  BY <1>1, <1>2, SubmitKeeps, ZenonT(30) DEF recoverPendingEvent
<1>3. CASE ~Recoverable(p)
  BY <1>1, <1>3, MarkedKeeps DEF recoverPendingEvent
<1> QED
  BY <1>2, <1>3

-----------------------------------------------------------------------------
(* The end of the process and the next start                               *)

(* A crash loses calls, listed events and owed scrubs, and no row.         *)
LEMMA CrashKeeps ==
  ASSUME IngressInv, Crash
  PROVE  IngressInv'
<1>1. /\ up' = FALSE /\ pending' = {} /\ owed' = {} /\ call' = [h \in Caller |-> Idle]
      /\ UNCHANGED <<conv, row, device>>
  BY DEF Crash
<1>2. IngressTypeOK'
  BY <1>1, ZenonT(30) DEF IngressInv, IngressTypeOK
<1>3. \A r \in Request : RowOK(r, row'[r]) /\ (~Retained(r)' => Private(r, row[r])')
  BY <1>1, ZenonT(30) DEF IngressInv, Retained, Private
<1> QED
  BY <1>1, <1>2, <1>3, ZenonT(30) DEF IngressInv, Idle, RowOK

(* What a start makes of an interrupted graph is a well-formed row.        *)
LEMMA InterruptedFacts ==
  ASSUME IngressInv, NEW r \in Request
  PROVE  LET g == Interrupted(r) IN
         /\ g \in RowType(r) /\ RowOK(r, g) /\ g.turns = row[r].turns
<1> DEFINE o == row[r]
           nodes == [n \in Node(r) |-> InterruptedNode(r, n)]
           tries == [n \in Node(r) |-> IF o.node[n] = "running" /\ o.retry[n] < MaxRetries
                                       THEN o.retry[n] + 1 ELSE o.retry[n]]
           out   == o.out \cup {n \in Node(r) : o.node[n] = "running" /\ o.retry[n] >= MaxRetries}
           g == [o EXCEPT !.node = nodes, !.retry = tries, !.out = out]
<1>1. o \in RowType(r) /\ RowOK(r, o)
  BY RowFacts
<1>2. Interrupted(r) = g
  BY <1>1 DEF Interrupted, RowType
<1>3. o.node \in [Node(r) -> NodeState] /\ o.retry \in [Node(r) -> 0..MaxRetries] /\ out \in SUBSET Node(r)
  BY <1>1 DEF RowType
<1>4. \A n \in Node(r) : /\ o.node[n] = "cancelling" => nodes[n] = "cancelled"
                         /\ o.node[n] = "running" => nodes[n] \in {"queued", "failed"}
                         /\ o.node[n] \notin {"cancelling", "running"} => nodes[n] = o.node[n]
  BY DEF InterruptedNode
<1>5. nodes \in [Node(r) -> NodeState]
  BY <1>3, <1>4 DEF NodeState, Ended
<1>6. tries \in [Node(r) -> 0..MaxRetries]
  BY <1>3, RequestAssumption
<1> HIDE DEF nodes, tries, out
<1>7. /\ g \in RowType(r) /\ g.status = o.status /\ g.made = o.made /\ g.node = nodes
      /\ g.goal = o.goal /\ g.delivery = o.delivery /\ g.turns = o.turns
  BY <1>1, <1>3, <1>5, <1>6, ZenonT(30) DEF RowType
<1> HIDE DEF g
<1>8. GraphOver(o) => GraphOver(g)
  BY <1>1, <1>4, <1>7, OverFacts DEF Ended
<1>9. /\ (o.node["root"] = "absent") <=> (g.node["root"] = "absent")
      /\ g.node["root"] \notin {"absent", "queued", "cancelled"} =>
            o.node["root"] \notin {"absent", "queued", "cancelled"}
      /\ \A d \in Delegates[r] : o.node[d] \in Ended => g.node[d] \in Ended
  BY <1>3, <1>4, <1>7, NodeFacts, ZenonT(30) DEF NodeState, Ended
<1>10. RowOK(r, g)
  BY <1>1, <1>7, <1>8, <1>9, ZenonT(30) DEF RowOK
<1> QED
  BY <1>2, <1>7, <1>10

(* The scrub of a start leaves no content in a graph that is over in a     *)
(* conversation that is not retained.                                      *)
LEMMA ReconciledFacts ==
  ASSUME NEW rows, rows = [q \in Request |-> rows[q]], \A q \in Request : rows[q] \in RowType(q),
         \A q \in Request : ~Retained(q) => rows[q].turns = {}
  PROVE  LET after == ScrubTerminalNonRetainedTaskGraphs(rows) IN
         /\ after = [q \in Request |-> after[q]]
         /\ \A q \in Request : /\ Trimmed(q, rows[q], after[q])
                               /\ ~Retained(q) /\ GraphOver(after[q]) => ~Kept(after[q])
<1> DEFINE due == {r \in Request : rows[r].node["root"] # "absent" /\ GraphOver(rows[r]) /\ ~Retained(r)}
           after == ScrubTerminalNonRetainedTaskGraphs(rows)
           cleared(q) == IF \E d \in due : ConversationOf[d] = ConversationOf[q]
                         THEN [rows[q] EXCEPT !.payload = Blank] ELSE rows[q]
<1>1. /\ after = [q \in Request |-> after[q]]
      /\ \A q \in Request : after[q] = IF q \in due THEN scrubTerminalTaskGraphContent(cleared(q)) ELSE cleared(q)
  BY DEF ScrubTerminalNonRetainedTaskGraphs
<1> HIDE DEF after
<1>2. ASSUME NEW q \in Request
      PROVE  /\ Trimmed(q, rows[q], after[q])
             /\ ~Retained(q) /\ GraphOver(after[q]) => ~Kept(after[q])
  <2> DEFINE o == rows[q]
             h == cleared(q)
             k == [h EXCEPT !.goal = Disabled, !.out = {}]
  <2>1. o \in RowType(q) /\ (q \in due => h = [o EXCEPT !.payload = Blank])
        /\ h \in {o, [o EXCEPT !.payload = Blank]}
    OBVIOUS
  <2>2. /\ h \in RowType(q) /\ h.turns = o.turns /\ h.payload \in {o.payload, Blank} /\ h.node = o.node
        /\ h.made = o.made /\ h.status = o.status /\ h.delivery = o.delivery
        /\ h.goal = o.goal /\ h.out = o.out /\ (q \in due => h.payload = Blank)
    <3> HIDE DEF h
    <3> QED
      BY <2>1 DEF RowType
  <2>3. after[q] = IF q \in due THEN k ELSE h
    BY <1>1, ZenonT(30) DEF scrubTerminalTaskGraphContent
  <2> HIDE DEF h
  <2>4. /\ k \in RowType(q) /\ k.turns = o.turns /\ k.payload = h.payload /\ k.node = o.node
        /\ k.made = o.made /\ k.status = o.status /\ k.delivery = o.delivery
        /\ k.goal = Disabled /\ k.out = {}
    BY <2>2, ZenonT(30) DEF RowType, Content
  <2> HIDE DEF k
  <2>5. GraphOver(k) = GraphOver(o) /\ GraphOver(h) = GraphOver(o)
    BY <2>2, <2>4 DEF GraphOver
  <2>6. CASE q \in due
    <3>1. GraphOver(o) /\ o.turns = {} /\ h.payload = Blank
      BY <2>2, <2>6
    <3>2. Trimmed(q, o, k)
      BY <2>2, <2>4, <3>1 DEF Trimmed
    <3>3. ~Kept(k)
      BY <2>4, <3>1 DEF Kept, Text, Disabled, Blank
    <3> QED
      BY <2>3, <2>6, <3>2, <3>3
  <2>7. CASE q \notin due
    <3>1. ~Retained(q) => ~GraphOver(o)
      BY <2>1, <2>7, OverFacts
    <3>2. Trimmed(q, o, h)
      BY <2>2 DEF Trimmed
    <3> QED
      BY <2>3, <2>5, <2>7, <3>1, <3>2
  <2> QED
    BY <2>6, <2>7
<1> QED
  BY <1>1, <1>2 DEF after

(* A start: the scrubs that the crash lost are made up for.                *)
LEMMA RestartKeeps ==
  ASSUME IngressInv, Restart
  PROVE  /\ IngressInv'
         /\ \A q \in Request : ~Retained(q)' /\ GraphOver(row'[q]) => ~Kept(row'[q])
<1> DEFINE rows == [r \in Request |-> Interrupted(r)]
<1>1. /\ up = FALSE /\ up' = TRUE /\ UNCHANGED <<conv, device, owed, call, pending>>
      /\ row' = ScrubTerminalNonRetainedTaskGraphs(rows)
  BY DEF Restart, RecoverInterruptedTasks, IngressInv, IngressTypeOK
<1>2. /\ rows = [q \in Request |-> rows[q]]
      /\ \A q \in Request : /\ rows[q] \in RowType(q) /\ RowOK(q, rows[q])
                            /\ ~Retained(q) => rows[q].turns = {}
                            /\ Caused(q) => rows[q].node["root"] # "absent"
  <2>1. ASSUME NEW q \in Request
        PROVE  /\ rows[q] \in RowType(q) /\ RowOK(q, rows[q])
               /\ ~Retained(q) => rows[q].turns = {}
               /\ Caused(q) => rows[q].node["root"] # "absent"
    <3>1. /\ rows[q] \in RowType(q) /\ RowOK(q, rows[q]) /\ rows[q].turns = row[q].turns
      BY InterruptedFacts
    <3>2. rows[q].goal = row[q].goal
      BY RowFacts, ZenonT(30) DEF Interrupted, RowType
    <3>3. RowOK(q, row[q]) /\ (~Retained(q) => row[q].turns = {})
      BY RowFacts
    <3> HIDE DEF rows
    <3> QED
      BY <3>1, <3>2, <3>3, ZenonT(30) DEF RowOK, Caused
  <2> QED
    BY <2>1, ZenonT(30)
<1> HIDE DEF rows
<1>3. /\ row' = [q \in Request |-> row'[q]]
      /\ \A q \in Request : /\ Trimmed(q, rows[q], row'[q])
                            /\ ~Retained(q) /\ GraphOver(row'[q]) => ~Kept(row'[q])
  BY <1>1, <1>2, ReconciledFacts
<1>4. \A q \in Request :
         /\ row'[q] \in RowType(q) /\ RowOK(q, row'[q])
         /\ Caused(q) => row'[q].node["root"] # "absent"
         /\ ~Retained(q) => row'[q].turns = {} /\ Clean(q, row'[q])
  BY <1>2, <1>3, TrimmedKeeps DEF Trimmed, Clean
<1>5. IngressTypeOK'
  BY <1>1, <1>3, <1>4 DEF IngressInv, IngressTypeOK
<1>6. \A q \in Request : RowOK(q, row'[q]) /\ (~Retained(q)' => Private(q, row[q])')
  BY <1>1, <1>4, ZenonT(30) DEF Retained, Private
<1>7. \A h \in Caller : call'[h].at = "mark" /\ call'[h].r \notin Notice => Caused(call[h].r)'
  <2> SUFFICES ASSUME NEW h \in Caller, call[h].at = "mark", call[h].r \notin Notice
               PROVE  row'[call[h].r].node["root"] # "absent"
    BY <1>1 DEF Caused
  <2>1. call[h] \in Marking
    BY CallFacts
  <2>2. call[h].r \in Request /\ Caused(call[h].r)
    BY <2>1 DEF IngressInv, Marking
  <2> QED
    BY <1>4, <2>2
<1>8. \A q \in Request : ~Retained(q)' /\ GraphOver(row'[q]) => ~Kept(row'[q])
  BY <1>1, <1>3 DEF Retained
<1> QED
  BY <1>1, <1>5, <1>6, <1>7, <1>8, ZenonT(30) DEF IngressInv, RowOK

-----------------------------------------------------------------------------
(* The invariant and what it gives                                         *)

(* The invariant holds initially.                                          *)
LEMMA IngressInit ==
  ASSUME Init
  PROVE  IngressInv
<1>1. PICK left \in SUBSET Stored :
         row = [r \in Request |-> IF r \in left
                  THEN [NoRow(r) EXCEPT !.status = "PENDING", !.payload = Text] ELSE NoRow(r)]
  BY ZenonT(30) DEF Init
<1>2. ASSUME NEW r \in Request
      PROVE  /\ row[r] \in RowType(r) /\ row[r].turns = {} /\ row[r].made = 0
             /\ row[r].node["root"] = "absent" /\ row[r].goal = Blank
             /\ row[r].status \in {"absent", "PENDING"} /\ row[r].out = {}
  <2>1. /\ [n \in Node(r) |-> "absent"] \in [Node(r) -> NodeState]
        /\ [n \in Node(r) |-> 0] \in [Node(r) -> 0..MaxRetries] /\ "root" \in Node(r)
    BY NodeFacts, RequestAssumption DEF NodeState
  <2>2. /\ NoRow(r) \in RowType(r) /\ NoRow(r).turns = {} /\ NoRow(r).made = 0
        /\ NoRow(r).node["root"] = "absent" /\ NoRow(r).goal = Blank
        /\ NoRow(r).status = "absent" /\ NoRow(r).out = {}
    BY <2>1, ZenonT(30) DEF NoRow, RowType, Content
  <2>3. row[r] \in {NoRow(r), [NoRow(r) EXCEPT !.status = "PENDING", !.payload = Text]}
    BY <1>1, ZenonT(30)
  <2> QED
    BY <2>2, <2>3, ZenonT(30) DEF RowType
<1>3. \A r \in Request : RowOK(r, row[r]) /\ row[r].turns = {} /\ Clean(r, row[r])
  BY <1>2, OverFacts DEF RowOK, Clean, Blank, Expired
<1>4. conv = [c \in Conversation |-> [there |-> FALSE, retained |-> FALSE, title |-> Blank]]
  BY ZenonT(30) DEF Init
<1>5. /\ conv \in [Conversation -> [there : BOOLEAN, retained : BOOLEAN, title : Content]]
      /\ \A c \in Conversation : ~conv[c].retained
  BY <1>4 DEF Content
<1>6. IngressTypeOK
  BY <1>1, <1>2, <1>5, IngressAssumption, ZenonT(30) DEF Init, IngressTypeOK
<1> QED
  BY <1>3, <1>5, <1>6, ZenonT(30) DEF IngressInv, Private, Init, Idle

(* The steps of workers.                                                   *)
LEMMA WorkKeeps ==
  ASSUME IngressInv, NEW r \in Request, Work(r)
  PROVE  IngressInv'
<1>0. up = TRUE /\ UNCHANGED ingressVars
  BY DEF Work, Run, IngressInv, IngressTypeOK
<1>1. CASE ScrubTerminalTaskGraph(r)
  BY <1>0, <1>1, ScrubKeeps
<1>2. CASE CompleteTaskWithOutcome(r)
  BY <1>0, <1>2, CompleteRootKeeps
<1>3. ASSUME NEW n \in Node(r), Claim(r, n) PROVE IngressInv'
  BY <1>0, <1>3, ClaimKeeps
<1>4. ASSUME NEW n \in Node(r), CompleteTaskWithArtifacts(r, n) PROVE IngressInv'
  BY <1>0, <1>4, CompleteChildKeeps
<1>5. ASSUME NEW n \in Node(r), FailTask(r, n) \/ MarkTaskCancelled(r, n) PROVE IngressInv'
  BY <1>0, <1>5, EndNodeKeeps
<1> QED
  BY <1>1, <1>2, <1>3, <1>4, <1>5 DEF Work, Run

(* Every step preserves the invariant.                                     *)
LEMMA IngressStep ==
  ASSUME IngressInv, [Next]_vars
  PROVE  IngressInv'
<1>1. CASE UNCHANGED vars
  <2>1. UNCHANGED <<conv, row, device, owed, call, pending, up>>
    BY <1>1 DEF vars, transcriptVars, ingressVars
  <2>2. IngressTypeOK'
    BY <2>1 DEF IngressInv, IngressTypeOK
  <2>3. \A r \in Request : RowOK(r, row'[r]) /\ (~Retained(r)' => Private(r, row[r])')
    BY <2>1, ZenonT(30) DEF IngressInv, Retained, Private
  <2> QED
    BY <2>1, <2>2, <2>3, ZenonT(30) DEF IngressInv, Caused, RowOK
<1>2. ASSUME NEW h \in Handler, NEW r \in Request,
             \/ handleAsk(h, r)
             \/ handleConnectorEvent(h, r)
             \/ handleConnectorSimulator(h, r)
             \/ \E named, override \in BOOLEAN : sendText(h, r, named, override)
             \/ \E again \in Request : handleReplayEvent(h, r, again)
      PROVE  IngressInv'
  BY <1>2, ArrivalsKeep
<1>3. ASSUME NEW h \in Handler, NEW r \in Request, IngestEvent(h, r) PROVE IngressInv'
  BY <1>3, IngestKeeps
<1>4. ASSUME NEW h \in Caller, LookupEvent(h) PROVE IngressInv'
  BY <1>4, LookupKeeps
<1>5. ASSUME NEW h \in Caller, CreateAskWork(h) PROVE IngressInv'
  BY <1>5, CreateAskWorkKeeps
<1>6. ASSUME NEW h \in Caller, MarkEventProcessed(h) PROVE IngressInv'
  BY <1>6, MarkProcessedKeeps
<1>7. CASE ListPendingEvents
  BY <1>7, ListKeeps
<1>8. ASSUME NEW p \in pending, recoverPendingEvent(p) PROVE IngressInv'
  BY <1>8, RecoverPendingKeeps
<1>9. ASSUME NEW r \in Request, Work(r) PROVE IngressInv'
  BY <1>9, WorkKeeps
<1>10. ASSUME NEW r \in Request, Control(r) PROVE IngressInv'
  <2>1. up = TRUE /\ UNCHANGED ingressVars
    BY <1>10 DEF Control, IngressInv, IngressTypeOK
  <2> QED
    BY <1>10, <2>1, CancelGraphKeeps, RetryKeeps DEF Control
<1>11. CASE Policy
  BY <1>11, PolicyKeeps
<1>12. CASE Sweep
  BY <1>12, SweepKeeps
<1>13. CASE Crash
  BY <1>13, CrashKeeps
<1>14. CASE Restart
  BY <1>14, RestartKeeps
<1> QED
  BY <1>1, <1>2, <1>3, <1>4, <1>5, <1>6, <1>7, <1>8, <1>9, <1>10, <1>11, <1>12, <1>13, <1>14 DEF Next

(* The inductive invariant of ingress and transcript privacy holds for     *)
(* every set of requests, conversations and handlers.                      *)
THEOREM IngressInvHolds == Spec => []IngressInv
  BY IngressInit, IngressStep, PTL DEF Spec

(* However requests are repeated, raced, recovered and marked, an event of *)
(* CreateAskWork has at most one task graph, is marked PROCESSED only with *)
(* it and is not left PENDING beside it.                                   *)
THEOREM EventsMatchGraphsHolds == Spec => []EventsMatchGraphs
<1>1. IngressInv => EventsMatchGraphs
  <2> SUFFICES ASSUME IngressInv PROVE EventsMatchGraphs
    OBVIOUS
  <2>1. \A r \in Request : row[r] \in RowType(r) /\ RowOK(r, row[r])
    BY RowFacts
  <2>2. TypeOK
    <3>1. \A r \in Request : Caused(r) = (row[r].goal # Blank)
      BY <2>1, ZenonT(30) DEF RowOK, Caused
    <3>2. \A r \in Request :
             /\ row[r].status \in {"absent", "PENDING", "PROCESSED", "FAILED"}
             /\ row[r].payload \in {Text, Disabled, Blank} /\ row[r].goal \in Content
             /\ row[r].out \subseteq Node(r) /\ row[r].retry \in [Node(r) -> 0..MaxRetries]
      BY <2>1, ZenonT(30) DEF RowType
    <3>3. IngressTypeOK
      BY DEF IngressInv
    <3> QED
      BY <3>1, <3>2, <3>3, ZenonT(30) DEF TypeOK, IngressTypeOK, Content
  <2>3. OneGraphPerRequest
    <3>1. \A r \in Request : row[r].made = 1 \/ row[r].made = 0
      BY <2>1, ZenonT(30) DEF RowOK
    <3> QED
      BY <3>1 DEF OneGraphPerRequest
  <2>4. ProcessedHasGraph
    BY <2>1 DEF ProcessedHasGraph, RowOK, Caused
  <2> QED
    BY <2>2, <2>3, <2>4 DEF EventsMatchGraphs
<1> QED
  BY <1>1, IngressInvHolds, PTL

(* Once a graph of a non-retained conversation is over and its caller has  *)
(* made its scrub call, the store keeps none of its text, whatever order   *)
(* policy changes, completions, cancellations, retries and new requests    *)
(* came in.                                                                *)
THEOREM NonRetainedGraphIsScrubbedHolds == Spec => []NonRetainedGraphIsScrubbed
<1>1. IngressInv => NonRetainedGraphIsScrubbed
  BY ZenonT(30) DEF IngressInv, NonRetainedGraphIsScrubbed, Private, Clean, LateChild, EndedByLateChild, Kept,
         ContentKept
<1> QED
  BY <1>1, IngressInvHolds, PTL

(* ApplyRetentionSweep never takes the prompt of work that is unfinished   *)
(* or undelivered, and no retry reopens a graph whose prompt it took.      *)
THEOREM SweepSparesOpenWorkHolds == Spec => []SweepSparesOpenWork
<1>1. IngressInv => SweepSparesOpenWork
  BY ZenonT(30) DEF IngressInv, SweepSparesOpenWork, RowOK, Protected
<1> QED
  BY <1>1, IngressInvHolds, PTL

(* RecoverInterruptedTasks leaves no text of an ended graph in a non-      *)
(* retained conversation, also where the scrub was lost with the process   *)
(* that owed it.                                                           *)
THEOREM RestartReconcilesHolds == Spec => RestartReconciles
<1>1. ASSUME IngressInv, [Next]_vars, ~up, up'
      PROVE  \A r \in Request : (Caused(r) /\ GraphOver(row[r]) /\ ~Retained(r) => ~ContentKept(r))'
  <2>1. Restart
    <3>1. up = FALSE /\ up' # up
      BY <1>1, ZenonT(30) DEF IngressInv, IngressTypeOK
    <3> QED
      BY <1>1, <3>1, ZenonT(30) DEF vars, ingressVars, Next, handleAsk, handleConnectorEvent, handleConnectorSimulator, Arrives,
             sendText, handleReplayEvent, IngestEvent, LookupEvent, CreateAskWork, MarkEventProcessed,
             ListPendingEvents, recoverPendingEvent, Work, Run, Control, Policy, Sweep, Crash
  <2>2. \A r \in Request : ~Retained(r)' /\ GraphOver(row'[r]) => ~Kept(row'[r])
    BY <1>1, <2>1, RestartKeeps
  <2> QED
    BY <2>2 DEF Kept, ContentKept, GraphOver
<1> QED
  BY <1>1, IngressInvHolds, PTL DEF Spec, RestartReconciles

=============================================================================
