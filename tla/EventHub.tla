----------------------------- MODULE EventHub ------------------------------
(***************************************************************************)
(* The event hub of internal/stream.  A writer commits a change of a row   *)
(* and then publishes it: two steps, so writers may publish in another     *)
(* order than they committed in.  A subscriber has a bounded channel.      *)
(***************************************************************************)
EXTENDS Naturals, Sequences

CONSTANTS
    Item,         \* rows the clients show
    Writer,       \* goroutines that commit and publish
    Subscriber,   \* streams
    Buffer,       \* buffer size of each subscriber's channel
    MaxVersion    \* bound on the commits of one row

ASSUME HubAssumption == Buffer \in [Subscriber -> Nat \ {0}] /\ MaxVersion \in Nat

VARIABLES
    version,   \* committed version of each row
    posting,   \* what each writer has committed and not yet published
    published, \* version of each row that was published last
    linked,    \* subscribers in the hub's map
    queue      \* events in each subscriber's channel

hubVars == <<version, posting, published, linked, queue>>

Nothing == [item |-> "none", version |-> 0]
Change  == [item : Item, version : 1..MaxVersion]

HubInit ==
    /\ version = [i \in Item |-> 0]
    /\ posting = [w \in Writer |-> Nothing]
    /\ published = [i \in Item |-> 0]
    /\ linked = {}
    /\ queue = [s \in Subscriber |-> <<>>]

Commit(w, i) ==
    /\ posting[w] = Nothing /\ version[i] < MaxVersion
    /\ version' = [version EXCEPT ![i] = @ + 1]
    /\ posting' = [posting EXCEPT ![w] = [item |-> i, version |-> version[i] + 1]]
    /\ UNCHANGED <<published, linked, queue>>

HasRoom(s) == Len(queue[s]) < Buffer[s]

PublishDropping(w) ==
    /\ posting[w] # Nothing
    /\ published' = [published EXCEPT ![posting[w].item] = posting[w].version]
    /\ queue' = [s \in Subscriber |-> IF s \in linked /\ HasRoom(s)
                                      THEN Append(queue[s], posting[w]) ELSE queue[s]]
    /\ posting' = [posting EXCEPT ![w] = Nothing]
    /\ UNCHANGED <<version, linked>>

\* A subscriber without room is removed and its channel closed; what the
\* channel holds is still read before the reader sees the end.
Publish(w) ==
    /\ posting[w] # Nothing
    /\ published' = [published EXCEPT ![posting[w].item] = posting[w].version]
    /\ queue' = [s \in Subscriber |-> IF s \in linked /\ HasRoom(s)
                                      THEN Append(queue[s], posting[w]) ELSE queue[s]]
    /\ linked' = {s \in linked : HasRoom(s)}
    /\ posting' = [posting EXCEPT ![w] = Nothing]
    /\ UNCHANGED version

Subscribe(s) ==
    /\ linked' = linked \cup {s}
    /\ queue' = [queue EXCEPT ![s] = <<>>]
    /\ UNCHANGED <<version, posting, published>>

\* The end of the request context removes the subscription.
Unsubscribe(s) ==
    /\ linked' = linked \ {s}
    /\ queue' = [queue EXCEPT ![s] = <<>>]
    /\ UNCHANGED <<version, posting, published>>

Take(s) ==
    /\ queue[s] # <<>>
    /\ queue' = [queue EXCEPT ![s] = Tail(@)]
    /\ UNCHANGED <<version, posting, published, linked>>

Drained(s) == s \notin linked /\ queue[s] = <<>>

HubWork == \E w \in Writer : Publish(w) \/ \E i \in Item : Commit(w, i)

AllPublished == \A w \in Writer : posting[w] = Nothing
=============================================================================
