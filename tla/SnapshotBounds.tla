--------------------------- MODULE SnapshotBounds ---------------------------
(***************************************************************************)
(* How androidCatchup (internal/api/android.go) builds the bounded         *)
(* snapshot of a phone: four list queries, each its own read of a store    *)
(* that other handlers keep changing, a selection under the list limits,   *)
(* and a loop that drops rows until the encoded event fits one frame.      *)
(***************************************************************************)
EXTENDS Integers, Sequences, FiniteSets, SequencesExt

CONSTANTS
    SnapTask, SnapApproval,
    ActiveTaskLimit,       \* androidSnapshotActiveTaskLimit
    TaskLimit,             \* androidSnapshotTaskLimit
    PendingApprovalLimit,  \* androidSnapshotPendingApprovalLimit
    ApprovalLimit,         \* androidSnapshotApprovalLimit
    MaxMessages,           \* turns the conversations of the device can hold
    MessageLimit,          \* androidSnapshotMessageLimit
    MaxSnapChanges         \* bound on the changes made while a snapshot is built

ASSUME SnapshotAssumption ==
    /\ ActiveTaskLimit \in Nat /\ TaskLimit \in Nat /\ ActiveTaskLimit <= TaskLimit
    /\ PendingApprovalLimit \in Nat /\ ApprovalLimit \in Nat /\ PendingApprovalLimit <= ApprovalLimit
    /\ MaxMessages \in Nat /\ MessageLimit \in Nat /\ MaxSnapChanges \in Nat

VARIABLES
    open,       \* row -> it is an active task, or a pending approval
    turns,      \* turns stored for the device
    room,       \* rows whose encoding fits the frame; -1: not even the metadata does
    snapPc,     \* the next step of androidCatchup
    lists,      \* what the four queries returned: active, terminal, pending, recent
    catchup,    \* the event under construction
    moved,      \* rows that changed since the first list was read
    snapChanges

snapVars == <<open, turns, room, snapPc, lists, catchup, moved, snapChanges>>

Row == SnapTask \cup SnapApproval

NoLists    == [active |-> <<>>, terminal |-> <<>>, pending |-> <<>>, recent |-> <<>>]
NoSnapshot == [tasks |-> <<>>, activeTasks |-> 0, approvals |-> <<>>, pendingApprovals |-> 0, messages |-> 0]

SnapInit ==
    /\ open \in [Row -> BOOLEAN] /\ turns \in 0..MaxMessages
    /\ room = -1
    /\ snapPc = "active" /\ lists = NoLists /\ catchup = NoSnapshot
    /\ moved = {} /\ snapChanges = 0

-----------------------------------------------------------------------------
\* Another handler settles or retries a task, decides an approval, or puts a
\* task of a retried command back before its approval.
rowChanges(r) ==
    /\ snapPc \in {"terminal", "pending", "recent"} /\ snapChanges < MaxSnapChanges
    /\ open' = [open EXCEPT ![r] = ~@]
    /\ moved' = moved \cup {r} /\ snapChanges' = snapChanges + 1
    /\ UNCHANGED <<turns, room, snapPc, lists, catchup>>

FirstOf(rows, limit) == SubSeq(rows, 1, IF Len(rows) < limit THEN Len(rows) ELSE limit)

OpenRows(rows) == {r \in rows : open[r]}

\* A query with an order of its own and a LIMIT.
listRows(field, rows, limit, next) ==
    /\ snapPc = field
    /\ \E order \in SetToSeqs(rows) : lists' = [lists EXCEPT ![field] = FirstOf(order, limit)]
    /\ snapPc' = next
    /\ UNCHANGED <<open, turns, room, catchup, moved, snapChanges>>

listActiveTasks   == listRows("active", OpenRows(SnapTask), ActiveTaskLimit, "terminal")
listTerminalTasks == listRows("terminal", SnapTask \ OpenRows(SnapTask), TaskLimit, "pending")
listPending       == listRows("pending", OpenRows(SnapApproval), PendingApprovalLimit, "recent")
listRecent        == listRows("recent", SnapApproval, ApprovalLimit, "select")

\* A task that settled between the two reads is in both lists.
androidSelectSnapshotTasks(active, terminal) ==
    FirstOf(active \o SelectSeq(terminal, LAMBDA t : t \notin ToSet(active)), TaskLimit)

\* The second query returns pending approvals too; they are skipped there. No
\* approval changes between that query and the selection, which uses its rows.
androidSelectSnapshotApprovals(pending, recent) ==
    FirstOf(pending \o SelectSeq(recent, LAMBDA a : a \notin ToSet(pending) /\ ~open[a]), ApprovalLimit)

androidRecentTurns(n) == IF n > MessageLimit THEN MessageLimit ELSE n

\* The texts of the rows differ in length; room stands for how many of these rows fit.
androidCatchupSelects ==
    /\ room' \in -1..(TaskLimit + ApprovalLimit + MessageLimit)
    /\ snapPc = "select" /\ snapPc' = "shrink"
    /\ catchup' = [tasks            |-> androidSelectSnapshotTasks(lists.active, lists.terminal),
                    activeTasks      |-> Len(lists.active),
                    approvals        |-> androidSelectSnapshotApprovals(lists.pending, lists.recent),
                    pendingApprovals |-> Len(lists.pending),
                    messages         |-> androidRecentTurns(turns)]
    /\ UNCHANGED <<open, turns, lists, moved, snapChanges>>

-----------------------------------------------------------------------------
(* androidBoundedSnapshotEvent                                             *)

EncodedRows(s) == Len(s.tasks) + Len(s.approvals) + s.messages

WithoutLastTask(s) ==
    LET n == Len(s.tasks) - 1
    IN  [s EXCEPT !.tasks = Front(@), !.activeTasks = IF @ > n THEN n ELSE @]

WithoutLastApproval(s) ==
    LET n == Len(s.approvals) - 1
    IN  [s EXCEPT !.approvals = Front(@), !.pendingApprovals = IF @ > n THEN n ELSE @]

WithoutOldestMessage(s) == [s EXCEPT !.messages = @ - 1]

ShrunkTasksFirst(s) ==
    IF s.tasks # <<>> THEN WithoutLastTask(s)
    ELSE IF s.messages > 0 THEN WithoutOldestMessage(s)
    ELSE WithoutLastApproval(s)

Shrunk(s) ==
    LET settledTask     == Len(s.tasks) > s.activeTasks
        decidedApproval == Len(s.approvals) > s.pendingApprovals
    IN  IF settledTask THEN WithoutLastTask(s)
        ELSE IF decidedApproval \/ (s.messages = 0 /\ s.approvals # <<>>) THEN WithoutLastApproval(s)
        ELSE IF s.messages > 0 THEN WithoutOldestMessage(s)
        ELSE WithoutLastTask(s)

androidBoundedSnapshotEvent ==
    /\ snapPc = "shrink"
    /\ \/ /\ EncodedRows(catchup) <= room
          /\ snapPc' = "sent" /\ UNCHANGED catchup
       \/ /\ EncodedRows(catchup) > room /\ EncodedRows(catchup) > 0
          /\ catchup' = Shrunk(catchup) /\ UNCHANGED snapPc
       \/ /\ EncodedRows(catchup) > room /\ EncodedRows(catchup) = 0
          /\ snapPc' = "failed" /\ UNCHANGED catchup
    /\ UNCHANGED <<open, turns, room, lists, moved, snapChanges>>

SnapNext ==
    \/ \E r \in Row : rowChanges(r)
    \/ listActiveTasks \/ listTerminalTasks \/ listPending \/ listRecent
    \/ androidCatchupSelects \/ androidBoundedSnapshotEvent

SnapSpec == SnapInit /\ [][SnapNext]_snapVars

-----------------------------------------------------------------------------
ShownRows == ToSet(catchup.tasks) \cup ToSet(catchup.approvals)

\* A query that could have returned the row stopped at its limit, or the selection did.
LimitReached(r) ==
    IF r \in SnapTask
    THEN Len(lists.active) = ActiveTaskLimit \/ TaskLimit \in {Len(lists.terminal), Len(catchup.tasks)}
    ELSE Len(lists.pending) = PendingApprovalLimit \/ ApprovalLimit \in {Len(lists.recent), Len(catchup.approvals)}

\* The snapshot replaces everything the phone shows, so a row left out disappears
\* there. A snapshot that is sent shows each row once, and it leaves out a row
\* only when a limit of androidCatchup was reached, when the frame was full, or
\* when the row changed between the two queries that could have returned it.
SnapshotIsComplete ==
    snapPc = "sent" =>
        /\ Len(catchup.tasks) + Len(catchup.approvals) = Cardinality(ShownRows)
        /\ \A r \in Row \ ShownRows :
              LimitReached(r) \/ r \in moved \/ EncodedRows(catchup) = room

\* Work that waits for the user is the last to go: the bounded event gives up a
\* pending approval only when no settled task, decided approval or message is
\* left in it, and an active task only when nothing else is.
WaitingWorkGoesLast ==
    snapPc \in {"shrink", "sent"} =>
        LET lostApproval == \E a \in ToSet(lists.pending) : a \notin ToSet(catchup.approvals)
            lostTask     == \E t \in ToSet(lists.active) : t \notin ToSet(catchup.tasks)
        IN  /\ lostApproval \/ lostTask =>
                  /\ catchup.messages = 0
                  /\ ToSet(catchup.tasks) \subseteq ToSet(lists.active)
                  /\ ToSet(catchup.approvals) \subseteq ToSet(lists.pending)
            /\ lostTask => catchup.approvals = <<>>

\* What is left out of a snapshot is left out for a reason, and in order.
SnapshotIsFaithful == SnapshotIsComplete /\ WaitingWorkGoesLast
=============================================================================
