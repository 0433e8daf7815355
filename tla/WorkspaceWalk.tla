--------------------------- MODULE WorkspaceWalk ---------------------------
(***************************************************************************)
(* The bounded walks of the workspace tool (tools/filesystem): list and    *)
(* search read each directory up to what the limits leave, descend, and    *)
(* tell the caller through one flag whether anything was left out.         *)
(***************************************************************************)
EXTENDS Naturals, Sequences, FiniteSets, SequencesExt, FiniteSetsExt

CONSTANTS
    Entries,        \* number of directory entries below the walked directory
    MaxListed,      \* max_results of a list
    MaxResults,     \* max_results of a search
    MaxSearchFiles, \* Executor.maxSearchFiles
    MaxHits         \* hits one file can hold

ASSUME WalkAssumption ==
    /\ Entries \in Nat /\ MaxListed \in Nat \ {0} /\ MaxResults \in Nat \ {0}
    /\ MaxSearchFiles \in Nat \ {0} /\ MaxHits \in Nat

VARIABLES
    tree,       \* entry -> its directory (0 is the walked one), kind and hits
    request,    \* operation, recursive, and for a search its mode
    stack,      \* the calls of walk in progress, innermost first
    found,     \* entries listed, or files with hits, in order
    filesScanned, filesSkipped, entriesVisited,
    walkTruncated,
    walkPc

walkVars == <<tree, request, stack, found, filesScanned, filesSkipped, entriesVisited, walkTruncated, walkPc>>

Entry == 1..Entries

\* What an entry is, and how often the searched text occurs in it (in the name,
\* for a search of names). "binary" is no UTF-8, "large" is above the size limit.
EntryNode ==
    [kind : {"dir", "link"}, hits : {0}] \cup [kind : {"text"}, hits : 0..MaxHits]
        \cup [kind : {"binary", "large"}, hits : {0, 1}]

Parents == {p \in [Entry -> 0..Entries] : \A e \in Entry : p[e] < e}

Requests ==
    [op : {"list"}, recursive : BOOLEAN, mode : {"names"}]
        \cup [op : {"search"}, recursive : BOOLEAN, mode : {"names", "content"}]

WalkInit ==
    /\ \E parent \in Parents, node \in [Entry -> EntryNode] :
          /\ \A e \in Entry : parent[e] # 0 => node[parent[e]].kind = "dir"
          /\ tree = [e \in Entry |-> [parent |-> parent[e], kind |-> node[e].kind, hits |-> node[e].hits]]
    /\ request \in Requests
    /\ stack = <<>> /\ found = <<>> /\ filesScanned = 0 /\ filesSkipped = 0 /\ entriesVisited = 0
    /\ walkTruncated = FALSE /\ walkPc = "open"

Children(d) == {e \in Entry : tree[e].parent = d}

-----------------------------------------------------------------------------
\* ReadDir(n) returns at most n entries, in no particular order.
ReadDir(d, n, answer) ==
    /\ answer \subseteq Children(d)
    /\ Cardinality(answer) = IF Cardinality(Children(d)) < n THEN Cardinality(Children(d)) ELSE n

Call(names, overflow) == [todo |-> SetToSortSeq(names, <), overflow |-> overflow]

\* The walk of one directory of a list.
OpenListed(d, calls) ==
    \E names \in SUBSET Children(d) :
        /\ ReadDir(d, MaxListed - Len(found') + 1, names)
        /\ stack' = <<Call(names, FALSE)>> \o calls

\* The walk of one directory of a search.
OpenSearched(d, calls) ==
    LET remaining == MaxSearchFiles - entriesVisited' IN
    \/ /\ entriesVisited' >= MaxSearchFiles
       /\ walkTruncated' = TRUE /\ stack' = calls
    \/ /\ entriesVisited' < MaxSearchFiles
       /\ UNCHANGED walkTruncated
       /\ \E read \in SUBSET Children(d) : \E names \in SUBSET read :
             /\ ReadDir(d, remaining + 1, read)
             /\ Cardinality(names) = IF Cardinality(read) > remaining THEN remaining ELSE Cardinality(read)
             /\ stack' = <<Call(names, Cardinality(read) > remaining)>> \o calls

walkOpens ==
    /\ walkPc = "open" /\ walkPc' = "walk"
    /\ UNCHANGED <<tree, request, found, filesScanned, filesSkipped, entriesVisited>>
    /\ IF request.op = "list"
       THEN OpenListed(0, <<>>) /\ UNCHANGED walkTruncated
       ELSE OpenSearched(0, <<>>)

Working == walkPc = "walk" /\ ~walkTruncated /\ stack # <<>>

\* The innermost call has one entry less to look at.
Advanced == <<[Head(stack) EXCEPT !.todo = Tail(@)]>> \o Tail(stack)

listStep(e) ==
    \/ /\ Len(found) >= MaxListed
       /\ walkTruncated' = TRUE /\ UNCHANGED <<stack, found>>
    \/ /\ Len(found) < MaxListed
       /\ found' = Append(found, e)
       /\ UNCHANGED walkTruncated
       /\ IF request.recursive /\ tree[e].kind = "dir"
          THEN OpenListed(e, Advanced)
          ELSE stack' = Advanced

listVisits ==
    /\ Working /\ request.op = "list" /\ Head(stack).todo # <<>>
    /\ listStep(Head(Head(stack).todo))
    /\ UNCHANGED <<tree, request, filesScanned, filesSkipped, entriesVisited, walkPc>>

\* inspect: a name counts once; a content search stops as soon as it is full.
inspect(e) ==
    LET kind == tree[e].kind
        full == Len(found) >= MaxResults \/ filesScanned + filesSkipped >= MaxSearchFiles
        free == MaxResults - Len(found)
        hits == IF kind = "text" THEN tree[e].hits ELSE 0
    IN  \/ /\ full
           /\ walkTruncated' = TRUE /\ UNCHANGED <<found, filesScanned, filesSkipped>>
        \/ /\ ~full /\ kind = "link"
           /\ UNCHANGED <<found, filesScanned, filesSkipped, walkTruncated>>
        \/ /\ ~full /\ kind # "link" /\ request.mode = "names"
           /\ filesScanned' = filesScanned + 1
           /\ found' = IF tree[e].hits > 0 THEN Append(found, e) ELSE found
           /\ UNCHANGED <<filesSkipped, walkTruncated>>
        \/ /\ ~full /\ kind # "link" /\ request.mode = "content"
           /\ filesScanned' = filesScanned + IF kind = "large" THEN 0 ELSE 1
           /\ filesSkipped' = filesSkipped + IF kind \in {"large", "binary"} THEN 1 ELSE 0
           /\ found' = found \o [i \in 1..(IF hits < free THEN hits ELSE free) |-> e]
           /\ walkTruncated' = (hits >= free)

searchVisits ==
    /\ Working /\ request.op = "search" /\ Head(stack).todo # <<>>
    /\ entriesVisited' = entriesVisited + 1
    /\ LET e == Head(Head(stack).todo) IN
       IF tree[e].kind = "dir"
       THEN /\ UNCHANGED <<found, filesScanned, filesSkipped>>
            /\ IF request.recursive
               THEN OpenSearched(e, Advanced)
               ELSE stack' = Advanced /\ UNCHANGED walkTruncated
       ELSE inspect(e) /\ stack' = Advanced
    /\ UNCHANGED <<tree, request, walkPc>>

walkReturnsSilently ==
    /\ Working /\ Head(stack).todo = <<>>
    /\ stack' = Tail(stack)
    /\ UNCHANGED <<tree, request, found, filesScanned, filesSkipped, entriesVisited, walkTruncated, walkPc>>

\* The innermost call of walk returns; a directory that was cut short says so.
walkReturns ==
    /\ Working /\ Head(stack).todo = <<>>
    /\ walkTruncated' = Head(stack).overflow
    /\ stack' = Tail(stack)
    /\ UNCHANGED <<tree, request, found, filesScanned, filesSkipped, entriesVisited, walkPc>>

\* Every call returns at once when the result is truncated.
walkEnds ==
    /\ walkPc = "walk" /\ (walkTruncated \/ stack = <<>>)
    /\ walkPc' = "done"
    /\ UNCHANGED <<tree, request, stack, found, filesScanned, filesSkipped, entriesVisited, walkTruncated>>

WalkNext == walkOpens \/ listVisits \/ searchVisits \/ walkReturns \/ walkEnds

WalkSpec == WalkInit /\ [][WalkNext]_walkVars

-----------------------------------------------------------------------------
\* Entries the request is about.
InScope == IF request.recursive THEN Entry ELSE Children(0)

\* What an unbounded walk would report of one entry.
Expected(e) ==
    CASE request.op = "list" -> 1
      [] request.op = "search" /\ request.mode = "content" -> IF tree[e].kind = "text" THEN tree[e].hits ELSE 0
      [] request.op = "search" /\ request.mode = "names" -> IF tree[e].hits > 0 THEN 1 ELSE 0

Reported(e) == Cardinality({i \in DOMAIN found : found[i] = e})

\* A caller that sees truncated = false may rely on the answer: it holds every
\* entry, or every hit, of the requested subtree, whatever order ReadDir used and
\* wherever the nested reads ran into a limit. A truncated list is
\* as long as was asked for and left something out.
UntruncatedIsComplete ==
    walkPc = "done" =>
        /\ ~walkTruncated => \A e \in Entry : Reported(e) = IF e \in InScope THEN Expected(e) ELSE 0
        /\ walkTruncated /\ request.op = "list" => Len(found) = MaxListed /\ MaxListed < Cardinality(InScope)
=============================================================================
