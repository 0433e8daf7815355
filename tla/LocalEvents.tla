---------------------------- MODULE LocalEvents ----------------------------
(***************************************************************************)
(* The adapters local applications report events with (connectors/         *)
(* local_events): the poller of watched files, the process-completion      *)
(* adapter and the lines of a plugin.  Each hands its events to a callback *)
(* that posts them to Core (HTTPClient.Emit); the answer may get lost, and *)
(* the callback may post the same event again.                             *)
(***************************************************************************)
EXTENDS Naturals, Sequences, SequencesExt

CONSTANTS
    MaxFileChanges,  \* bound on the changes of the watched file
    MaxRuns,         \* bound on the calls of FilesystemPoller.Run
    MaxPosts,        \* posts a callback makes of one event before it gives up
    Lines            \* the lines of the plugin: "event", "blank" or "bad"

ASSUME LocalAssumption ==
    /\ MaxFileChanges \in Nat /\ MaxRuns \in Nat /\ MaxPosts \in Nat
    /\ Lines \in Seq({"event", "blank", "bad"})

VARIABLES
    file,        \* the watched file: 0 is absent, otherwise its size, mode and time
    fileEdits,
    poller,      \* FilesystemPoller.Run
    process,     \* ProcessAdapter.RunAndEmit
    plugin,      \* StdioDecoder.Decode: the line it is at, and whether it stopped
    outgoing,    \* adapter -> the event its callback is outgoing, or NoEvent
    inCore       \* events Core has stored, in order

localVars == <<file, fileEdits, poller, process, plugin, outgoing, inCore>>

Adapter == {"poller", "process", "plugin"}
NoEvent == [key |-> <<>>]

\* The adapters are separate programs that only meet in Core, so a behaviour has
\* one of them at work.
LocalInit ==
    /\ file \in {0, 1} /\ fileEdits = 0
    /\ \E a \in Adapter :
          /\ poller = [pc |-> "stopped", run |-> IF a = "poller" THEN 0 ELSE MaxRuns, first |-> 0, known |-> 0]
          /\ process = [pc |-> IF a = "process" THEN "running" ELSE "done", exited |-> FALSE,
                        deadline |-> FALSE, cancelled |-> FALSE,
                        says |-> [timedOut |-> FALSE, cancelled |-> FALSE]]
          /\ plugin = [line |-> 1, stopped |-> a # "plugin"]
    /\ outgoing = [a \in Adapter |-> NoEvent]
    /\ inCore = <<>>

-----------------------------------------------------------------------------
(* The callback and Core                                                   *)

StoreAgain(event) == inCore' = Append(inCore, event)

\* handleLocalEvent ingests by the idempotency key; a repeated key is answered
\* as a duplicate, which is accepted as well.
StoreEvent(event) ==
    inCore' = IF \E i \in DOMAIN inCore : inCore[i].key = event.key THEN inCore ELSE Append(inCore, event)

\* The adapter goes on after emit returned nil, and ends after an error.
AfterEmit(a, ok) ==
    /\ outgoing' = [outgoing EXCEPT ![a] = NoEvent]
    /\ poller'  = IF a = "poller" /\ ~ok THEN [poller EXCEPT !.pc = "stopped"] ELSE poller
    /\ process' = IF a = "process" THEN [process EXCEPT !.pc = "done"] ELSE process
    /\ plugin'  = IF a = "plugin" THEN [line |-> plugin.line + 1, stopped |-> ~ok] ELSE plugin

\* HTTPClient.Emit: Core stores the event or the request is lost, and then the
\* receipt arrives or is lost.
Emit(a) ==
    /\ outgoing[a] # NoEvent
    /\ \/ StoreEvent(outgoing[a].event) /\ AfterEmit(a, TRUE)
       \/ /\ outgoing[a].posts < MaxPosts
          /\ StoreEvent(outgoing[a].event) \/ UNCHANGED inCore
          /\ outgoing' = [outgoing EXCEPT ![a].posts = @ + 1]
          /\ UNCHANGED <<poller, process, plugin>>
       \/ /\ StoreEvent(outgoing[a].event) \/ UNCHANGED inCore
          /\ AfterEmit(a, FALSE)
    /\ UNCHANGED <<file, fileEdits>>

Posted(a, event) == outgoing' = [outgoing EXCEPT ![a] = [key |-> event.key, event |-> event, posts |-> 0]]

-----------------------------------------------------------------------------
(* FilesystemPoller                                                        *)

fileChangesTo(v) ==
    /\ fileEdits < MaxFileChanges /\ v # file
    /\ file' = v /\ fileEdits' = fileEdits + 1
    /\ UNCHANGED <<poller, process, plugin, outgoing, inCore>>

\* The state found at the start is not reported.
pollerStarts ==
    /\ poller.pc = "stopped" /\ poller.run < MaxRuns
    /\ poller' = [pc |-> "waiting", run |-> poller.run + 1, first |-> file, known |-> file]
    /\ UNCHANGED <<file, fileEdits, process, plugin, outgoing, inCore>>

detectFileChange(previous, current) ==
    CASE previous = 0 /\ current # 0 -> "created"
      [] previous # 0 /\ current = 0 -> "removed"
      [] previous # 0 /\ current # 0 -> IF previous # current THEN "modified" ELSE ""
      [] OTHER -> ""

pollerTicksByExistence ==
    LET change == detectFileChange(poller.known, file) IN
    /\ poller.pc = "waiting" /\ outgoing["poller"] = NoEvent
    /\ change # ""
    /\ poller' = [poller EXCEPT !.known = file]
    /\ IF change = "modified" THEN UNCHANGED outgoing
       ELSE Posted("poller", [key |-> <<"poller", poller.run, fileEdits>>, run |-> poller.run,
                              change |-> change, value |-> file])
    /\ UNCHANGED <<file, fileEdits, process, plugin, inCore>>

\* A tick: the snapshot is replaced before the event is handed over.
pollerTicks ==
    LET change == detectFileChange(poller.known, file) IN
    /\ poller.pc = "waiting" /\ outgoing["poller"] = NoEvent
    /\ change # ""
    /\ poller' = [poller EXCEPT !.known = file]
    /\ Posted("poller", [key |-> <<"poller", poller.run, fileEdits>>, run |-> poller.run,
                         change |-> change, value |-> file])
    /\ UNCHANGED <<file, fileEdits, process, plugin, inCore>>

\* The context ends, or a snapshot fails.
pollerEnds ==
    /\ poller.pc = "waiting" /\ outgoing["poller"] = NoEvent
    /\ poller' = [poller EXCEPT !.pc = "stopped"]
    /\ UNCHANGED <<file, fileEdits, process, plugin, outgoing, inCore>>

-----------------------------------------------------------------------------
(* ProcessAdapter                                                          *)

\* The two contexts end independently of the process; a process still running
\* is killed then.
contextEnds(what) ==
    /\ process.pc # "done" /\ ~process[what]
    /\ process' = [process EXCEPT ![what] = TRUE]
    /\ UNCHANGED <<file, fileEdits, poller, plugin, outgoing, inCore>>

processExits ==
    /\ process.pc = "running" /\ ~process.exited
    /\ process' = [process EXCEPT !.exited = TRUE]
    /\ UNCHANGED <<file, fileEdits, poller, plugin, outgoing, inCore>>

\* The completion record reads the contexts one after the other.
runReadsTimeout ==
    /\ process.pc = "running" /\ process.exited
    /\ process' = [process EXCEPT !.pc = "timeout", !.says.timedOut = process.deadline /\ ~process.cancelled]
    /\ UNCHANGED <<file, fileEdits, poller, plugin, outgoing, inCore>>

runReadsCancelled ==
    /\ process.pc = "timeout"
    /\ process' = [process EXCEPT !.pc = "described", !.says.cancelled = process.cancelled]
    /\ UNCHANGED <<file, fileEdits, poller, plugin, outgoing, inCore>>

\* RunAndEmit: a cancelled Run returns an error and nothing is emitted.
RunAndEmit ==
    /\ process.pc = "described"
    /\ \/ /\ ~process.cancelled
          /\ process' = [process EXCEPT !.pc = "emitting"]
          /\ Posted("process", [key |-> <<"process">>, run |-> 0, change |-> "completed", value |-> process.says])
       \/ /\ process.cancelled
          /\ process' = [process EXCEPT !.pc = "done"]
          /\ UNCHANGED outgoing
    /\ UNCHANGED <<file, fileEdits, poller, plugin, inCore>>

-----------------------------------------------------------------------------
(* StdioDecoder: blank lines are skipped, a bad line ends the decoding.    *)

Decode ==
    /\ ~plugin.stopped /\ outgoing["plugin"] = NoEvent /\ plugin.line \in DOMAIN Lines
    /\ LET line == Lines[plugin.line] IN
       \/ /\ line = "event"
          /\ Posted("plugin", [key |-> <<"plugin", plugin.line>>, run |-> 0, change |-> "line", value |-> plugin.line])
          /\ UNCHANGED plugin
       \/ /\ line # "event"
          /\ plugin' = [line |-> plugin.line + 1, stopped |-> line = "bad"]
          /\ UNCHANGED outgoing
    /\ UNCHANGED <<file, fileEdits, poller, process, inCore>>

LocalNext ==
    \/ \E a \in Adapter : Emit(a)
    \/ \E v \in 0..(MaxFileChanges + 1) : fileChangesTo(v)
    \/ pollerStarts \/ pollerTicks \/ pollerEnds
    \/ \E what \in {"deadline", "cancelled"} : contextEnds(what)
    \/ processExits \/ runReadsTimeout \/ runReadsCancelled \/ RunAndEmit
    \/ Decode

LocalSpec == LocalInit /\ [][LocalNext]_localVars

-----------------------------------------------------------------------------
Of(run) == SelectSeq(inCore, LAMBDA e : e.change \in {"created", "modified", "removed"} /\ e.run = run)

\* The state of the file a reader of the events would reconstruct.
Told(events, first) == IF events = <<>> THEN first ELSE Last(events).value

\* Core's events of one run of the poller can be replayed: each starts from the
\* state the one before it left, none is repeated, and whenever the poller is
\* between two ticks they end in the state it knows, although answers are lost
\* and events posted again.  A change during an error or a restart is not
\* reported; the run ends there.
EventsTellTheFile ==
    LET events == Of(poller.run) IN
    /\ poller.pc = "waiting" /\ outgoing["poller"] = NoEvent => Told(events, poller.first) = poller.known
    /\ \A i \in DOMAIN events :
          LET before == Told(SubSeq(events, 1, i - 1), poller.first)
          IN  events[i].change = detectFileChange(before, events[i].value)

\* A completion Core has stored is final: it is never one of a run its caller
\* cancelled before it was described, although the record reads the two contexts
\* at different moments; and a plugin's lines arrive once, in their order, and
\* none after a bad one.
StoredEventsAreFinal ==
    LET lines == SelectSeq(inCore, LAMBDA e : e.change = "line") IN
    /\ \A i \in DOMAIN inCore : inCore[i].change = "completed" => ~inCore[i].value.cancelled
    /\ \A i \in DOMAIN lines :
          /\ \A j \in 1..(i - 1) : lines[j].value < lines[i].value
          /\ \A k \in 1..lines[i].value : Lines[k] # "bad"

\* What Core has stored of a file, a process and a plugin is what happened.
StoredEventsAreTrue == EventsTellTheFile /\ StoredEventsAreFinal
=============================================================================
