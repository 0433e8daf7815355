--------------------------- MODULE AgentAdapters ---------------------------
(* One Run of an external agent: a child process that speaks JSON frames     *)
(* over its pipes (agents/stdio/stdio.go), or an HTTP service that streams    *)
(* the same frames (agents/remote/remote.go).  The agent is free in what it   *)
(* does; its pipes hold PipeSize units, and a write to a full pipe blocks.    *)
EXTENDS Naturals, Sequences, SequencesExt

CONSTANTS
    PipeSize,    \* units a pipe holds
    RequestSize, \* units of the encoded request
    MaxOutput,   \* MaxOutputBytes and MaxResponseBytes, in frames
    MaxFrames,   \* bound: frames, and units of stderr, the agent writes
    HasCancelURL \* the remote adapter has a cancel endpoint

ASSUME AdapterAssumption ==
    /\ {PipeSize, RequestSize, MaxOutput, MaxFrames} \subseteq Nat \ {0}
    /\ HasCancelURL \in BOOLEAN

\* "empty" is a result without content, "broken" anything that does not decode.
FrameKind == {"progress", "result", "empty", "error", "broken"}

VARIABLES
    adapter,    \* stdio or remote
    pc,         \* starting, writing, decoding, waiting, done
    toWrite,    \* units of the request not yet in the pipe
    stdin,      \* units in the stdin pipe
    stdout,     \* frames in the stdout pipe, or in the response
    stderr,     \* units in the stderr pipe
    stderrRead, \* units copied into stderrBuffer
    taken,      \* frames read from stdout
    got,        \* the result frame kept so far
    protocolErr,\* decodeFrames failed
    ctxDone,    \* the caller's context is cancelled
    agent,      \* none, running, exited (code 0), failed, killed
    op,         \* what the agent does next: read, out, err, exit
    polite,     \* it reads the whole request before it writes
    wrote,      \* the frames it has written
    outcome,    \* what Run returned
    cancelSent  \* bestEffortCancel was called

adapterVars == <<adapter, pc, toWrite, stdin, stdout, stderr, stderrRead, taken, got,
                 protocolErr, ctxDone, agent, op, polite, wrote, outcome, cancelSent>>

AdapterInit ==
    /\ adapter \in {"stdio", "remote"}
    /\ pc = "starting"
    /\ toWrite = RequestSize
    /\ stdin = 0 /\ stdout = <<>> /\ stderr = 0 /\ stderrRead = 0 /\ taken = 0
    /\ got = "none" /\ protocolErr = FALSE
    /\ ctxDone = FALSE
    /\ agent = "none" /\ op = "read" /\ polite \in BOOLEAN /\ wrote = <<>>
    /\ outcome = "none" /\ cancelSent = FALSE

(***************************************************************************)
(* The agent: external                                                     *)
(***************************************************************************)
InputClosed == toWrite = 0 /\ pc # "writing"

agentStays == UNCHANGED <<adapter, pc, toWrite, taken, got, protocolErr, ctxDone,
                          polite, outcome, cancelSent, stderrRead>>

\* Only a process has a stderr.
Stderr == IF adapter = "stdio" THEN {"err"} ELSE {}

\* It chooses its next operation; a polite one reads to the end of input.
ChoosesNext ==
    op' \in IF polite /\ ~(stdin = 0 /\ InputClosed) THEN {"read"}
            ELSE {"read", "out", "exit"} \cup Stderr

\* The operation it has chosen cannot go on.
AgentBlocked ==
    \/ op = "read" /\ stdin = 0 /\ ~InputClosed
    \/ op = "out" /\ Len(stdout) = PipeSize
    \/ op = "err" /\ stderr = PipeSize

agentWorks ==
    /\ agent = "running" /\ ~AgentBlocked
    /\ \/ /\ op = "read" /\ stdin > 0
          /\ stdin' = stdin - 1
          /\ ChoosesNext
          /\ UNCHANGED <<stdout, stderr, wrote, agent>>
       \/ /\ op = "read" /\ stdin = 0
          /\ op' \in {"out", "exit"} \cup Stderr
          /\ UNCHANGED <<stdin, stdout, stderr, wrote, agent>>
       \/ /\ op = "out" /\ Len(wrote) < MaxFrames
          /\ \E f \in FrameKind :
                /\ stdout' = Append(stdout, f)
                /\ wrote' = Append(wrote, f)
          /\ ChoosesNext
          /\ UNCHANGED <<stdin, stderr, agent>>
       \/ /\ op = "err" /\ stderr + stderrRead < MaxFrames
          /\ stderr' = stderr + 1
          /\ ChoosesNext
          /\ UNCHANGED <<stdin, stdout, wrote, agent>>
       \/ /\ op = "exit" \/ Len(wrote) = MaxFrames \/ stderr + stderrRead = MaxFrames
          /\ agent' \in {"exited", "failed"}
          /\ UNCHANGED <<stdin, stdout, stderr, wrote, op>>
    /\ agentStays

\* The caller cancels the task, or its deadline passes.
ctxCancelled ==
    /\ ~ctxDone /\ pc # "done"
    /\ ctxDone' = TRUE
    /\ UNCHANGED <<adapter, pc, toWrite, stdin, stdout, stderr, stderrRead, taken, got,
                   protocolErr, agent, op, polite, wrote, outcome, cancelSent>>

\* Only the caller's context ends the child.
KilledByCaller == ctxDone

\* exec.CommandContext kills the process group when the run's context ends:
\* the caller cancelled, or Run itself after a protocol error.
Killed == ctxDone \/ protocolErr

agentKilled ==
    /\ agent = "running" /\ Killed
    /\ agent' = "killed"
    /\ UNCHANGED <<stdin, stdout, stderr, wrote, op>>
    /\ agentStays

(***************************************************************************)
(* Run                                                                     *)
(***************************************************************************)
runStays == UNCHANGED <<adapter, ctxDone, op, polite, wrote>>

\* What Run returns ends it; a remote run that was cancelled tells the server.
Returns(value) ==
    /\ outcome' = value
    /\ pc' = "done"
    /\ cancelSent' = (adapter = "remote" /\ value = "cancelled" /\ HasCancelURL)

Begins ==
    \/ /\ ctxDone
       /\ outcome' = "cancelled" /\ pc' = "done"
       /\ UNCHANGED agent
    \/ /\ ~ctxDone
       /\ outcome' = "not started" /\ pc' = "done"
       /\ UNCHANGED agent
    \/ /\ ~ctxDone
       /\ agent' = "running"
       /\ pc' = "writing"
       /\ UNCHANGED outcome

beginStays ==
    /\ UNCHANGED <<toWrite, stdin, stdout, stderr, stderrRead, taken, got, protocolErr, cancelSent>>
    /\ runStays

\* The pipes are made and the process started.
runStarts == adapter = "stdio" /\ pc = "starting" /\ Begins /\ beginStays

\* The request is built and authorized, and the client begins to send it.
remoteStarts == adapter = "remote" /\ pc = "starting" /\ Begins /\ beginStays

AgentGone == agent \in {"exited", "failed", "killed"}

\* The encoder blocks while the pipe is full and fails when its reader is gone.
WriterBlocked == toWrite > 0 /\ stdin = PipeSize /\ ~AgentGone

runWrites ==
    /\ pc = "writing" /\ ~WriterBlocked
    /\ \/ /\ toWrite > 0 /\ ~AgentGone
          /\ toWrite' = toWrite - 1
          /\ stdin' = stdin + 1
          /\ UNCHANGED <<pc, outcome, cancelSent>>
       \/ /\ toWrite > 0 /\ AgentGone
          /\ Returns(IF adapter = "remote" /\ ctxDone THEN "cancelled" ELSE "not written")
          /\ UNCHANGED <<toWrite, stdin>>
       \/ /\ toWrite = 0 /\ adapter = "stdio"
          /\ pc' = "decoding"
          /\ UNCHANGED <<toWrite, stdin, outcome, cancelSent>>
    /\ UNCHANGED <<stdout, stderr, stderrRead, taken, got, protocolErr, agent>>
    /\ runStays

\* client.Do returns: a 2xx response, another one, or none at all.
remoteResponds ==
    /\ adapter = "remote" /\ pc = "writing" /\ toWrite = 0
    /\ \/ /\ pc' = "decoding"
          /\ UNCHANGED <<outcome, cancelSent>>
       \/ /\ wrote = <<>> /\ AgentGone
          /\ Returns(IF ctxDone THEN "cancelled" ELSE "status")
    /\ UNCHANGED <<toWrite, stdin, stdout, stderr, stderrRead, taken, got, protocolErr, agent>>
    /\ runStays

\* applyFrame: one result at most, progress in range, no error frame.
Accepted(f) ==
    \/ f = "progress"
    \/ f \in {"result", "empty"} /\ got = "none"

DecoderBlocked == stdout = <<>> /\ ~AgentGone

\* The reader passes on as much as the limit allows and fails beyond it.
WithinLimit == taken < MaxOutput

\* Frames are read until one is refused, the limit is passed, or the stream
\* ends; how it may end tells the two adapters apart.
Decodes(broken) ==
    /\ pc = "decoding" /\ ~DecoderBlocked
    /\ \/ /\ stdout # <<>>
          /\ stdout' = Tail(stdout)
          /\ taken' = taken + 1
          /\ IF WithinLimit /\ Accepted(Head(stdout))
             THEN /\ got' = IF Head(stdout) = "progress" THEN got ELSE Head(stdout)
                  /\ UNCHANGED <<pc, protocolErr>>
             ELSE /\ protocolErr' = TRUE
                  /\ pc' = "waiting"
                  /\ UNCHANGED got
       \/ /\ stdout = <<>>
          /\ pc' = "waiting"
          /\ protocolErr' = broken
          /\ UNCHANGED <<stdout, taken, got>>
    /\ UNCHANGED <<toWrite, stdin, stderr, stderrRead, agent, outcome, cancelSent>>
    /\ runStays

\* decodeFrames: the end of stdout is an end, whatever became of the process.
runDecodes == adapter = "stdio" /\ Decodes(FALSE)

\* decodeNDJSON, decodeSSE and the single JSON result: a connection that broke
\* off is an error of the body.
remoteDecodes == adapter = "remote" /\ Decodes(agent # "exited")

\* Copying stderr only once stdout is done.
CopierReadsLast == stderr > 0 /\ pc = "waiting"

\* A goroutine of its own drains stderr into the bounded buffer.
CopierReads == stderr > 0

stderrCopied ==
    /\ pc \in {"writing", "decoding", "waiting"} /\ CopierReads
    /\ stderr' = stderr - 1
    /\ stderrRead' = stderrRead + 1
    /\ UNCHANGED <<pc, toWrite, stdin, stdout, taken, got, protocolErr, agent, outcome,
                   cancelSent>>
    /\ runStays

\* The checks of Run after Wait, in their order.
Verdict ==
    IF ctxDone THEN "cancelled"
    ELSE IF stderrRead > MaxOutput THEN "output limit"
    ELSE IF protocolErr THEN "protocol"
    ELSE IF agent # "exited" THEN "exit status"
    ELSE IF got \in {"none", "empty"} THEN "protocol"
    ELSE "result"

\* The remote adapter has no exit status to look at.
remoteVerdict ==
    IF ctxDone THEN "cancelled"
    ELSE IF protocolErr \/ got \in {"none", "empty"} THEN "protocol"
    ELSE "result"

Ends(verdict) ==
    /\ pc = "waiting"
    /\ Returns(verdict)
    /\ agent' = IF agent = "running" THEN "killed" ELSE agent
    /\ UNCHANGED <<toWrite, stdin, stdout, stderr, stderrRead, taken, got, protocolErr>>
    /\ runStays

\* Wait returns once the child is gone.  It closes the pipes, so what is
\* left of stderr may stay unread.
runReturns == adapter = "stdio" /\ AgentGone /\ Ends(Verdict)

\* The body of the response is just closed.
remoteReturns == adapter = "remote" /\ Ends(remoteVerdict)

AdapterNext ==
    \/ agentWorks
    \/ agentKilled
    \/ ctxCancelled
    \/ runStarts \/ remoteStarts
    \/ runWrites \/ remoteResponds
    \/ runDecodes \/ remoteDecodes
    \/ stderrCopied
    \/ runReturns \/ remoteReturns

(***************************************************************************)
(* Claims                                                                  *)
(***************************************************************************)
\* A result is returned only when the agent ended by itself and reported
\* success, and everything it wrote was read and held exactly one result with
\* content and nothing that was refused.  However Run ends, no agent process
\* is left, and a cancelled remote run was told to the server.
RunEndsClean ==
    pc = "done" =>
       /\ agent # "running"
       /\ outcome = "result" =>
             /\ agent = "exited"
             /\ Len(wrote) <= MaxOutput
             /\ ToSet(wrote) \subseteq {"progress", "result"}
             /\ Len(SelectSeq(wrote, LAMBDA f : f = "result")) = 1
       /\ (adapter = "remote" /\ outcome = "cancelled" /\ agent # "none") =>
             cancelSent = HasCancelURL

\* Run and an agent that reads its request before it answers never wait for
\* each other, however much the agent writes to either pipe: one of the two,
\* the stderr copier, or the kill is always able to go on.
NoMutualWait ==
    (polite /\ pc # "done") =>
       \/ pc = "starting"
       \/ pc = "writing" /\ ~WriterBlocked
       \/ pc = "decoding" /\ ~DecoderBlocked
       \/ pc = "waiting" /\ AgentGone
       \/ CopierReads
       \/ agent = "running" /\ (~AgentBlocked \/ Killed)

\* A run of an agent can always go on, and ends clean.
AgentRunsEnd == NoMutualWait /\ RunEndsClean
=============================================================================
