----------------------------- MODULE VoiceCalls -----------------------------
(***************************************************************************)
(* Voice calls of Veqri Core (internal/api/voice.go, the voice commands of *)
(* internal/api/android.go, core/persistence/voice.go,                     *)
(* core/conversation/dialog.go): the durable dialog state of a call, its   *)
(* media handle, and the goroutines that speak task results into it.       *)
(*                                                                         *)
(* A request handler and a speech drainer are processes.  Each of their    *)
(* steps touches shared state once: the voice_sessions row (read, or       *)
(* compare-and-set), the in-memory maps under voiceMu, or the transport.   *)
(* A request that is refused at its first read changes nothing and is left *)
(* out.                                                                    *)
(***************************************************************************)
EXTENDS Naturals, Sequences, FiniteSets

CONSTANTS
    Session,         \* session identifiers 1..n, handed out in this order
    Handler,         \* API requests; each runs one operation on one call
    Drainer,         \* goroutines that can drain the queue of a call
    Job,             \* task results published as voice.tts.text events
    DeviceOf,        \* [Session -> device]
    ConversationOf,  \* [Session -> conversation]
    None,            \* an empty map entry
    Operation,       \* the operations requests ask for
    MaxFaults,       \* database errors and client disconnects
    MaxRestarts      \* process deaths

ASSUME VoiceAssumption ==
    /\ Session \subseteq Nat /\ None \notin Session
    /\ \A S \in SUBSET Session : S # {} => \E s \in S : \A u \in S : s <= u
    /\ None \notin Handler \cup Drainer /\ Handler \cap Drainer = {}

Process      == Handler \cup Drainer
Conversation == {ConversationOf[s] : s \in Session}

DialogState ==
    {"RINGING", "CONNECTING", "LISTENING", "TRANSCRIBING", "THINKING", "DELEGATING",
     "WAITING_FOR_RESULT", "SPEAKING", "INTERRUPTED", "RECONNECTING", "FAILED", "ENDED"}

Over == {"ENDED", "FAILED"}     \* the states the partial unique index leaves out

(***************************************************************************)
(* The transition table.  IDLE and WAITING_FOR_APPROVAL are never written  *)
(* by any code path and are left out.                                      *)
(***************************************************************************)
allowedTransitions ==
    [RINGING            |-> {"CONNECTING", "ENDED", "FAILED"},
     CONNECTING         |-> {"LISTENING", "RECONNECTING", "FAILED", "ENDED"},
     LISTENING          |-> {"TRANSCRIBING", "THINKING", "RECONNECTING", "ENDED"},
     TRANSCRIBING       |-> {"LISTENING", "THINKING", "RECONNECTING", "FAILED", "ENDED"},
     THINKING           |-> {"DELEGATING", "SPEAKING", "FAILED", "ENDED"},
     DELEGATING         |-> {"WAITING_FOR_RESULT", "SPEAKING", "FAILED", "ENDED"},
     WAITING_FOR_RESULT |-> {"LISTENING", "SPEAKING", "FAILED", "ENDED"},
     SPEAKING           |-> {"INTERRUPTED", "LISTENING", "ENDED", "RECONNECTING"},
     INTERRUPTED        |-> {"LISTENING", "THINKING", "RECONNECTING", "ENDED"},
     RECONNECTING       |-> {"LISTENING", "SPEAKING", "FAILED", "ENDED"},
     FAILED             |-> {"RECONNECTING", "ENDED"},
     ENDED              |-> {}]

CanTransition(from, to) == from = to \/ to \in allowedTransitions[from]

VARIABLES
    state,      \* voice_sessions.state; "ABSENT" before the row is inserted
    proc,       \* the point a process has reached, and its locals
    transport,  \* SimulatedTransport.sessions: the last handle made for a
                \* session, named after the handler that asked for it
    closes,     \* how often Close was called on a handle (history)
    media,      \* Server.mediaSessions
    route,      \* Server.voiceByConv
    queue,      \* Server.voiceQueues
    speaking,   \* Server.voiceSpeaking
    cancel,     \* Server.voiceCancels: the drainer whose context it cancels
    cancelled,  \* the context of a drainer's current speech is cancelled
    fate,       \* a job is "new", "sent", or "withheld" from an interrupted call
    faults, restarts

mediaVars  == <<transport, closes, media>>
speechVars == <<queue, speaking, cancel, cancelled, fate>>
vars       == <<state, proc, mediaVars, route, speechVars, faults, restarts>>

Idle == [at |-> "idle", phase |-> "get", seen |-> "ABSENT", call |-> None,
         holds |-> None, job |-> None]
Done == [Idle EXCEPT !.at = "done"]

At(p, l)   == proc[p].at = l /\ proc[p].phase = "get"
Call(p)    == proc[p].call
Point(r, l) ==
    IF l = "done" THEN Done ELSE [r EXCEPT !.at = l, !.phase = "get", !.seen = "ABSENT"]
Jump(p, l) == proc' = [proc EXCEPT ![p] = Point(@, l)]

Init ==
    /\ state = [s \in Session |-> "ABSENT"]
    /\ proc = [p \in Process |-> Idle]
    /\ transport = [s \in Session |-> None]
    /\ closes = [h \in Handler |-> 0]
    /\ media = [s \in Session |-> None]
    /\ route = [c \in Conversation |-> None]
    /\ queue = [s \in Session |-> <<>>]
    /\ speaking = [s \in Session |-> FALSE]
    /\ cancel = [s \in Session |-> None]
    /\ cancelled = [d \in Drainer |-> FALSE]
    /\ fate = [j \in Job |-> "new"]
    /\ faults = 0
    /\ restarts = 0

-----------------------------------------------------------------------------
(* TransitionVoiceSession: read and validate, compare and set, read again. *)

Goal ==
    [connecting   |-> "CONNECTING",   listening    |-> "LISTENING",
     failing      |-> "FAILED",       ending       |-> "ENDED",
     interrupting |-> "INTERRUPTED",  bargein      |-> "INTERRUPTED",
     resuming     |-> "LISTENING",    transcribing |-> "TRANSCRIBING",
     thinking     |-> "THINKING",     delegating   |-> "DELEGATING",
     waiting      |-> "WAITING_FOR_RESULT", reconnecting |-> "RECONNECTING",
     speaking     |-> "SPEAKING",     spoken       |-> "LISTENING"]

(* handleVoiceTranscript branches on the state its last transition returned. *)
AfterResume(seen) ==
    CASE seen = "LISTENING"    -> "transcribing"
      [] seen = "TRANSCRIBING" -> "heard"
      [] OTHER                 -> "done"

AfterBargeIn(seen) ==
    IF seen \in {"INTERRUPTED", "RECONNECTING"} THEN "resuming" ELSE AfterResume(seen)

OnSuccess(l, seen) ==
    CASE l = "connecting"   -> "start"
      [] l = "ending"       -> "cleanup"
      [] l = "bargein"      -> AfterBargeIn(seen)
      [] l = "resuming"     -> AfterResume(seen)
      [] l = "transcribing" -> "heard"
      [] l = "thinking"     -> "delegating"
      [] l = "delegating"   -> "submit"
      [] l = "reconnecting" -> "replace"
      [] l = "speaking"     -> "register"
      [] l = "spoken"       -> "unregister"
      [] OTHER              -> "done"

OnError(l) ==
    CASE l \in {"listening", "start"} -> "fail"
      [] l = "speaking" -> "next"
      [] l = "spoken"   -> "unregister"
      [] OTHER          -> "done"

(* idx_voice_one_active_device: at most one row of a device is not over.   *)
IndexAllowsAny(s, to) == TRUE

IndexAllows(s, to) ==
    to \in Over \/ \A u \in Session \ {s} :
                      DeviceOf[u] = DeviceOf[s] => state[u] \in Over \cup {"ABSENT"}

Validate(p) ==
    /\ proc[p].at \in DOMAIN Goal /\ proc[p].phase = "get"
    /\ IF CanTransition(state[Call(p)], Goal[proc[p].at])
       THEN proc' = [proc EXCEPT ![p].phase = "put", ![p].seen = state[Call(p)]]
       ELSE Jump(p, OnError(proc[p].at))
    /\ UNCHANGED <<state, mediaVars, route, speechVars, faults, restarts>>

UpdateBlind(p) == IndexAllows(Call(p), Goal[proc[p].at])

(* UPDATE ... WHERE id = ? AND state = ?                                   *)
UpdateApplies(p) ==
    /\ state[Call(p)] = proc[p].seen
    /\ IndexAllows(Call(p), Goal[proc[p].at])

Update(p) ==
    /\ proc[p].phase = "put"
    /\ IF UpdateApplies(p)
       THEN /\ state' = [state EXCEPT ![Call(p)] = Goal[proc[p].at]]
            /\ proc' = [proc EXCEPT ![p].phase = "back"]
       ELSE Jump(p, OnError(proc[p].at)) /\ UNCHANGED state
    /\ UNCHANGED <<mediaVars, route, speechVars, faults, restarts>>

Reread(p) ==
    /\ proc[p].phase = "back"
    /\ Jump(p, OnSuccess(proc[p].at, state[Call(p)]))
    /\ UNCHANGED <<state, mediaVars, route, speechVars, faults, restarts>>

(* Any of the three statements can fail, the last one after the row        *)
(* changed, and so can the media transport.                                *)
Fault(p) ==
    /\ faults < MaxFaults
    /\ proc[p].at \in DOMAIN Goal \cup {"start", "recover"}
    /\ faults' = faults + 1
    /\ Jump(p, OnError(proc[p].at))
    /\ UNCHANGED <<state, mediaVars, route, speechVars, restarts>>

-----------------------------------------------------------------------------
(* Starting a call.                                                        *)

Begin(p, s, l) == proc' = [proc EXCEPT ![p] = [Idle EXCEPT !.at = l, !.call = s]]

Live(s) == state[s] # "ABSENT"

(* The next unused identifier; a failed INSERT never gives one back.       *)
Fresh(s) ==
    LET used == {u \in Session : Live(u) \/ \E p \in Process : Call(p) = u}
    IN  s \notin used /\ \A u \in Session : u < s => u \in used

NoActiveCall(s) ==
    \A u \in Session : DeviceOf[u] = DeviceOf[s] => state[u] \in Over \cup {"ABSENT"}

(* seen keeps the state the row will be inserted with.                     *)
StartVoice(h, s, initial) ==
    /\ At(h, "idle") /\ Fresh(s) /\ NoActiveCall(s)
    /\ proc' = [proc EXCEPT ![h] = [Idle EXCEPT !.at = "create", !.seen = initial,
                                               !.call = s]]
    /\ UNCHANGED <<state, mediaVars, route, speechVars, faults, restarts>>

StartCall(h, s) == StartVoice(h, s, "RINGING")

(* voice.start; debug.voice.incoming leaves a ringing call, as StartCall does. *)
StartDeviceVoice(h, s) == StartVoice(h, s, "CONNECTING")

CreateVoiceSession(h) ==
    /\ At(h, "create")
    /\ IF IndexAllows(Call(h), proc[h].seen)
       THEN /\ state' = [state EXCEPT ![Call(h)] = proc[h].seen]
            /\ proc' = [proc EXCEPT ![h].at = "route"]
       ELSE Jump(h, "done") /\ UNCHANGED state
    /\ UNCHANGED <<mediaVars, route, speechVars, faults, restarts>>

Route(h) ==
    /\ At(h, "route")
    /\ route' = [route EXCEPT ![ConversationOf[Call(h)]] = Call(h)]
    /\ Jump(h, IF proc[h].seen = "CONNECTING" THEN "start" ELSE "done")
    /\ UNCHANGED <<state, mediaVars, speechVars, faults, restarts>>

-----------------------------------------------------------------------------
(* Media handles.                                                          *)

Take(h, x, l) == proc' = [proc EXCEPT ![h] = Point([@ EXCEPT !.holds = x], l)]

(* SimulatedTransport.Start refuses a session it has ever seen.            *)
StartMedia(h) ==
    /\ At(h, "start")
    /\ IF transport[Call(h)] = None
       THEN transport' = [transport EXCEPT ![Call(h)] = h] /\ Take(h, h, "track")
       ELSE Jump(h, "fail") /\ UNCHANGED transport
    /\ UNCHANGED <<state, closes, media, route, speechVars, faults, restarts>>

(* SimulatedTransport.Recover hands out the handle that is still open.     *)
RecoverMedia(h) ==
    LET old == transport[Call(h)]
        open == old # None /\ closes[old] = 0
    IN  /\ At(h, "recover")
        /\ transport' = IF open THEN transport ELSE [transport EXCEPT ![Call(h)] = h]
        /\ Take(h, IF open THEN old ELSE h, "retrack")
        /\ UNCHANGED <<state, closes, media, route, speechVars, faults, restarts>>

TrackMediaSession(h) ==
    /\ At(h, "track") \/ At(h, "retrack")
    /\ IF media[Call(h)] = None
       THEN /\ media' = [media EXCEPT ![Call(h)] = proc[h].holds]
            /\ Take(h, None, "listening")
            /\ UNCHANGED closes
       ELSE /\ closes' = [closes EXCEPT ![proc[h].holds] = @ + 1]
            /\ Take(h, None, IF At(h, "track") THEN "fail" ELSE "done")
            /\ UNCHANGED media
    /\ UNCHANGED <<state, transport, route, speechVars, faults, restarts>>

CloseMediaSessionForgets(s) ==
    /\ media' = [media EXCEPT ![s] = None]
    /\ UNCHANGED <<transport, closes>>

CloseMediaSession(s) ==
    /\ closes' = IF media[s] = None THEN closes ELSE [closes EXCEPT ![media[s]] = @ + 1]
    /\ media' = [media EXCEPT ![s] = None]
    /\ UNCHANGED transport

(* The steps that close the tracked handle, and where they lead.           *)
Closing == [fail |-> "failcheck", replace |-> "recover", hangup |-> "ending",
            reclose |-> "done"]

CloseMedia(h) ==
    /\ proc[h].at \in DOMAIN Closing /\ proc[h].phase = "get"
    /\ CloseMediaSession(Call(h))
    /\ Jump(h, Closing[proc[h].at])
    /\ UNCHANGED <<state, route, speechVars, faults, restarts>>

FailVoiceSession(h) ==
    /\ At(h, "failcheck")
    /\ Jump(h, IF CanTransition(state[Call(h)], "FAILED") THEN "failing" ELSE "done")
    /\ UNCHANGED <<state, mediaVars, route, speechVars, faults, restarts>>

-----------------------------------------------------------------------------
(* Answer, reconnect, interrupt, end.                                      *)

Accept(h, s, l) ==
    /\ At(h, "idle") /\ Live(s)
    /\ Begin(h, s, l)
    /\ UNCHANGED <<state, mediaVars, route, speechVars, faults, restarts>>

AnswerCall(h, s) == state[s] = "RINGING" /\ Accept(h, s, "connecting")

ReconnectVoice(h, s) ==
    \/ state[s] = "RECONNECTING" /\ Accept(h, s, "replace")
    \/ /\ Live(s) /\ state[s] # "RECONNECTING"
       /\ CanTransition(state[s], "RECONNECTING")
       /\ Accept(h, s, "reconnecting")

InterruptVoice(h, s) == state[s] = "SPEAKING" /\ Accept(h, s, "silence")

(* Every state of the table but ENDED itself leads to ENDED.               *)
EndVoice(h, s) == Accept(h, s, IF state[s] = "ENDED" THEN "reclose" ELSE "quiet")

(* The steps that call cancelTTS, and where they lead.                     *)
Silencing == [silence |-> "interrupting", hush |-> "bargein", quiet |-> "hangup"]

CancelTTS(h) ==
    LET d == cancel[Call(h)]
    IN  /\ proc[h].at \in DOMAIN Silencing /\ proc[h].phase = "get"
        /\ cancelled' = IF d = None THEN cancelled ELSE [cancelled EXCEPT ![d] = TRUE]
        /\ Jump(h, Silencing[proc[h].at])
        /\ UNCHANGED <<state, mediaVars, route, queue, speaking, cancel, fate,
                       faults, restarts>>

EndVoiceSession(h) ==
    /\ At(h, "cleanup")
    /\ route' = [route EXCEPT ![ConversationOf[Call(h)]] = None]
    /\ queue' = [queue EXCEPT ![Call(h)] = <<>>]
    /\ speaking' = [speaking EXCEPT ![Call(h)] = FALSE]
    /\ Jump(h, "done")
    /\ UNCHANGED <<state, mediaVars, cancel, cancelled, fate, faults, restarts>>

-----------------------------------------------------------------------------
(* A user turn.                                                            *)

VoiceTranscript(h, s) ==
    LET l == IF state[s] = "SPEAKING" THEN "hush" ELSE AfterBargeIn(state[s])
    IN  l # "done" /\ Accept(h, s, l)

(* A partial transcript ends here.                                         *)
Heard(h) ==
    /\ At(h, "heard")
    /\ \E l \in {"thinking", "done"} : Jump(h, l)
    /\ UNCHANGED <<state, mediaVars, route, speechVars, faults, restarts>>

(* submitAsk accepts the text or refuses it; its result comes as a Job.    *)
Submit(h) ==
    /\ At(h, "submit")
    /\ \E l \in {"waiting", "fail"} : Jump(h, l)
    /\ UNCHANGED <<state, mediaVars, route, speechVars, faults, restarts>>

-----------------------------------------------------------------------------
(* Speaking results: voiceDeliveryLoop, drainVoiceQueue, speakText.        *)

SpawnAlways(s) == \E d \in Drainer : At(d, "idle") /\ Begin(d, s, "next")

Spawn(s) ==
    IF speaking[s] THEN UNCHANGED proc
    ELSE \E d \in Drainer : At(d, "idle") /\ Begin(d, s, "next")

Deliver(j, s) ==
    /\ fate[j] = "new"
    /\ \E c \in Conversation : route[c] = s
    /\ queue' = [queue EXCEPT ![s] = Append(@, j)]
    /\ fate' = [fate EXCEPT ![j] = "sent"]
    /\ speaking' = [speaking EXCEPT ![s] = TRUE]
    /\ Spawn(s)
    /\ UNCHANGED <<state, mediaVars, route, cancel, cancelled, faults, restarts>>

DrainVoiceQueue(d) ==
    LET s == Call(d)
    IN  /\ At(d, "next")
        /\ IF queue[s] = <<>>
           THEN /\ speaking' = [speaking EXCEPT ![s] = FALSE]
                /\ proc' = [proc EXCEPT ![d] = Idle]
                /\ UNCHANGED queue
           ELSE /\ queue' = [queue EXCEPT ![s] = Tail(@)]
                /\ proc' = [proc EXCEPT ![d].at = "speech", ![d].job = Head(queue[s])]
                /\ UNCHANGED speaking
        /\ UNCHANGED <<state, mediaVars, route, cancel, cancelled, fate, faults, restarts>>

(* speakText refuses a call that is over, interrupted or cannot speak.     *)
SpeakText(d) ==
    LET now == state[Call(d)]
    IN  /\ At(d, "speech")
        /\ IF now \notin Over \cup {"INTERRUPTED"} /\ CanTransition(now, "SPEAKING")
           THEN Jump(d, "speaking") /\ UNCHANGED fate
           ELSE /\ Jump(d, "next")
                /\ fate' = IF now # "INTERRUPTED" THEN fate
                           ELSE [fate EXCEPT ![proc[d].job] = "withheld"]
        /\ UNCHANGED <<state, mediaVars, route, queue, speaking, cancel, cancelled,
                       faults, restarts>>

RegisterCancel(d) ==
    /\ At(d, "register")
    /\ cancel' = [cancel EXCEPT ![Call(d)] = d]
    /\ cancelled' = [cancelled EXCEPT ![d] = FALSE]
    /\ Jump(d, "playback")
    /\ UNCHANGED <<state, mediaVars, route, queue, speaking, fate, faults, restarts>>

PlaybackSilent(d) ==
    /\ At(d, "playback")
    /\ Jump(d, "unregister")
    /\ UNCHANGED <<state, mediaVars, route, speechVars, faults, restarts>>

(* The playback event is published at once and the chunks follow.  Their   *)
(* loop ends at the end of the stream, which a cancelled context also      *)
(* brings about, or on ctx.Done(), which skips the rest of speakText.      *)
Playback(d) ==
    /\ At(d, "playback")
    /\ \/ cancelled[d] /\ Jump(d, "unregister")
       \/ Jump(d, IF state[Call(d)] = "SPEAKING" THEN "spoken" ELSE "unregister")
    /\ UNCHANGED <<state, mediaVars, route, speechVars, faults, restarts>>

UnregisterCancel(d) ==
    /\ At(d, "unregister")
    /\ cancel' = [cancel EXCEPT ![Call(d)] = None]
    /\ cancelled' = [cancelled EXCEPT ![d] = FALSE]
    /\ proc' = [proc EXCEPT ![d].at = "next", ![d].job = None]
    /\ UNCHANGED <<state, mediaVars, route, queue, speaking, fate, faults, restarts>>

-----------------------------------------------------------------------------
(* The process dies: at a shutdown, which first closes the tracked handles, *)
(* or in a crash.  recoverVoiceRouting walks the active calls from the      *)
(* newest to the oldest, so the oldest one of a conversation stays mapped.  *)

Tracked == {media[s] : s \in Session} \ {None}

Active(c) == {s \in Session : ConversationOf[s] = c /\ state[s] \notin Over \cup {"ABSENT"}}

Oldest(S) == CHOOSE s \in S : \A u \in S : s <= u

Restart ==
    /\ restarts < MaxRestarts
    /\ restarts' = restarts + 1
    /\ closes' \in {closes, [h \in Handler |-> closes[h] + IF h \in Tracked THEN 1 ELSE 0]}
    /\ media' = [s \in Session |-> None]
    /\ transport' = [s \in Session |-> None]
    /\ proc' = [p \in Process |-> IF p \in Drainer THEN Idle
                                  ELSE IF At(p, "idle") THEN proc[p]
                                  ELSE Done]
    /\ route' = [c \in Conversation |-> IF Active(c) = {} THEN None ELSE Oldest(Active(c))]
    /\ queue' = [s \in Session |-> <<>>]
    /\ speaking' = [s \in Session |-> FALSE]
    /\ cancel' = [s \in Session |-> None]
    /\ cancelled' = [d \in Drainer |-> FALSE]
    /\ UNCHANGED <<state, fate, faults>>

-----------------------------------------------------------------------------
Request(h, s) ==
    \/ "start" \in Operation /\ StartDeviceVoice(h, s)
    \/ "ring" \in Operation /\ (StartCall(h, s) \/ AnswerCall(h, s))
    \/ "reconnect" \in Operation /\ ReconnectVoice(h, s)
    \/ "turn" \in Operation /\ (VoiceTranscript(h, s) \/ InterruptVoice(h, s))
    \/ "end" \in Operation /\ EndVoice(h, s)

HandlerStep(h) ==
    \/ CreateVoiceSession(h) \/ Route(h)
    \/ StartMedia(h) \/ RecoverMedia(h) \/ TrackMediaSession(h) \/ CloseMedia(h)
    \/ FailVoiceSession(h) \/ CancelTTS(h) \/ EndVoiceSession(h)
    \/ Heard(h) \/ Submit(h)

DrainerStep(d) ==
    \/ DrainVoiceQueue(d) \/ SpeakText(d)
    \/ RegisterCancel(d) \/ Playback(d) \/ UnregisterCancel(d)

TransitionVoiceSession(p) == Validate(p) \/ Update(p) \/ Reread(p)

Next ==
    \/ \E h \in Handler : HandlerStep(h) \/ \E s \in Session : Request(h, s)
    \/ \E d \in Drainer : DrainerStep(d)
    \/ \E p \in Process : TransitionVoiceSession(p) \/ Fault(p)
    \/ \E j \in Job, s \in Session : Deliver(j, s)
    \/ Restart

Spec == Init /\ [][Next]_vars

(* Go runs every handler and every drainer to its end.                     *)
Fairness ==
    /\ \A h \in Handler : WF_vars(HandlerStep(h) \/ TransitionVoiceSession(h))
    /\ \A d \in Drainer : WF_vars(DrainerStep(d) \/ TransitionVoiceSession(d))

FairSpec == Spec /\ Fairness
=============================================================================
