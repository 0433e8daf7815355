---------------------------- MODULE VoiceProofs ----------------------------
(***************************************************************************)
(* What holds of calls for every number of sessions, devices, requests and *)
(* results: types, one call for a device, the table of the dialog, and who *)
(* answers for a media handle.                                             *)
(***************************************************************************)
EXTENDS VoiceClaims, TLAPS

\* How long each prover may take over a leaf, in seconds.
USE SMTT(30), ZenonT(30)

ProcRecord ==
    [at : Label, phase : {"get", "put", "back"}, seen : DialogState \cup {"ABSENT"},
     call : Session \cup {None}, holds : Handler \cup {None}, job : Job \cup {None}]

\* A process works on a call whose row exists, unless it is about to insert
\* it, and what TransitionVoiceSession carries from its read to its write is
\* allowed by the table.
Shape(r) ==
    /\ r.at \notin {"idle", "done"} => r.call \in Session
    /\ r.phase # "get" => r.at \in DOMAIN Goal
    /\ r.phase = "put" => r.seen \in DialogState /\ CanTransition(r.seen, Goal[r.at])
    /\ r.at = "create" => r.seen \in {"RINGING", "CONNECTING"}

LocalOK(r) ==
    /\ Shape(r)
    /\ r.at # "create" /\ r.call # None => Live(r.call)

\* The one that will insert a row is alone with its identifier, and results
\* are only routed to calls that exist.
CallInv ==
    /\ \A p \in Process : LocalOK(proc[p])
    /\ \A p \in Process : proc[p].at = "create" =>
          ~Live(Call(p)) /\ \A q \in Process \ {p} : Call(q) # Call(p)
    /\ \A c \in Conversation : route[c] # None => Live(route[c])

VoiceInv == TypeOK /\ CallInv /\ OneCallPerDevice

-----------------------------------------------------------------------------
(* The tables                                                              *)

(* The places where a transition is made, and its target states.           *)
LEMMA GoalFacts ==
  /\ \A l \in DOMAIN Goal : Goal[l] \in DialogState /\ l \in Label \ {"idle", "done", "create"}
  /\ "create" \notin DOMAIN Goal /\ "idle" \notin DOMAIN Goal /\ "done" \notin DOMAIN Goal
  BY DEF Goal, DialogState, Label

(* The places where media is closed or speech is silenced, and what follows. *)
LEMMA LabelFacts ==
  /\ \A l \in DOMAIN Closing : Closing[l] \in Label \ {"create", "idle"} /\ l \in Label \ {"idle", "done", "create"}
  /\ \A l \in DOMAIN Silencing : Silencing[l] \in Label \ {"create", "idle"} /\ l \in Label \ {"idle", "done", "create"}
  BY DEF Closing, Silencing, Goal, Label

(* The labels by name.                                                     *)
LEMMA LabelNames ==
  {"connecting", "listening", "failing", "ending", "interrupting", "bargein", "resuming", "transcribing",
   "thinking", "delegating", "waiting", "reconnecting", "speaking", "spoken", "fail", "replace", "hangup",
   "reclose", "silence", "hush", "quiet", "route", "start", "track", "recover", "retrack", "failcheck",
   "cleanup", "heard", "submit", "next", "speech", "register", "playback", "unregister"}
  \subseteq Label \ {"create", "idle", "done"}
  BY DEF Label, Goal, Closing, Silencing

(* Where a transition leads on success and on error.                       *)
LEMMA AfterFacts ==
  ASSUME NEW l, NEW seen
  PROVE  /\ AfterResume(seen) \in Label \ {"create", "idle"}
         /\ AfterBargeIn(seen) \in Label \ {"create", "idle"}
         /\ OnSuccess(l, seen) \in Label \ {"create", "idle"}
         /\ OnError(l) \in Label \ {"create", "idle"}
<1>1. {"resuming", "transcribing", "heard", "done", "start", "cleanup", "delegating", "submit", "replace",
       "register", "unregister", "fail", "next"} \subseteq Label \ {"create", "idle"}
  BY DEF Label, Goal, Closing
<1>2. AfterResume(seen) \in {"transcribing", "heard", "done"}
  BY DEF AfterResume
<1>3. AfterBargeIn(seen) \in {"resuming", "transcribing", "heard", "done"}
  BY <1>2 DEF AfterBargeIn
<1>4. OnSuccess(l, seen) \in {"resuming", "transcribing", "heard", "done", "start", "cleanup", "delegating",
                              "submit", "replace", "register", "unregister"}
  BY <1>2, <1>3 DEF OnSuccess
<1>5. OnError(l) \in {"fail", "next", "unregister", "done"}
  BY DEF OnError
<1> QED
  BY <1>1, <1>2, <1>3, <1>4, <1>5

(* The oldest call of a set is one of the set.                             *)
LEMMA OldestFacts ==
  ASSUME NEW S \in SUBSET Session, S # {}
  PROVE  Oldest(S) \in S
BY VoiceAssumption, ZenonT(30) DEF Oldest

(* The record a process holds after Point.                                 *)
LEMMA PointFacts ==
  ASSUME NEW r \in ProcRecord, NEW l \in Label
  PROVE  /\ Point(r, l) \in ProcRecord /\ Point(r, l).at = l /\ Point(r, l).phase = "get"
         /\ Point(r, l).seen = "ABSENT"
         /\ Point(r, l).call = IF l = "done" THEN None ELSE r.call
         /\ Idle \in ProcRecord /\ Done \in ProcRecord
         /\ Idle.at = "idle" /\ Done.at = "done" /\ Idle.phase = "get" /\ Done.phase = "get"
         /\ Idle.call = None /\ Done.call = None
<1>1. "idle" \in Label /\ "done" \in Label
  BY DEF Label
<1> QED
  BY <1>1, ZenonT(30) DEF Point, ProcRecord, Idle, Done

-----------------------------------------------------------------------------
(* Steps that leave the rows alone                                         *)

MapsOK ==
    /\ transport \in [Session -> Handler \cup {None}]
    /\ media \in [Session -> Handler \cup {None}]
    /\ closes \in [Handler -> Nat]
    /\ route \in [Conversation -> Session \cup {None}]
    /\ queue \in [Session -> Seq(Job)]
    /\ speaking \in [Session -> BOOLEAN]
    /\ cancel \in [Session -> Drainer \cup {None}]
    /\ cancelled \in [Drainer -> BOOLEAN]

(* The type invariant, variable by variable.                               *)
LEMMA TypeParts ==
  TypeOK <=> /\ state \in [Session -> DialogState \cup {"ABSENT"}]
             /\ proc \in [Process -> ProcRecord]
             /\ MapsOK
  BY DEF TypeOK, MapsOK, ProcRecord

(* What VoiceInv says of one process.                                      *)
LEMMA ProcFacts ==
  ASSUME VoiceInv, NEW p \in Process
  PROVE  /\ proc[p] \in ProcRecord /\ LocalOK(proc[p])
         /\ proc[p].at \in Label /\ Call(p) \in Session \cup {None}
         /\ proc[p].at \notin {"idle", "done"} => Call(p) \in Session
  BY TypeParts DEF VoiceInv, CallInv, LocalOK, Shape, Call, ProcRecord

RoutesLive == \A c \in Conversation : route[c] # None => Live(route[c])

(* One process moves on, stays with its call, leaves it, or takes one that  *)
(* exists.                                                                  *)
LEMMA StepOf ==
  ASSUME VoiceInv, NEW p \in Process, NEW r \in ProcRecord, proc' = [proc EXCEPT ![p] = r],
         UNCHANGED state, LocalOK(r), r.at # "create",
         r.call \in {None, Call(p)} \/ Live(r.call), RoutesLive'
  PROVE  CallInv' /\ proc' \in [Process -> ProcRecord]
<1>1. proc \in [Process -> ProcRecord] /\ CallInv
  BY TypeParts DEF VoiceInv
<1>2. proc' \in [Process -> ProcRecord] /\ proc'[p] = r /\ \A q \in Process \ {p} : proc'[q] = proc[q]
  BY <1>1
<1>3. \A q \in Process : LocalOK(proc[q])'
  BY <1>1, <1>2 DEF CallInv, LocalOK, Shape, Live
<1>4. ASSUME NEW q \in Process, proc'[q].at = "create"
      PROVE  ~ Live(Call(q))' /\ \A u \in Process \ {q} : Call(u)' # Call(q)'
  <2>1. q # p /\ proc[q].at = "create" /\ Call(q) \in Session /\ ~ Live(Call(q))
    BY <1>1, <1>2, <1>4 DEF CallInv, LocalOK, Shape, Call
  <2>2. r.call # Call(q)
    BY <1>1, <2>1, VoiceAssumption DEF CallInv
  <2> QED
    BY <1>1, <1>2, <2>1, <2>2 DEF CallInv, Call, Live
<1> QED
  BY <1>2, <1>3, <1>4 DEF CallInv, RoutesLive

(* A jump keeps the record of a process well formed.                       *)
LEMMA JumpOf ==
  ASSUME VoiceInv, NEW p \in Process, NEW l \in Label \ {"create", "idle"}, Jump(p, l), UNCHANGED state,
         proc[p].at \notin {"idle", "done"}, proc[p].at # "create" \/ l = "done", RoutesLive'
  PROVE  CallInv' /\ proc' \in [Process -> ProcRecord]
<1> DEFINE r == Point(proc[p], l)
<1>1. proc' = [proc EXCEPT ![p] = r] /\ proc[p] \in ProcRecord /\ LocalOK(proc[p])
  BY ProcFacts DEF Jump
<1>2. r \in ProcRecord /\ r.at = l /\ r.phase = "get" /\ r.call = IF l = "done" THEN None ELSE proc[p].call
  BY <1>1, PointFacts
<1> HIDE DEF r
<1>3. LocalOK(r) /\ r.call \in {None, Call(p)}
  BY <1>1, <1>2 DEF LocalOK, Shape, Call
<1> QED
  BY <1>1, <1>2, <1>3, StepOf, ZenonT(30)

(* So does taking or giving up a media handle.                             *)
LEMMA TakeOf ==
  ASSUME VoiceInv, NEW p \in Process, NEW l \in Label \ {"create", "idle"}, NEW x \in Handler \cup {None},
         Take(p, x, l), UNCHANGED <<state, route>>, proc[p].at \notin {"idle", "done", "create"}
  PROVE  CallInv' /\ proc' \in [Process -> ProcRecord]
<1> DEFINE t == [proc[p] EXCEPT !.holds = x]
           r == Point(t, l)
<1>1. proc[p] \in ProcRecord /\ LocalOK(proc[p]) /\ RoutesLive'
  BY ProcFacts DEF VoiceInv, CallInv, RoutesLive, Live
<1>2. t \in ProcRecord /\ t.call = Call(p)
  BY <1>1 DEF ProcRecord, Call
<1>3. proc' = [proc EXCEPT ![p] = r]
  BY DEF Take
<1> HIDE DEF t
<1>4. r \in ProcRecord /\ r.at = l /\ r.phase = "get" /\ r.call = IF l = "done" THEN None ELSE Call(p)
  BY <1>2, PointFacts
<1> HIDE DEF r
<1>5. LocalOK(r) /\ r.call \in {None, Call(p)}
  BY <1>1, <1>4 DEF LocalOK, Shape, Call
<1> QED
  BY <1>1, <1>3, <1>4, <1>5, StepOf, ZenonT(30)

(* So does the start of a request or of a drainer.                         *)
LEMMA BeginOf ==
  ASSUME VoiceInv, NEW p \in Process, NEW l \in Label \ {"create", "idle", "done"}, NEW s \in Session,
         Begin(p, s, l), Live(s), UNCHANGED <<state, route>>
  PROVE  CallInv' /\ proc' \in [Process -> ProcRecord]
<1> DEFINE r == [Idle EXCEPT !.at = l, !.call = s]
<1>1. r \in ProcRecord /\ r.at = l /\ r.phase = "get" /\ r.call = s
  BY ZenonT(30) DEF Idle, ProcRecord
<1>2. proc' = [proc EXCEPT ![p] = r] /\ RoutesLive'
  BY DEF Begin, VoiceInv, CallInv, RoutesLive, Live
<1> HIDE DEF r
<1>3. LocalOK(r)
  BY <1>1 DEF LocalOK, Shape
<1> QED
  BY <1>1, <1>2, <1>3, StepOf, ZenonT(30)

(* The count of closings stays well typed.                                 *)
LEMMA CountedClose ==
  ASSUME MapsOK, NEW x \in Handler \cup {None}
  PROVE  [closes EXCEPT ![x] = @ + 1] \in [Handler -> Nat]
<1>1. closes \in [Handler -> Nat]
  BY DEF MapsOK
<1>2. CASE x \in Handler
  BY <1>1, <1>2
<1>3. CASE x \notin Handler
  <2>1. [closes EXCEPT ![x] = @ + 1] = closes
    BY <1>1, <1>3, ZenonT(30)
  <2> QED
    BY <1>1, <2>1, ZenonT(30)
<1> QED
  BY <1>2, <1>3

Kept == CallInv' /\ proc' \in [Process -> ProcRecord] /\ MapsOK' /\ UNCHANGED state

(* Routes still lead to live calls if neither rows nor routes change.      *)
LEMMA RoutesKept ==
  ASSUME VoiceInv, UNCHANGED <<state, route>>
  PROVE  RoutesLive'
  BY DEF VoiceInv, CallInv, RoutesLive, Live

(* The start of a request.                                                 *)
LEMMA RequestKeeps ==
  ASSUME VoiceInv, NEW h \in Handler, NEW s \in Session,
         AnswerCall(h, s) \/ ReconnectVoice(h, s) \/ VoiceTranscript(h, s) \/ InterruptVoice(h, s) \/ EndVoice(h, s)
  PROVE  Kept
<1>1. PICK l \in Label \ {"create", "idle", "done"} : Accept(h, s, l)
  <2>1. CASE AnswerCall(h, s)
    BY <2>1, LabelNames DEF AnswerCall
  <2>2. CASE ReconnectVoice(h, s)
    BY <2>2, LabelNames DEF ReconnectVoice
  <2>3. CASE VoiceTranscript(h, s)
    BY <2>3, LabelNames, AfterFacts DEF VoiceTranscript
  <2>4. CASE InterruptVoice(h, s)
    BY <2>4, LabelNames DEF InterruptVoice
  <2>5. CASE EndVoice(h, s)
    BY <2>5, LabelNames DEF EndVoice
  <2> QED
    BY <2>1, <2>2, <2>3, <2>4, <2>5
<1>2. Begin(h, s, l) /\ Live(s) /\ UNCHANGED <<state, mediaVars, route, speechVars>>
  BY <1>1 DEF Accept
<1>3. MapsOK'
  BY <1>2, TypeParts DEF VoiceInv, MapsOK, mediaVars, speechVars
<1> QED
  BY <1>2, <1>3, BeginOf DEF Kept, Process

(* The steps of a request that open, track and close media.                *)
LEMMA MediaKeeps ==
  ASSUME VoiceInv, NEW h \in Handler,
         StartMedia(h) \/ RecoverMedia(h) \/ TrackMediaSession(h) \/ CloseMedia(h)
  PROVE  Kept
<1>1. h \in Process /\ proc[h] \in ProcRecord /\ MapsOK /\ (proc[h].at \notin {"idle", "done"} => Call(h) \in Session)
  BY ProcFacts, TypeParts DEF Process, VoiceInv
<1>2. UNCHANGED <<state, route, speechVars>> /\ RoutesLive'
  BY RoutesKept DEF StartMedia, RecoverMedia, TrackMediaSession, CloseMedia
<1>3. CASE StartMedia(h)
  <2>1. proc[h].at = "start" /\ UNCHANGED <<closes, media>>
    BY <1>3, ZenonT(30) DEF StartMedia, At
  <2>2. MapsOK'
    BY <1>1, <1>2, <1>3, <2>1, ZenonT(30) DEF StartMedia, MapsOK, speechVars
  <2>3. Take(h, h, "track") \/ Jump(h, "fail")
    BY <1>3 DEF StartMedia
  <2> QED
    BY <1>1, <1>2, <2>1, <2>2, <2>3, TakeOf, JumpOf, LabelNames, ZenonT(30) DEF Kept
<1>4. CASE RecoverMedia(h)
  <2> DEFINE old == transport[Call(h)]
             open == old # None /\ closes[old] = 0
  <2>1. proc[h].at = "recover" /\ UNCHANGED <<closes, media>> /\ Take(h, IF open THEN old ELSE h, "retrack")
        /\ transport' = IF open THEN transport ELSE [transport EXCEPT ![Call(h)] = h]
    BY <1>4 DEF RecoverMedia, At
  <2>2. (IF open THEN old ELSE h) \in Handler \cup {None}
    BY <1>1, <2>1 DEF MapsOK
  <2>3. MapsOK'
    BY <1>1, <1>2, <2>1, ZenonT(30) DEF MapsOK, speechVars
  <2> QED
    BY <1>1, <1>2, <2>1, <2>2, <2>3, TakeOf, LabelNames DEF Kept
<1>5. CASE TrackMediaSession(h)
  <2>1. proc[h].at \in {"track", "retrack"} /\ UNCHANGED transport
    BY <1>5, ZenonT(30) DEF TrackMediaSession, At
  <2>2. MapsOK'
    <3>2. proc[h].holds \in Handler \cup {None}
      BY <1>1 DEF ProcRecord
    <3>1. closes' \in [Handler -> Nat]
      BY <1>1, <1>5, <3>2, CountedClose, ZenonT(30) DEF TrackMediaSession, MapsOK
    <3>3. media' \in [Session -> Handler \cup {None}]
      BY <1>1, <1>5, <3>2 DEF TrackMediaSession, MapsOK
    <3> QED
      BY <1>1, <1>2, <2>1, <3>1, <3>3 DEF MapsOK, speechVars
  <2>3. \E l \in {"listening", "fail", "done"} : Take(h, None, l)
    BY <1>5 DEF TrackMediaSession
  <2>4. {"listening", "fail", "done"} \subseteq Label \ {"create", "idle"}
    BY LabelNames DEF Label
  <2> QED
    BY <1>1, <1>2, <2>1, <2>2, <2>3, <2>4, TakeOf DEF Kept
<1>6. CASE CloseMedia(h)
  <2>1. proc[h].at \in DOMAIN Closing /\ Jump(h, Closing[proc[h].at]) /\ CloseMediaSession(Call(h))
    BY <1>6 DEF CloseMedia
  <2>2. proc[h].at \notin {"idle", "done", "create"} /\ Closing[proc[h].at] \in Label \ {"create", "idle"}
    BY <2>1, LabelFacts
  <2>3. MapsOK'
    <3>1. closes' \in [Handler -> Nat]
      BY <1>1, <2>1, <2>2, CountedClose, ZenonT(30) DEF CloseMediaSession, MapsOK
    <3>2. media' \in [Session -> Handler \cup {None}] /\ transport' = transport
      BY <1>1, <2>1, ZenonT(30) DEF CloseMediaSession, MapsOK
    <3> QED
      BY <1>1, <1>2, <3>1, <3>2 DEF MapsOK, speechVars
  <2> QED
    BY <1>1, <1>2, <2>1, <2>2, <2>3, JumpOf DEF Kept
<1> QED
  BY <1>3, <1>4, <1>5, <1>6

(* The other steps of a request.                                           *)
LEMMA HandlerKeeps ==
  ASSUME VoiceInv, NEW h \in Handler,
         Route(h) \/ FailVoiceSession(h) \/ CancelTTS(h) \/ EndVoiceSession(h) \/ Heard(h) \/ Submit(h)
  PROVE  Kept
<1>1. h \in Process /\ proc[h] \in ProcRecord /\ MapsOK
      /\ (proc[h].at \notin {"idle", "done"} => Call(h) \in Session) /\ LocalOK(proc[h])
  BY ProcFacts, TypeParts DEF Process, VoiceInv
<1>2. "done" \in Label \ {"create", "idle"}
  BY DEF Label
<1>3. CASE Route(h)
  <2>1. proc[h].at = "route" /\ UNCHANGED <<state, mediaVars, speechVars>>
    BY <1>3, ZenonT(30) DEF Route, At
  <2>2. RoutesLive'
    BY <1>1, <1>3, <2>1, ZenonT(30) DEF Route, RoutesLive, VoiceInv, CallInv, LocalOK, Shape, Live, Call, MapsOK
  <2>3. MapsOK'
    BY <1>1, <1>3, <2>1, ZenonT(30) DEF Route, MapsOK, mediaVars, speechVars
  <2>4. Jump(h, "start") \/ Jump(h, "done")
    BY <1>3, ZenonT(30) DEF Route
  <2> QED
    BY <1>1, <1>2, <2>1, <2>2, <2>3, <2>4, JumpOf, LabelNames, ZenonT(30) DEF Kept
<1>4. CASE EndVoiceSession(h)
  <2>1. proc[h].at = "cleanup" /\ UNCHANGED <<state, mediaVars, cancel, cancelled>> /\ Jump(h, "done")
    BY <1>4 DEF EndVoiceSession, At
  <2>2. RoutesLive'
    BY <1>1, <1>4, <2>1, ZenonT(30) DEF EndVoiceSession, RoutesLive, VoiceInv, CallInv, Live, MapsOK
  <2>3. MapsOK'
    <3>1. <<>> \in Seq(Job)
      OBVIOUS
    <3>2. queue' \in [Session -> Seq(Job)]
      BY <1>1, <1>4, <3>1, ZenonT(30) DEF EndVoiceSession, MapsOK
    <3>3. route' \in [Conversation -> Session \cup {None}] /\ speaking' \in [Session -> BOOLEAN]
      BY <1>1, <1>4, ZenonT(30) DEF EndVoiceSession, MapsOK
    <3> QED
      BY <1>1, <2>1, <3>2, <3>3, ZenonT(30) DEF MapsOK, mediaVars
  <2> QED
    BY <1>1, <1>2, <2>1, <2>2, <2>3, JumpOf DEF Kept
<1>5. CASE CancelTTS(h)
  <2>1. proc[h].at \in DOMAIN Silencing /\ Jump(h, Silencing[proc[h].at])
        /\ UNCHANGED <<state, mediaVars, route, queue, speaking, cancel>>
    BY <1>5, ZenonT(30) DEF CancelTTS
  <2>2. proc[h].at \notin {"idle", "done", "create"} /\ Silencing[proc[h].at] \in Label \ {"create", "idle"}
    BY <2>1, LabelFacts, ZenonT(30)
  <2>3. cancel[Call(h)] \in Drainer \cup {None}
    BY <1>1, <2>2, ZenonT(30) DEF MapsOK
  <2>4. cancelled' \in [Drainer -> BOOLEAN]
    <3>1. cancelled \in [Drainer -> BOOLEAN]
      BY <1>1 DEF MapsOK
    <3>2. \/ cancelled' = cancelled
          \/ cancelled' = [cancelled EXCEPT ![cancel[Call(h)]] = TRUE]
      BY <1>5 DEF CancelTTS
    <3> QED
      BY <3>1, <3>2, ZenonT(30)
  <2>5. MapsOK'
    BY <1>1, <2>1, <2>4, ZenonT(30) DEF MapsOK, mediaVars
  <2> QED
    BY <1>1, <2>1, <2>2, <2>5, JumpOf, RoutesKept DEF Kept
<1>6. CASE FailVoiceSession(h) \/ Heard(h) \/ Submit(h)
  <2>1. /\ proc[h].at \in {"failcheck", "heard", "submit"}
        /\ \E l \in {"failing", "thinking", "waiting", "fail", "done"} : Jump(h, l)
        /\ UNCHANGED <<state, mediaVars, route, speechVars>>
    BY <1>6, ZenonT(30) DEF FailVoiceSession, Heard, Submit, At
  <2>2. {"failing", "thinking", "waiting", "fail", "done"} \subseteq Label \ {"create", "idle"}
    BY <1>2, LabelNames
  <2>3. MapsOK'
    BY <1>1, <2>1, ZenonT(30) DEF MapsOK, mediaVars, speechVars
  <2> QED
    BY <1>1, <2>1, <2>2, <2>3, JumpOf, RoutesKept DEF Kept
<1> QED
  BY <1>3, <1>4, <1>5, <1>6

(* drainVoiceQueue and speakText.                                          *)
LEMMA DrainerKeeps ==
  ASSUME VoiceInv, NEW d \in Drainer, DrainerStep(d)
  PROVE  Kept
<1>1. d \in Process /\ proc[d] \in ProcRecord /\ MapsOK
      /\ (proc[d].at \notin {"idle", "done"} => Call(d) \in Session) /\ LocalOK(proc[d])
  BY ProcFacts, TypeParts DEF Process, VoiceInv
<1>2. UNCHANGED <<state, route, mediaVars>> /\ RoutesLive'
  BY RoutesKept DEF DrainerStep, DrainVoiceQueue, SpeakText, RegisterCancel, Playback, UnregisterCancel, speechVars
<1>3. CASE DrainVoiceQueue(d)
  <2>1. proc[d].at = "next" /\ proc[d].phase = "get" /\ UNCHANGED <<cancel, cancelled>>
    BY <1>3 DEF DrainVoiceQueue, At
  <2>2. CASE queue[Call(d)] = <<>>
    <3>1. Idle \in ProcRecord /\ Idle.at = "idle" /\ Idle.phase = "get" /\ Idle.call = None
      BY <1>1, <1>2, PointFacts DEF ProcRecord
    <3>2. LocalOK(Idle)
      BY <3>1 DEF LocalOK, Shape
    <3>3. proc' = [proc EXCEPT ![d] = Idle] /\ UNCHANGED queue
          /\ speaking' = [speaking EXCEPT ![Call(d)] = FALSE]
      BY <1>3, <2>2 DEF DrainVoiceQueue
    <3>4. MapsOK'
      BY <1>1, <1>2, <2>1, <3>3 DEF MapsOK, mediaVars
    <3> QED
      BY <1>1, <1>2, <3>1, <3>2, <3>3, <3>4, StepOf, ZenonT(30) DEF Kept
  <2>3. CASE queue[Call(d)] # <<>>
    <3> DEFINE j == Head(queue[Call(d)])
               r == [proc[d] EXCEPT !.at = "speech", !.job = j]
    <3>1. queue[Call(d)] \in Seq(Job) /\ Call(d) \in Session
      BY <1>1, <2>1 DEF MapsOK
    <3>2. j \in Job /\ Tail(queue[Call(d)]) \in Seq(Job)
      BY <2>3, <3>1
    <3> HIDE DEF j
    <3>3. r \in ProcRecord /\ r.at = "speech" /\ r.phase = "get" /\ r.call = proc[d].call
      BY <1>1, <2>1, <3>2, LabelNames, ZenonT(30) DEF ProcRecord
    <3>4. proc' = [proc EXCEPT ![d] = r] /\ queue' = [queue EXCEPT ![Call(d)] = Tail(@)] /\ UNCHANGED speaking
      BY <1>3, <2>3, TypeParts, ZenonT(30) DEF DrainVoiceQueue, j, VoiceInv
    <3> HIDE DEF r
    <3>5. LocalOK(r)
      BY <1>1, <2>1, <3>3, ZenonT(30) DEF LocalOK, Shape
    <3>6. MapsOK'
      BY <1>1, <1>2, <2>1, <3>1, <3>2, <3>4 DEF MapsOK, mediaVars
    <3> QED
      BY <1>1, <1>2, <3>3, <3>4, <3>5, <3>6, StepOf, ZenonT(30) DEF Kept, Call
  <2> QED
    BY <2>2, <2>3
<1>4. CASE SpeakText(d) \/ Playback(d) \/ RegisterCancel(d)
  <2>1. /\ proc[d].at \in {"speech", "playback", "register"}
        /\ \E l \in {"speaking", "next", "unregister", "spoken", "playback"} : Jump(d, l)
    BY <1>4, ZenonT(30) DEF SpeakText, Playback, RegisterCancel, At
  <2>2. MapsOK'
    BY <1>1, <1>2, <1>4, ZenonT(30) DEF SpeakText, Playback, RegisterCancel, MapsOK, mediaVars, speechVars
  <2> QED
    BY <1>1, <1>2, <2>1, <2>2, JumpOf, LabelNames DEF Kept
<1>5. CASE UnregisterCancel(d)
  <2> DEFINE r == [proc[d] EXCEPT !.at = "next", !.job = None]
  <2>1. proc[d].at = "unregister" /\ proc[d].phase = "get"
    BY <1>5 DEF UnregisterCancel, At
  <2>2. r \in ProcRecord /\ r.at = "next" /\ r.phase = "get" /\ r.call = proc[d].call
    BY <1>1, <2>1, LabelNames, ZenonT(30) DEF ProcRecord
  <2>3. proc' = [proc EXCEPT ![d] = r]
    BY <1>5, TypeParts, ZenonT(30) DEF UnregisterCancel, VoiceInv
  <2>4. MapsOK'
    BY <1>1, <1>2, <1>5, ZenonT(30) DEF UnregisterCancel, MapsOK, mediaVars
  <2> HIDE DEF r
  <2>5. LocalOK(r)
    BY <1>1, <2>1, <2>2, ZenonT(30) DEF LocalOK, Shape
  <2> QED
    BY <1>1, <1>2, <2>2, <2>3, <2>4, <2>5, StepOf, ZenonT(30) DEF Kept, Call
<1> QED
  BY <1>3, <1>4, <1>5 DEF DrainerStep

(* voiceDeliveryLoop: a result is routed to a call that exists.            *)
LEMMA DeliverKeeps ==
  ASSUME VoiceInv, NEW j \in Job, NEW s \in Session, Deliver(j, s)
  PROVE  Kept
<1>1. MapsOK /\ proc \in [Process -> ProcRecord] /\ UNCHANGED <<state, mediaVars, route, cancel, cancelled>>
  BY TypeParts DEF Deliver, VoiceInv
<1>2. Live(s)
  BY VoiceAssumption DEF Deliver, VoiceInv, CallInv
<1>3. MapsOK'
  BY <1>1 DEF Deliver, MapsOK, mediaVars
<1>4. CASE UNCHANGED proc
  BY <1>1, <1>3, <1>4, ZenonT(30) DEF Kept, VoiceInv, CallInv, LocalOK, Shape, Live, Call
<1>5. ASSUME NEW d \in Drainer, Begin(d, s, "next") PROVE Kept
  BY <1>1, <1>2, <1>3, <1>5, BeginOf, LabelNames DEF Kept, Process
<1> QED
  BY <1>4, <1>5 DEF Deliver, Spawn

(* A restart of Core.                                                      *)
LEMMA RestartKeeps ==
  ASSUME VoiceInv, Restart
  PROVE  Kept
<1>1. MapsOK /\ proc \in [Process -> ProcRecord] /\ UNCHANGED state
  BY TypeParts DEF Restart, VoiceInv
<1>2. Idle \in ProcRecord /\ Done \in ProcRecord /\ LocalOK(Idle) /\ LocalOK(Done)
      /\ Idle.at = "idle" /\ Done.at = "done"
  <2>1. "idle" \in Label /\ "done" \in Label
    BY DEF Label
  <2> QED
    BY <2>1 DEF Idle, Done, ProcRecord, LocalOK, Shape
<1>3. ASSUME NEW p \in Process
      PROVE  /\ proc'[p] \in ProcRecord /\ LocalOK(proc'[p]) /\ proc'[p].at # "create"
  <2>1. proc'[p] \in {Idle, Done} \/ (proc'[p] = proc[p] /\ proc[p].at = "idle")
    BY DEF Restart, At
  <2> QED
    BY <1>1, <1>2, <2>1 DEF VoiceInv, CallInv
<1>4. proc' \in [Process -> ProcRecord]
  BY <1>3 DEF Restart
<1>5. ASSUME NEW c \in Conversation
      PROVE  route'[c] = None \/ (route'[c] \in Session /\ Live(route'[c]))
  <2>1. Active(c) \in SUBSET Session
    BY DEF Active
  <2>2. Active(c) # {} => Oldest(Active(c)) \in Active(c)
    BY <2>1, OldestFacts
  <2> QED
    BY <2>2 DEF Restart, Active, Live
<1>6. CallInv'
  BY <1>1, <1>3, <1>5 DEF CallInv, LocalOK, Shape, Live
<1>7. MapsOK'
  <2>1. closes' \in [Handler -> Nat]
    BY <1>1 DEF Restart, MapsOK
  <2>2. route' \in [Conversation -> Session \cup {None}]
    BY <1>5 DEF Restart
  <2>3. <<>> \in Seq(Job)
    OBVIOUS
  <2> QED
    BY <2>1, <2>2, <2>3 DEF Restart, MapsOK
<1> QED
  BY <1>1, <1>4, <1>6, <1>7 DEF Kept

-----------------------------------------------------------------------------
(* Steps that write a row                                                  *)

\* The row of one call is written, to a state it may have.
Writes(s, to) ==
    /\ state' = [state EXCEPT ![s] = to]
    /\ to \in DialogState /\ IndexAllows(s, to)

(* A write that passes the partial index keeps one call per device.        *)
LEMMA WriteKeepsOneCall ==
  ASSUME VoiceInv, NEW s \in Session, NEW to, Writes(s, to)
  PROVE  /\ OneCallPerDevice' /\ state' \in [Session -> DialogState \cup {"ABSENT"}]
         /\ \A u \in Session : Live(u) => Live(u)'
         /\ \A u \in Session \ {s} : state'[u] = state[u]
         /\ state'[s] = to /\ to # "ABSENT"
<1>1. state \in [Session -> DialogState \cup {"ABSENT"}]
  BY TypeParts DEF VoiceInv
<1>2. to # "ABSENT"
  BY DEF Writes, DialogState
<1> QED
  BY <1>1, <1>2 DEF Writes, IndexAllows, OneCallPerDevice, VoiceInv, Live

(* A write to a row by the process that validated it.                      *)
LEMMA WriteKeepsCalls ==
  ASSUME VoiceInv, NEW p \in Process, NEW to, Writes(Call(p), to), Call(p) \in Session,
         NEW r \in ProcRecord, proc' = [proc EXCEPT ![p] = r],
         Shape(r), r.call = Call(p), r.at # "create",
         UNCHANGED <<mediaVars, route, speechVars>>
  PROVE  VoiceInv'
<1>1. /\ OneCallPerDevice' /\ state' \in [Session -> DialogState \cup {"ABSENT"}]
      /\ \A u \in Session : Live(u) => Live(u)'
      /\ \A u \in Session \ {Call(p)} : state'[u] = state[u]
  BY WriteKeepsOneCall, ZenonT(30)
<1>2. proc \in [Process -> ProcRecord] /\ CallInv /\ MapsOK
  BY TypeParts DEF VoiceInv
<1>3. proc' \in [Process -> ProcRecord] /\ proc'[p] = r /\ \A q \in Process \ {p} : proc'[q] = proc[q]
  BY <1>2
<1>4. MapsOK'
  BY <1>2 DEF MapsOK, mediaVars, speechVars
<1>5. ASSUME NEW q \in Process PROVE LocalOK(proc[q])'
  <2>1. CASE q = p
    <3>1. state'[r.call] # "ABSENT"
      BY WriteKeepsOneCall
    <3> QED
      BY <1>3, <2>1, <3>1 DEF LocalOK, Live
  <2>2. CASE q # p
    <3>1. proc[q] \in ProcRecord /\ proc'[q] = proc[q] /\ LocalOK(proc[q])
      BY <1>2, <1>3, <2>2 DEF CallInv
    <3> QED
      BY <1>1, <3>1, ZenonT(30) DEF LocalOK, Shape, ProcRecord
  <2> QED
    BY <2>1, <2>2
<1>6. ASSUME NEW q \in Process, proc'[q].at = "create"
      PROVE  ~ Live(Call(q))' /\ \A u \in Process \ {q} : Call(u)' # Call(q)'
  <2>1. q # p /\ proc[q].at = "create" /\ Call(q) \in Session /\ ~ Live(Call(q)) /\ Call(p) # Call(q)
        /\ \A u \in Process \ {q} : Call(u) # Call(q)
    BY <1>2, <1>3, <1>6, ZenonT(30) DEF CallInv, LocalOK, Shape, Call
  <2> QED
    BY <1>1, <1>3, <2>1 DEF Call, Live
<1>7. \A c \in Conversation : route'[c] # None => Live(route[c])'
  BY <1>1, <1>2, ZenonT(30) DEF CallInv, MapsOK
<1>8. CallInv'
  BY <1>5, <1>6, <1>7 DEF CallInv
<1> QED
  BY <1>1, <1>3, <1>4, <1>8, TypeParts, ZenonT(30) DEF VoiceInv, TypeOK, MapsOK, ProcRecord

\* What a step does to the rows: nothing, or a move along the table.
TableStep ==
    \A s \in Session : state[s] \notin {"ABSENT", state'[s]} => state'[s] \in allowedTransitions[state[s]]

(* A step that leaves the rows alone.                                      *)
LEMMA KeptKeeps ==
  ASSUME VoiceInv, Kept
  PROVE  VoiceInv' /\ TableStep
<1>1. TypeOK'
  BY TypeParts, ZenonT(30) DEF Kept, VoiceInv, TypeOK, MapsOK, ProcRecord
<1>2. OneCallPerDevice' /\ TableStep
  BY DEF Kept, VoiceInv, OneCallPerDevice, TableStep
<1> QED
  BY <1>1, <1>2 DEF Kept, VoiceInv

(* StartCall and StartDeviceVoice reserve an identifier nobody works with.  *)
LEMMA StartVoiceKeeps ==
  ASSUME VoiceInv, NEW h \in Handler, NEW s \in Session, NEW initial \in {"RINGING", "CONNECTING"},
         StartVoice(h, s, initial)
  PROVE  Kept
<1> DEFINE r == [Idle EXCEPT !.at = "create", !.seen = initial, !.call = s]
<1>1. proc \in [Process -> ProcRecord] /\ CallInv /\ MapsOK /\ h \in Process
  BY TypeParts DEF VoiceInv, Process
<1>2. "create" \in Label /\ initial \in DialogState
  BY DEF Label, DialogState
<1>3. r \in ProcRecord /\ r.at = "create" /\ r.phase = "get" /\ r.call = s /\ r.seen = initial
  BY <1>2, ZenonT(30) DEF Idle, ProcRecord
<1>4. proc' = [proc EXCEPT ![h] = r] /\ UNCHANGED <<state, mediaVars, route, speechVars>>
  BY DEF StartVoice
<1> HIDE DEF r
<1>5. LocalOK(r)
  BY <1>3 DEF LocalOK, Shape
<1>6. proc' \in [Process -> ProcRecord] /\ proc'[h] = r /\ \A q \in Process \ {h} : proc'[q] = proc[q]
  BY <1>1, <1>3, <1>4
<1>7. ~ Live(s) /\ \A q \in Process : Call(q) # s
  BY DEF StartVoice, Fresh
<1>8. CallInv'
  <2>1. \A q \in Process : LocalOK(proc[q])'
    BY <1>1, <1>4, <1>5, <1>6, ZenonT(30) DEF CallInv, LocalOK, Shape, Live
  <2>2. ASSUME NEW q \in Process, proc'[q].at = "create"
        PROVE  ~ Live(Call(q))' /\ \A u \in Process \ {q} : Call(u)' # Call(q)'
    BY <1>1, <1>3, <1>4, <1>6, <1>7, <2>2 DEF CallInv, Call, Live
  <2>3. \A c \in Conversation : route'[c] # None => Live(route[c])'
    BY <1>1, <1>4, ZenonT(30) DEF CallInv, Live
  <2> QED
    BY <2>1, <2>2, <2>3 DEF CallInv
<1>9. MapsOK'
  BY <1>1, <1>4 DEF MapsOK, mediaVars, speechVars
<1> QED
  BY <1>4, <1>6, <1>8, <1>9 DEF Kept

(* CreateVoiceSession.                                                     *)
LEMMA CreateKeeps ==
  ASSUME VoiceInv, NEW h \in Handler, CreateVoiceSession(h)
  PROVE  VoiceInv' /\ TableStep
<1>1. h \in Process /\ proc[h] \in ProcRecord /\ LocalOK(proc[h]) /\ Call(h) \in Session
      /\ proc[h].at = "create" /\ proc[h].phase = "get"
      /\ UNCHANGED <<mediaVars, route, speechVars>>
  BY ProcFacts DEF CreateVoiceSession, At, Process
<1>2. CASE IndexAllows(Call(h), proc[h].seen)
  <2> DEFINE r == [proc[h] EXCEPT !.at = "route"]
  <2>1. Writes(Call(h), proc[h].seen)
    BY <1>1, <1>2 DEF CreateVoiceSession, Writes, LocalOK, Shape, DialogState
  <2>2. r \in ProcRecord /\ r.at = "route" /\ r.phase = "get" /\ r.call = Call(h)
    BY <1>1, LabelNames DEF ProcRecord, Call
  <2>3. proc' = [proc EXCEPT ![h] = r]
    BY <1>2, TypeParts DEF CreateVoiceSession, VoiceInv
  <2> HIDE DEF r
  <2>4. \A u \in Session \ {Call(h)} : state'[u] = state[u]
    BY <1>1, <2>1, WriteKeepsOneCall
  <2>5. Shape(r)
    BY <1>1, <2>2 DEF Shape
  <2>6. VoiceInv'
    BY <1>1, <2>1, <2>2, <2>3, <2>5, WriteKeepsCalls, ZenonT(30)
  <2>7. state[Call(h)] = "ABSENT"
    BY <1>1 DEF VoiceInv, CallInv, Live
  <2> QED
    BY <2>4, <2>6, <2>7 DEF TableStep
<1>3. CASE ~ IndexAllows(Call(h), proc[h].seen)
  <2>1. Jump(h, "done") /\ UNCHANGED state
    BY <1>3 DEF CreateVoiceSession
  <2>2. "done" \in Label \ {"create", "idle"}
    BY DEF Label
  <2>3. MapsOK'
    BY <1>1, TypeParts, ZenonT(30) DEF VoiceInv, MapsOK, mediaVars, speechVars
  <2> QED
    BY <1>1, <2>1, <2>2, <2>3, JumpOf, RoutesKept, KeptKeeps DEF Kept
<1> QED
  BY <1>2, <1>3

(* TransitionVoiceSession: the write is the one the read has validated.     *)
LEMMA TransitionKeeps ==
  ASSUME VoiceInv, NEW p \in Process, TransitionVoiceSession(p) \/ Fault(p)
  PROVE  VoiceInv' /\ TableStep
<1>1. proc[p] \in ProcRecord /\ LocalOK(proc[p]) /\ MapsOK /\ state \in [Session -> DialogState \cup {"ABSENT"}]
  BY ProcFacts, TypeParts, ZenonT(30) DEF VoiceInv
<1>2. UNCHANGED <<mediaVars, route, speechVars>>
  BY DEF TransitionVoiceSession, Validate, Update, Reread, Fault
<1>3. proc[p].at \in DOMAIN Goal \cup {"start", "recover"}
  BY <1>1 DEF TransitionVoiceSession, Validate, Update, Reread, Fault, LocalOK, Shape
<1>4. proc[p].at \notin {"idle", "done", "create"} /\ Call(p) \in Session /\ Live(Call(p))
  <2>1. proc[p].at \notin {"idle", "done", "create"}
    BY <1>3, GoalFacts
  <2> QED
    BY <1>1, <2>1, VoiceAssumption, ZenonT(30) DEF LocalOK, Shape, Call
<1>5. MapsOK'
  BY <1>1, <1>2 DEF MapsOK, mediaVars, speechVars
<1>6. ASSUME NEW l \in Label \ {"create", "idle"}, Jump(p, l), UNCHANGED state PROVE VoiceInv' /\ TableStep
  BY <1>2, <1>4, <1>5, <1>6, JumpOf, RoutesKept, KeptKeeps DEF Kept
<1>7. CASE Validate(p)
  <2>1. CASE ~ CanTransition(state[Call(p)], Goal[proc[p].at])
    BY <1>6, <1>7, <2>1, AfterFacts DEF Validate
  <2>2. CASE CanTransition(state[Call(p)], Goal[proc[p].at])
    <3> DEFINE r == [proc[p] EXCEPT !.phase = "put", !.seen = state[Call(p)]]
    <3>1. state[Call(p)] \in DialogState
      BY <1>1, <1>4 DEF Live
    <3>2. proc' = [proc EXCEPT ![p] = r] /\ UNCHANGED state /\ proc[p].at \in DOMAIN Goal
      BY <1>7, <2>2, TypeParts, ZenonT(30) DEF Validate, VoiceInv
    <3>3. r \in ProcRecord /\ r.at = proc[p].at /\ r.phase = "put" /\ r.call = Call(p) /\ r.seen = state[Call(p)]
      BY <1>1, <3>1, ZenonT(30) DEF ProcRecord, Call
    <3> HIDE DEF r
    <3>4. LocalOK(r) /\ r.at # "create"
      BY <1>1, <1>4, <2>2, <3>1, <3>2, <3>3, ZenonT(30) DEF LocalOK, Shape
    <3> QED
      BY <1>2, <1>5, <3>2, <3>3, <3>4, StepOf, RoutesKept, KeptKeeps, ZenonT(30) DEF Kept
  <2> QED
    BY <2>1, <2>2
<1>8. CASE Update(p)
  <2>1. CASE ~ UpdateApplies(p)
    BY <1>6, <1>8, <2>1, AfterFacts DEF Update
  <2>2. CASE UpdateApplies(p)
    <3> DEFINE to == Goal[proc[p].at]
               r == [proc[p] EXCEPT !.phase = "back"]
    <3>1. proc[p].phase = "put" /\ proc[p].at \in DOMAIN Goal /\ to \in DialogState
      BY <1>1, <1>8, GoalFacts DEF Update, LocalOK, Shape
    <3>2. Writes(Call(p), to) /\ proc' = [proc EXCEPT ![p] = r]
      BY <1>8, <2>2, <3>1, TypeParts DEF Update, UpdateApplies, Writes, VoiceInv
    <3>3. r \in ProcRecord /\ r.at = proc[p].at /\ r.phase = "back" /\ r.call = Call(p)
      BY <1>1 DEF ProcRecord, Call
    <3> HIDE DEF to, r
    <3>4. state'[Call(p)] = to /\ to # "ABSENT" /\ \A u \in Session \ {Call(p)} : state'[u] = state[u]
      BY <1>4, <3>2, WriteKeepsOneCall
    <3>5. Shape(r) /\ r.at # "create"
      BY <1>4, <3>1, <3>3, ZenonT(30) DEF Shape
    <3>6. VoiceInv'
      BY <1>2, <1>4, <3>2, <3>3, <3>5, WriteKeepsCalls, ZenonT(30)
    <3>7. state[Call(p)] = to \/ to \in allowedTransitions[state[Call(p)]]
      BY <1>1, <2>2, <3>1, ZenonT(30) DEF LocalOK, Shape, UpdateApplies, CanTransition, to
    <3> QED
      BY <3>4, <3>6, <3>7 DEF TableStep
  <2> QED
    BY <2>1, <2>2
<1>9. CASE Reread(p)
  BY <1>6, <1>9, AfterFacts, ZenonT(30) DEF Reread
<1>10. CASE Fault(p)
  BY <1>6, <1>10, AfterFacts, ZenonT(30) DEF Fault
<1> QED
  BY <1>7, <1>8, <1>9, <1>10 DEF TransitionVoiceSession

(* Every step keeps VoiceInv, and moves rows along the table.              *)
LEMMA NextKeeps == VoiceInv /\ [Next]_vars => VoiceInv' /\ TableStep
<1> SUFFICES ASSUME VoiceInv, [Next]_vars PROVE VoiceInv' /\ TableStep
  OBVIOUS
<1>1. ASSUME NEW h \in Handler, HandlerStep(h) PROVE VoiceInv' /\ TableStep
  BY <1>1, CreateKeeps, MediaKeeps, HandlerKeeps, KeptKeeps DEF HandlerStep
<1>2. ASSUME NEW h \in Handler, NEW s \in Session, Request(h, s) PROVE VoiceInv' /\ TableStep
  <2>1. CASE StartDeviceVoice(h, s) \/ StartCall(h, s)
    BY <2>1, StartVoiceKeeps, KeptKeeps DEF StartDeviceVoice, StartCall
  <2>2. CASE ~ (StartDeviceVoice(h, s) \/ StartCall(h, s))
    BY <1>2, <2>2, RequestKeeps, KeptKeeps DEF Request
  <2> QED
    BY <2>1, <2>2
<1>3. ASSUME NEW d \in Drainer, DrainerStep(d) PROVE VoiceInv' /\ TableStep
  BY <1>3, DrainerKeeps, KeptKeeps
<1>4. ASSUME NEW p \in Process, TransitionVoiceSession(p) \/ Fault(p) PROVE VoiceInv' /\ TableStep
  BY <1>4, TransitionKeeps
<1>5. ASSUME NEW j \in Job, NEW s \in Session, Deliver(j, s) PROVE VoiceInv' /\ TableStep
  BY <1>5, DeliverKeeps, KeptKeeps
<1>6. CASE Restart
  BY <1>6, RestartKeeps, KeptKeeps
<1>7. CASE UNCHANGED vars
  <2>1. UNCHANGED state /\ UNCHANGED proc /\ UNCHANGED route
    BY <1>7 DEF vars
  <2>2. MapsOK'
    BY <1>7, TypeParts DEF vars, VoiceInv, MapsOK, mediaVars, speechVars
  <2>3. CallInv'
    BY <2>1, ZenonT(30) DEF VoiceInv, CallInv, LocalOK, Shape, Live, Call
  <2> QED
    BY <2>1, <2>2, <2>3, TypeParts, KeptKeeps DEF Kept, VoiceInv
<1> QED
  BY <1>1, <1>2, <1>3, <1>4, <1>5, <1>6, <1>7 DEF Next

(* The initial state satisfies VoiceInv.                                   *)
LEMMA InitKeeps == Init => VoiceInv
<1> SUFFICES ASSUME Init PROVE VoiceInv
  OBVIOUS
<1>1. Idle \in ProcRecord /\ LocalOK(Idle) /\ Idle.at = "idle"
  <2>1. "idle" \in Label
    BY DEF Label
  <2> QED
    BY <2>1 DEF Idle, ProcRecord, LocalOK, Shape
<1>2. <<>> \in Seq(Job)
  OBVIOUS
<1>3. MapsOK
  BY <1>2 DEF Init, MapsOK
<1>4. proc \in [Process -> ProcRecord] /\ state \in [Session -> DialogState \cup {"ABSENT"}]
  BY <1>1 DEF Init
<1>5. CallInv
  BY <1>1 DEF Init, CallInv
<1>6. OneCallPerDevice
  BY DEF Init, OneCallPerDevice
<1> QED
  BY <1>3, <1>4, <1>5, <1>6, TypeParts DEF VoiceInv

-----------------------------------------------------------------------------
(* Every map and every local of the voice code holds what it is meant to.   *)
THEOREM VoiceTypes == Spec => []TypeOK
<1>1. VoiceInv => TypeOK
  BY DEF VoiceInv
<1> QED
  BY <1>1, InitKeeps, NextKeeps, PTL DEF Spec

(* idx_voice_one_active_device with CreateVoiceSession and                  *)
(* TransitionVoiceSession: for every number of requests and calls, a device *)
(* never has two calls that are not over.                                   *)
THEOREM OneCallPerDeviceTheorem == Spec => []OneCallPerDevice
<1>1. VoiceInv => OneCallPerDevice
  BY DEF VoiceInv
<1> QED
  BY <1>1, InitKeeps, NextKeeps, PTL DEF Spec

(* TransitionVoiceSession: whatever was read before, whoever writes in      *)
(* between and whatever fails, a row only moves along allowedTransitions.   *)
THEOREM DialogFollowsTableTheorem == Spec => DialogFollowsTable
<1>1. VoiceInv /\ [Next]_vars => [TableStep]_vars
  BY NextKeeps
<1> QED
  BY <1>1, InitKeeps, NextKeeps, PTL DEF Spec, DialogFollowsTable, TableStep

-----------------------------------------------------------------------------
(* Media handles                                                           *)

\* Where a handler can be once it has made a handle.
Made == {"track", "retrack", "listening", "fail", "failcheck", "failing", "done"}

\* A handler makes one handle, for one call; it, or another that recovered
\* the handle, holds it only until it is tracked or closed.
MediaInv ==
    /\ \A p \in Process : proc[p].holds # None =>
          /\ proc[p].at \in {"track", "retrack"} /\ proc[p].phase = "get"
          /\ proc[proc[p].holds].at \in Made
          /\ \A s \in Session : transport[s] = proc[p].holds => Call(p) = s
    /\ \A s \in Session : transport[s] # None =>
          /\ proc[transport[s]].at \in Made
          /\ \A u \in Session : transport[u] = transport[s] => u = s
    /\ MediaNeverOrphaned

(* The type of the media variables.                                        *)
LEMMA MediaTypes ==
  ASSUME VoiceInv
  PROVE  /\ proc \in [Process -> ProcRecord] /\ transport \in [Session -> Handler \cup {None}]
         /\ media \in [Session -> Handler \cup {None}] /\ closes \in [Handler -> Nat]
         /\ Handler \subseteq Process /\ None \notin Handler
  BY TypeParts, VoiceAssumption DEF VoiceInv, MapsOK, Process

(* A step of a process that holds no handle.                               *)
LEMMA EmptyHanded ==
  ASSUME VoiceInv, MediaInv, NEW p \in Process, NEW r, proc' = [proc EXCEPT ![p] = r],
         proc[p].holds = None, r.holds = None, proc[p].at \in Made => r.at \in Made
  PROVE  /\ UNCHANGED mediaVars => MediaInv'
         /\ CloseMediaSession(Call(p)) /\ Call(p) \in Session => MediaInv'
<1>1. /\ proc \in [Process -> ProcRecord] /\ transport \in [Session -> Handler \cup {None}]
      /\ media \in [Session -> Handler \cup {None}] /\ closes \in [Handler -> Nat]
      /\ Handler \subseteq Process /\ None \notin Handler
  BY MediaTypes
<1>2. proc'[p] = r /\ \A q \in Process \ {p} : proc'[q] = proc[q]
  BY <1>1
<1>3. \A x \in Process : proc[x].at \in Made => proc'[x].at \in Made
  BY <1>2
<1>4. \A q \in Process : proc'[q].holds # None => q # p /\ proc'[q] = proc[q]
  BY <1>2
<1>5. \A q \in Process : proc[q].holds # None => q # p /\ proc'[q] = proc[q]
  BY <1>2
<1>6. \A q \in Process : proc[q].holds \in Handler \cup {None}
  BY <1>1 DEF ProcRecord
<1>7. ASSUME UNCHANGED transport
      PROVE  /\ \A q \in Process : proc'[q].holds # None =>
                   /\ proc'[q].at \in {"track", "retrack"} /\ proc'[q].phase = "get"
                   /\ proc'[proc'[q].holds].at \in Made
                   /\ \A s \in Session : transport'[s] = proc'[q].holds => Call(q)' = s
             /\ \A s \in Session : transport'[s] # None =>
                   /\ proc'[transport'[s]].at \in Made
                   /\ \A u \in Session : transport'[u] = transport'[s] => u = s
  BY <1>1, <1>3, <1>4, <1>6, <1>7 DEF MediaInv, Call
<1>8. ASSUME UNCHANGED mediaVars PROVE MediaNeverOrphaned'
  BY <1>1, <1>5, <1>8 DEF mediaVars, MediaInv, MediaNeverOrphaned
<1>9. ASSUME CloseMediaSession(Call(p)), Call(p) \in Session PROVE MediaNeverOrphaned'
  <2> SUFFICES ASSUME NEW s \in Session, transport'[s] # None, closes'[transport'[s]] = 0
               PROVE  media'[s] = transport'[s] \/ \E h \in Handler : proc'[h].holds = transport'[s]
    BY ZenonT(30) DEF MediaNeverOrphaned
  <2>1. transport' = transport /\ transport[s] \in Handler /\ media' = [media EXCEPT ![Call(p)] = None]
    BY <1>1, <1>9 DEF CloseMediaSession
  <2>2. closes' = closes \/ (media[Call(p)] \in Handler /\ closes' = [closes EXCEPT ![media[Call(p)]] = @ + 1])
    BY <1>1, <1>9 DEF CloseMediaSession
  <2>3. closes[transport[s]] = 0
    BY <1>1, <2>1, <2>2
  <2>4. CASE \E h \in Handler : proc[h].holds = transport[s]
    BY <1>1, <1>5, <2>1, <2>4
  <2>5. CASE media[s] = transport[s]
    <3>1. s # Call(p)
      BY <1>1, <1>9, <2>1, <2>3, <2>5 DEF CloseMediaSession
    <3> QED
      BY <1>1, <2>1, <2>5, <3>1
  <2> QED
    BY <2>1, <2>3, <2>4, <2>5, ZenonT(30) DEF MediaInv, MediaNeverOrphaned
<1>10. ASSUME UNCHANGED mediaVars PROVE MediaInv'
  BY <1>7, <1>8, <1>10, ZenonT(30) DEF MediaInv, mediaVars
<1>11. ASSUME CloseMediaSession(Call(p)), Call(p) \in Session PROVE MediaInv'
  BY <1>7, <1>9, <1>11, ZenonT(30) DEF MediaInv, CloseMediaSession
<1> QED
  BY <1>10, <1>11

(* The same for a jump.                                                    *)
LEMMA EmptyHandedJump ==
  ASSUME VoiceInv, MediaInv, NEW p \in Process, NEW l, Jump(p, l),
         proc[p].at \notin {"track", "retrack"}, proc[p].at \in Made => l \in Made
  PROVE  /\ UNCHANGED mediaVars => MediaInv'
         /\ CloseMediaSession(Call(p)) /\ Call(p) \in Session => MediaInv'
<1> DEFINE r == Point(proc[p], l)
<1>1. proc' = [proc EXCEPT ![p] = r] /\ proc[p] \in ProcRecord
  BY ProcFacts DEF Jump
<1>2. proc[p].holds = None
  BY DEF MediaInv
<1>3. r.holds = None /\ r.at = l
  BY <1>1, <1>2 DEF Point, Done, Idle, ProcRecord
<1> HIDE DEF r
<1> QED
  BY <1>1, <1>2, <1>3, EmptyHanded, ZenonT(30)

(* The start of a request holds no handle.                                 *)
LEMMA StartsKeepMedia ==
  ASSUME VoiceInv, MediaInv, NEW h \in Handler, NEW s \in Session, Request(h, s)
  PROVE  MediaInv'
<1>1. h \in Process /\ At(h, "idle") /\ UNCHANGED mediaVars
  BY DEF Process, Request, StartDeviceVoice, StartCall, StartVoice, AnswerCall, ReconnectVoice,
         VoiceTranscript, InterruptVoice, EndVoice, Accept
<1>2. PICK r : proc' = [proc EXCEPT ![h] = r] /\ r.holds = None
  <2>1. CASE StartDeviceVoice(h, s) \/ StartCall(h, s)
    <3>1. PICK i : StartVoice(h, s, i)
      BY <2>1 DEF StartDeviceVoice, StartCall
    <3> DEFINE t == [Idle EXCEPT !.at = "create", !.seen = i, !.call = s]
    <3>2. t.holds = None
      BY DEF Idle
    <3> QED
      BY <3>1, <3>2, ZenonT(30) DEF StartVoice
  <2>2. CASE ~ (StartDeviceVoice(h, s) \/ StartCall(h, s))
    <3>1. PICK l : Begin(h, s, l)
      BY <2>2 DEF Request, AnswerCall, ReconnectVoice, VoiceTranscript, InterruptVoice, EndVoice, Accept
    <3> DEFINE t == [Idle EXCEPT !.at = l, !.call = s]
    <3>2. t.holds = None
      BY DEF Idle
    <3> QED
      BY <3>1, <3>2, ZenonT(30) DEF Begin
  <2> QED
    BY <2>1, <2>2
<1>3. proc[h].holds = None /\ proc[h].at \notin Made
  BY <1>1, ZenonT(30) DEF MediaInv, At, Made
<1> QED
  BY <1>1, <1>2, <1>3, EmptyHanded, ZenonT(30)

(* SimulatedTransport.Start and Recover, trackMediaSession,                *)
(* closeMediaSession.                                                      *)
LEMMA HandlesKeepMedia ==
  ASSUME VoiceInv, MediaInv, NEW h \in Handler,
         StartMedia(h) \/ RecoverMedia(h) \/ TrackMediaSession(h) \/ CloseMedia(h)
  PROVE  MediaInv'
<1>1. /\ proc \in [Process -> ProcRecord] /\ transport \in [Session -> Handler \cup {None}]
      /\ media \in [Session -> Handler \cup {None}] /\ closes \in [Handler -> Nat]
      /\ Handler \subseteq Process /\ None \notin Handler
      /\ h \in Process /\ proc[h] \in ProcRecord /\ (proc[h].at \notin {"idle", "done"} => Call(h) \in Session)
  BY MediaTypes, ProcFacts
<1>2. \A q \in Process : proc[q].holds \in Handler \cup {None}
  BY <1>1 DEF ProcRecord
<1>3. ASSUME NEW x \in Handler, NEW l \in {"track", "retrack"}, Take(h, x, l), UNCHANGED <<closes, media>>,
             proc[h].at \in {"start", "recover"},
             \/ x = h /\ transport' = [transport EXCEPT ![Call(h)] = h]
             \/ x = transport[Call(h)] /\ transport' = transport
      PROVE  MediaInv'
  <2> DEFINE s == Call(h)
             r == Point([proc[h] EXCEPT !.holds = x], l)
  <2>1. r.holds = x /\ r.at = l /\ r.phase = "get" /\ r.call = s
    BY <1>1 DEF Point, ProcRecord, Call
  <2>2. proc' = [proc EXCEPT ![h] = r]
    BY <1>3 DEF Take
  <2> HIDE DEF r
  <2>3. proc'[h] = r /\ \A q \in Process \ {h} : proc'[q] = proc[q]
    BY <1>1, <2>2
  <2>4. s \in Session /\ transport'[s] = x /\ \A u \in Session \ {s} : transport'[u] = transport[u]
    BY <1>1, <1>3
  <2>5. proc[h].holds = None /\ proc[h].at \notin Made
    BY <1>1, <1>3 DEF MediaInv, Made
  <2>6. \A q \in Process : proc[q].holds # h
    BY <1>1, <2>5 DEF MediaInv
  <2>7. \A u \in Session : transport[u] # h
    BY <1>1, <2>5 DEF MediaInv
  <2>8. \A u \in Session \ {s} : transport[u] # x
    BY <1>1, <1>3, <2>4, <2>7 DEF MediaInv
  <2>9. \A q \in Process : proc[q].at \in Made => proc'[q].at \in Made
    BY <2>3, <2>5, ZenonT(30)
  <2>10. proc'[x].at \in Made
    <3>1. CASE x = h
      BY <2>1, <2>3, <3>1 DEF Made
    <3>2. CASE x = transport[s] /\ x # h
      BY <1>1, <2>4, <2>9, <3>2 DEF MediaInv
    <3> QED
      BY <1>3, <3>1, <3>2, ZenonT(30)
  <2>11. ASSUME NEW q \in Process, proc'[q].holds # None
         PROVE  /\ proc'[q].at \in {"track", "retrack"} /\ proc'[q].phase = "get"
                /\ proc'[proc'[q].holds].at \in Made
                /\ \A u \in Session : transport'[u] = proc'[q].holds => Call(q)' = u
    <3>1. CASE q = h
      BY <2>1, <2>3, <2>4, <2>8, <2>10, <3>1 DEF Call
    <3>2. CASE q # h
      <4>1. proc'[q] = proc[q] /\ proc[q].holds \in Handler /\ proc[q].holds # h
        BY <1>2, <2>3, <2>6, <2>11, <3>2
      <4>2. \A u \in Session : transport'[u] = proc[q].holds => transport[u] = proc[q].holds
        BY <1>3, <2>4, <4>1
      <4> QED
        BY <1>1, <2>9, <4>1, <4>2 DEF MediaInv, Call
    <3> QED
      BY <3>1, <3>2
  <2>12. ASSUME NEW u \in Session, transport'[u] # None
         PROVE  /\ proc'[transport'[u]].at \in Made
                /\ \A v \in Session : transport'[v] = transport'[u] => v = u
    <3>1. CASE u = s
      BY <2>4, <2>8, <2>10, <3>1
    <3>2. CASE u # s
      BY <1>1, <2>4, <2>8, <2>9, <2>12, <3>2 DEF MediaInv
    <3> QED
      BY <3>1, <3>2, ZenonT(30)
  <2>13. MediaNeverOrphaned'
    <3> SUFFICES ASSUME NEW u \in Session, transport'[u] # None, closes'[transport'[u]] = 0
                 PROVE  media'[u] = transport'[u] \/ \E g \in Handler : proc'[g].holds = transport'[u]
      BY DEF MediaNeverOrphaned
    <3>1. CASE u = s
      BY <2>1, <2>3, <2>4, <3>1
    <3>2. CASE u # s
      <4>1. transport[u] # None /\ closes[transport[u]] = 0 /\ media'[u] = media[u] /\ transport'[u] = transport[u]
        BY <1>3, <2>4, <3>2
      <4>2. \A g \in Handler : proc[g].holds = transport[u] => proc'[g] = proc[g]
        BY <1>1, <2>3, <2>5, <4>1
      <4> QED
        BY <4>1, <4>2 DEF MediaInv, MediaNeverOrphaned
    <3> QED
      BY <3>1, <3>2
  <2> QED
    BY <2>11, <2>12, <2>13, ZenonT(30) DEF MediaInv
<1>4. CASE StartMedia(h)
  <2>1. proc[h].at = "start" /\ UNCHANGED <<closes, media>>
    BY <1>4, ZenonT(30) DEF StartMedia, At
  <2>2. CASE transport[Call(h)] = None
    BY <1>3, <1>4, <2>1, <2>2, ZenonT(30) DEF StartMedia
  <2>3. CASE transport[Call(h)] # None
    <3>1. Jump(h, "fail") /\ UNCHANGED mediaVars /\ proc[h].at \notin Made
      BY <1>4, <2>1, <2>3 DEF StartMedia, mediaVars, Made
    <3> QED
      BY <1>1, <2>1, <3>1, EmptyHandedJump
  <2> QED
    BY <2>2, <2>3
<1>5. CASE RecoverMedia(h)
  <2>1. proc[h].at = "recover" /\ UNCHANGED <<closes, media>>
    BY <1>5 DEF RecoverMedia, At
  <2>2. CASE transport[Call(h)] # None /\ closes[transport[Call(h)]] = 0
    <3>1. Take(h, transport[Call(h)], "retrack") /\ UNCHANGED transport /\ transport[Call(h)] \in Handler
      BY <1>1, <1>5, <2>1, <2>2 DEF RecoverMedia
    <3> QED
      BY <1>3, <2>1, <3>1, ZenonT(30)
  <2>3. CASE ~ (transport[Call(h)] # None /\ closes[transport[Call(h)]] = 0)
    BY <1>3, <1>5, <2>1, <2>3, ZenonT(30) DEF RecoverMedia
  <2> QED
    BY <2>2, <2>3
<1>6. CASE CloseMedia(h)
  <2>1. proc[h].at \in DOMAIN Closing /\ Jump(h, Closing[proc[h].at]) /\ CloseMediaSession(Call(h))
    BY <1>6, ZenonT(30) DEF CloseMedia
  <2>2. /\ proc[h].at \notin {"idle", "done", "track", "retrack"}
        /\ proc[h].at \in Made => Closing[proc[h].at] \in Made
    BY <2>1 DEF Closing, Made
  <2> QED
    BY <1>1, <2>1, <2>2, EmptyHandedJump
<1>7. CASE TrackMediaSession(h)
  <2> DEFINE s == Call(h)
             x == proc[h].holds
  <2>1. proc[h].at \in {"track", "retrack"} /\ UNCHANGED transport /\ s \in Session
    BY <1>1, <1>7 DEF TrackMediaSession, At
  <2>2. PICK l \in {"listening", "fail", "done"} : Take(h, None, l)
    BY <1>7 DEF TrackMediaSession
  <2> DEFINE r == Point([proc[h] EXCEPT !.holds = None], l)
  <2>3. proc' = [proc EXCEPT ![h] = r] /\ r.holds = None /\ r.at \in Made
    BY <1>1, <2>2 DEF Take, Point, Done, Idle, ProcRecord, Made
  <2> HIDE DEF r
  <2>4. proc'[h] = r /\ \A q \in Process \ {h} : proc'[q] = proc[q]
    BY <1>1, <2>3
  <2>5. \A q \in Process : proc[q].at \in Made => proc'[q].at \in Made
    BY <2>3, <2>4
  <2>6. ASSUME NEW q \in Process, proc'[q].holds # None
        PROVE  /\ proc'[q].at \in {"track", "retrack"} /\ proc'[q].phase = "get"
               /\ proc'[proc'[q].holds].at \in Made
               /\ \A u \in Session : transport'[u] = proc'[q].holds => Call(q)' = u
    <3>1. q # h /\ proc'[q] = proc[q] /\ proc[q].holds \in Handler
      BY <1>2, <2>3, <2>4, <2>6
    <3> QED
      BY <1>1, <2>1, <2>5, <2>6, <3>1, ZenonT(30) DEF MediaInv, Call
  <2>7. \A u \in Session : transport'[u] # None =>
           /\ proc'[transport'[u]].at \in Made
           /\ \A v \in Session : transport'[v] = transport'[u] => v = u
    BY <1>1, <2>1, <2>5, ZenonT(30) DEF MediaInv
  <2>8. ASSUME NEW u \in Session, transport'[u] # None, closes'[transport'[u]] = 0
        PROVE  media'[u] = transport'[u] \/ \E g \in Handler : proc'[g].holds = transport'[u]
    <3>1. transport'[u] = transport[u] /\ transport[u] \in Handler
      BY <1>1, <2>1, <2>8
    <3>2. CASE media[s] = None
      <4>1. closes' = closes /\ media' = [media EXCEPT ![s] = x]
        BY <1>7, <3>2 DEF TrackMediaSession
      <4>2. CASE x = transport[u]
        <5>1. u = s
          BY <1>1, <3>1, <4>2, ZenonT(30) DEF MediaInv
        <5> QED
          BY <1>1, <3>1, <4>1, <4>2, <5>1, ZenonT(30)
      <4>3. CASE x # transport[u]
        <5>1. media[u] = transport[u] \/ \E g \in Handler : proc[g].holds = transport[u]
          BY <2>8, <3>1, <4>1 DEF MediaInv, MediaNeverOrphaned
        <5>2. media[u] = transport[u] => u # s /\ media'[u] = media[u]
          BY <1>1, <3>1, <3>2, <4>1
        <5> QED
          BY <1>1, <2>4, <3>1, <4>3, <5>1, <5>2
      <4> QED
        BY <4>2, <4>3
    <3>3. CASE media[s] # None
      <4>1. media' = media /\ closes' = [closes EXCEPT ![x] = @ + 1]
        BY <1>7, <3>3 DEF TrackMediaSession
      <4>0. closes[transport[u]] \in Nat /\ (x = transport[u] => closes'[transport[u]] = closes[transport[u]] + 1)
        BY <1>1, <3>1, <4>1, ZenonT(30)
      <4>2. x # transport[u]
        BY <2>8, <3>1, <4>0
      <4>3. closes'[transport[u]] = closes[transport[u]]
        BY <1>1, <3>1, <4>1, <4>2
      <4>4. media[u] = transport[u] \/ \E g \in Handler : proc[g].holds = transport[u]
        BY <2>8, <3>1, <4>3, ZenonT(30) DEF MediaInv, MediaNeverOrphaned
      <4> QED
        BY <1>1, <2>4, <3>1, <4>1, <4>2, <4>4
    <3> QED
      BY <3>2, <3>3
  <2> QED
    BY <2>6, <2>7, <2>8, ZenonT(30) DEF MediaInv, MediaNeverOrphaned
<1> QED
  BY <1>4, <1>5, <1>6, <1>7

(* The steps of a request that hold no handle.                             *)
LEMMA JumpsKeepMedia ==
  ASSUME VoiceInv, MediaInv, NEW h \in Handler,
         Route(h) \/ FailVoiceSession(h) \/ CancelTTS(h) \/ EndVoiceSession(h) \/ Heard(h) \/ Submit(h)
  PROVE  MediaInv'
<1>1. h \in Process /\ UNCHANGED mediaVars
  BY ZenonT(30) DEF Process, Route, FailVoiceSession, CancelTTS, EndVoiceSession, Heard, Submit
<1>2. CASE CancelTTS(h)
  BY <1>1, <1>2, EmptyHandedJump, ZenonT(30) DEF CancelTTS, Silencing, Made
<1>3. CASE FailVoiceSession(h)
  <2>1. proc[h].at = "failcheck" /\ \E l \in {"failing", "done"} : Jump(h, l)
    BY <1>3, ZenonT(30) DEF FailVoiceSession, At
  <2> QED
    BY <1>1, <2>1, EmptyHandedJump, ZenonT(30) DEF Made
<1>4. CASE Route(h) \/ EndVoiceSession(h) \/ Heard(h) \/ Submit(h)
  <2>1. proc[h].at \in {"route", "cleanup", "heard", "submit"} /\ \E l : Jump(h, l)
    BY <1>4, ZenonT(30) DEF Route, EndVoiceSession, Heard, Submit, At
  <2> QED
    BY <1>1, <2>1, EmptyHandedJump, ZenonT(30) DEF Made
<1> QED
  BY <1>2, <1>3, <1>4

(* CreateVoiceSession.                                                     *)
LEMMA CreateKeepsMedia ==
  ASSUME VoiceInv, MediaInv, NEW h \in Handler, CreateVoiceSession(h)
  PROVE  MediaInv'
<1>1. h \in Process /\ UNCHANGED mediaVars /\ proc[h].at = "create" /\ proc[h] \in ProcRecord
  BY ProcFacts DEF Process, CreateVoiceSession, At
<1>2. CASE Jump(h, "done")
  BY <1>1, <1>2, EmptyHandedJump, ZenonT(30) DEF Made
<1>3. CASE proc' = [proc EXCEPT ![h].at = "route"]
  <2> DEFINE r == [proc[h] EXCEPT !.at = "route"]
  <2>1. r.holds = None /\ proc[h].holds = None /\ proc[h].at \notin Made /\ proc' = [proc EXCEPT ![h] = r]
    BY <1>1, <1>3 DEF MediaInv, Made, ProcRecord
  <2> HIDE DEF r
  <2> QED
    BY <1>1, <2>1, EmptyHanded, ZenonT(30)
<1> QED
  BY <1>2, <1>3 DEF CreateVoiceSession

(* TransitionVoiceSession.                                                 *)
LEMMA TransitionKeepsMedia ==
  ASSUME VoiceInv, MediaInv, NEW p \in Process, TransitionVoiceSession(p) \/ Fault(p)
  PROVE  MediaInv'
<1>1. proc[p] \in ProcRecord /\ UNCHANGED mediaVars
      /\ proc[p].at \in DOMAIN Goal \cup {"start", "recover"}
  BY ProcFacts DEF TransitionVoiceSession, Validate, Update, Reread, Fault, LocalOK, Shape
<1>2. proc[p].at \notin {"track", "retrack"} /\ proc[p].holds = None
      /\ (proc[p].at \in Made => proc[p].at \in {"listening", "failing"})
  BY <1>1, ZenonT(30) DEF Goal, Made, MediaInv
<1>3. proc[p].at \in Made => OnError(proc[p].at) \in Made /\ \A seen : OnSuccess(proc[p].at, seen) \in Made
  BY <1>2 DEF OnError, OnSuccess, Made
<1>4. CASE \E seen : Jump(p, OnError(proc[p].at)) \/ Jump(p, OnSuccess(proc[p].at, seen))
  BY <1>1, <1>2, <1>3, <1>4, EmptyHandedJump, ZenonT(30)
<1>5. CASE \E r : r.holds = None /\ r.at = proc[p].at /\ proc' = [proc EXCEPT ![p] = r]
  BY <1>1, <1>2, <1>5, EmptyHanded, ZenonT(30)
<1>6. CASE Validate(p) /\ ~ Jump(p, OnError(proc[p].at))
  <2> DEFINE r == [proc[p] EXCEPT !.phase = "put", !.seen = state[Call(p)]]
  <2>1. r.holds = None /\ r.at = proc[p].at
    BY <1>1, <1>2 DEF ProcRecord
  <2>2. proc' = [proc EXCEPT ![p] = r]
    BY <1>1, <1>6, TypeParts, ZenonT(30) DEF Validate, VoiceInv, ProcRecord
  <2> QED
    BY <1>5, <2>1, <2>2, ZenonT(30)
<1>7. CASE Update(p) /\ ~ Jump(p, OnError(proc[p].at))
  <2> DEFINE r == [proc[p] EXCEPT !.phase = "back"]
  <2>1. r.holds = None /\ r.at = proc[p].at
    BY <1>1, <1>2 DEF ProcRecord
  <2>2. proc' = [proc EXCEPT ![p] = r]
    BY <1>1, <1>7, TypeParts DEF Update, VoiceInv, ProcRecord
  <2> QED
    BY <1>5, <2>1, <2>2, ZenonT(30)
<1> QED
  BY <1>4, <1>6, <1>7 DEF TransitionVoiceSession, Validate, Update, Reread, Fault

(* drainVoiceQueue and speakText.                                          *)
LEMMA DrainerKeepsMedia ==
  ASSUME VoiceInv, MediaInv, NEW d \in Drainer, DrainerStep(d)
  PROVE  MediaInv'
<1>1. d \in Process /\ proc[d] \in ProcRecord /\ UNCHANGED mediaVars
  BY ProcFacts DEF Process, DrainerStep, DrainVoiceQueue, SpeakText, RegisterCancel, Playback, UnregisterCancel
<1>2. proc[d].at \in {"next", "speech", "register", "playback", "unregister"}
  BY DEF DrainerStep, DrainVoiceQueue, SpeakText, RegisterCancel, Playback, UnregisterCancel, At
<1>3. proc[d].holds = None /\ proc[d].at \notin Made
  BY <1>1, <1>2 DEF MediaInv, Made
<1>4. CASE \E l : Jump(d, l)
  BY <1>1, <1>2, <1>3, <1>4, EmptyHandedJump
<1>5. CASE \E r : r.holds = None /\ proc' = [proc EXCEPT ![d] = r]
  BY <1>1, <1>3, <1>5, EmptyHanded, ZenonT(30)
<1>6. CASE SpeakText(d) \/ RegisterCancel(d) \/ Playback(d)
  BY <1>4, <1>6 DEF SpeakText, RegisterCancel, Playback
<1>7. CASE DrainVoiceQueue(d)
  <2> DEFINE r == [proc[d] EXCEPT !.at = "speech", !.job = Head(queue[Call(d)])]
  <2>1. r.holds = None /\ Idle.holds = None
    BY <1>1, <1>3 DEF ProcRecord, Idle
  <2>2. proc' = [proc EXCEPT ![d] = r] \/ proc' = [proc EXCEPT ![d] = Idle]
    BY <1>1, <1>7, TypeParts, ZenonT(30) DEF DrainVoiceQueue, VoiceInv, ProcRecord
  <2> QED
    BY <1>5, <2>1, <2>2, ZenonT(30)
<1>8. CASE UnregisterCancel(d)
  <2> DEFINE r == [proc[d] EXCEPT !.at = "next", !.job = None]
  <2>1. r.holds = None
    BY <1>1, <1>3 DEF ProcRecord
  <2>2. proc' = [proc EXCEPT ![d] = r]
    BY <1>1, <1>8, TypeParts, ZenonT(30) DEF UnregisterCancel, VoiceInv, ProcRecord
  <2> QED
    BY <1>5, <2>1, <2>2, ZenonT(30)
<1> QED
  BY <1>6, <1>7, <1>8 DEF DrainerStep

(* Every step keeps MediaInv.                                              *)
LEMMA NextKeepsMedia == VoiceInv /\ MediaInv /\ [Next]_vars => MediaInv'
<1> SUFFICES ASSUME VoiceInv, MediaInv, [Next]_vars PROVE MediaInv'
  OBVIOUS
<1>1. ASSUME NEW h \in Handler, HandlerStep(h) PROVE MediaInv'
  BY <1>1, CreateKeepsMedia, HandlesKeepMedia, JumpsKeepMedia DEF HandlerStep
<1>2. ASSUME NEW h \in Handler, NEW s \in Session, Request(h, s) PROVE MediaInv'
  BY <1>2, StartsKeepMedia
<1>3. ASSUME NEW d \in Drainer, DrainerStep(d) PROVE MediaInv'
  BY <1>3, DrainerKeepsMedia
<1>4. ASSUME NEW p \in Process, TransitionVoiceSession(p) \/ Fault(p) PROVE MediaInv'
  BY <1>4, TransitionKeepsMedia
<1>5. ASSUME UNCHANGED mediaVars, UNCHANGED proc PROVE MediaInv'
  BY <1>5 DEF MediaInv, MediaNeverOrphaned, mediaVars, Call
<1>6. ASSUME NEW j \in Job, NEW s \in Session, Deliver(j, s) PROVE MediaInv'
  <2>1. ASSUME NEW d \in Drainer, At(d, "idle"), Begin(d, s, "next") PROVE MediaInv'
    <3> DEFINE r == [Idle EXCEPT !.at = "next", !.call = s]
    <3>1. d \in Process /\ r.holds = None /\ proc[d].holds = None /\ proc[d].at \notin Made
          /\ proc' = [proc EXCEPT ![d] = r] /\ UNCHANGED mediaVars
      BY <1>6, <2>1 DEF Process, Idle, MediaInv, At, Made, Begin, Deliver
    <3> HIDE DEF r
    <3> QED
      BY <3>1, EmptyHanded, ZenonT(30)
  <2> QED
    BY <1>5, <1>6, <2>1 DEF Deliver, Spawn
<1>7. CASE Restart
  <2>1. \A s \in Session : transport'[s] = None
    BY <1>7 DEF Restart
  <2>2. \A p \in Process : proc'[p].holds = None
    <3>1. \A p \in Process : proc'[p] \in {Idle, Done} \/ (proc'[p] = proc[p] /\ proc[p].at = "idle")
      BY <1>7 DEF Restart, At
    <3>2. Idle.holds = None /\ Done.holds = None
      BY DEF Idle, Done
    <3> QED
      BY <3>1, <3>2 DEF MediaInv
  <2> QED
    BY <2>1, <2>2, ZenonT(30) DEF MediaInv, MediaNeverOrphaned
<1>8. CASE UNCHANGED vars
  BY <1>5, <1>8 DEF vars, mediaVars
<1> QED
  BY <1>1, <1>2, <1>3, <1>4, <1>6, <1>7, <1>8 DEF Next

(* startMedia, recoverMedia, trackMediaSession and closeMediaSession: for    *)
(* every number of requests on every number of calls, a handle the transport *)
(* made and nobody closed is in Server.mediaSessions or still in the hands   *)
(* of the request that is about to track it.                                 *)
THEOREM MediaNeverOrphanedTheorem == Spec => []MediaNeverOrphaned
<1>1. Init => MediaInv
  <2>1. Idle.holds = None
    BY DEF Idle
  <2> QED
    BY <2>1 DEF Init, MediaInv, MediaNeverOrphaned
<1>2. MediaInv => MediaNeverOrphaned
  BY DEF MediaInv
<1> QED
  BY <1>1, <1>2, InitKeeps, NextKeeps, NextKeepsMedia, PTL DEF Spec

=============================================================================
