----------------------------- MODULE VoiceClaims ----------------------------
(***************************************************************************)
(* What the code of VoiceCalls guarantees about calls, and what its        *)
(* documentation says of them.                                             *)
(***************************************************************************)
EXTENDS VoiceCalls

Label ==
    DOMAIN Goal \cup DOMAIN Closing \cup DOMAIN Silencing \cup
    {"idle", "done", "create", "route", "start", "track", "recover", "retrack",
     "failcheck", "cleanup", "heard", "submit", "next", "speech", "register",
     "playback", "unregister"}

(* Every map and every local of a handler or drainer holds what the code    *)
(* stores in it.                                                            *)
TypeOK ==
    /\ state \in [Session -> DialogState \cup {"ABSENT"}]
    /\ proc \in [Process -> [at : Label, phase : {"get", "put", "back"},
                             seen : DialogState \cup {"ABSENT"},
                             call : Session \cup {None},
                             holds : Handler \cup {None}, job : Job \cup {None}]]
    /\ transport \in [Session -> Handler \cup {None}]
    /\ media \in [Session -> Handler \cup {None}]
    /\ closes \in [Handler -> Nat]
    /\ route \in [Conversation -> Session \cup {None}]
    /\ queue \in [Session -> Seq(Job)]
    /\ speaking \in [Session -> BOOLEAN]
    /\ cancel \in [Session -> Drainer \cup {None}]
    /\ cancelled \in [Drainer -> BOOLEAN]

(* idx_voice_one_active_device: however starts, failures and reconnects     *)
(* interleave, a device never has two calls that are not over.              *)
OneCallPerDevice ==
    \A s, u \in Session :
       s # u /\ DeviceOf[s] = DeviceOf[u] =>
          state[s] \in Over \cup {"ABSENT"} \/ state[u] \in Over \cup {"ABSENT"}

(* trackMediaSession, closeMediaSession: a handle that is still open is in  *)
(* mediaSessions, where End and shutdown find it, or in the hands of a      *)
(* handler that is about to put it there.                                   *)
MediaNeverOrphaned ==
    \A s \in Session :
       LET x == transport[s]
       IN  x # None /\ closes[x] = 0 =>
              media[s] = x \/ \E h \in Handler : proc[h].holds = x

(* voiceSpeaking: at most one goroutine speaks into a call, and the cancel  *)
(* function on record is that goroutine's.                                  *)
SingleSpeaker ==
    /\ \A d, e \in Drainer : Call(d) # None /\ Call(d) = Call(e) => d = e
    /\ \A s \in Session : cancel[s] # None => Call(cancel[s]) = s

(* TransitionVoiceSession: although every caller validates against a state  *)
(* it read earlier, the row only ever moves along the published table; in   *)
(* particular nothing revives an ENDED call.                                *)
DialogFollowsTable ==
    [][\A s \in Session :
          state[s] \notin {"ABSENT", state'[s]} =>
             state'[s] \in allowedTransitions[state[s]]]_vars

(* speakText, cancelTTS: a call does not stay in SPEAKING: the drainer that *)
(* put it there finishes, or the request that cancelled it moves it on.     *)
SpeechEnds ==
    \A s \in Session : state[s] = "SPEAKING" ~> state[s] # "SPEAKING"

-----------------------------------------------------------------------------
Quiet(s) == \A p \in Process : Call(p) = s => At(p, "done")

(* docs/VOICE.md: terminal database state never leaves a media resource     *)
(* running.                                                                 *)
EndedCallHasNoMedia ==
    \A s \in Session : state[s] = "ENDED" /\ Quiet(s) => media[s] = None

(* docs/VOICE.md: a handle is closed exactly once.                          *)
MediaClosedOnce == \A h \in Handler : closes[h] <= 1

(* docs/VOICE.md: barge-in cancels the TTS context immediately and moves    *)
(* the call to INTERRUPTED.                                                 *)
BargeInCancelsSpeech ==
    \A d \in Drainer :
       At(d, "playback") /\ state[Call(d)] = "INTERRUPTED" => cancelled[d]

(* speakText: the result that arrives during an interruption is not spoken  *)
(* over the user, and a later turn can resume its delivery: it is kept.     *)
InterruptedDeliveryKept ==
    \A j \in Job :
       fate[j] = "withheld" =>
          \E s \in Session : \E i \in DOMAIN queue[s] : queue[s][i] = j
=============================================================================
