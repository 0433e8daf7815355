------------------------------ MODULE MCVoice -------------------------------
(* Calls of one device, each in a conversation of its own: two calls under  *)
(* every request, or one call that is spoken to.                            *)
EXTENDS VoiceClaims, TLC

CONSTANTS h1, h2, h3, d1, d2, j1, j2

OneSession  == 1..1
TwoSessions == 1..2
OneDevice   == [s \in Session |-> "phone"]
OwnTalk     == [s \in Session |-> s]

Handlers3  == {h1, h2, h3}
OneDrainer == {d1}
Drainers   == {d1, d2}
Jobs1      == {j1}
Jobs2      == {j1, j2}

MCSymmetry == Permutations(Handler) \cup Permutations(Drainer) \cup Permutations(Job)

VARIABLE case   \* "requests", or "speech" to the first call

CallInit == Init /\ case \in {"requests", "speech"}

\* In the first case no result is published.  In the second there is no second
\* call, no ringing, no reconnect and no database error.
CallNext ==
    /\ Next
    /\ case = "requests" => fate' = fate
    /\ case = "speech" =>
          /\ state'[2] = "ABSENT" /\ state'[1] # "RINGING" /\ faults' = 0
          /\ \A h \in Handler :
                proc'[h].call # 2 /\ proc'[h].seen # "RINGING" /\ proc'[h].at \notin {"reconnecting", "replace"}
    /\ UNCHANGED case

CallSpec == CallInit /\ [][CallNext]_<<vars, case>>

\* One call with nothing left out, under the fairness of VoiceCalls.
LiveInit == Init /\ case = "speech"
LiveNext == Next /\ UNCHANGED case
LiveSpec == LiveInit /\ [][LiveNext]_<<vars, case>> /\ Fairness
=============================================================================
