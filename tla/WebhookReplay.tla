--------------------------- MODULE WebhookReplay ---------------------------
(***************************************************************************)
(* Replay protection of signed webhooks: a request is good for a window    *)
(* around its timestamp, and its nonce is remembered for longer.  Times    *)
(* are instants of Core's clock.                                           *)
(***************************************************************************)
EXTENDS Naturals

CONSTANTS
    Message,     \* signed requests
    NonceOf,     \* X-Veqri-Nonce of each
    StampOf,     \* X-Veqri-Timestamp of each
    Window,      \* accepted skew: five minutes
    Keep,        \* age at which a nonce is forgotten: 24 hours
    Lag,         \* longest time between verifying a request and storing its nonce
    Receiver,    \* goroutines serving webhooks
    MaxTime      \* bound on the clock

ASSUME ReplayAssumption ==
    /\ StampOf \in [Message -> Nat]
    /\ Window \in Nat /\ Keep \in Nat /\ Lag \in Nat /\ MaxTime \in Nat
    /\ Keep >= 2 * Window + Lag

VARIABLES
    now,
    nonces,    \* rows of webhook_replay_nonces
    receiver,  \* the request each goroutine has verified, and when
    accepted   \* how often each request was accepted

replayVars == <<now, nonces, receiver, accepted>>

Quiet == [at |-> "idle"]

ReplayInit ==
    /\ now = 0 /\ nonces = {}
    /\ receiver = [h \in Receiver |-> Quiet]
    /\ accepted = [m \in Message |-> 0]

\* The signature covers timestamp and nonce, so a repeated request carries both.
InWindow(m) == now <= StampOf[m] + Window /\ StampOf[m] <= now + Window

Verify(h, m) ==
    /\ receiver[h] = Quiet /\ InWindow(m)
    /\ receiver' = [receiver EXCEPT ![h] = [at |-> "verified", m |-> m, since |-> now]]
    /\ UNCHANGED <<now, nonces, accepted>>

ForgottenWithWindow(row) == row.received + Window < now

Forgotten(row) == row.received + Keep < now

UseWebhookNonce(h) ==
    /\ receiver[h].at = "verified"
    /\ LET m == receiver[h].m IN
       IF \E row \in nonces : row.nonce = NonceOf[m]
       THEN UNCHANGED <<nonces, accepted>>
       ELSE /\ nonces' = {row \in nonces : ~Forgotten(row)} \cup {[nonce |-> NonceOf[m], received |-> now]}
            /\ accepted' = [accepted EXCEPT ![m] = @ + 1]
    /\ receiver' = [receiver EXCEPT ![h] = Quiet]
    /\ UNCHANGED now

ReplayTick ==
    /\ now < MaxTime
    /\ \A h \in Receiver : receiver[h] # Quiet => now < receiver[h].since + Lag
    /\ now' = now + 1
    /\ UNCHANGED <<nonces, receiver, accepted>>

ReplayNext ==
    \/ \E h \in Receiver : UseWebhookNonce(h) \/ \E m \in Message : Verify(h, m)
    \/ ReplayTick

ReplaySpec == ReplayInit /\ [][ReplayNext]_replayVars

\* A signed webhook is accepted at most once, however often, from how many
\* connections and however late within its window it is sent again: its nonce
\* is forgotten only after the window has closed on it.
NoReplay == \A m \in Message : accepted[m] <= 1
=============================================================================
