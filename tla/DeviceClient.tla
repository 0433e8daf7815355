---------------------------- MODULE DeviceClient ----------------------------
(***************************************************************************)
(* The Android client's side of device identity (VeqriRepository.kt,       *)
(* OkHttpCoreTransport.kt, AndroidKeystoreCredentialStore in               *)
(* LocalStores.kt), composed with DeviceCore: the two durable credential   *)
(* slots, the transport with its one stream, and the coroutine that        *)
(* rotates the credential.                                                 *)
(*                                                                         *)
(* The rotation coroutine holds credentialRotationMutex from its start to  *)
(* its end and suspends only while it waits for an HTTP response; what it  *)
(* does between two responses is one step.  A request that the client      *)
(* gives up may still reach Core.  Pairing and "forget local device" do    *)
(* not take the mutex.                                                     *)
(***************************************************************************)
EXTENDS DeviceCore, Sequences

CONSTANTS
    MaxStale,    \* bound on streams the client has given up and Core has not
    MaxLate,     \* bound on requests in flight that the client has given up
    MaxEvents    \* bound on queued CredentialRotationCommitted events

VARIABLES
    slots,       \* the Keystore: the active credential and the candidate
    transport,   \* OkHttpCoreTransport: activeCredential, armedRotationCandidate, mode
    task,        \* the rotation coroutine
    events,      \* key versions of CredentialRotationCommitted events not yet handled
    pairing,     \* a pairing request is in progress
    forgetting   \* forgetLocalDevice has disconnected and not yet cleared

clientVars == <<slots, transport, task, events, pairing, forgetting>>
vars == <<coreVars, clientVars, scenario>>

NoSlots == [active |-> NoCredential, candidate |-> NoCredential]
Offline == [active |-> NoCredential, armed |-> NoCredential, mode |-> "offline"]
Idle    == [at |-> "idle", active |-> NoCredential, candidate |-> NoCredential, retry |-> FALSE]

Waiting == {"cancelFirst", "prepare", "cancelUnsaved", "confirm", "cancelExpired",
            "cancelRejected", "cancelCorrupt"}

TaskState == [at : Waiting \cup {"idle", "boot"}, active : Credential \cup {NoCredential},
              candidate : Credential \cup {NoCredential}, retry : BOOLEAN]

\* RandomToken(32): a credential nobody holds.
HeldTokens ==
    {devices[d].active : d \in Device} \cup {devices[d].pending : d \in Device}
    \cup {r.cred.token : r \in net} \cup {r.fresh.token : r \in net}
    \cup {s.cred.token : s \in conns}
    \cup {c.token : c \in {slots.active, slots.candidate, transport.active, transport.armed,
                           task.active, task.candidate}}

(***************************************************************************)
(* The transport.  A socket is the current stream; the transport is in     *)
(* mode "open" when it holds one, "waiting" when a reconnect is scheduled, *)
(* "failed" when it has given up.                                          *)
(***************************************************************************)
Stale == {s \in conns : ~s.current}

\* The client gives up its socket; Core has at most MaxStale such streams left.
Dropped ==
    {[s EXCEPT !.current = FALSE] : s \in {s \in conns : s.current /\ s.at # "closed"}}
    \cup (IF Cardinality(Stale) < MaxStale THEN Stale ELSE {})

Disarmed(t, cred) ==
    IF t.armed.version = cred.version THEN [t EXCEPT !.armed = NoCredential] ELSE t

\* connect() starting from transport state t.
Connect(t, cred) ==
    LET keeps == t.active = cred /\ t.mode = "open"
    IN  /\ transport' = [Disarmed(t, cred) EXCEPT !.active = cred, !.mode = "open"]
        /\ conns' = IF keeps THEN conns ELSE Dropped \cup {Dial(cred)}

disconnect == transport' = Offline /\ conns' = Dropped

Unarmed == [transport EXCEPT !.armed = NoCredential]

scheduleReconnect ==
    /\ transport.mode = "waiting"
    /\ transport' = [transport EXCEPT !.mode = "open"]
    /\ conns' = conns \cup {Dial(transport.active)}
    /\ UNCHANGED <<devices, codes, net, revoking, slots, task, events, pairing, forgetting>>

Current(s) == s \in conns /\ s.current

\* onClosed: 4004 proves that the armed candidate was promoted.
onClosed(s) ==
    /\ Current(s) /\ s.at = "closed" /\ s.code \in {"4003", "4004"}
    /\ conns' = Dropped
    /\ IF s.code = "4004" /\ transport.armed # NoCredential
       THEN /\ Len(events) < MaxEvents
            /\ transport' = [transport EXCEPT !.active = transport.armed, !.mode = "waiting"]
            /\ events' = Append(events, transport.armed.version)
       ELSE transport' = [transport EXCEPT !.mode = "failed"] /\ UNCHANGED events
    /\ UNCHANGED <<devices, codes, net, revoking, slots, task, pairing, forgetting>>

\* onFailure: the upgrade was refused, or the connection broke.
onFailure(s) ==
    /\ Current(s)
    /\ conns' = Dropped
    /\ transport' = [transport EXCEPT !.mode = IF s.code = "401" THEN "failed" ELSE "waiting"]
    /\ s.code = "401" \/ (s.at = "closed" /\ s.code = "none") \/ "drop" \in Operation
    /\ UNCHANGED <<devices, codes, net, revoking, slots, task, events, pairing, forgetting>>

----------------------------------------------------------------------------
(***************************************************************************)
(* The rotation coroutine.  Each operator below is what it does on an      *)
(* answer; Send ends the burst with the next request.                      *)
(***************************************************************************)
Send(kind, cred, at, active, candidate, retry, others) ==
    /\ net' = others \cup {Ask(kind, cred, None)}
    /\ task' = [at |-> at, active |-> active, candidate |-> candidate, retry |-> retry]

Stop(others) == net' = others /\ task' = Idle

requirePairingAfterRotationFailure(others) ==
    /\ disconnect
    /\ slots' = NoSlots \/ ("write" \in Fault /\ slots' = slots)
    /\ Stop(others)

prepareFreshCredentialRotation(active, retry, others) ==
    Send("cancel", active, "cancelFirst", active, NoCredential, retry, others)

\* arm() refuses a candidate of a device other than the connected one.
Armable(cred) == transport.active \in {NoCredential} \/ transport.active.device = cred.device

recoverCorruptRotationState(active, others) ==
    /\ transport' = Unarmed
    /\ Send("cancel", active, "cancelCorrupt", active, NoCredential, FALSE, others)

confirmStoredCredentialRotation(active, candidate, retry, others) ==
    IF candidate.device # active.device \/ candidate.version <= active.version
    THEN recoverCorruptRotationState(active, others)
    ELSE IF ~Armable(candidate)
    THEN Stop(others) /\ UNCHANGED transport
    ELSE /\ transport' = [transport EXCEPT !.armed = candidate]
         /\ Send("confirm", candidate, "confirm", active, candidate, retry, others)

\* A stored candidate that cannot be decrypted is discarded; otherwise it is
\* confirmed before anything else is done with it.
resumeRotation(others, onNone) ==
    \/ /\ "read" \in Fault /\ slots.candidate # NoCredential
       /\ recoverCorruptRotationState(slots.active, others)
       /\ UNCHANGED conns
    \/ /\ slots.candidate # NoCredential
       /\ confirmStoredCredentialRotation(slots.active, slots.candidate, TRUE, others)
       /\ UNCHANGED conns
    \/ slots.candidate = NoCredential /\ onNone

rotateCredential ==
    /\ "rotate" \in Operation
    /\ task = Idle
    /\ IF slots.active = NoCredential
       THEN requirePairingAfterRotationFailure(net)
       ELSE /\ resumeRotation(net, /\ prepareFreshCredentialRotation(slots.active, TRUE, net)
                                   /\ UNCHANGED <<transport, conns>>)
            /\ UNCHANGED slots
    /\ UNCHANGED <<devices, codes, revoking, events, pairing, forgetting>>

bootstrap ==
    /\ task.at = "boot"
    /\ IF slots.active = NoCredential
       THEN Stop(net) /\ UNCHANGED <<transport, conns>>
       ELSE resumeRotation(net, Connect(transport, slots.active) /\ Stop(net))
    /\ UNCHANGED <<devices, codes, revoking, slots, events, pairing, forgetting>>

(***************************************************************************)
(* Promotion of the stored candidate, by the confirm response or by the    *)
(* 4004 event.  When the slot cannot be promoted the stream is opened with *)
(* the candidate all the same and the candidate stays stored.              *)
(***************************************************************************)
Stored(candidate) == slots.candidate # NoCredential /\ slots.candidate.version = candidate.version

AlreadyPromoted(candidate) ==
    slots.active.device = candidate.device /\ slots.active.version = candidate.version

promoteCredentialAndConnect(candidate) ==
    \/ /\ Stored(candidate)
       /\ slots' = [active |-> slots.candidate, candidate |-> NoCredential]
       /\ Connect(transport, slots.candidate)
    \/ /\ ~Stored(candidate) \/ "write" \in Fault
       /\ Connect(transport, IF AlreadyPromoted(candidate) THEN slots.active ELSE candidate)
       /\ UNCHANGED slots

completeCredentialRotationFromSocket ==
    /\ task = Idle /\ events # <<>>
    /\ events' = Tail(events)
    /\ LET v == Head(events)
       IN  IF slots.candidate # NoCredential /\ slots.candidate.version = v
           THEN promoteCredentialAndConnect(slots.candidate) /\ Stop(net)
           ELSE IF slots.active # NoCredential /\ slots.active.version = v
           THEN Connect(transport, slots.active) /\ Stop(net) /\ UNCHANGED slots
           ELSE requirePairingAfterRotationFailure(net)
    /\ UNCHANGED <<devices, codes, revoking, pairing, forgetting>>

----------------------------------------------------------------------------
(***************************************************************************)
(* Answers.  A timeout stands for every response the client does not get:  *)
(* the request lost, Core down, the transaction failed, the response lost. *)
(***************************************************************************)
Rotation(r) == r.live /\ r.kind # "claim"

\* The candidate is stored whatever the active slot holds.
saveRotationCandidateAlways(c) == TRUE

saveRotationCandidate(c) ==
    /\ slots.active # NoCredential
    /\ slots.active.device = c.device /\ slots.active.version < c.version

\* The replacement is confirmed before it is stored.
PreparedUnsaved(r) ==
    /\ confirmStoredCredentialRotation(task.active, r.fresh, task.retry, net \ {r})
    /\ UNCHANGED <<slots, conns>>

Prepared(r) ==
    \/ /\ saveRotationCandidate(r.fresh)
       /\ slots' = [slots EXCEPT !.candidate = r.fresh]
       /\ confirmStoredCredentialRotation(task.active, r.fresh, task.retry, net \ {r})
       /\ UNCHANGED conns
    \/ /\ ~saveRotationCandidate(r.fresh) \/ "write" \in Fault
       /\ Send("cancel", task.active, "cancelUnsaved", task.active, NoCredential, FALSE, net \ {r})
       /\ UNCHANGED <<slots, transport, conns>>

\* 410: the candidate is discarded first, then Core's pending state.
recoverExpiredCredentialRotation(r) ==
    /\ transport' = Unarmed
    /\ \/ /\ slots' = [slots EXCEPT !.candidate = NoCredential]
          /\ Send("cancel", task.active, "cancelExpired", task.active, task.candidate,
                  task.retry, net \ {r})
       \/ "write" \in Fault /\ Stop(net \ {r}) /\ UNCHANGED slots
    /\ UNCHANGED conns

\* The retry after an expiry may itself retry.
ExpiredCancelledForever(r) ==
    /\ Connect(transport, task.active)
    /\ prepareFreshCredentialRotation(task.active, TRUE, net \ {r})
    /\ UNCHANGED slots

ExpiredCancelled(r) ==
    /\ Connect(transport, task.active)
    /\ IF task.retry THEN prepareFreshCredentialRotation(task.active, FALSE, net \ {r})
                     ELSE Stop(net \ {r})
    /\ UNCHANGED slots

\* 401: Core's pending state first, then the candidate.
recoverRejectedCredentialCandidate(r) ==
    /\ transport' = Unarmed
    /\ Send("cancel", task.active, "cancelRejected", task.active, task.candidate, FALSE, net \ {r})
    /\ UNCHANGED <<slots, conns>>

RejectedCancelled(r) ==
    /\ Stop(net \ {r})
    /\ \/ /\ slots' = [slots EXCEPT !.candidate = NoCredential]
          /\ Connect(transport, task.active)
       \/ "write" \in Fault /\ UNCHANGED <<slots, transport, conns>>

CorruptCancelled(others) ==
    /\ Stop(others)
    /\ Connect(transport, task.active)
    /\ \/ slots' = [slots EXCEPT !.candidate = NoCredential]
       \/ "write" \in Fault /\ UNCHANGED slots

UnsavedCancelled(others) ==
    Stop(others) /\ transport' = Unarmed /\ UNCHANGED <<slots, conns>>

GiveUp(others) == Stop(others) /\ UNCHANGED <<slots, transport, conns>>

OnAnswer(r) ==
    /\ r \in net /\ Rotation(r) /\ r.at = "done"
    /\ \/ task.at = "cancelCorrupt" /\ CorruptCancelled(net \ {r})
       \/ task.at = "cancelUnsaved" /\ UnsavedCancelled(net \ {r})
       \/ /\ task.at \in {"cancelFirst", "prepare", "cancelExpired", "cancelRejected"}
          /\ r.reply = "unauthorized"
          /\ requirePairingAfterRotationFailure(net \ {r})
       \/ /\ task.at = "cancelFirst" /\ r.reply = "ok"
          /\ Send("prepare", task.active, "prepare", task.active, NoCredential, task.retry, net \ {r})
          /\ UNCHANGED <<slots, transport, conns>>
       \/ task.at = "prepare" /\ r.reply = "ok" /\ Prepared(r)
       \/ task.at = "prepare" /\ r.reply = "conflict" /\ GiveUp(net \ {r})
       \/ /\ task.at = "confirm" /\ r.reply = "ok"
          /\ promoteCredentialAndConnect(task.candidate) /\ Stop(net \ {r})
       \/ task.at = "confirm" /\ r.reply = "expired" /\ recoverExpiredCredentialRotation(r)
       \/ task.at = "confirm" /\ r.reply = "unauthorized" /\ recoverRejectedCredentialCandidate(r)
       \/ task.at = "cancelExpired" /\ r.reply = "ok" /\ ExpiredCancelled(r)
       \/ task.at = "cancelRejected" /\ r.reply = "ok" /\ RejectedCancelled(r)
    /\ UNCHANGED <<devices, codes, revoking, events, pairing, forgetting>>

Late == {r \in net : ~r.live}

\* What is left of the requests when the client stops waiting for those of S:
\* one that Core has not answered may still reach it, MaxLate of them at most.
Abandoned(S) ==
    LET kept == IF Cardinality(Late) < MaxLate
                THEN {r \in S : r.at # "done"}
                ELSE {r \in S : r.at \in {"verified", "committed"}}
    IN  (net \ S) \cup {[r EXCEPT !.live = FALSE] : r \in kept}

LoseRequest(r) ==
    /\ r \in Late /\ r.at = "sent"
    /\ net' = net \ {r}
    /\ UNCHANGED <<devices, codes, conns, revoking, clientVars>>

OnTimeout ==
    /\ task.at \in Waiting
    /\ LET others == Abandoned({r \in net : Rotation(r)})
       IN  \/ task.at \in {"cancelFirst", "prepare", "confirm"} /\ GiveUp(others)
           \/ task.at = "cancelUnsaved" /\ UnsavedCancelled(others)
           \/ task.at = "cancelCorrupt" /\ CorruptCancelled(others)
           \/ /\ task.at \in {"cancelExpired", "cancelRejected"}
              /\ Stop(others) /\ Connect(transport, task.active) /\ UNCHANGED slots
    /\ UNCHANGED <<devices, codes, revoking, events, pairing, forgetting>>

----------------------------------------------------------------------------
(***************************************************************************)
(* Pairing, forgetting, and the death of the app.                          *)
(***************************************************************************)
Claim(r) == r.live /\ r.kind = "claim"

pair(c) ==
    /\ "pair" \in Operation
    /\ ~pairing /\ ~forgetting /\ slots.active = NoCredential /\ codes[c] # "absent"
    /\ pairing' = TRUE
    /\ net' = net \cup {Ask("claim", NoCredential, c)}
    /\ UNCHANGED <<devices, codes, conns, revoking, slots, transport, task, events, forgetting>>

OnPaired(r) ==
    /\ r \in net /\ Claim(r) /\ r.at = "done"
    /\ pairing' = FALSE
    /\ net' = net \ {r}
    /\ \/ /\ r.reply = "ok"
          /\ slots' = [active |-> r.fresh, candidate |-> NoCredential]
          /\ Connect(transport, r.fresh)
       \/ /\ r.reply # "ok" \/ "write" \in Fault
          /\ UNCHANGED <<slots, transport, conns>>
    /\ UNCHANGED <<devices, codes, revoking, task, events, forgetting>>

OnPairingTimeout ==
    /\ pairing
    /\ pairing' = FALSE
    /\ net' = Abandoned({r \in net : Claim(r)})
    /\ UNCHANGED <<devices, codes, conns, revoking, slots, transport, task, events, forgetting>>

forgetLocalDevice ==
    /\ "forget" \in Operation
    /\ \/ /\ ~forgetting /\ slots.active # NoCredential
          /\ forgetting' = TRUE
          /\ disconnect
          /\ UNCHANGED slots
       \/ /\ forgetting
          /\ forgetting' = FALSE
          /\ slots' = NoSlots \/ ("write" \in Fault /\ slots' = slots)
          /\ UNCHANGED <<transport, conns>>
    /\ UNCHANGED <<devices, codes, net, revoking, task, events, pairing>>

AppRestart ==
    /\ "appRestart" \in Operation
    /\ task' = [Idle EXCEPT !.at = "boot"]
    /\ transport' = Offline
    /\ conns' = Dropped
    /\ net' = Abandoned({r \in net : r.live})
    /\ events' = <<>>
    /\ pairing' = FALSE
    /\ forgetting' = FALSE
    /\ UNCHANGED <<devices, codes, revoking, slots>>

----------------------------------------------------------------------------
Handlers ==
    \/ \E r \in net : \/ \E t \in Token \ HeldTokens : \/ handleClaimPairing(r, t)
                                                     \/ PrepareDeviceCredentialRotation(r, t)
                      \/ VerifyForConfirm(r)
                      \/ ConfirmDeviceCredentialRotation(r)
                      \/ closeDeviceSocketsAfterCredentialRotation(r)
                      \/ handleCancelDeviceCredentialRotation(r)
    \/ \E s \in conns : \/ AuthenticateStream(s)
                        \/ registerDeviceSocket(s)
                        \/ RevalidateStream(s)
                        \/ PingStream(s)
                        \/ unregisterDeviceSocket(s)
    \/ \E d \in Device : closeDeviceSockets(d)

CoreStep ==
    /\ \/ Handlers
       \/ \E c \in Code : ("pair" \in Operation /\ CreatePairingSession(c)) \/ ("expire" \in Operation /\ PairingExpires(c))
       \/ \E d \in Device : "expire" \in Operation /\ PendingExpires(d)
       \/ \E d \in Device : "revoke" \in Operation /\ RevokeDevice(d)
       \/ "coreRestart" \in Operation /\ CoreRestart
    /\ UNCHANGED clientVars

ClientStep ==
    \/ \E r \in net : OnAnswer(r) \/ OnPaired(r) \/ LoseRequest(r)
    \/ OnTimeout \/ OnPairingTimeout
    \/ \E s \in conns : onClosed(s) \/ onFailure(s)
    \/ scheduleReconnect
    \/ completeCredentialRotationFromSocket
    \/ rotateCredential \/ bootstrap
    \/ \E c \in Code : pair(c)
    \/ forgetLocalDevice
    \/ AppRestart

Next == (CoreStep \/ ClientStep) /\ UNCHANGED scenario

\* The device d paired earlier with credential t; the app is being opened.
Paired(d, t) ==
    /\ devices = [x \in Device |-> IF x = d THEN [NoRow EXCEPT !.active = t, !.version = 1]
                                            ELSE NoRow]
    /\ slots = [active |-> [device |-> d, token |-> t, version |-> 1], candidate |-> NoCredential]

Unpaired == devices = [x \in Device |-> NoRow] /\ slots = NoSlots

Init ==
    /\ scenario \in Scenario
    /\ IF "pair" \in Operation THEN Unpaired
       ELSE \E d \in Device, t \in Token : Paired(d, t)
    /\ codes = [c \in Code |-> "absent"]
    /\ net = {} /\ conns = {} /\ revoking = {} /\ events = <<>>
    /\ transport = Offline
    /\ task = [Idle EXCEPT !.at = "boot"]
    /\ pairing = FALSE /\ forgetting = FALSE

Spec == Init /\ [][Next]_vars

\* Core serves requests, and every request the client waits for is answered
\* or times out.
Fairness ==
    /\ WF_vars(Handlers /\ UNCHANGED <<clientVars, scenario>>)
    /\ WF_vars((OnTimeout \/ \E r \in net : OnAnswer(r)) /\ UNCHANGED scenario)

FairSpec == Spec /\ Fairness
=============================================================================
