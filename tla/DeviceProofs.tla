------------------------------- MODULE DeviceProofs -------------------------------
(***************************************************************************)
(* Proofs about pairing, rotation and revocation of device credentials     *)
(* (DeviceCore, DeviceClient, DeviceClaims), for every set of devices,     *)
(* tokens and codes and every scenario.                                    *)
(*                                                                         *)
(* DeviceInv is the inductive invariant: the types; what each stage of a   *)
(* request guarantees; that the client waits for at most one answer, to    *)
(* the request its coroutine made; that the transport holds one stream,    *)
(* opened with the credential it is connected with; and that a stored      *)
(* candidate is a later version for the device of the active slot.         *)
(* CredentialsWellFormed follows from it. Single-use codes need CodesInv   *)
(* beside it, and NoStaleStream is inductive given DeviceInv.              *)
(***************************************************************************)
EXTENDS DeviceLemmas

\* How long each prover may take over a leaf, in seconds.
USE SMTT(30), ZenonT(30)

-----------------------------------------------------------------------------
(* Steps of the client                                                     *)

(* The transport is armed with a candidate.                                *)
LEMMA ArmStep ==
  ASSUME StreamsOK, UNCHANGED conns, NEW cred \in MaybeCredential,
         transport' = [transport EXCEPT !.armed = cred]
  PROVE  /\ StreamsOK' /\ transport'.armed = cred /\ transport'.active = transport.active
         /\ transport'.mode = transport.mode
<1>1. /\ transport' \in TransportType /\ transport'.active = transport.active
      /\ transport'.mode = transport.mode /\ transport'.armed = cred
  BY DEF StreamsOK, TransportType
<1> QED
  BY <1>1 DEF StreamsOK

(* The transport is disarmed.                                              *)
LEMMA UnarmStep ==
  ASSUME StreamsOK, UNCHANGED conns, transport' = Unarmed
  PROVE  StreamsOK' /\ transport'.armed = NoCredential /\ transport'.active = transport.active
  BY ArmStep, NoCredentialFacts DEF Unarmed

(* What the client does to the slots: nothing, clear, drop the candidate,  *)
(* promote it, store a pairing, store a candidate.                         *)
LEMMA SlotsStep ==
  ASSUME SlotsOK,
         \/ slots' = slots
         \/ slots' = NoSlots
         \/ slots' = [slots EXCEPT !.candidate = NoCredential]
         \/ slots.candidate # NoCredential /\ slots' = [active |-> slots.candidate, candidate |-> NoCredential]
         \/ \E c \in Credential : slots' = [active |-> c, candidate |-> NoCredential]
         \/ \E c \in Credential : saveRotationCandidate(c) /\ slots' = [slots EXCEPT !.candidate = c]
  PROVE  SlotsOK'
<1> DEFINE T == [active : MaybeCredential, candidate : MaybeCredential]
<1>1. slots \in T /\ NoCredential \in MaybeCredential
  BY NoCredentialFacts DEF SlotsOK
<1>2. CASE slots' = slots
  BY <1>2 DEF SlotsOK, SlotsAgree
<1>3. ASSUME NEW a \in MaybeCredential, slots' = [active |-> a, candidate |-> NoCredential]
      PROVE  SlotsOK'
  BY <1>1, <1>3 DEF SlotsOK, SlotsAgree
<1>4. ASSUME NEW c \in Credential, saveRotationCandidate(c), slots' = [slots EXCEPT !.candidate = c]
      PROVE  SlotsOK'
  <2>1. /\ slots.active.device = c.device /\ slots.active.version < c.version
        /\ slots.active \in Credential /\ c \in MaybeCredential
    BY <1>1, <1>4, SlotsFacts, NoCredentialFacts DEF saveRotationCandidate
  <2>2. slots' \in T /\ slots'.candidate = c /\ slots'.active = slots.active
    BY <1>1, <1>4, <2>1
  <2>3. slots'.candidate.version > slots'.active.version
    BY <2>1, <2>2, NoCredentialFacts, Assumptions
  <2> QED
    BY <2>1, <2>2, <2>3 DEF SlotsOK, SlotsAgree
<1>5. CASE slots' = NoSlots
  BY <1>1, <1>3, <1>5 DEF NoSlots
<1>6. CASE slots' = [slots EXCEPT !.candidate = NoCredential]
  <2>1. slots' = [active |-> slots.active, candidate |-> NoCredential] /\ slots.active \in MaybeCredential
    BY <1>1, <1>6
  <2> QED
    BY <1>3, <2>1
<1>7. CASE slots.candidate # NoCredential /\ slots' = [active |-> slots.candidate, candidate |-> NoCredential]
  BY <1>1, <1>3, <1>7
<1>8. CASE \E c \in Credential : slots' = [active |-> c, candidate |-> NoCredential]
  BY <1>3, <1>8 DEF MaybeCredential
<1> QED
  BY <1>2, <1>4, <1>5, <1>6, <1>7, <1>8

(* A coroutine that does not wait has no live request.                     *)
LEMMA NotRotating ==
  ASSUME NetOK, LiveOK, task.at \notin Waiting
  PROVE  Remains(net) /\ NoneLive(net)
  BY OnlyRest DEF LiveOK, NoneLive

\* What a step of the rotation leaves to be shown.
TurnOK == NetOK' /\ LiveOK' /\ TaskOK' /\ ClaimsOK' /\ StreamsOK' /\ SlotsOK'

(* requirePairingAfterRotationFailure keeps the invariants.                *)
LEMMA RequirePairingTurn ==
  ASSUME DeviceInv, NEW others, Remains(others), NoneLive(others), pairing' = pairing,
         requirePairingAfterRotationFailure(others)
  PROVE  TurnOK
<1>1. NetOK /\ ClaimsOK /\ StreamsOK /\ SlotsOK
  BY DEF DeviceInv
<1>2. slots' \in {slots, NoSlots} /\ NoSlots.active = NoCredential
  BY DEF requirePairingAfterRotationFailure, NoSlots
<1>3. SlotsOK' /\ slots'.active \in {slots.active, NoCredential}
  BY <1>1, <1>2, SlotsStep
<1>4. StreamsOK'
  BY <1>1, DisconnectStep DEF requirePairingAfterRotationFailure
<1>5. NetOK' /\ LiveOK' /\ TaskOK' /\ ClaimsOK'
  BY <1>1, <1>3, StopStep DEF requirePairingAfterRotationFailure
<1> QED
  BY <1>3, <1>4, <1>5 DEF TurnOK

(* recoverCorruptRotationState keeps the invariants.                       *)
LEMMA CorruptTurn ==
  ASSUME DeviceInv, NEW others, Remains(others), NoneLive(others), pairing' = pairing,
         NEW active \in Credential, recoverCorruptRotationState(active, others), UNCHANGED conns,
         SlotsOK', slots'.active = slots.active
  PROVE  TurnOK
<1>1. NetOK /\ ClaimsOK /\ StreamsOK /\ TaskOK
  BY DEF DeviceInv
<1>2. StreamsOK'
  BY <1>1, UnarmStep DEF recoverCorruptRotationState
<1>3. /\ "cancelCorrupt" \in Waiting /\ "cancel" = KindOf("cancelCorrupt") /\ NoCredential \in MaybeCredential
      /\ Send("cancel", active, "cancelCorrupt", active, NoCredential, FALSE, others)
  BY NoCredentialFacts, ZenonT(30) DEF Waiting, KindOf, recoverCorruptRotationState
<1>4. NetOK' /\ LiveOK' /\ TaskOK' /\ ClaimsOK'
  BY <1>1, <1>3, SendStep, ZenonT(30)
<1> QED
  BY <1>2, <1>4 DEF TurnOK

(* confirmStoredCredentialRotation keeps the invariants.                   *)
LEMMA ConfirmTurn ==
  ASSUME DeviceInv, NEW others, Remains(others), NoneLive(others), pairing' = pairing,
         NEW active \in Credential, NEW candidate \in Credential, NEW retry \in BOOLEAN,
         confirmStoredCredentialRotation(active, candidate, retry, others), UNCHANGED conns,
         SlotsOK', slots'.active = slots.active
  PROVE  TurnOK
<1>1. NetOK /\ ClaimsOK /\ StreamsOK /\ TaskOK /\ candidate \in MaybeCredential
  BY DEF DeviceInv, MaybeCredential
<1>2. CASE recoverCorruptRotationState(active, others)
  BY <1>2, CorruptTurn
<1>3. CASE Stop(others) /\ UNCHANGED transport
  <2>1. StreamsOK'
    BY <1>3, Frames
  <2>2. NetOK' /\ LiveOK' /\ TaskOK' /\ ClaimsOK'
    BY <1>1, <1>3, StopStep
  <2> QED
    BY <2>1, <2>2 DEF TurnOK
<1>4. CASE /\ transport' = [transport EXCEPT !.armed = candidate]
           /\ Send("confirm", candidate, "confirm", active, candidate, retry, others)
  <2>1. StreamsOK'
    BY <1>1, <1>4, ArmStep
  <2>2. "confirm" \in Waiting /\ "confirm" = KindOf("confirm")
    BY DEF Waiting, KindOf
  <2>3. NetOK' /\ LiveOK' /\ TaskOK' /\ ClaimsOK'
    BY <1>1, <1>4, <2>2, SendStep
  <2> QED
    BY <2>1, <2>3 DEF TurnOK
<1> QED
  BY <1>2, <1>3, <1>4 DEF confirmStoredCredentialRotation

(* promoteCredentialAndConnect keeps the invariants.                       *)
LEMMA PromoteTurn ==
  ASSUME DeviceInv, NEW others, Remains(others), NoneLive(others), pairing' = pairing,
         NEW candidate \in Credential, promoteCredentialAndConnect(candidate), Stop(others)
  PROVE  TurnOK
<1>1. NetOK /\ ClaimsOK /\ StreamsOK /\ TaskOK /\ SlotsOK
  BY DEF DeviceInv
<1>2. CASE /\ Stored(candidate)
           /\ slots' = [active |-> slots.candidate, candidate |-> NoCredential]
           /\ Connect(transport, slots.candidate)
  <2>1. slots.candidate \in Credential /\ slots.active \in Credential /\ slots.candidate # NoCredential
    BY <1>1, <1>2, SlotsFacts DEF Stored
  <2>2. SlotsOK' /\ slots.active # NoCredential
    BY <1>1, <1>2, <2>1, SlotsStep, NoCredentialFacts
  <2>3. StreamsOK'
    BY <1>1, <1>2, <2>1, ConnectStep
  <2>4. NetOK' /\ LiveOK' /\ TaskOK' /\ ClaimsOK'
    BY <1>1, <2>2, StopStep
  <2> QED
    BY <2>2, <2>3, <2>4 DEF TurnOK
<1>3. CASE /\ Connect(transport, IF AlreadyPromoted(candidate) THEN slots.active ELSE candidate)
           /\ UNCHANGED slots
  <2>1. (IF AlreadyPromoted(candidate) THEN slots.active ELSE candidate) \in Credential
    BY <1>1, SlotsFacts, NoCredentialFacts, Assumptions DEF AlreadyPromoted
  <2>2. StreamsOK'
    BY <1>1, <1>3, <2>1, ConnectStep
  <2>3. SlotsOK'
    BY <1>3, Frames
  <2>4. NetOK' /\ LiveOK' /\ TaskOK' /\ ClaimsOK'
    BY <1>1, <1>3, StopStep
  <2> QED
    BY <2>2, <2>3, <2>4 DEF TurnOK
<1> QED
  BY <1>2, <1>3 DEF promoteCredentialAndConnect

(* Ending a rotation, with the candidate discarded or kept, keeps the      *)
(* invariants.                                                             *)
LEMMA DiscardTurn ==
  ASSUME DeviceInv, NEW others, Remains(others), NoneLive(others), pairing' = pairing,
         task.active \in Credential, Stop(others),
         slots' \in {slots, [slots EXCEPT !.candidate = NoCredential]},
         Connect(transport, task.active) \/ (transport' = Unarmed /\ UNCHANGED conns)
         \/ UNCHANGED <<transport, conns>>
  PROVE  TurnOK
<1>1. NetOK /\ ClaimsOK /\ StreamsOK /\ TaskOK /\ SlotsOK
  BY DEF DeviceInv
<1>2. StreamsOK'
  BY <1>1, ConnectStep, UnarmStep, Frames
<1>3. SlotsOK'
  BY <1>1, SlotsStep
<1>4. slots'.active = slots.active
  BY <1>1 DEF SlotsOK
<1>5. NetOK' /\ LiveOK' /\ TaskOK' /\ ClaimsOK'
  BY <1>1, <1>4, StopStep
<1> QED
  BY <1>2, <1>3, <1>5 DEF TurnOK

(* An answer to the rotation, whatever it says and wherever the coroutine  *)
(* is, keeps the invariants.                                               *)
LEMMA OnAnswerTurn ==
  ASSUME DeviceInv, NEW r \in net, OnAnswer(r)
  PROVE  TurnOK
<1> DEFINE others == net \ {r}
<1>1. NetOK /\ LiveOK /\ ClaimsOK /\ StreamsOK /\ TaskOK /\ SlotsOK /\ Rotation(r) /\ pairing' = pairing
  BY DEF DeviceInv, OnAnswer
<1>2. Remains(others) /\ NoneLive(others)
  BY <1>1, AfterAnswer
<1>3. /\ task.at \in Waiting /\ task.active \in Credential /\ task.retry \in BOOLEAN /\ r.kind = KindOf(task.at)
      /\ NoCredential \in MaybeCredential /\ r \in Request /\ RequestOK(r) /\ r.at = "done"
  BY <1>1, NoCredentialFacts, ZenonT(30) DEF LiveOK, TaskOK, TaskState, OnAnswer, NetOK
<1> HIDE DEF others
<1>4. CASE CorruptCancelled(others) \/ UnsavedCancelled(others) \/ GiveUp(others)
  BY <1>1, <1>2, <1>3, <1>4, DiscardTurn DEF CorruptCancelled, UnsavedCancelled, GiveUp
<1>5. CASE requirePairingAfterRotationFailure(others)
  BY <1>1, <1>2, <1>5, RequirePairingTurn
<1>6. CASE /\ Send("prepare", task.active, "prepare", task.active, NoCredential, task.retry, others)
           /\ UNCHANGED <<slots, transport, conns>>
  <2>1. "prepare" \in Waiting /\ "prepare" = KindOf("prepare")
    BY DEF Waiting, KindOf
  <2>2. NetOK' /\ LiveOK' /\ TaskOK' /\ ClaimsOK'
    BY <1>1, <1>2, <1>3, <1>6, <2>1, SendStep
  <2> QED
    BY <1>6, <2>2, Frames DEF TurnOK
<1>7. CASE task.at = "prepare" /\ r.reply = "ok" /\ Prepared(r)
  <2>1. r.fresh \in Credential
    BY <1>3, <1>7 DEF KindOf, RequestOK
  <2>2. CASE /\ saveRotationCandidate(r.fresh)
             /\ slots' = [slots EXCEPT !.candidate = r.fresh]
             /\ confirmStoredCredentialRotation(task.active, r.fresh, task.retry, others)
             /\ UNCHANGED conns
    <3>1. SlotsOK'
      BY <1>1, <2>1, <2>2, SlotsStep
    <3>2. slots'.active = slots.active
      BY <1>1, <2>2 DEF SlotsOK
    <3> QED
      BY <1>1, <1>2, <1>3, <2>1, <2>2, <3>1, <3>2, ConfirmTurn
  <2>3. CASE /\ Send("cancel", task.active, "cancelUnsaved", task.active, NoCredential, FALSE, others)
             /\ UNCHANGED <<slots, transport, conns>>
    <3>1. "cancelUnsaved" \in Waiting /\ "cancel" = KindOf("cancelUnsaved")
      BY DEF Waiting, KindOf
    <3>2. NetOK' /\ LiveOK' /\ TaskOK' /\ ClaimsOK'
      BY <1>1, <1>2, <1>3, <2>3, <3>1, SendStep, ZenonT(30)
    <3> QED
      BY <2>3, <3>2, Frames DEF TurnOK
  <2> QED
    BY <1>7, <2>2, <2>3, ZenonT(30) DEF Prepared, others
<1>8. CASE task.at = "confirm" /\ promoteCredentialAndConnect(task.candidate) /\ Stop(others)
  BY <1>1, <1>2, <1>8, PromoteTurn DEF TaskOK
<1>9. CASE task.at = "confirm" /\ recoverExpiredCredentialRotation(r)
  <2>1. task.candidate \in Credential /\ task.candidate \in MaybeCredential
    BY <1>1, <1>9, NoCredentialFacts DEF TaskOK
  <2>2. CASE /\ slots' = [slots EXCEPT !.candidate = NoCredential] /\ UNCHANGED conns /\ transport' = Unarmed
             /\ Send("cancel", task.active, "cancelExpired", task.active, task.candidate, task.retry, others)
    <3>1. SlotsOK' /\ StreamsOK'
      BY <1>1, <2>2, SlotsStep, UnarmStep
    <3>2. slots'.active = slots.active
      BY <1>1, <2>2 DEF SlotsOK
    <3>3. "cancelExpired" \in Waiting /\ "cancel" = KindOf("cancelExpired")
      BY DEF Waiting, KindOf
    <3>4. NetOK' /\ LiveOK' /\ TaskOK' /\ ClaimsOK'
      BY <1>1, <1>2, <1>3, <2>1, <2>2, <3>2, <3>3, SendStep
    <3> QED
      BY <3>1, <3>4 DEF TurnOK
  <2>3. CASE Stop(others) /\ UNCHANGED slots /\ transport' = Unarmed /\ UNCHANGED conns
    BY <1>1, <1>2, <1>3, <2>3, DiscardTurn
  <2> QED
    BY <1>9, <2>2, <2>3 DEF recoverExpiredCredentialRotation, others
<1>10. CASE task.at = "confirm" /\ recoverRejectedCredentialCandidate(r)
  <2>1. task.candidate \in Credential /\ task.candidate \in MaybeCredential
    BY <1>1, <1>10, NoCredentialFacts DEF TaskOK
  <2>2. /\ UNCHANGED <<slots, conns>> /\ transport' = Unarmed
        /\ Send("cancel", task.active, "cancelRejected", task.active, task.candidate, FALSE, others)
    BY <1>10, ZenonT(30) DEF recoverRejectedCredentialCandidate, others
  <2>3. SlotsOK' /\ StreamsOK'
    BY <1>1, <2>2, UnarmStep, Frames
  <2>4. "cancelRejected" \in Waiting /\ "cancel" = KindOf("cancelRejected")
    BY DEF Waiting, KindOf
  <2>5. NetOK' /\ LiveOK' /\ TaskOK' /\ ClaimsOK'
    BY <1>1, <1>2, <1>3, <2>1, <2>2, <2>4, SendStep, ZenonT(30)
  <2> QED
    BY <2>3, <2>5 DEF TurnOK
<1>11. CASE ExpiredCancelled(r)
  <2>1. CASE /\ prepareFreshCredentialRotation(task.active, FALSE, others) /\ Connect(transport, task.active)
             /\ UNCHANGED slots
    <3>1. SlotsOK' /\ StreamsOK'
      BY <1>1, <1>3, <2>1, ConnectStep, Frames
    <3>2. /\ "cancelFirst" \in Waiting /\ "cancel" = KindOf("cancelFirst")
          /\ Send("cancel", task.active, "cancelFirst", task.active, NoCredential, FALSE, others)
      BY <2>1, ZenonT(30) DEF Waiting, KindOf, prepareFreshCredentialRotation
    <3>3. NetOK' /\ LiveOK' /\ TaskOK' /\ ClaimsOK'
      BY <1>1, <1>2, <1>3, <2>1, <3>2, SendStep, ZenonT(30)
    <3> QED
      BY <3>1, <3>3 DEF TurnOK
  <2>2. CASE Stop(others) /\ Connect(transport, task.active) /\ UNCHANGED slots
    BY <1>1, <1>2, <1>3, <2>2, DiscardTurn
  <2> QED
    BY <1>11, <2>1, <2>2, ZenonT(30) DEF ExpiredCancelled, others
<1>12. CASE RejectedCancelled(r)
  BY <1>1, <1>2, <1>3, <1>12, DiscardTurn DEF RejectedCancelled, others
<1> QED
  BY <1>4, <1>5, <1>6, <1>7, <1>8, <1>9, <1>10, <1>11, <1>12 DEF OnAnswer, others

(* A timeout of the rotation keeps the invariants.                         *)
LEMMA OnTimeoutTurn ==
  ASSUME DeviceInv, OnTimeout
  PROVE  TurnOK
<1> DEFINE others == Abandoned({r \in net : Rotation(r)})
<1>1. /\ NetOK /\ TaskOK /\ task.at \in Waiting /\ task.active \in Credential /\ pairing' = pairing
      /\ Remains(others) /\ NoneLive(others)
  BY AfterTimeout, ZenonT(30) DEF DeviceInv, TaskOK, OnTimeout
<1>2. \/ GiveUp(others) \/ UnsavedCancelled(others) \/ CorruptCancelled(others)
      \/ Stop(others) /\ Connect(transport, task.active) /\ UNCHANGED slots
  BY DEF OnTimeout
<1> HIDE DEF others
<1> QED
  BY <1>1, <1>2, DiscardTurn DEF CorruptCancelled, UnsavedCancelled, GiveUp

(* Taking up a candidate that is stored keeps the invariants.              *)
LEMMA ResumeTurn ==
  ASSUME DeviceInv, task.at \notin Waiting, pairing' = pairing, UNCHANGED <<slots, conns>>,
         slots.active # NoCredential, slots.candidate # NoCredential,
         \/ recoverCorruptRotationState(slots.active, net)
         \/ confirmStoredCredentialRotation(slots.active, slots.candidate, TRUE, net)
  PROVE  TurnOK
<1>1. NetOK /\ LiveOK /\ SlotsOK /\ SlotsOK'
  BY Frames, ZenonT(30) DEF DeviceInv
<1>2. Remains(net) /\ NoneLive(net) /\ slots.active \in Credential /\ slots.candidate \in Credential
  BY <1>1, NotRotating, SlotsFacts
<1>3. TRUE \in BOOLEAN
  OBVIOUS
<1> QED
  BY <1>1, <1>2, <1>3, CorruptTurn, ConfirmTurn, ZenonT(30)

(* Starting a rotation keeps the invariants.                               *)
LEMMA rotateCredentialTurn ==
  ASSUME DeviceInv, rotateCredential
  PROVE  TurnOK
<1>1. NetOK /\ LiveOK /\ SlotsOK /\ TaskOK /\ ClaimsOK /\ pairing' = pairing
  BY DEF DeviceInv, rotateCredential
<1>2. task.at \notin Waiting
  BY DEF rotateCredential, Idle, Waiting
<1>3. Remains(net) /\ NoneLive(net)
  BY <1>1, <1>2, NotRotating
<1>4. CASE slots.active = NoCredential
  BY <1>1, <1>3, <1>4, RequirePairingTurn DEF rotateCredential
<1>5. CASE slots.active # NoCredential
  <2>1. UNCHANGED slots /\ slots.active \in Credential
    BY <1>1, <1>5, SlotsFacts DEF rotateCredential
  <2>2. CASE slots.candidate # NoCredential
    BY <1>1, <1>2, <1>5, <2>1, <2>2, ResumeTurn, ZenonT(30) DEF rotateCredential, resumeRotation
  <2>3. CASE slots.candidate = NoCredential
    <3>1. /\ Send("cancel", slots.active, "cancelFirst", slots.active, NoCredential, TRUE, net)
          /\ UNCHANGED <<transport, conns>>
      BY <1>5, <2>3, ZenonT(30) DEF rotateCredential, resumeRotation, prepareFreshCredentialRotation
    <3>2. "cancelFirst" \in Waiting /\ "cancel" = KindOf("cancelFirst")
      BY DEF Waiting, KindOf
    <3>3. NetOK' /\ LiveOK' /\ TaskOK' /\ ClaimsOK'
      BY <1>1, <1>3, <2>1, <3>1, <3>2, SendStep, NoCredentialFacts, ZenonT(30)
    <3> QED
      BY <2>1, <3>1, <3>3, Frames DEF TurnOK
  <2> QED
    BY <2>2, <2>3
<1> QED
  BY <1>4, <1>5

(* Opening the app keeps the invariants.                                   *)
LEMMA bootstrapTurn ==
  ASSUME DeviceInv, bootstrap
  PROVE  TurnOK
<1>1. /\ NetOK /\ LiveOK /\ SlotsOK /\ TaskOK /\ ClaimsOK /\ StreamsOK
      /\ pairing' = pairing /\ UNCHANGED slots /\ SlotsOK'
  BY Frames DEF DeviceInv, bootstrap
<1>2. task.at \notin Waiting
  BY DEF bootstrap, Waiting
<1>3. Remains(net) /\ NoneLive(net)
  BY <1>1, <1>2, NotRotating
<1>4. CASE Stop(net) /\ (UNCHANGED <<transport, conns>> \/ (slots.active # NoCredential /\ Connect(transport, slots.active)))
  <2>1. NetOK' /\ LiveOK' /\ TaskOK' /\ ClaimsOK'
    BY <1>1, <1>3, <1>4, StopStep
  <2>2. StreamsOK'
    BY <1>1, <1>4, ConnectStep, SlotsFacts, Frames
  <2> QED
    BY <1>1, <2>1, <2>2 DEF TurnOK
<1>5. CASE slots.active # NoCredential /\ slots.candidate # NoCredential
  BY <1>1, <1>2, <1>5, ResumeTurn, ZenonT(30) DEF bootstrap, resumeRotation
<1> QED
  BY <1>4, <1>5, ZenonT(30) DEF bootstrap, resumeRotation

(* The notice of a promotion from the socket keeps the invariants.         *)
LEMMA FromSocketTurn ==
  ASSUME DeviceInv, completeCredentialRotationFromSocket
  PROVE  TurnOK
<1>1. NetOK /\ LiveOK /\ SlotsOK /\ TaskOK /\ ClaimsOK /\ StreamsOK /\ pairing' = pairing
  BY DEF DeviceInv, completeCredentialRotationFromSocket
<1>2. task.at \notin Waiting
  BY DEF completeCredentialRotationFromSocket, Idle, Waiting
<1>3. Remains(net) /\ NoneLive(net)
  BY <1>1, <1>2, NotRotating
<1>4. CASE slots.candidate # NoCredential /\ promoteCredentialAndConnect(slots.candidate) /\ Stop(net)
  BY <1>1, <1>3, <1>4, PromoteTurn, SlotsFacts
<1>5. CASE slots.active # NoCredential /\ Connect(transport, slots.active) /\ Stop(net) /\ UNCHANGED slots
  <2>1. NetOK' /\ LiveOK' /\ TaskOK' /\ ClaimsOK'
    BY <1>1, <1>3, <1>5, StopStep
  <2>2. StreamsOK' /\ SlotsOK'
    BY <1>1, <1>5, ConnectStep, SlotsFacts, Frames
  <2> QED
    BY <2>1, <2>2 DEF TurnOK
<1>6. CASE requirePairingAfterRotationFailure(net)
  BY <1>1, <1>3, <1>6, RequirePairingTurn
<1> QED
  BY <1>4, <1>5, <1>6, ZenonT(30) DEF completeCredentialRotationFromSocket

(* Closed, failed and reopened streams keep DeviceInv.                     *)
LEMMA TransportStepsKeep ==
  ASSUME DeviceInv, scenario' = scenario,
         scheduleReconnect \/ \E s \in conns : onClosed(s) \/ onFailure(s)
  PROVE  DeviceInv'
<1>1. UNCHANGED <<devices, codes, net, revoking, slots, task, pairing, forgetting>> /\ StreamsOK /\ EventsOK
  BY DEF scheduleReconnect, onClosed, onFailure, DeviceInv
<1>2. CoreOK' /\ NetOK' /\ TaskOK' /\ LiveOK' /\ SlotsOK' /\ ClaimsOK'
  BY <1>1, Frames
<1>3. transport \in TransportType
  BY <1>1, ZenonT(30) DEF StreamsOK
<1>4. CASE scheduleReconnect
  <2>1. transport.active \in Credential /\ \A s \in conns : ~s.current
    BY <1>1, <1>4 DEF StreamsOK, scheduleReconnect
  <2>2. transport' \in TransportType /\ transport'.active = transport.active /\ transport'.mode = "open"
    BY <1>3, <1>4 DEF TransportType, scheduleReconnect
  <2>3. StreamsOK'
    BY <1>1, <1>4, <2>1, <2>2, DialFacts DEF StreamsOK, scheduleReconnect
  <2> QED
    BY <1>1, <1>2, <1>4, <2>3, Frames DEF DeviceInv, scheduleReconnect
<1>5. ASSUME NEW s \in conns, onClosed(s) PROVE DeviceInv'
  <2>1. CASE s.code = "4004" /\ transport.armed # NoCredential
    <3>1. /\ transport' = [transport EXCEPT !.active = transport.armed, !.mode = "waiting"]
          /\ events' = Append(events, transport.armed.version) /\ conns' = Dropped
      BY <1>5, <2>1 DEF onClosed
    <3>2. transport.armed \in Credential
      BY <1>3, <2>1 DEF TransportType, MaybeCredential
    <3>3. transport' \in TransportType /\ transport'.active = transport.armed /\ transport'.mode = "waiting"
      BY <1>3, <3>1, ZenonT(30) DEF TransportType
    <3>4. StreamsOK'
      BY <1>1, <3>1, <3>2, <3>3, DropStep
    <3>5. EventsOK'
      BY <1>1, <3>1, <3>2, NoCredentialFacts DEF EventsOK
    <3> QED
      BY <1>2, <3>4, <3>5 DEF DeviceInv
  <2>2. CASE ~(s.code = "4004" /\ transport.armed # NoCredential)
    <3>1. transport' = [transport EXCEPT !.mode = "failed"] /\ UNCHANGED events /\ conns' = Dropped
      BY <1>5, <2>2 DEF onClosed
    <3>2. transport' \in TransportType /\ transport'.mode = "failed"
      BY <1>3, <3>1 DEF TransportType
    <3>3. StreamsOK' /\ EventsOK'
      BY <1>1, <3>1, <3>2, DropStep, Frames
    <3> QED
      BY <1>2, <3>3 DEF DeviceInv
  <2> QED
    BY <2>1, <2>2
<1>6. ASSUME NEW s \in conns, onFailure(s) PROVE DeviceInv'
  <2>1. /\ transport' = [transport EXCEPT !.mode = IF s.code = "401" THEN "failed" ELSE "waiting"]
        /\ conns' = Dropped /\ UNCHANGED events /\ s.current
    BY <1>6 DEF onFailure, Current
  <2>2. transport' \in TransportType /\ transport'.mode \in {"failed", "waiting"} /\ transport'.active = transport.active
    BY <1>3, <2>1 DEF TransportType
  <2>3. transport.active \in Credential
    BY <1>1, <2>1 DEF StreamsOK
  <2>4. StreamsOK' /\ EventsOK'
    BY <1>1, <2>1, <2>2, <2>3, DropStep, Frames
  <2> QED
    BY <1>2, <2>4 DEF DeviceInv
<1> QED
  BY <1>4, <1>5, <1>6

(* Requests that go or are given up leave the other invariants alone.      *)
LEMMA LessStep ==
  ASSUME DeviceInv, NEW others, Remains(others), net' = others, UNCHANGED task,
         \A q \in others : q.live => q \in net
  PROVE  NetOK' /\ LiveOK'
<1>1. NetOK'
  BY DEF DeviceInv, NetOK, RequestOK, Remains
<1>2. LiveOK'
  BY DEF DeviceInv, LiveOK, Rotation, Remains
<1> QED
  BY <1>1, <1>2

(* Pairing, its answer, its timeout, a lost request and forgetting the     *)
(* device keep DeviceInv.                                                  *)
LEMMA PairingStepsKeep ==
  ASSUME DeviceInv, scenario' = scenario,
         \/ \E r \in net : OnPaired(r) \/ LoseRequest(r)
         \/ OnPairingTimeout
         \/ \E c \in Code : pair(c)
         \/ forgetLocalDevice
  PROVE  DeviceInv'
<1>1. UNCHANGED <<devices, codes, revoking, task, events>> /\ pairing' \in BOOLEAN /\ forgetting' \in BOOLEAN
  BY ZenonT(30) DEF OnPaired, LoseRequest, OnPairingTimeout, pair, forgetLocalDevice, clientVars, DeviceInv, EventsOK
<1>2. /\ NetOK /\ StreamsOK /\ TaskOK /\ LiveOK /\ SlotsOK /\ ClaimsOK
      /\ CoreOK' /\ TaskOK' /\ EventsOK'
  BY <1>1, Frames DEF DeviceInv, EventsOK
<1>3. ASSUME NEW r \in net, OnPaired(r) PROVE DeviceInv'
  <2>1. /\ r \in Request /\ RequestOK(r) /\ Claim(r) /\ r.at = "done" /\ net' = net \ {r} /\ pairing' = FALSE
        /\ Remains(net \ {r})
    BY <1>2, <1>3, OnlyRest DEF OnPaired, NetOK
  <2>2. NetOK' /\ LiveOK'
    BY <1>1, <2>1, LessStep
  <2>3. \A q \in net' : ~Claim(q)
    BY <1>2, <2>1 DEF ClaimsOK
  <2>4. ClaimsOK'
    BY <2>3 DEF ClaimsOK, Claim
  <2>5. CASE UNCHANGED <<slots, transport, conns>>
    BY <1>2, <2>2, <2>4, <2>5, Frames DEF DeviceInv
  <2>6. CASE /\ r.reply = "ok" /\ slots' = [active |-> r.fresh, candidate |-> NoCredential]
             /\ Connect(transport, r.fresh)
    <3>1. r.fresh \in Credential
      BY <2>1, <2>6, ZenonT(30) DEF RequestOK, Claim
    <3>2. SlotsOK' /\ StreamsOK'
      BY <1>2, <2>6, <3>1, SlotsStep, ConnectStep
    <3> QED
      BY <1>2, <2>2, <2>4, <3>2 DEF DeviceInv
  <2> QED
    BY <1>3, <2>5, <2>6 DEF OnPaired
<1>4. ASSUME NEW r \in net, LoseRequest(r) PROVE DeviceInv'
  <2>1. UNCHANGED <<conns, slots, transport, pairing, forgetting>> /\ net' = net \ {r} /\ Remains(net \ {r})
    BY <1>2, <1>4, OnlyRest DEF LoseRequest, clientVars
  <2>2. NetOK' /\ LiveOK'
    BY <1>1, <2>1, LessStep
  <2>3. ClaimsOK'
    BY <1>2, <2>1 DEF ClaimsOK, Claim
  <2> QED
    BY <1>2, <2>1, <2>2, <2>3, Frames DEF DeviceInv
<1>5. CASE OnPairingTimeout
  <2> DEFINE S == {r \in net : Claim(r)}
             others == Abandoned(S)
  <2>1. UNCHANGED <<conns, slots, transport, forgetting>> /\ net' = others
    BY <1>5 DEF OnPairingTimeout
  <2>2. Remains(others) /\ \A q \in others : q.live => q \in net /\ q \notin S
    BY <1>2, AbandonedFacts
  <2> HIDE DEF others
  <2>3. NetOK' /\ LiveOK'
    BY <1>1, <2>1, <2>2, LessStep
  <2>4. \A q \in net' : ~Claim(q)
    BY <2>1, <2>2 DEF Claim
  <2>5. ClaimsOK'
    BY <2>4 DEF ClaimsOK, Claim
  <2> QED
    BY <1>2, <2>1, <2>3, <2>5, Frames DEF DeviceInv
<1>6. ASSUME NEW c \in Code, pair(c) PROVE DeviceInv'
  <2> DEFINE q == Ask("claim", NoCredential, c)
  <2>1. /\ q \in Request /\ q.kind = "claim" /\ q.code = c /\ q.at = "sent" /\ q.live = TRUE /\ q.reply = "none"
    BY DEF Ask, Request
  <2>2. /\ net' = net \cup {q} /\ ~pairing /\ pairing' = TRUE /\ slots.active = NoCredential
        /\ UNCHANGED <<conns, slots, transport, forgetting>>
    BY <1>6 DEF pair
  <2> HIDE DEF q
  <2>3. RequestOK(q)
    BY <2>1 DEF RequestOK
  <2>4. NetOK'
    BY <1>2, <2>1, <2>2, <2>3 DEF NetOK, RequestOK
  <2>5. LiveOK'
    BY <1>1, <1>2, <2>1, <2>2 DEF LiveOK, Rotation
  <2>6. ClaimsOK'
    BY <1>2, <2>1, <2>2 DEF ClaimsOK, Claim
  <2> QED
    BY <1>2, <2>2, <2>4, <2>5, <2>6, Frames DEF DeviceInv
<1>7. CASE forgetLocalDevice
  <2>1. /\ UNCHANGED <<net, pairing>>
        /\ (disconnect /\ UNCHANGED slots) \/ (slots' \in {NoSlots, slots} /\ UNCHANGED <<transport, conns>>)
    BY <1>7 DEF forgetLocalDevice
  <2>2. StreamsOK' /\ SlotsOK'
    BY <1>2, <2>1, DisconnectStep, SlotsStep, Frames
  <2>3. slots'.active \in {slots.active, NoCredential}
    BY <2>1 DEF NoSlots
  <2>4. ClaimsOK' /\ NetOK' /\ LiveOK'
    BY <1>1, <1>2, <2>1, <2>3, Frames DEF ClaimsOK, Claim
  <2> QED
    BY <1>2, <2>2, <2>4 DEF DeviceInv
<1> QED
  BY <1>3, <1>4, <1>5, <1>6, <1>7

(* A restart of the app keeps DeviceInv.                                   *)
LEMMA AppRestartKeeps ==
  ASSUME DeviceInv, scenario' = scenario, AppRestart
  PROVE  DeviceInv'
<1> DEFINE S == {r \in net : r.live}
           others == Abandoned(S)
<1>1. /\ UNCHANGED <<devices, codes, revoking, slots>> /\ net' = others /\ task' = [Idle EXCEPT !.at = "boot"]
      /\ transport' = Offline /\ conns' = Dropped /\ events' = <<>> /\ pairing' = FALSE /\ forgetting' = FALSE
      /\ NetOK /\ StreamsOK
  BY DEF AppRestart, DeviceInv
<1>2. Remains(others) /\ \A q \in others : q.live => q \in net /\ q \notin S
  BY <1>1, AbandonedFacts
<1> HIDE DEF others
<1>3. \A q \in net' : ~q.live
  BY <1>1, <1>2
<1>4. NetOK'
  BY <1>1, <1>2 DEF NetOK, RequestOK, Remains
<1>5. LiveOK' /\ ClaimsOK'
  BY <1>3 DEF LiveOK, Rotation, ClaimsOK, Claim
<1>6. task' \in TaskState /\ task'.at = "boot"
  BY <1>1, ZenonT(30) DEF Idle, TaskState
<1>7. TaskOK'
  BY <1>6 DEF TaskOK, Waiting
<1>8. StreamsOK'
  BY <1>1, DisconnectStep DEF disconnect
<1>9. CoreOK' /\ SlotsOK'
  BY <1>1, Frames
<1>10. <<>> \in Seq(1..MaxVersion)
  OBVIOUS
<1>11. EventsOK'
  BY <1>1, <1>10, ZenonT(30) DEF EventsOK
<1> QED
  BY <1>4, <1>5, <1>7, <1>8, <1>9, <1>11 DEF DeviceInv

(* Every step of the client keeps DeviceInv.                               *)
LEMMA ClientStepKeeps ==
  ASSUME DeviceInv, scenario' = scenario, ClientStep
  PROVE  DeviceInv'
<1>1. CASE \/ \E r \in net : OnAnswer(r)
           \/ OnTimeout \/ completeCredentialRotationFromSocket \/ rotateCredential \/ bootstrap
  <2>1. TurnOK
    BY <1>1, OnAnswerTurn, OnTimeoutTurn, FromSocketTurn, rotateCredentialTurn, bootstrapTurn
  <2>2. UNCHANGED <<devices, codes, revoking, pairing, forgetting>> /\ (UNCHANGED events \/ (events # <<>> /\ events' = Tail(events)))
    BY <1>1, ZenonT(30) DEF OnAnswer, OnTimeout, completeCredentialRotationFromSocket, rotateCredential, bootstrap
  <2>3. EventsOK'
    BY <2>2 DEF DeviceInv, EventsOK
  <2> QED
    BY <2>1, <2>2, <2>3, Frames DEF DeviceInv, TurnOK
<1>2. CASE scheduleReconnect \/ \E s \in conns : onClosed(s) \/ onFailure(s)
  BY <1>2, TransportStepsKeep
<1>3. CASE \/ \E r \in net : OnPaired(r) \/ LoseRequest(r)
           \/ OnPairingTimeout
           \/ \E c \in Code : pair(c)
           \/ forgetLocalDevice
  BY <1>3, PairingStepsKeep
<1>4. CASE AppRestart
  BY <1>4, AppRestartKeeps
<1> QED
  BY <1>1, <1>2, <1>3, <1>4 DEF ClientStep

(* DeviceInv holds at the start.                                           *)
LEMMA InitDevice == Init => DeviceInv
<1> SUFFICES ASSUME Init PROVE DeviceInv
  OBVIOUS
<1>1. /\ net = {} /\ conns = {} /\ revoking = {} /\ events = <<>> /\ transport = Offline
      /\ task = [Idle EXCEPT !.at = "boot"] /\ pairing = FALSE /\ forgetting = FALSE
      /\ scenario \in Scenario /\ codes = [c \in Code |-> "absent"]
  BY DEF Init
<1>2. devices \in [Device -> Row] /\ SlotsOK
  <2>1. CASE Unpaired
    <3>1. 0 \in 0..MaxVersion
      BY Assumptions
    <3>2. NoRow \in Row
      BY <3>1 DEF Row, NoRow
    <3>3. SlotsOK
      BY <2>1, NoCredentialFacts DEF Unpaired, NoSlots, SlotsOK, SlotsAgree
    <3> QED
      BY <2>1, <3>2, <3>3 DEF Unpaired
  <2>2. ASSUME NEW d \in Device, NEW t \in Token, Paired(d, t) PROVE devices \in [Device -> Row] /\ SlotsOK
    <3> DEFINE row == [NoRow EXCEPT !.active = t, !.version = 1]
               cred == [device |-> d, token |-> t, version |-> 1]
    <3>a. 0 \in 0..MaxVersion /\ 1 \in 0..MaxVersion
      BY Assumptions
    <3>1. row \in Row /\ NoRow \in Row
      BY <3>a, ZenonT(30) DEF Row, NoRow
    <3>2. devices = [x \in Device |-> IF x = d THEN row ELSE NoRow]
      BY <2>2 DEF Paired
    <3>3. cred \in Credential
      BY Assumptions DEF Credential
    <3>4. slots = [active |-> cred, candidate |-> NoCredential]
      BY <2>2 DEF Paired
    <3> HIDE DEF row, cred
    <3> QED
      BY <3>1, <3>2, <3>3, <3>4 DEF SlotsOK, SlotsAgree, MaybeCredential
  <2> QED
    BY <2>1, <2>2 DEF Init
<1>3. CoreOK
  BY <1>1, <1>2 DEF CoreOK
<1>4. NetOK /\ LiveOK /\ ClaimsOK
  BY <1>1 DEF NetOK, LiveOK, ClaimsOK
<1>5. StreamsOK
  BY <1>1, NoCredentialFacts DEF StreamsOK, Offline, TransportType
<1>6. task \in TaskState /\ task.at = "boot"
  BY <1>1, ZenonT(30) DEF Idle, TaskState
<1>7. TaskOK
  BY <1>6 DEF TaskOK, Waiting
<1>8. EventsOK
  <2>1. <<>> \in Seq(1..MaxVersion)
    OBVIOUS
  <2> QED
    BY <1>1, <2>1, ZenonT(30) DEF EventsOK
<1> QED
  BY <1>2, <1>3, <1>4, <1>5, <1>7, <1>8 DEF DeviceInv

(* Every step of Core keeps DeviceInv.                                     *)
LEMMA CoreStepKeeps ==
  ASSUME DeviceInv, scenario' = scenario, CoreStep
  PROVE  DeviceInv'
<1>1. UNCHANGED <<clientVars, scenario>>
  BY DEF CoreStep
<1>2. CASE Handlers
  <2>1. ASSUME NEW r \in net, NEW t \in Token \ HeldTokens,
               handleClaimPairing(r, t) \/ PrepareDeviceCredentialRotation(r, t)
        PROVE  DeviceInv'
    <3>1. t \in Token
      OBVIOUS
    <3> QED
      BY <1>1, <2>1, <3>1, HandlersKeep
  <2>2. ASSUME NEW r \in net,
               \/ VerifyForConfirm(r)
               \/ ConfirmDeviceCredentialRotation(r)
               \/ closeDeviceSocketsAfterCredentialRotation(r)
               \/ handleCancelDeviceCredentialRotation(r)
        PROVE  DeviceInv'
    <3>1. RequestOK(r) /\ (r.kind \in {"confirm", "cancel"} \/ r.at = "committed")
      BY <2>2, ZenonT(30) DEF DeviceInv, NetOK, VerifyForConfirm, ConfirmDeviceCredentialRotation, ConfirmRequested,
                  closeDeviceSocketsAfterCredentialRotation, handleCancelDeviceCredentialRotation
    <3>2. r.cred.token \in Token
      BY <3>1, NoCredentialFacts DEF RequestOK
    <3> QED
      BY <1>1, <2>2, <3>2, HandlersKeep
  <2>3. ASSUME NEW s \in conns,
               \/ AuthenticateStream(s) \/ registerDeviceSocket(s) \/ RevalidateStream(s)
               \/ PingStream(s) \/ unregisterDeviceSocket(s)
        PROVE  DeviceInv'
    BY <1>1, <2>3, StreamHandlersKeep
  <2>4. ASSUME NEW d \in Device, closeDeviceSockets(d) PROVE DeviceInv'
    BY <1>1, <2>4, TableStepsKeep
  <2> QED
    BY <1>2, <2>1, <2>2, <2>3, <2>4 DEF Handlers
<1> QED
  BY <1>1, <1>2, TableStepsKeep, CoreRestartKeeps DEF CoreStep

(* DeviceInv holds in every behaviour of Core and the client: among the    *)
(* rest, the client waits for at most one answer, and it is to the request *)
(* its rotation coroutine made (the rotation coroutine of                  *)
(* VeqriRepository.kt, the handlers of                                     *)
(* internal/api/device_credentials.go).                                    *)
THEOREM DeviceInvHolds == Spec => []DeviceInv
<1>1. DeviceInv /\ [Next]_vars => DeviceInv'
  <2> SUFFICES ASSUME DeviceInv, [Next]_vars PROVE DeviceInv'
    OBVIOUS
  <2>1. CASE UNCHANGED vars
    BY <2>1, Frames DEF vars, coreVars, clientVars, DeviceInv
  <2>2. CASE Next
    BY <2>2, CoreStepKeeps, ClientStepKeeps DEF Next
  <2> QED
    BY <2>1, <2>2
<1> QED
  BY <1>1, InitDevice, PTL DEF Spec

(* DeviceInv is stronger than CredentialsWellFormed.                       *)
LEMMA DeviceInvImplies == DeviceInv => CredentialsWellFormed
<1> SUFFICES ASSUME DeviceInv PROVE CredentialsWellFormed
  OBVIOUS
<1>1. CoreOK /\ NetOK /\ StreamsOK /\ TaskOK /\ SlotsOK /\ EventsOK
  BY DEF DeviceInv
<1>2. (transport.mode = "open") = \E s \in conns : {t \in conns : t.current} = {s}
  <2>1. ASSUME transport.mode = "open" PROVE \E s \in conns : {t \in conns : t.current} = {s}
    BY <1>1, <2>1 DEF StreamsOK
  <2>2. ASSUME NEW s \in conns, {t \in conns : t.current} = {s} PROVE transport.mode = "open"
    BY <1>1, <2>2 DEF StreamsOK
  <2> QED
    BY <2>1, <2>2, ZenonT(30)
<1>3. TypeOK
  BY <1>1, <1>2, ZenonT(30) DEF CoreOK, NetOK, StreamsOK, TaskOK, SlotsOK, EventsOK, TypeOK, TransportType, MaybeCredential
<1> QED
  BY <1>1, <1>3 DEF CredentialsWellFormed, SlotsOK

(* What the Keystore slots, the transport and the table hold is well       *)
(* formed: a stored candidate belongs to the device of the active slot and *)
(* has a later key version, however answers, timeouts, crashes and         *)
(* restarts fall (core/persistence/devices.go,                             *)
(* AndroidKeystoreCredentialStore).                                        *)
THEOREM CredentialsWellFormedHolds == Spec => []CredentialsWellFormed
  BY DeviceInvHolds, DeviceInvImplies, PTL

\* The code a device was paired with is consumed, so no other device is
\* paired with it.
CodesInv ==
    /\ \A d \in Device : devices[d].code # None => codes[devices[d].code] = "consumed"
    /\ SingleUseCode

-----------------------------------------------------------------------------
(* One-time codes                                                          *)

(* Rows keep their codes and consumed codes stay consumed.                 *)
LEMMA CodesFrame ==
  ASSUME CodesInv, \A d \in Device : devices'[d].code = devices[d].code,
         \A c \in Code : codes[c] = "consumed" => codes'[c] = "consumed",
         \A d \in Device : devices[d].code # None => devices[d].code \in Code
  PROVE  CodesInv'
  BY DEF CodesInv, SingleUseCode

(* A row changes and keeps its code.                                       *)
LEMMA SameCodes ==
  ASSUME DeviceInv, CodesInv, UNCHANGED codes, NEW d \in Device, NEW row, OnlyRow(d, row),
         row.code = devices[d].code
  PROVE  CodesInv'
<1>1. \A e \in Device : devices'[e].code = devices[e].code
  BY OneRow DEF DeviceInv
<1> QED
  BY <1>1, RowCodes, CodesFrame

(* Every step keeps CodesInv: pairing takes an open code and consumes it   *)
(* in the transaction that stores the device.                              *)
LEMMA CodesStep ==
  ASSUME DeviceInv, CodesInv, [Next]_vars
  PROVE  CodesInv'
<1> DEFINE Same == UNCHANGED <<devices, codes>>
<1>1. CASE Same
  BY <1>1, RowCodes, CodesFrame
<1>2. ASSUME NEW r \in net, NEW t, handleClaimPairing(r, t) PROVE CodesInv'
  <2>1. CASE ClaimChange(r, t)
    <3>1. PICK d \in Device : /\ devices[d] = NoRow /\ OnlyRow(d, NewRow(r.code, t)) /\ Claimable(r.code)
                              /\ codes' = [codes EXCEPT ![r.code] = "consumed"]
      BY <2>1 DEF ClaimChange
    <3>2. r.code \in Code /\ codes \in [Code -> {"absent", "open", "expired", "consumed"}] /\ CoreOK
      BY <1>2, ZenonT(30) DEF handleClaimPairing, DeviceInv, NetOK, RequestOK, CoreOK
    <3>3. /\ devices'[d].code = r.code /\ \A e \in Device : e # d => devices'[e] = devices[e]
          /\ codes'[r.code] = "consumed" /\ \A c \in Code : c # r.code => codes'[c] = codes[c]
      <4>1. NewRow(r.code, t).code = r.code
        BY NewRowFields
      <4> QED
        BY <3>1, <3>2, <4>1, OneRow, ZenonT(30)
    <3>4. \A e \in Device : devices[e].code # r.code
      BY <3>1, <3>2, Assumptions DEF CodesInv, Claimable
    <3> QED
      BY <3>2, <3>3, <3>4, RowCodes DEF CodesInv, SingleUseCode
  <2> QED
    BY <1>1, <1>2, <2>1, ClaimCases
<1>3. ASSUME NEW r \in net, NEW t, PrepareDeviceCredentialRotation(r, t) PROVE CodesInv'
  <2>1. r.cred.device \in Device /\ devices[r.cred.device] \in Row
    BY <1>3, PrepareCases, RequestOfHandler, RowCodes
  <2>2. CASE PrepareChange(r, t)
    <3>a. PICK v : v = devices[r.cred.device].version + 1
      OBVIOUS
    <3>b. PICK new : new = Pending(devices[r.cred.device], t, v)
      OBVIOUS
    <3>1. new.code = devices[r.cred.device].code
      BY <2>1, <3>b, PendingFields
    <3>2. OnlyRow(r.cred.device, new) /\ UNCHANGED codes
      BY <1>3, <2>2, <3>a, <3>b, PrepareCases, ZenonT(30) DEF PrepareChange
    <3> QED
      BY <2>1, <3>1, <3>2, SameCodes
  <2> QED
    BY <1>1, <1>3, <2>2, PrepareCases
<1>4. ASSUME NEW r \in net, ConfirmDeviceCredentialRotation(r) PROVE CodesInv'
  <2>1. CASE ConfirmChange(r)
    <3>1. r.owner \in Device /\ devices[r.owner] \in Row /\ UNCHANGED codes
      BY <1>4, ConfirmCases, RowCodes, ZenonT(30)
    <3>2. Promoted(devices[r.owner]).code = devices[r.owner].code
      BY <3>1, RowFields
    <3> QED
      BY <2>1, <3>1, <3>2, SameCodes, ZenonT(30) DEF ConfirmChange
  <2> QED
    BY <1>1, <1>4, <2>1, ConfirmCases, ZenonT(30)
<1>5. ASSUME NEW r \in net, handleCancelDeviceCredentialRotation(r) PROVE CodesInv'
  <2>1. r.cred.device \in Device /\ devices[r.cred.device] \in Row
    BY <1>5, CancelCases, RequestOfHandler, RowCodes, ZenonT(30)
  <2>2. CASE CancelChange(r)
    <3> DEFINE v == 0
               new == Pending(devices[r.cred.device], None, v)
    <3> HIDE DEF v
    <3>1. new.code = devices[r.cred.device].code
      BY <2>1, PendingFields
    <3>2. OnlyRow(r.cred.device, new) /\ UNCHANGED codes
      BY <1>5, <2>2, CancelCases DEF CancelChange, v
    <3> HIDE DEF new
    <3> QED
      BY <2>1, <3>1, <3>2, SameCodes, ZenonT(30)
  <2> QED
    BY <1>1, <1>5, <2>2, CancelCases
<1>6. ASSUME NEW d \in Device, PendingExpires(d) \/ RevokeDevice(d) PROVE CodesInv'
  <2> DEFINE old == [devices[d] EXCEPT !.expired = TRUE]
             gone == [devices[d] EXCEPT !.revoked = TRUE]
  <2>1. old.code = devices[d].code /\ gone.code = devices[d].code
    BY RowCodes, RowFields
  <2>2. UNCHANGED codes /\ (OnlyRow(d, old) \/ OnlyRow(d, gone))
    BY <1>6, TableCases DEF TableChange
  <2> HIDE DEF old, gone
  <2> QED
    BY <2>1, <2>2, SameCodes
<1>7. ASSUME NEW c \in Code, CreatePairingSession(c) \/ PairingExpires(c) PROVE CodesInv'
  <2>1. UNCHANGED devices /\ codes[c] # "consumed"
        /\ (codes' = [codes EXCEPT ![c] = "open"] \/ codes' = [codes EXCEPT ![c] = "expired"])
    BY <1>7 DEF CreatePairingSession, PairingExpires
  <2>2. \A x \in Code : codes[x] = "consumed" => codes'[x] = "consumed"
    BY <2>1 DEF DeviceInv, CoreOK
  <2> QED
    BY <2>1, <2>2, RowCodes, CodesFrame
<1>8. CASE CoreStep
  <2>1. CASE Handlers
    <3>1. ASSUME NEW r \in net, VerifyForConfirm(r) \/ closeDeviceSocketsAfterCredentialRotation(r) PROVE Same
      BY <3>1 DEF VerifyForConfirm, closeDeviceSocketsAfterCredentialRotation
    <3>2. ASSUME NEW s \in conns,
                 \/ AuthenticateStream(s) \/ registerDeviceSocket(s) \/ RevalidateStream(s)
                 \/ PingStream(s) \/ unregisterDeviceSocket(s)
          PROVE  Same
      BY <3>2 DEF AuthenticateStream, registerDeviceSocket, RevalidateStream, PingStream, unregisterDeviceSocket
    <3>3. ASSUME NEW d \in Device, closeDeviceSockets(d) PROVE Same
      BY <3>3 DEF closeDeviceSockets
    <3> QED
      BY <1>1, <1>2, <1>3, <1>4, <1>5, <2>1, <3>1, <3>2, <3>3 DEF Handlers
  <2> QED
    BY <1>1, <1>6, <1>7, <1>8, <2>1, ZenonT(30) DEF CoreStep, CoreRestart
<1> QED
  BY <1>1, <1>8, ClientLeavesTable DEF Next, vars, coreVars

(* A pairing code pairs at most one device: two claims of one code,        *)
(* whatever their order and whatever restarts lie between, cannot both     *)
(* store a device (ClaimPairingSession of core/persistence/devices.go).    *)
THEOREM SingleUseCodeHolds == Spec => []SingleUseCode
<1>1. Init => CodesInv
  <2>1. NoRow.code = None
    BY DEF NoRow
  <2>2. ASSUME Init, NEW x \in Device PROVE devices[x].code = None
    <3>1. ASSUME NEW d, NEW t, Paired(d, t) PROVE devices[x].code = None
      <4>1. [NoRow EXCEPT !.active = t, !.version = 1].code = None
        BY DEF NoRow
      <4>2. devices[x] = IF x = d THEN [NoRow EXCEPT !.active = t, !.version = 1] ELSE NoRow
        BY <3>1 DEF Paired
      <4> QED
        BY <2>1, <4>1, <4>2
    <3>2. CASE Unpaired
      BY <2>1, <3>2 DEF Unpaired
    <3> QED
      BY <2>2, <3>1, <3>2 DEF Init
  <2>3. Init => \A d \in Device : devices[d].code = None
    BY <2>2
  <2> QED
    BY <2>3 DEF CodesInv, SingleUseCode
<1>2. DeviceInv /\ CodesInv /\ [Next]_vars => CodesInv'
  BY CodesStep
<1>3. CodesInv => SingleUseCode
  BY DEF CodesInv
<1> QED
  BY <1>1, <1>2, <1>3, DeviceInvHolds, PTL DEF Spec

-----------------------------------------------------------------------------
(* Streams                                                                 *)

\* Every live stream was live before.
LiveFrom == \A t \in conns' : t.at = "live" => \E s \in conns : s.at = "live" /\ s.cred = t.cred

\* A confirmation that still has streams to close is not lost.
CommittedStay == \A r \in net : r.at = "committed" =>
                    \E q \in net' : q.at = "committed" /\ q.owner = r.owner /\ q.cred = r.cred

\* A credential that Core accepts stays so, or its streams are about to be closed.
StillAccepted ==
    \A c \in Credential : Accepts(c) =>
        \/ Accepts(c)' \/ c.device \in revoking'
        \/ \E q \in net' : q.at = "committed" /\ q.owner = c.device

(* No stream goes live, no closing is lost, and what was accepted is       *)
(* accepted or about to be closed: NoStaleStream stays.                    *)
LEMMA StaleFrame ==
  ASSUME StreamsOK, NoStaleStream, LiveFrom, CommittedStay, StillAccepted, revoking \subseteq revoking'
  PROVE  NoStaleStream'
<1> SUFFICES ASSUME NEW t \in conns', t.at = "live"
             PROVE  \/ Accepts(t.cred)' \/ t.cred.device \in revoking'
                    \/ \E q \in net' : q.at = "committed" /\ q.owner = t.cred.device
  BY DEF NoStaleStream
<1>1. PICK s \in conns : s.at = "live" /\ s.cred = t.cred
  BY DEF LiveFrom
<1>2. t.cred \in Credential
  BY <1>1 DEF StreamsOK, Stream
<1> QED
  BY <1>1, <1>2 DEF NoStaleStream, CommittedStay, StillAccepted

(* Rows keep their active credential and are not revoked.                  *)
LEMMA AcceptsFrame ==
  ASSUME \A d \in Device : devices'[d].active = devices[d].active /\ devices'[d].revoked = devices[d].revoked
  PROVE  StillAccepted
  BY DEF StillAccepted, Accepts, VerifyDeviceCredential, Credential

(* A change of the pending credential leaves accepted what was.             *)
LEMMA PendingAccepted ==
  ASSUME CoreOK, NEW d \in Device, devices[d] \in Row, NEW fresh, NEW v,
         OnlyRow(d, Pending(devices[d], fresh, v))
  PROVE  StillAccepted
<1>1. devices'[d] = Pending(devices[d], fresh, v) /\ \A e \in Device : e # d => devices'[e] = devices[e]
  BY OneRow, ZenonT(30)
<1>2. devices'[d].active = devices[d].active /\ devices'[d].revoked = devices[d].revoked
  BY <1>1, PendingKeeps
<1> QED
  BY <1>1, <1>2, AcceptsFrame

(* The client makes no stream live.                                        *)
LEMMA RedialLive ==
  ASSUME StreamsOK, Redial
  PROVE  LiveFrom
<1>1. \A c : Dial(c).at = "dialing"
  BY DEF Dial
<1> QED
  BY <1>1, DroppedFacts DEF LiveFrom, Redial

(* A confirmation that the client gives up goes on in Core.                *)
LEMMA AbandonedStay ==
  ASSUME NetOK, NEW S \in SUBSET net, Abandoned(S) \subseteq net'
  PROVE  CommittedStay
<1> SUFFICES ASSUME NEW r \in net, r.at = "committed"
             PROVE  \E q \in net' : q.at = "committed" /\ q.owner = r.owner /\ q.cred = r.cred
  BY DEF CommittedStay
<1>1. CASE r \notin S
  BY <1>1 DEF Abandoned
<1>2. CASE r \in S
  <2> DEFINE q == [r EXCEPT !.live = FALSE]
  <2>1. q.at = "committed" /\ q.owner = r.owner /\ q.cred = r.cred
    BY DEF NetOK, Request
  <2>2. q \in Abandoned(S)
    BY <1>2, ZenonT(30) DEF Abandoned
  <2> QED
    BY <2>1, <2>2, ZenonT(30)
<1> QED
  BY <1>1, <1>2

(* A request that is not committed is gone.                                *)
LEMMA LessOneStays ==
  ASSUME NEW r \in net, r.at # "committed", net \ {r} \subseteq net'
  PROVE  CommittedStay
  BY DEF CommittedStay

(* The client cannot stop a committed confirmation.                        *)
LEMMA ClientCommitted ==
  ASSUME DeviceInv, ClientStep
  PROVE  CommittedStay
<1> USE DEF Stop, Send
<1>0. NetOK
  BY DEF DeviceInv
<1>1. ASSUME NEW others, \/ requirePairingAfterRotationFailure(others)
                         \/ CorruptCancelled(others) \/ UnsavedCancelled(others) \/ GiveUp(others)
                         \/ \E a : recoverCorruptRotationState(a, others)
                         \/ \E a, b, c : prepareFreshCredentialRotation(a, b, others)
                                         \/ confirmStoredCredentialRotation(a, b, c, others)
      PROVE  others \subseteq net'
  BY <1>1 DEF requirePairingAfterRotationFailure, CorruptCancelled, UnsavedCancelled, GiveUp,
              recoverCorruptRotationState, prepareFreshCredentialRotation, confirmStoredCredentialRotation
<1>2. ASSUME NEW r \in net, OnAnswer(r) PROVE CommittedStay
  <2>1. net \ {r} \subseteq net'
    BY <1>1, <1>2, ZenonT(30) DEF OnAnswer, Prepared, recoverExpiredCredentialRotation,
                      recoverRejectedCredentialCandidate, ExpiredCancelled, RejectedCancelled
  <2> QED
    BY <1>2, <2>1, LessOneStays DEF OnAnswer
<1>3. CASE OnTimeout
  <2>1. Abandoned({r \in net : Rotation(r)}) \subseteq net'
    BY <1>1, <1>3 DEF OnTimeout
  <2> QED
    BY <1>0, <2>1, AbandonedStay, ZenonT(30)
<1>4. CASE completeCredentialRotationFromSocket \/ rotateCredential \/ bootstrap
  <2>1. net \subseteq net'
    BY <1>1, <1>4, ZenonT(30) DEF completeCredentialRotationFromSocket, rotateCredential, bootstrap, resumeRotation
  <2> QED
    BY <2>1 DEF CommittedStay
<1>5. ASSUME NEW r \in net, OnPaired(r) \/ LoseRequest(r) PROVE CommittedStay
  BY <1>5, LessOneStays DEF OnPaired, LoseRequest
<1>6. CASE OnPairingTimeout \/ AppRestart
  BY <1>0, <1>6, AbandonedStay DEF OnPairingTimeout, AppRestart
<1>7. CASE \/ forgetLocalDevice \/ scheduleReconnect
           \/ \E c \in Code : pair(c)
           \/ \E s \in conns : onClosed(s) \/ onFailure(s)
  BY <1>7 DEF forgetLocalDevice, scheduleReconnect, pair, onClosed, onFailure, CommittedStay
<1> QED
  BY <1>2, <1>3, <1>4, <1>5, <1>6, <1>7 DEF ClientStep

(* Answering or moving another request on loses no committed confirmation. *)
LEMMA AnswerStays ==
  ASSUME NEW r \in net, r.at # "committed",
         \/ \E reply : Answer(r, reply)
         \/ \E reply, fresh : net' = (net \ {r}) \cup Answered(r, reply, fresh)
         \/ \E at, d : Advance(r, at, d)
  PROVE  CommittedStay
  BY LessOneStays, ZenonT(30) DEF Answer, Advance

(* After a closing the live streams are other devices'.                    *)
LEMMA CloseAllLive ==
  ASSUME StreamsOK, NEW d, NEW code, CloseAll(d, code)
  PROVE  \A t \in conns' : t.at = "live" => t \in conns /\ t.cred.device # d
<1> DEFINE open == {s \in conns : s.cred.device = d /\ s.at \in {"registered", "live"}}
<1>1. conns' = (conns \ open) \cup UNION {Ended(s, code) : s \in open}
  BY DEF CloseAll
<1>2. \A s \in conns : \A t \in Ended(s, code) : t.at = "closed"
  BY ZenonT(30) DEF Ended, StreamsOK, Stream
<1> QED
  BY <1>1, <1>2

(* The HTTP handlers keep NoStaleStream: a commit that replaces the active *)
(* credential leaves the closing of its streams to be done, and the        *)
(* closing leaves no live stream of the device.                            *)
LEMMA StaleHandlers ==
  ASSUME DeviceInv, NoStaleStream, NEW r \in net, NEW fresh,
         \/ handleClaimPairing(r, fresh)
         \/ PrepareDeviceCredentialRotation(r, fresh)
         \/ VerifyForConfirm(r)
         \/ ConfirmDeviceCredentialRotation(r)
         \/ closeDeviceSocketsAfterCredentialRotation(r)
         \/ handleCancelDeviceCredentialRotation(r)
  PROVE  NoStaleStream'
<1>1. CoreOK /\ NetOK /\ StreamsOK
  BY DEF DeviceInv
<1>2. ASSUME UNCHANGED <<conns, revoking>>, CommittedStay, StillAccepted PROVE NoStaleStream'
  BY <1>1, <1>2, StaleFrame DEF LiveFrom
<1>3. UNCHANGED devices => StillAccepted
  BY AcceptsFrame
<1>4. CASE handleClaimPairing(r, fresh)
  <2>1. CASE ClaimChange(r, fresh)
    <3>1. PICK d \in Device : /\ devices[d] = NoRow /\ OnlyRow(d, NewRow(r.code, fresh))
                              /\ net' = (net \ {r}) \cup Answered(r, "ok", [device |-> d, token |-> fresh, version |-> 1])
      BY <2>1 DEF ClaimChange
    <3>2. \A e \in Device : e # d => devices'[e] = devices[e]
      BY <1>1, <3>1, OneRow, ZenonT(30)
    <3>3. \A c \in Credential : Accepts(c) => c.device # d
      BY <1>1, <3>1, RowFacts, NoCredentialFacts, Assumptions, ZenonT(30) DEF Accepts, VerifyDeviceCredential
    <3>4. StillAccepted
      BY <3>2, <3>3, ZenonT(30) DEF StillAccepted, Accepts, VerifyDeviceCredential
    <3>5. CommittedStay
      BY <1>4, <3>1, AnswerStays, ClaimCases
    <3> QED
      BY <1>2, <1>4, <3>4, <3>5, ClaimCases
  <2>2. CASE UNCHANGED devices /\ Answer(r, "conflict")
    BY <1>2, <1>3, <1>4, <2>2, ClaimCases, AnswerStays
  <2> QED
    BY <1>4, <2>1, <2>2, ClaimCases
<1>5. CASE PrepareDeviceCredentialRotation(r, fresh)
  <2>1. UNCHANGED <<conns, revoking>> /\ r.at # "committed"
    BY <1>5, PrepareCases
  <2>2. CASE PrepareChange(r, fresh)
    <3>1. r.cred.device \in Device /\ devices[r.cred.device] \in Row
      BY <1>5, PrepareCases, RequestOfHandler, RowCodes, ZenonT(30)
    <3>2. PICK v, c : /\ OnlyRow(r.cred.device, Pending(devices[r.cred.device], fresh, v))
                      /\ net' = (net \ {r}) \cup Answered(r, "ok", c)
      BY <2>2, ZenonT(30) DEF PrepareChange
    <3>4. StillAccepted
      BY <1>1, <3>1, <3>2, PendingAccepted, ZenonT(30)
    <3> QED
      BY <1>2, <2>1, <3>2, <3>4, AnswerStays, ZenonT(30)
  <2> QED
    BY <1>2, <1>3, <1>5, <2>1, <2>2, PrepareCases, AnswerStays
<1>6. CASE VerifyForConfirm(r)
  <2>1. UNCHANGED <<devices, conns, revoking>> /\ CommittedStay
    BY <1>6, AnswerStays, ZenonT(30) DEF VerifyForConfirm
  <2> QED
    BY <1>2, <1>3, <2>1
<1>7. CASE ConfirmDeviceCredentialRotation(r)
  <2>1. UNCHANGED <<conns, revoking>> /\ r.at # "committed" /\ r.owner \in Device /\ devices[r.owner] \in Row
    BY <1>7, ConfirmCases, RowCodes, ZenonT(30)
  <2>2. CASE ConfirmChange(r)
    <3> DEFINE d == r.owner
               q == [r EXCEPT !.at = "committed", !.owner = d]
    <3>1. OnlyRow(d, Promoted(devices[d])) /\ q \in net' /\ Advance(r, "committed", d)
      BY <2>2 DEF ConfirmChange, Advance
    <3>2. q.at = "committed" /\ q.owner = d
      BY <1>1 DEF NetOK, Request
    <3>3. \A e \in Device : e # d => devices'[e] = devices[e]
      BY <1>1, <2>1, <3>1, OneRow
    <3> HIDE DEF q
    <3>4. StillAccepted
      BY <3>1, <3>2, <3>3, ZenonT(30) DEF StillAccepted, Accepts, VerifyDeviceCredential
    <3> QED
      BY <1>2, <2>1, <3>1, <3>4, AnswerStays, ZenonT(30)
  <2> QED
    BY <1>2, <1>3, <1>7, <2>1, <2>2, ConfirmCases, AnswerStays, ZenonT(30)
<1>8. CASE closeDeviceSocketsAfterCredentialRotation(r)
  <2>1. /\ r.at = "committed" /\ CloseAll(r.owner, "4004") /\ Answer(r, "ok") /\ UNCHANGED <<devices, revoking>>
    BY <1>8 DEF closeDeviceSocketsAfterCredentialRotation
  <2>2. \A t \in conns' : t.at = "live" => t \in conns /\ t.cred.device # r.owner
    BY <1>1, <2>1, CloseAllLive
  <2>3. net \ {r} \subseteq net'
    BY <2>1 DEF Answer
  <2> QED
    BY <2>1, <2>2, <2>3, ZenonT(30) DEF NoStaleStream, Accepts, VerifyDeviceCredential
<1>9. CASE handleCancelDeviceCredentialRotation(r)
  <2>1. UNCHANGED <<conns, revoking>> /\ r.at # "committed"
    BY <1>9, CancelCases
  <2>2. CASE CancelChange(r)
    <3>1. r.cred.device \in Device /\ devices[r.cred.device] \in Row
      BY <1>9, CancelCases, RequestOfHandler, RowCodes, ZenonT(30)
    <3>2. OnlyRow(r.cred.device, Pending(devices[r.cred.device], None, 0)) /\ Answer(r, "ok")
      BY <2>2, ZenonT(30) DEF CancelChange
    <3>4. StillAccepted
      BY <1>1, <3>1, <3>2, PendingAccepted, ZenonT(30)
    <3> QED
      BY <1>2, <2>1, <3>2, <3>4, AnswerStays, ZenonT(30)
  <2> QED
    BY <1>2, <1>3, <1>9, <2>1, <2>2, CancelCases, AnswerStays
<1> QED
  BY <1>4, <1>5, <1>6, <1>7, <1>8, <1>9

(* The socket handler keeps NoStaleStream: a stream goes live only after   *)
(* its bearer was authenticated again.                                     *)
LEMMA StaleStreams ==
  ASSUME DeviceInv, NoStaleStream, NEW s \in conns,
         \/ AuthenticateStream(s)
         \/ registerDeviceSocket(s)
         \/ RevalidateStream(s)
         \/ PingStream(s)
         \/ unregisterDeviceSocket(s)
  PROVE  NoStaleStream'
<1>1. UNCHANGED <<devices, net, revoking>> /\ s \in Stream
  BY ZenonT(30) DEF AuthenticateStream, registerDeviceSocket, RevalidateStream, PingStream, unregisterDeviceSocket,
         DeviceInv, StreamsOK
<1>2. ASSUME NEW at \in {"accepted", "registered", "live"}, Move(s, at), at = "live" => Accepts(s.cred)
      PROVE  NoStaleStream'
  <2> DEFINE t == [s EXCEPT !.at = at]
  <2>1. conns' = (conns \ {s}) \cup {t} /\ t.at = at /\ t.cred = s.cred
    BY <1>1, <1>2 DEF Move, Stream
  <2> HIDE DEF t
  <2> QED
    BY <1>1, <1>2, <2>1, ZenonT(30) DEF NoStaleStream, Accepts, VerifyDeviceCredential
<1>3. ASSUME NEW code, conns' = (conns \ {s}) \cup Ended(s, code)
      PROVE  NoStaleStream'
  <2>1. \A t \in Ended(s, code) : t.at = "closed"
    BY <1>1, ZenonT(30) DEF Ended, Stream
  <2> QED
    BY <1>1, <1>3, <2>1, ZenonT(30) DEF NoStaleStream, Accepts, VerifyDeviceCredential
<1>4. CASE conns' = conns \ {s}
  BY <1>1, <1>4, ZenonT(30) DEF NoStaleStream, Accepts, VerifyDeviceCredential
<1>5. CASE AuthenticateStream(s)
  BY <1>2, <1>3, <1>5 DEF AuthenticateStream
<1>6. CASE registerDeviceSocket(s)
  BY <1>2, <1>6 DEF registerDeviceSocket
<1>7. CASE RevalidateStream(s)
  BY <1>2, <1>3, <1>7 DEF RevalidateStream
<1>8. CASE PingStream(s) \/ unregisterDeviceSocket(s)
  BY <1>3, <1>4, <1>8 DEF PingStream, unregisterDeviceSocket
<1> QED
  BY <1>5, <1>6, <1>7, <1>8

(* Every step keeps NoStaleStream.                                         *)
LEMMA StaleStep ==
  ASSUME DeviceInv, NoStaleStream, [Next]_vars
  PROVE  NoStaleStream'
<1>1. StreamsOK /\ CoreOK
  BY DEF DeviceInv
<1>2. CASE UNCHANGED vars
  BY <1>2 DEF vars, coreVars, NoStaleStream, Accepts, VerifyDeviceCredential
<1>3. CASE ClientStep
  <2>1. UNCHANGED <<devices, revoking>> /\ LiveFrom /\ CommittedStay
    BY <1>1, <1>3, ClientLeavesTable, ClientRedial, RedialLive, ClientCommitted
  <2> QED
    BY <1>1, <2>1, AcceptsFrame, StaleFrame
<1>4. ASSUME NEW d \in Device, closeDeviceSockets(d) PROVE NoStaleStream'
  <2>1. /\ UNCHANGED <<devices, net>> /\ revoking' = revoking \ {d}
        /\ \A t \in conns' : t.at = "live" => t \in conns /\ t.cred.device # d
    BY <1>1, <1>4, CloseAllLive DEF closeDeviceSockets
  <2> QED
    BY <2>1 DEF NoStaleStream, Accepts, VerifyDeviceCredential
<1>5. CASE Handlers
  BY <1>4, <1>5, StaleHandlers, StaleStreams DEF Handlers
<1>6. ASSUME NEW c \in Code, CreatePairingSession(c) \/ PairingExpires(c) PROVE NoStaleStream'
  BY <1>6 DEF CreatePairingSession, PairingExpires, NoStaleStream, Accepts, VerifyDeviceCredential
<1>7. ASSUME NEW d \in Device, PendingExpires(d) \/ RevokeDevice(d) PROVE NoStaleStream'
  <2> DEFINE old == [devices[d] EXCEPT !.expired = TRUE]
             gone == [devices[d] EXCEPT !.revoked = TRUE]
  <2>1. old.active = devices[d].active /\ gone.active = devices[d].active
    BY RowCodes, RowFields
  <2>2. /\ UNCHANGED <<net, conns>> /\ (OnlyRow(d, old) \/ OnlyRow(d, gone))
        /\ \/ devices'[d].revoked = devices[d].revoked /\ UNCHANGED revoking
           \/ revoking' = revoking \cup {d}
    BY <1>7, TableCases DEF TableChange
  <2> HIDE DEF old, gone
  <2>3. devices'[d].active = devices[d].active /\ \A e \in Device : e # d => devices'[e] = devices[e]
    BY <1>1, <2>1, <2>2, OneRow
  <2>4. StillAccepted
    BY <2>2, <2>3 DEF StillAccepted, Accepts, VerifyDeviceCredential
  <2>5. LiveFrom /\ CommittedStay /\ revoking \subseteq revoking'
    BY <2>2 DEF LiveFrom, CommittedStay
  <2> QED
    BY <1>1, <2>4, <2>5, StaleFrame
<1>8. CASE CoreRestart
  <2> DEFINE shut(s) == [s EXCEPT !.at = "closed", !.code = "none"]
  <2>0. \A s \in conns : shut(s).at = "closed"
    BY <1>1 DEF StreamsOK, Stream
  <2>a. conns' = {shut(s) : s \in {s \in conns : s.current}}
    BY <1>8, ZenonT(30) DEF CoreRestart
  <2> HIDE DEF shut
  <2>1. \A t \in conns' : t.at = "closed"
    BY <2>0, <2>a
  <2> QED
    BY <2>1 DEF NoStaleStream
<1>9. CASE CoreStep
  BY <1>5, <1>6, <1>7, <1>8, <1>9 DEF CoreStep
<1> QED
  BY <1>2, <1>3, <1>9 DEF Next

(* A live stream has a credential Core accepts, or the handler that        *)
(* replaced or revoked it is about to close it: registration before the    *)
(* second authentication leaves no window in which a stream with a         *)
(* replaced credential stays open unnoticed (internal/api/android.go,      *)
(* internal/api/devices.go).                                               *)
THEOREM NoStaleStreamHolds == Spec => []NoStaleStream
<1>1. Init => NoStaleStream
  BY DEF Init, NoStaleStream
<1>2. DeviceInv /\ NoStaleStream /\ [Next]_vars => NoStaleStream'
  BY StaleStep
<1> QED
  BY <1>1, <1>2, DeviceInvHolds, PTL DEF Spec

=============================================================================
