------------------------------- MODULE DeviceLemmas -------------------------------
(***************************************************************************)
(* The first part of the proofs about device credentials: the inductive    *)
(* invariant DeviceInv, the fields of the records, what each handler of    *)
(* Core and each step of the client does to the table, the requests and    *)
(* the streams, and that the steps of Core keep DeviceInv.                 *)
(***************************************************************************)
EXTENDS DeviceClaims, TLAPS

\* How long each prover may take over a leaf, in seconds.
USE SMTT(30), ZenonT(30)

\* A credential column or slot, which may be empty.
MaybeCredential == Credential \cup {NoCredential}

\* The tables have their types.
CoreOK ==
    /\ devices \in [Device -> Row]
    /\ codes \in [Code -> {"absent", "open", "expired", "consumed"}]
    /\ revoking \subseteq Device
    /\ scenario \in Scenario

\* What the stage a request has reached says of it.
RequestOK(r) ==
    /\ r.kind = "claim" => r.code \in Code /\ r.at \in {"sent", "done"}
    /\ r.kind # "claim" => r.cred \in Credential
    /\ r.kind \in {"claim", "prepare"} /\ r.at = "done" /\ r.reply = "ok" => r.fresh \in Credential
    /\ r.at \in {"verified", "committed"} => r.kind = "confirm" /\ r.owner \in Device

NetOK == net \subseteq Request /\ \A r \in net : RequestOK(r)

\* The states of the client's transport.
TransportType == [active : MaybeCredential, armed : MaybeCredential,
                  mode : {"offline", "open", "waiting", "failed"}]

\* The transport holds the one current stream, which it opened with the
\* credential it is connected with.
StreamsOK ==
    /\ conns \subseteq Stream
    /\ transport \in TransportType
    /\ transport.mode \in {"open", "waiting"} => transport.active \in Credential
    /\ \A s \in conns : s.current => s.cred = transport.active /\ transport.mode = "open"
    /\ \A s, t \in conns : s.current /\ t.current => s = t
    /\ transport.mode = "open" => \E s \in conns : s.current

\* A coroutine that waits for an answer has the credentials it works on.
TaskOK ==
    /\ task \in TaskState
    /\ task.at \in Waiting => task.active \in Credential
    /\ task.at \in {"confirm", "cancelExpired", "cancelRejected"} => task.candidate \in Credential

\* The request that the coroutine waits for at a point, and the credential
\* it is made with.
KindOf(at) == IF at \in {"prepare", "confirm"} THEN at ELSE "cancel"

CredOf(t) == IF t.at = "confirm" THEN t.candidate ELSE t.active

\* The one answer the client waits for is to the request its coroutine
\* made.
LiveOK ==
    /\ \A r \in net : Rotation(r) =>
          task.at \in Waiting /\ r.kind = KindOf(task.at) /\ r.cred = CredOf(task)
    /\ \A r, q \in net : Rotation(r) /\ Rotation(q) => r = q

\* The Keystore slots hold credentials that agree.
SlotsOK ==
    /\ slots \in [active : MaybeCredential, candidate : MaybeCredential]
    /\ SlotsAgree

\* A pairing that is under way is the only one, and nothing is paired.
ClaimsOK ==
    /\ \A r \in net : Claim(r) => pairing /\ slots.active = NoCredential
    /\ \A r, q \in net : Claim(r) /\ Claim(q) => r = q

\* The types of what is left.
EventsOK == events \in Seq(1..MaxVersion) /\ pairing \in BOOLEAN /\ forgetting \in BOOLEAN

DeviceInv == CoreOK /\ NetOK /\ StreamsOK /\ TaskOK /\ LiveOK /\ SlotsOK /\ ClaimsOK /\ EventsOK

-----------------------------------------------------------------------------
(* Requests                                                                *)

(* What the assumption on the constants says, piece by piece.              *)
LEMMA Assumptions ==
  /\ None \notin Device /\ None \notin Token /\ None \notin Code
  /\ MaxVersion \in Nat /\ MaxVersion >= 1
  BY DeviceAssumption

(* An empty slot is not a credential; the fields of a credential.          *)
LEMMA NoCredentialFacts ==
  /\ NoCredential.device = None /\ NoCredential.token = None /\ NoCredential.version = 0
  /\ NoCredential \notin Credential /\ NoCredential \in MaybeCredential
  /\ \A c \in Credential : /\ c.device \in Device /\ c.token \in Token /\ c.version \in 1..MaxVersion
                           /\ c # NoCredential /\ c \in MaybeCredential
  BY Assumptions DEF NoCredential, Credential, MaybeCredential

-----------------------------------------------------------------------------
(* Streams                                                                 *)

(* Once the transport has let go of its stream, none is current.           *)
LEMMA DroppedFacts ==
  ASSUME StreamsOK
  PROVE  /\ Dropped \subseteq Stream
         /\ \A t \in Dropped : /\ ~t.current
                               /\ \E s \in conns : t.cred = s.cred /\ t.at = s.at
<1> DEFINE left(s) == [s EXCEPT !.current = FALSE]
<1>1. \A s \in conns : /\ s \in Stream /\ left(s) \in Stream /\ left(s).cred = s.cred
                       /\ left(s).at = s.at /\ ~left(s).current
  BY ZenonT(30) DEF StreamsOK, Stream
<1>2. \A t \in Dropped : (t \in conns /\ ~t.current) \/ \E s \in conns : t = left(s)
  BY DEF Dropped, Stale
<1> HIDE DEF left
<1> QED
  BY <1>1, <1>2

(* A dialled stream is current and carries the credential it was dialled   *)
(* with.                                                                   *)
LEMMA DialFacts ==
  ASSUME NEW cred \in Credential
  PROVE  /\ Dial(cred) \in Stream /\ Dial(cred).current /\ Dial(cred).cred = cred
         /\ Dial(cred).at = "dialing" /\ Dial(cred).code = "none"
  BY DEF Dial, Stream

(* The state of the transport after a connect with cred.                   *)
LEMMA DisarmedFacts ==
  ASSUME NEW t \in TransportType, NEW cred \in Credential
  PROVE  LET u == [Disarmed(t, cred) EXCEPT !.active = cred, !.mode = "open"] IN
         /\ u \in TransportType /\ u.active = cred /\ u.mode = "open"
         /\ u.armed = IF t.armed.version = cred.version THEN NoCredential ELSE t.armed
  BY NoCredentialFacts, ZenonT(30) DEF Disarmed, TransportType

(* After a connect the transport is open with cred, and holds a stream.    *)
LEMMA ConnectFacts ==
  ASSUME StreamsOK, NEW cred \in Credential, Connect(transport, cred)
  PROVE  /\ transport' \in TransportType /\ transport'.active = cred /\ transport'.mode = "open"
         /\ transport'.armed = IF transport.armed.version = cred.version THEN NoCredential ELSE transport.armed
         /\ \/ transport.active = cred /\ transport.mode = "open" /\ conns' = conns
            \/ conns' = Dropped \cup {Dial(cred)}
  BY DisarmedFacts, ZenonT(30) DEF Connect, StreamsOK

-----------------------------------------------------------------------------
(* The client's requests                                                   *)

\* No request of the rotation is waited for.
NoneLive(others) == \A r \in others : ~Rotation(r)

\* others is left of the requests: some are gone, some are given up.
Remains(others) ==
    \A q \in others :
        \/ q \in net
        \/ q \in Request /\ RequestOK(q) /\ ~q.live /\ \E r \in net : q = [r EXCEPT !.live = FALSE]

(* Requests the client gives up are not live, and otherwise stay what they *)
(* were.                                                                   *)
LEMMA AbandonedFacts ==
  ASSUME NetOK, NEW S \in SUBSET net
  PROVE  /\ Remains(Abandoned(S))
         /\ \A q \in Abandoned(S) : q.live => q \in net /\ q \notin S
<1>1. ASSUME NEW q \in Abandoned(S), ~(q \in net /\ q \notin S)
      PROVE  /\ q \in Request /\ RequestOK(q) /\ ~q.live
             /\ \E r \in net : q = [r EXCEPT !.live = FALSE]
  <2>1. PICK r \in S : q = [r EXCEPT !.live = FALSE]
    BY <1>1 DEF Abandoned
  <2>2. r \in Request /\ RequestOK(r) /\ r \in net
    BY DEF NetOK
  <2>3. /\ q \in Request /\ ~q.live /\ q.kind = r.kind /\ q.code = r.code /\ q.at = r.at
        /\ q.cred = r.cred /\ q.reply = r.reply /\ q.fresh = r.fresh /\ q.owner = r.owner
    BY <2>1, <2>2, ZenonT(30) DEF Request
  <2> QED
    BY <2>1, <2>2, <2>3, ZenonT(30) DEF RequestOK
<1> QED
  BY <1>1 DEF Remains

-----------------------------------------------------------------------------
(* Steps of the client                                                     *)

(* The slots, piece by piece.                                              *)
LEMMA SlotsFacts ==
  ASSUME SlotsOK
  PROVE  /\ slots.active \in MaybeCredential /\ slots.candidate \in MaybeCredential
         /\ slots = [active |-> slots.active, candidate |-> slots.candidate]
         /\ slots.active # NoCredential => slots.active \in Credential
         /\ slots.candidate # NoCredential =>
               /\ slots.candidate \in Credential /\ slots.active \in Credential
               /\ slots.candidate.device = slots.active.device
               /\ slots.candidate.version > slots.active.version
<1>1. /\ slots.active \in MaybeCredential /\ slots.candidate \in MaybeCredential
      /\ slots = [active |-> slots.active, candidate |-> slots.candidate]
  BY DEF SlotsOK
<1>2. \A c \in MaybeCredential : c # NoCredential => c \in Credential
  BY DEF MaybeCredential
<1>3. slots.candidate # NoCredential =>
         /\ slots.candidate.device = slots.active.device
         /\ slots.candidate.version > slots.active.version
  BY DEF SlotsOK, SlotsAgree
<1>4. slots.candidate # NoCredential => slots.active # NoCredential
  BY <1>1, <1>2, <1>3, NoCredentialFacts, Assumptions
<1> QED
  BY <1>1, <1>2, <1>3, <1>4

(* Some requests are gone.                                                 *)
LEMMA OnlyRest ==
  ASSUME NetOK, NEW others \in SUBSET net
  PROVE  Remains(others)
  BY DEF Remains

(* Once the answer the coroutine waited for is taken, it waits for none.   *)
LEMMA AfterAnswer ==
  ASSUME NetOK, LiveOK, NEW r \in net, Rotation(r)
  PROVE  Remains(net \ {r}) /\ NoneLive(net \ {r})
  BY OnlyRest DEF LiveOK, NoneLive

(* Once the coroutine has given its request up, it waits for none.         *)
LEMMA AfterTimeout ==
  ASSUME NetOK
  PROVE  LET others == Abandoned({r \in net : Rotation(r)}) IN Remains(others) /\ NoneLive(others)
<1> DEFINE S == {r \in net : Rotation(r)}
           others == Abandoned(S)
<1>1. Remains(others) /\ \A q \in others : q.live => q \in net /\ q \notin S
  BY AbandonedFacts
<1> HIDE DEF others
<1>2. NoneLive(others)
  BY <1>1 DEF NoneLive, Rotation
<1> QED
  BY <1>1, <1>2 DEF others

-----------------------------------------------------------------------------
(* What a step does to the table of devices                                *)

\* Only the row of d changes.
OnlyRow(d, row) == devices' = [devices EXCEPT ![d] = row]

(* What a change of one row says of each row.                              *)
LEMMA OneRow ==
  ASSUME CoreOK, NEW d \in Device, NEW row, OnlyRow(d, row)
  PROVE  devices'[d] = row /\ \A e \in Device : e # d => devices'[e] = devices[e]
  BY DEF CoreOK, OnlyRow

\* The row of a new device, and a row with another pending credential.
NewRow(c, fresh) == [NoRow EXCEPT !.active = fresh, !.version = 1, !.code = c]

Pending(row, fresh, v) == [row EXCEPT !.pending = fresh, !.expired = FALSE, !.pendingVersion = v]

(* The fields of the row of a new device.                                  *)
LEMMA NewRowFields ==
  ASSUME NEW c, NEW fresh
  PROVE  LET new == NewRow(c, fresh) IN
         /\ new.active = fresh /\ new.version = 1 /\ new.code = c /\ ~new.revoked
         /\ new.pending = None /\ new.pendingVersion = 0 /\ ~new.expired
  BY DEF NoRow, NewRow

(* The fields of a row whose pending credential was replaced or cancelled. *)
LEMMA PendingFields ==
  ASSUME NEW row \in Row, NEW fresh, NEW v
  PROVE  LET new == Pending(row, fresh, v) IN
         /\ new.active = row.active /\ new.version = row.version /\ new.code = row.code
         /\ new.revoked = row.revoked
         /\ new.pending = fresh /\ new.pendingVersion = v /\ ~new.expired
  BY DEF Row, Pending

(* A pending rotation leaves the active credential alone.                  *)
LEMMA PendingKeeps ==
  ASSUME NEW row \in Row, NEW fresh, NEW v
  PROVE  Pending(row, fresh, v).active = row.active /\ Pending(row, fresh, v).revoked = row.revoked
  BY PendingFields

(* The fields of a row that was promoted, expired or revoked.              *)
LEMMA RowFields ==
  ASSUME NEW row \in Row
  PROVE  /\ LET new == Promoted(row) IN
               /\ new.active = row.pending /\ new.version = row.pendingVersion /\ new.code = row.code
               /\ new.revoked = row.revoked
               /\ new.pending = None /\ new.pendingVersion = 0 /\ ~new.expired
         /\ LET new == [row EXCEPT !.expired = TRUE] IN
               /\ new.active = row.active /\ new.version = row.version /\ new.code = row.code
               /\ new.revoked = row.revoked
               /\ new.pending = row.pending /\ new.pendingVersion = row.pendingVersion /\ new.expired
         /\ LET new == [row EXCEPT !.revoked = TRUE] IN
               /\ new.active = row.active /\ new.version = row.version /\ new.code = row.code
               /\ new.revoked
               /\ new.pending = row.pending /\ new.pendingVersion = row.pendingVersion /\ new.expired = row.expired
  BY DEF Row, Promoted

\* What the handler of request r does to the table.
ClaimChange(r, fresh) ==
    \E d \in Device :
        /\ devices[d] = NoRow /\ OnlyRow(d, NewRow(r.code, fresh)) /\ Claimable(r.code)
        /\ codes' = [codes EXCEPT ![r.code] = "consumed"]
        /\ net' = (net \ {r}) \cup Answered(r, "ok", [device |-> d, token |-> fresh, version |-> 1])

PrepareChange(r, fresh) ==
    LET d == r.cred.device  v == devices[d].version + 1 IN
    /\ Accepts(r.cred) /\ PrepareAllowed(devices[d]) /\ devices[d].version < scenario.version
    /\ OnlyRow(d, Pending(devices[d], fresh, v))
    /\ net' = (net \ {r}) \cup Answered(r, "ok", [device |-> d, token |-> fresh, version |-> v])

ConfirmChange(r) ==
    LET d == r.owner  row == devices[d] IN
    /\ ~row.revoked /\ row.active # r.cred.token /\ row.pending # None /\ Unexpired(row)
    /\ row.pendingVersion = r.cred.version /\ row.pending = r.cred.token
    /\ OnlyRow(d, Promoted(row)) /\ Advance(r, "committed", d)

CancelChange(r) ==
    LET d == r.cred.device IN
    /\ Accepts(r.cred) /\ OnlyRow(d, Pending(devices[d], None, 0)) /\ Answer(r, "ok")

(* Every request but a pairing carries a credential.                       *)
LEMMA RequestOfHandler ==
  ASSUME DeviceInv, NEW r \in net, r.kind # "claim"
  PROVE  r.cred \in Credential /\ r.cred.device \in Device
  BY NoCredentialFacts DEF DeviceInv, NetOK, RequestOK

(* The outcomes of a preparation.                                          *)
LEMMA PrepareCases ==
  ASSUME DeviceInv, NEW r \in net, NEW fresh, PrepareDeviceCredentialRotation(r, fresh)
  PROVE  /\ r.kind = "prepare" /\ r.at = "sent" /\ UNCHANGED <<codes, conns, revoking>>
         /\ \/ UNCHANGED devices /\ ~Accepts(r.cred) /\ Answer(r, "unauthorized")
            \/ UNCHANGED devices /\ Answer(r, "conflict")
            \/ PrepareChange(r, fresh)
<1> DEFINE d == r.cred.device
<1>1. r.kind = "prepare" /\ r.at = "sent" /\ UNCHANGED <<codes, conns, revoking>>
  BY DEF PrepareDeviceCredentialRotation
<1>2. d \in Device /\ devices \in [Device -> Row] /\ devices[d] \in Row
  BY <1>1, RequestOfHandler DEF DeviceInv, CoreOK
<1>3. CASE ~Accepts(r.cred)
  BY <1>1, <1>3 DEF PrepareDeviceCredentialRotation
<1>4. CASE Accepts(r.cred) /\ ~PrepareAllowed(devices[d])
  BY <1>1, <1>4 DEF PrepareDeviceCredentialRotation
<1>5. CASE Accepts(r.cred) /\ PrepareAllowed(devices[d])
  <2> DEFINE v == devices[d].version + 1
  <2>1. /\ devices[d].version < scenario.version
        /\ devices' = [devices EXCEPT ![d].pending = fresh, ![d].expired = FALSE, ![d].pendingVersion = v]
        /\ net' = (net \ {r}) \cup Answered(r, "ok", [device |-> d, token |-> fresh, version |-> v])
    BY <1>5 DEF PrepareDeviceCredentialRotation
  <2> HIDE DEF v
  <2>2. OnlyRow(d, Pending(devices[d], fresh, v))
    BY <1>2, <2>1, ZenonT(30), ZenonT(30) DEF OnlyRow, Pending, Row
  <2> QED
    BY <1>1, <1>5, <2>1, <2>2 DEF PrepareChange, v
<1> QED
  BY <1>3, <1>4, <1>5, ZenonT(30)

(* The outcomes of a cancellation.                                         *)
LEMMA CancelCases ==
  ASSUME DeviceInv, NEW r \in net, handleCancelDeviceCredentialRotation(r)
  PROVE  /\ r.kind = "cancel" /\ r.at = "sent" /\ UNCHANGED <<codes, conns, revoking>>
         /\ \/ UNCHANGED devices /\ ~Accepts(r.cred) /\ Answer(r, "unauthorized")
            \/ CancelChange(r)
<1> DEFINE d == r.cred.device
<1>1. r.kind = "cancel" /\ r.at = "sent" /\ UNCHANGED <<codes, conns, revoking>>
  BY DEF handleCancelDeviceCredentialRotation
<1>2. d \in Device /\ devices \in [Device -> Row] /\ devices[d] \in Row
  BY <1>1, RequestOfHandler DEF DeviceInv, CoreOK
<1>3. CASE ~Accepts(r.cred)
  BY <1>1, <1>3 DEF handleCancelDeviceCredentialRotation
<1>4. CASE Accepts(r.cred)
  <2>1. /\ devices' = [devices EXCEPT ![d].pending = None, ![d].pendingVersion = 0, ![d].expired = FALSE]
        /\ Answer(r, "ok")
    BY <1>4 DEF handleCancelDeviceCredentialRotation, CancelDeviceCredentialRotation
  <2>2. OnlyRow(d, Pending(devices[d], None, 0))
    BY <1>2, <2>1, ZenonT(30), ZenonT(30) DEF OnlyRow, Pending, Row
  <2> QED
    BY <1>1, <1>4, <2>1, <2>2 DEF CancelChange
<1> QED
  BY <1>3, <1>4

(* The outcomes of the transaction of a confirmation, with what the row    *)
(* says in each.                                                           *)
LEMMA ConfirmCases ==
  ASSUME DeviceInv, NEW r \in net, ConfirmDeviceCredentialRotation(r)
  PROVE  /\ r.kind = "confirm" /\ r.at = "verified" /\ r.owner \in Device
         /\ UNCHANGED <<codes, conns, revoking>>
         /\ LET row == devices[r.owner] IN
            \/ /\ UNCHANGED devices /\ ~row.revoked /\ row.active = r.cred.token
               /\ row.version = r.cred.version /\ Answer(r, "ok")
            \/ /\ UNCHANGED devices /\ Answer(r, "unauthorized")
               /\ \/ row.revoked
                  \/ row.active = r.cred.token /\ row.version # r.cred.version
                  \/ row.active # r.cred.token
                     /\ (row.pending = None \/ row.pendingVersion # r.cred.version \/ row.pending # r.cred.token)
            \/ /\ UNCHANGED devices /\ Answer(r, "expired")
               /\ row.active # r.cred.token /\ row.expired
            \/ ConfirmChange(r)
<1> DEFINE d == r.owner
           row == devices[d]
<1>1. r.kind = "confirm" /\ r.at = "verified" /\ UNCHANGED <<codes, conns, revoking>>
  BY ZenonT(30) DEF ConfirmDeviceCredentialRotation, ConfirmRequested
<1>2. d \in Device
  BY <1>1 DEF DeviceInv, NetOK, RequestOK
<1>3. CASE ~row.revoked /\ row.active = r.cred.token
  BY <1>1, <1>2, <1>3, ZenonT(30) DEF ConfirmDeviceCredentialRotation
<1>4. CASE row.revoked \/ (row.active # r.cred.token /\ row.pending = None)
  BY <1>1, <1>2, <1>4, ZenonT(30) DEF ConfirmDeviceCredentialRotation
<1>5. CASE ~row.revoked /\ row.active # r.cred.token /\ row.pending # None /\ ~Unexpired(row)
  BY <1>1, <1>2, <1>5, ZenonT(30) DEF ConfirmDeviceCredentialRotation, Unexpired
<1>6. CASE /\ ~row.revoked /\ row.active # r.cred.token /\ row.pending # None /\ Unexpired(row)
           /\ row.pendingVersion # r.cred.version \/ row.pending # r.cred.token
  BY <1>1, <1>2, <1>6, ZenonT(30) DEF ConfirmDeviceCredentialRotation
<1>7. CASE /\ ~row.revoked /\ row.active # r.cred.token /\ row.pending # None /\ Unexpired(row)
           /\ row.pendingVersion = r.cred.version /\ row.pending = r.cred.token
  BY <1>1, <1>2, <1>7, ZenonT(30) DEF ConfirmDeviceCredentialRotation, ConfirmChange, OnlyRow
<1> QED
  BY <1>3, <1>4, <1>5, <1>6, <1>7, ZenonT(30)

(* The outcomes of a pairing.                                              *)
LEMMA ClaimCases ==
  ASSUME NEW r \in net, NEW fresh, handleClaimPairing(r, fresh)
  PROVE  /\ r.kind = "claim" /\ r.at = "sent" /\ UNCHANGED <<conns, revoking>>
         /\ \/ UNCHANGED <<devices, codes>> /\ Answer(r, "conflict")
            \/ ClaimChange(r, fresh)
<1>1. r.kind = "claim" /\ r.at = "sent" /\ UNCHANGED <<conns, revoking>>
  BY DEF handleClaimPairing
<1>2. CASE ~Claimable(r.code)
  BY <1>1, <1>2 DEF handleClaimPairing
<1>3. CASE Claimable(r.code)
  BY <1>1, <1>3, ZenonT(30), ZenonT(30) DEF handleClaimPairing, ClaimChange, ClaimPairingSession, OnlyRow, NewRow
<1> QED
  BY <1>2, <1>3

\* A pending credential expires, or a device is revoked.
TableChange(d) ==
    \/ devices[d].pending # None /\ ~devices[d].expired /\ OnlyRow(d, [devices[d] EXCEPT !.expired = TRUE])
    \/ devices[d] # NoRow /\ ~devices[d].revoked /\ OnlyRow(d, [devices[d] EXCEPT !.revoked = TRUE])

(* The outcomes of an expiry or a revocation.                              *)
LEMMA TableCases ==
  ASSUME DeviceInv, NEW d \in Device, PendingExpires(d) \/ RevokeDevice(d)
  PROVE  /\ UNCHANGED <<codes, net, conns>> /\ TableChange(d)
         /\ \/ devices'[d].revoked = devices[d].revoked /\ UNCHANGED revoking
            \/ revoking' = revoking \cup {d}
<1>1. devices \in [Device -> Row] /\ devices[d] \in Row
  BY DEF DeviceInv, CoreOK
<1>2. CASE PendingExpires(d)
  <2>1. OnlyRow(d, [devices[d] EXCEPT !.expired = TRUE])
    BY <1>1, <1>2 DEF OnlyRow, PendingExpires
  <2> QED
    BY <1>1, <1>2, <2>1, RowFields, OneRow DEF PendingExpires, TableChange, DeviceInv
<1>3. CASE RevokeDevice(d)
  <2>1. OnlyRow(d, [devices[d] EXCEPT !.revoked = TRUE])
    BY <1>1, <1>3 DEF OnlyRow, RevokeDevice
  <2> QED
    BY <1>3, <2>1 DEF RevokeDevice, TableChange
<1> QED
  BY <1>2, <1>3

-----------------------------------------------------------------------------
(* One-time codes                                                          *)

(* The code of a row is a code.                                            *)
LEMMA RowCodes ==
  ASSUME DeviceInv
  PROVE  \A d \in Device : devices[d] \in Row /\ (devices[d].code # None => devices[d].code \in Code)
  BY DEF DeviceInv, CoreOK, Row

(* The client cannot change the tables.                                    *)
LEMMA ClientLeavesTable ==
  ASSUME ClientStep
  PROVE  UNCHANGED <<devices, codes, revoking>>
  BY ZenonT(30) DEF ClientStep, OnAnswer, OnPaired, LoseRequest, OnTimeout, OnPairingTimeout, onClosed, onFailure,
         scheduleReconnect, completeCredentialRotationFromSocket, rotateCredential, bootstrap, pair,
         forgetLocalDevice, AppRestart

-----------------------------------------------------------------------------
(* Streams                                                                 *)

\* What the client does to its streams.
Redial ==
    \/ conns' = conns
    \/ conns' = Dropped
    \/ \E c : conns' = Dropped \cup {Dial(c)} \/ conns' = conns \cup {Dial(c)}

(* A connect drops the stream, dials one, or does both.                    *)
LEMMA ConnectRedial ==
  ASSUME NEW t, NEW c, Connect(t, c)
  PROVE  Redial
  BY DEF Connect, Redial

(* Every step of the client leaves its stream, drops it or dials one.      *)
LEMMA ClientRedial ==
  ASSUME ClientStep
  PROVE  Redial
<1> USE DEF Redial
<1>1. ASSUME NEW c, promoteCredentialAndConnect(c) PROVE Redial
  BY <1>1, ConnectRedial DEF promoteCredentialAndConnect
<1>2. ASSUME NEW others, requirePairingAfterRotationFailure(others) PROVE Redial
  BY <1>2 DEF requirePairingAfterRotationFailure, disconnect
<1>3. ASSUME NEW r \in net, OnAnswer(r) PROVE Redial
  BY <1>1, <1>2, <1>3, ConnectRedial, ZenonT(30)
     DEF OnAnswer, CorruptCancelled, UnsavedCancelled, Prepared, GiveUp, recoverExpiredCredentialRotation,
         recoverRejectedCredentialCandidate, ExpiredCancelled, RejectedCancelled
<1>4. CASE OnTimeout
  BY <1>4, ConnectRedial DEF OnTimeout, CorruptCancelled, UnsavedCancelled, GiveUp
<1>5. CASE completeCredentialRotationFromSocket
  BY <1>1, <1>2, <1>5, ConnectRedial, ZenonT(30) DEF completeCredentialRotationFromSocket
<1>6. CASE rotateCredential \/ bootstrap
  BY <1>2, <1>6, ConnectRedial, ZenonT(30) DEF rotateCredential, bootstrap, resumeRotation
<1>7. ASSUME NEW r \in net, OnPaired(r) PROVE Redial
  BY <1>7, ConnectRedial DEF OnPaired
<1>8. CASE scheduleReconnect
  BY <1>8 DEF scheduleReconnect
<1>9. CASE \/ \E r \in net : LoseRequest(r)
           \/ OnPairingTimeout \/ forgetLocalDevice \/ AppRestart
           \/ \E c \in Code : pair(c)
           \/ \E s \in conns : onClosed(s) \/ onFailure(s)
  BY <1>9 DEF LoseRequest, OnPairingTimeout, forgetLocalDevice, AppRestart, pair, onClosed, onFailure, disconnect
<1> QED
  BY <1>3, <1>4, <1>5, <1>6, <1>7, <1>8, <1>9 DEF ClientStep

-----------------------------------------------------------------------------
(* Requests                                                                *)

\* q is what has become of request r.
Follows(q, r) ==
    /\ q \in Request /\ RequestOK(q)
    /\ q.kind = r.kind /\ q.cred = r.cred /\ q.code = r.code /\ q.live = r.live

(* A request moves on in its handler, is answered or is dropped: the       *)
(* invariants of requests stay.                                            *)
LEMMA RequestStep ==
  ASSUME NetOK, LiveOK, ClaimsOK, NEW r \in net, NEW S, \A q \in S : Follows(q, r),
         \A q, p \in S : q = p, net' = (net \ {r}) \cup S, UNCHANGED <<task, slots, pairing>>
  PROVE  NetOK' /\ LiveOK' /\ ClaimsOK'
<1>1. NetOK'
  BY DEF NetOK, Follows, RequestOK
<1>2. \A q \in net' : \E p \in net : q.kind = p.kind /\ q.cred = p.cred /\ q.live = p.live /\ (p = r \/ q = p)
  BY DEF Follows
<1>3. \A q \in net' : q \in S \/ (q \in net /\ q # r)
  OBVIOUS
<1>4. LiveOK'
  <2>1. \A q \in net' : Rotation(q) =>
           task.at \in Waiting /\ q.kind = KindOf(task.at) /\ q.cred = CredOf(task)
    BY <1>2 DEF LiveOK, Rotation
  <2>2. \A q, p \in net' : Rotation(q) /\ Rotation(p) => q = p
    BY <1>3 DEF LiveOK, Rotation, Follows
  <2> QED
    BY <2>1, <2>2 DEF LiveOK, Rotation
<1>5. ClaimsOK'
  <2>1. \A q \in net' : Claim(q) => pairing /\ slots.active = NoCredential
    BY <1>2 DEF ClaimsOK, Claim
  <2>2. \A q, p \in net' : Claim(q) /\ Claim(p) => q = p
    BY <1>3 DEF ClaimsOK, Claim, Follows
  <2> QED
    BY <2>1, <2>2 DEF ClaimsOK, Claim
<1> QED
  BY <1>1, <1>4, <1>5

(* Core answers a request.                                                 *)
LEMMA AnswerStep ==
  ASSUME NetOK, LiveOK, ClaimsOK, NEW r \in net,
         NEW reply \in {"ok", "unauthorized", "conflict", "expired"},
         NEW fresh \in MaybeCredential,
         r.kind \in {"claim", "prepare"} /\ reply = "ok" => fresh \in Credential,
         net' = (net \ {r}) \cup Answered(r, reply, fresh), UNCHANGED <<task, slots, pairing>>
  PROVE  NetOK' /\ LiveOK' /\ ClaimsOK'
<1> DEFINE q == [r EXCEPT !.at = "done", !.owner = None, !.reply = reply, !.fresh = fresh]
<1>1. r \in Request /\ RequestOK(r)
  BY DEF NetOK
<1>a. q \in Request
  BY <1>1, ZenonT(30) DEF Request, MaybeCredential
<1>2. /\ q \in Request /\ q.kind = r.kind /\ q.cred = r.cred /\ q.code = r.code /\ q.live = r.live
      /\ q.at = "done" /\ q.reply = reply /\ q.fresh = fresh
  BY <1>1, <1>a DEF Request
<1> HIDE DEF q
<1>3. Follows(q, r)
  BY <1>1, <1>2 DEF Follows, RequestOK
<1> DEFINE S == Answered(r, reply, fresh)
<1>4. \A p \in S : p = q
  BY DEF Answered, q
<1>5. net' = (net \ {r}) \cup S
  OBVIOUS
<1> HIDE DEF S
<1>6. \A p \in S : Follows(p, r)
  BY <1>3, <1>4
<1>7. \A p, o \in S : p = o
  BY <1>4
<1>8. UNCHANGED <<task, slots, pairing>>
  OBVIOUS
<1> QED
  BY <1>5, <1>6, <1>7, <1>8, RequestStep

(* A confirmation moves on in its handler.                                 *)
LEMMA AdvanceStep ==
  ASSUME NetOK, LiveOK, ClaimsOK, NEW r \in net, r.kind = "confirm", NEW at \in {"verified", "committed"},
         NEW d \in Device, Advance(r, at, d), UNCHANGED <<task, slots, pairing>>
  PROVE  NetOK' /\ LiveOK' /\ ClaimsOK'
<1> DEFINE q == [r EXCEPT !.at = at, !.owner = d]
<1>1. r \in Request /\ RequestOK(r)
  BY DEF NetOK
<1>2. /\ q \in Request /\ q.kind = r.kind /\ q.cred = r.cred /\ q.code = r.code /\ q.live = r.live
      /\ q.at = at /\ q.owner = d
  BY <1>1, ZenonT(30) DEF Request
<1>3. net' = (net \ {r}) \cup {q}
  BY DEF Advance
<1> HIDE DEF q
<1>4. Follows(q, r)
  BY <1>1, <1>2 DEF Follows, RequestOK
<1> DEFINE S == {q}
<1>5. (\A p \in S : p = q) /\ net' = (net \ {r}) \cup S
  BY <1>3
<1> HIDE DEF S
<1>6. \A p \in S : Follows(p, r)
  BY <1>4, <1>5
<1>7. \A p, o \in S : p = o
  BY <1>5
<1>8. UNCHANGED <<task, slots, pairing>>
  OBVIOUS
<1> QED
  BY <1>5, <1>6, <1>7, <1>8, RequestStep

-----------------------------------------------------------------------------
(* Streams                                                                 *)

(* Streams change and the transport does not: the current stream stays     *)
(* current.                                                                *)
LEMMA StreamsStep ==
  ASSUME StreamsOK, conns' \subseteq Stream, UNCHANGED transport,
         \A t \in conns' : t.current => \E s \in conns : s.current /\ t.cred = s.cred,
         \A s \in conns : s.current => \E t \in conns' : t.current,
         \A t, u \in conns' : t.current /\ u.current => t = u
  PROVE  StreamsOK'
  BY DEF StreamsOK

(* One stream changes its stage, or a stream that is not current goes.     *)
LEMMA StreamStep ==
  ASSUME StreamsOK, NEW s \in conns, NEW t \in Stream, t.cred = s.cred, t.current = s.current,
         conns' = (conns \ {s}) \cup {t} \/ (~s.current /\ conns' = conns \ {s}), UNCHANGED transport
  PROVE  StreamsOK'
<1>1. CASE conns' = (conns \ {s}) \cup {t}
  <2>1. conns' \subseteq Stream
    BY <1>1 DEF StreamsOK
  <2>2. \A u \in conns' : u.current => \E v \in conns : v.current /\ u.cred = v.cred
    BY <1>1
  <2>3. \A v \in conns : v.current => \E u \in conns' : u.current
    BY <1>1
  <2>4. \A u, v \in conns' : u.current /\ v.current => u = v
    BY <1>1 DEF StreamsOK
  <2> QED
    BY <2>1, <2>2, <2>3, <2>4, StreamsStep
<1>2. CASE ~s.current /\ conns' = conns \ {s}
  BY <1>2, StreamsStep DEF StreamsOK
<1> QED
  BY <1>1, <1>2

(* Core closes one stream.                                                 *)
LEMMA EndedStep ==
  ASSUME StreamsOK, NEW s \in conns, NEW code \in {"none", "401", "4003", "4004"},
         conns' = (conns \ {s}) \cup Ended(s, code), UNCHANGED transport
  PROVE  StreamsOK'
<1> DEFINE t == [s EXCEPT !.at = "closed", !.code = code]
<1>1. s \in Stream
  BY DEF StreamsOK
<1>2. t \in Stream /\ t.cred = s.cred /\ t.current = s.current
  BY <1>1, ZenonT(30) DEF Stream
<1>3. Ended(s, code) = IF s.current THEN {t} ELSE {}
  BY DEF Ended
<1> HIDE DEF t
<1>4. conns' = (conns \ {s}) \cup {t} \/ (~s.current /\ conns' = conns \ {s})
  BY <1>3
<1> QED
  BY <1>2, <1>4, StreamStep

(* The handler of a stream moves on.                                       *)
LEMMA MoveStep ==
  ASSUME StreamsOK, NEW s \in conns, NEW at \in {"accepted", "registered", "live"}, Move(s, at),
         UNCHANGED transport
  PROVE  StreamsOK'
<1> DEFINE t == [s EXCEPT !.at = at]
<1>1. s \in Stream
  BY DEF StreamsOK
<1>2. t \in Stream /\ t.cred = s.cred /\ t.current = s.current /\ conns' = (conns \ {s}) \cup {t}
  BY <1>1 DEF Stream, Move
<1> HIDE DEF t
<1> QED
  BY <1>2, StreamStep

(* Core closes the streams of a device.                                    *)
LEMMA CloseAllStep ==
  ASSUME StreamsOK, NEW d \in Device, NEW code \in {"none", "401", "4003", "4004"}, CloseAll(d, code),
         UNCHANGED transport
  PROVE  StreamsOK'
<1> DEFINE open == {s \in conns : s.cred.device = d /\ s.at \in {"registered", "live"}}
           shut(s) == [s EXCEPT !.at = "closed", !.code = code]
<1>1. \A s \in conns : s \in Stream /\ shut(s) \in Stream /\ shut(s).cred = s.cred /\ shut(s).current = s.current
  BY ZenonT(30) DEF StreamsOK, Stream
<1>2. conns' = (conns \ open) \cup UNION {Ended(s, code) : s \in open}
  BY DEF CloseAll
<1>3. \A t : t \in conns' <=> (t \in conns /\ t \notin open) \/ \E s \in open : s.current /\ t = shut(s)
  BY <1>2, ZenonT(30) DEF Ended
<1> HIDE DEF shut
<1>4. conns' \subseteq Stream
  BY <1>1, <1>3
<1>5. \A u \in conns' : u.current => \E v \in conns : v.current /\ u.cred = v.cred
  BY <1>1, <1>3
<1>6. \A v \in conns : v.current => \E u \in conns' : u.current
  BY <1>1, <1>3
<1>7. \A u, v \in conns' : u.current /\ v.current => u = v
  BY <1>1, <1>3 DEF StreamsOK
<1> QED
  BY <1>4, <1>5, <1>6, <1>7, StreamsStep

(* The transport disconnects.                                              *)
LEMMA DisconnectStep ==
  ASSUME StreamsOK, disconnect
  PROVE  StreamsOK'
  BY DroppedFacts, NoCredentialFacts DEF disconnect, Offline, StreamsOK, TransportType

(* The transport gives its stream up and dials none.                       *)
LEMMA DropStep ==
  ASSUME StreamsOK, conns' = Dropped, transport' \in TransportType, transport'.mode # "open",
         transport'.mode = "waiting" => transport'.active \in Credential
  PROVE  StreamsOK'
  BY DroppedFacts DEF StreamsOK

(* The transport connects.                                                 *)
LEMMA ConnectStep ==
  ASSUME StreamsOK, NEW cred \in Credential, Connect(transport, cred)
  PROVE  StreamsOK'
<1>1. /\ transport' \in TransportType /\ transport'.active = cred /\ transport'.mode = "open"
      /\ \/ transport.active = cred /\ transport.mode = "open" /\ conns' = conns
         \/ conns' = Dropped \cup {Dial(cred)}
  BY ConnectFacts
<1>2. CASE transport.active = cred /\ transport.mode = "open" /\ conns' = conns
  BY <1>1, <1>2 DEF StreamsOK
<1>3. CASE conns' = Dropped \cup {Dial(cred)}
  BY <1>1, <1>3, DroppedFacts, DialFacts DEF StreamsOK
<1> QED
  BY <1>1, <1>2, <1>3

-----------------------------------------------------------------------------
(* The client's requests                                                   *)

(* The fields of a new request.                                            *)
LEMMA AskFacts ==
  ASSUME NEW kind \in {"claim", "prepare", "confirm", "cancel"}, NEW cred \in MaybeCredential,
         NEW code \in Code \cup {None}
  PROVE  LET r == Ask(kind, cred, code) IN
         /\ r \in Request /\ r.kind = kind /\ r.cred = cred /\ r.code = code /\ r.at = "sent"
         /\ r.live = TRUE /\ r.reply = "none" /\ r.fresh = NoCredential
  BY DEF Ask, Request, MaybeCredential

(* The coroutine makes a request and waits for its answer.                 *)
LEMMA SendStep ==
  ASSUME NetOK, ClaimsOK, TaskOK, NEW kind \in {"prepare", "confirm", "cancel"}, NEW cred \in Credential,
         NEW at \in Waiting, NEW active \in Credential, NEW candidate \in MaybeCredential,
         NEW retry \in BOOLEAN, NEW others, Remains(others), NoneLive(others),
         kind = KindOf(at), cred = IF at = "confirm" THEN candidate ELSE active,
         at \in {"confirm", "cancelExpired", "cancelRejected"} => candidate \in Credential,
         Send(kind, cred, at, active, candidate, retry, others), pairing' = pairing,
         slots'.active \in {slots.active, NoCredential} \/ slots.active # NoCredential
  PROVE  NetOK' /\ LiveOK' /\ TaskOK' /\ ClaimsOK'
<1> DEFINE q == Ask(kind, cred, None)
<1>0. cred \in MaybeCredential /\ None \in Code \cup {None}
  BY DEF MaybeCredential
<1>a. q \in Request /\ q.kind = kind /\ q.cred = cred /\ q.at = "sent" /\ q.live = TRUE
  BY <1>0 DEF Ask, Request, MaybeCredential
<1>1. /\ q \in Request /\ q.kind = kind /\ q.cred = cred /\ q.at = "sent" /\ q.live = TRUE
      /\ net' = others \cup {q}
      /\ task' = [at |-> at, active |-> active, candidate |-> candidate, retry |-> retry]
  BY <1>a DEF Send
<1>2. task' \in TaskState /\ task'.at = at /\ task'.active = active /\ task'.candidate = candidate
  BY <1>1 DEF TaskState, MaybeCredential
<1> HIDE DEF q
<1>3. NetOK'
  BY <1>1 DEF NetOK, RequestOK, Remains
<1>4. TaskOK'
  BY <1>2 DEF TaskOK
<1>5. LiveOK'
  BY <1>1, <1>2 DEF LiveOK, NoneLive, Rotation, CredOf
<1>6. ClaimsOK'
  BY <1>1 DEF ClaimsOK, Claim, Remains
<1> QED
  BY <1>3, <1>4, <1>5, <1>6

(* The coroutine ends, and waits for nothing.                              *)
LEMMA StopStep ==
  ASSUME NetOK, ClaimsOK, NEW others, Remains(others), NoneLive(others), Stop(others),
         pairing' = pairing, slots'.active \in {slots.active, NoCredential} \/ slots.active # NoCredential
  PROVE  NetOK' /\ LiveOK' /\ TaskOK' /\ ClaimsOK'
<1>1. net' = others /\ task' = Idle /\ Idle \in TaskState /\ Idle.at = "idle"
  BY DEF Stop, Idle, TaskState, Waiting
<1>2. Idle.at \notin Waiting
  BY <1>1 DEF Waiting
<1>3. NetOK'
  BY <1>1 DEF NetOK, RequestOK, Remains
<1>4. TaskOK' /\ LiveOK'
  BY <1>1, <1>2 DEF TaskOK, LiveOK, NoneLive, Rotation
<1>5. ClaimsOK'
  BY <1>1 DEF ClaimsOK, Claim, Remains
<1> QED
  BY <1>3, <1>4, <1>5

-----------------------------------------------------------------------------
(* Steps of Core                                                           *)

(* What does not change keeps its invariant.                               *)
LEMMA Frames ==
  ASSUME DeviceInv
  PROVE  /\ UNCHANGED <<devices, codes, revoking, scenario>> => CoreOK'
         /\ UNCHANGED net => NetOK'
         /\ UNCHANGED <<conns, transport>> => StreamsOK'
         /\ UNCHANGED task => TaskOK'
         /\ UNCHANGED <<net, task>> => LiveOK'
         /\ UNCHANGED slots => SlotsOK'
         /\ UNCHANGED <<net, slots, pairing>> => ClaimsOK'
         /\ UNCHANGED <<events, pairing, forgetting>> => EventsOK'
<1>1. CoreOK /\ NetOK /\ StreamsOK /\ TaskOK /\ LiveOK /\ SlotsOK /\ ClaimsOK /\ EventsOK
  BY DEF DeviceInv
<1>2. UNCHANGED <<devices, codes, revoking, scenario>> => CoreOK'
  BY <1>1 DEF CoreOK
<1>3. UNCHANGED net => NetOK'
  BY <1>1 DEF NetOK, RequestOK
<1>4. UNCHANGED <<conns, transport>> => StreamsOK'
  BY <1>1 DEF StreamsOK
<1>5. UNCHANGED task => TaskOK'
  BY <1>1 DEF TaskOK
<1>6. UNCHANGED <<net, task>> => LiveOK'
  BY <1>1 DEF LiveOK, Rotation
<1>7. UNCHANGED slots => SlotsOK'
  BY <1>1 DEF SlotsOK, SlotsAgree
<1>8. UNCHANGED <<net, slots, pairing>> => ClaimsOK'
  BY <1>1 DEF ClaimsOK, Claim
<1>9. UNCHANGED <<events, pairing, forgetting>> => EventsOK'
  BY <1>1 DEF EventsOK
<1> QED
  BY <1>2, <1>3, <1>4, <1>5, <1>6, <1>7, <1>8, <1>9

(* The fields of a row and of a free row.                                  *)
LEMMA RowFacts ==
  ASSUME CoreOK, NEW d \in Device
  PROVE  /\ devices[d] \in Row /\ scenario.version \in 0..MaxVersion
         /\ NoRow \in Row /\ NoRow.active = None /\ NoRow.pending = None /\ NoRow.code = None
         /\ NoRow.version = 0 /\ NoRow.pendingVersion = 0
         /\ NoRow.revoked = FALSE /\ NoRow.expired = FALSE
  BY DeviceAssumption DEF CoreOK, Row, NoRow

(* One row is replaced.                                                    *)
LEMMA RowStep ==
  ASSUME CoreOK, NEW d \in Device, NEW row \in Row, devices' = [devices EXCEPT ![d] = row],
         codes' \in [Code -> {"absent", "open", "expired", "consumed"}],
         revoking' \subseteq Device, scenario' = scenario
  PROVE  CoreOK'
  BY DEF CoreOK

(* The HTTP handlers keep DeviceInv: pairing, prepare, both steps of       *)
(* confirm and the closing of streams after it, and cancel.                *)
LEMMA HandlersKeep ==
  ASSUME DeviceInv, UNCHANGED <<clientVars, scenario>>, NEW r \in net, NEW fresh \in Token,
         \/ handleClaimPairing(r, fresh)
         \/ PrepareDeviceCredentialRotation(r, fresh)
         \/ VerifyForConfirm(r)
         \/ ConfirmDeviceCredentialRotation(r)
         \/ closeDeviceSocketsAfterCredentialRotation(r)
         \/ handleCancelDeviceCredentialRotation(r)
  PROVE  DeviceInv'
<1>1. /\ CoreOK /\ NetOK /\ StreamsOK /\ TaskOK /\ LiveOK /\ SlotsOK /\ ClaimsOK /\ EventsOK
      /\ r \in Request /\ RequestOK(r)
  BY DEF DeviceInv, NetOK
<1>2. UNCHANGED <<slots, transport, task, events, pairing, forgetting, scenario>>
  BY DEF clientVars
<1>3. TaskOK' /\ SlotsOK' /\ EventsOK'
  BY <1>2, Frames
<1>4. SUFFICES CoreOK' /\ NetOK' /\ StreamsOK' /\ LiveOK' /\ ClaimsOK'
  BY <1>3 DEF DeviceInv
<1>a. NoCredential \in MaybeCredential
  BY NoCredentialFacts
<1>b. ASSUME NEW reply \in {"unauthorized", "conflict", "expired"}, Answer(r, reply)
      PROVE  NetOK' /\ LiveOK' /\ ClaimsOK'
  BY <1>1, <1>2, <1>a, <1>b, AnswerStep DEF Answer
<1>c. ASSUME r.kind \in {"confirm", "cancel"}, Answer(r, "ok")
      PROVE  NetOK' /\ LiveOK' /\ ClaimsOK'
  BY <1>1, <1>2, <1>a, <1>c, AnswerStep DEF Answer
<1>5. CASE handleClaimPairing(r, fresh)
  <2>1. StreamsOK' /\ UNCHANGED revoking
    BY <1>2, <1>5, Frames DEF handleClaimPairing
  <2>2. CASE Claimable(r.code)
    <3>1. PICK d \in Device :
             /\ ClaimPairingSession(r.code, d, fresh)
             /\ net' = (net \ {r}) \cup Answered(r, "ok", [device |-> d, token |-> fresh, version |-> 1])
      BY <1>5, <2>2, ZenonT(30) DEF handleClaimPairing
    <3> DEFINE row == [NoRow EXCEPT !.active = fresh, !.version = 1, !.code = r.code]
               cred == [device |-> d, token |-> fresh, version |-> 1]
    <3>0. r.code \in Code
      BY <1>1, <1>5, ZenonT(30) DEF handleClaimPairing, RequestOK
    <3>a. r.code \in Code /\ 1 \in 0..MaxVersion
      BY <3>0, Assumptions
    <3>2. r.code \in Code /\ row \in Row
      BY <1>1, <3>a, RowFacts, ZenonT(30) DEF Row
    <3>3. CoreOK'
      <4>1. devices' = [devices EXCEPT ![d] = row] /\ codes' = [codes EXCEPT ![r.code] = "consumed"]
        BY <3>1 DEF ClaimPairingSession
      <4> HIDE DEF row
      <4>2. codes' \in [Code -> {"absent", "open", "expired", "consumed"}] /\ revoking' \subseteq Device
        BY <1>1, <2>1, <3>2, <4>1 DEF CoreOK
      <4> QED
        BY <1>1, <1>2, <3>2, <4>1, <4>2, RowStep, ZenonT(30)
    <3>4. cred \in Credential /\ cred \in MaybeCredential
      BY Assumptions DEF Credential, MaybeCredential
    <3> HIDE DEF cred
    <3>5. net' = (net \ {r}) \cup Answered(r, "ok", cred)
      BY <3>1 DEF cred
    <3> QED
      BY <1>1, <1>2, <2>1, <3>3, <3>4, <3>5, AnswerStep
  <2>3. CASE ~Claimable(r.code)
    BY <1>2, <1>5, <1>b, <2>1, <2>3, Frames DEF handleClaimPairing
  <2> QED
    BY <2>2, <2>3
<1>6. CASE PrepareDeviceCredentialRotation(r, fresh)
  <2>1. StreamsOK' /\ UNCHANGED <<codes, revoking>>
    BY <1>2, <1>6, Frames DEF PrepareDeviceCredentialRotation
  <2>2. CASE ~Accepts(r.cred) \/ ~PrepareAllowed(devices[r.cred.device])
    <3>1. UNCHANGED devices /\ \E reply \in {"unauthorized", "conflict"} : Answer(r, reply)
      BY <1>6, <2>2 DEF PrepareDeviceCredentialRotation
    <3> QED
      BY <1>2, <1>b, <2>1, <3>1, Frames
  <2>3. CASE Accepts(r.cred) /\ PrepareAllowed(devices[r.cred.device])
    <3> DEFINE d == r.cred.device
               row == devices[d]
               new == [row EXCEPT !.pending = fresh, !.expired = FALSE, !.pendingVersion = row.version + 1]
               cred == [device |-> d, token |-> fresh, version |-> row.version + 1]
    <3>1. d \in Device
      BY <2>3, ZenonT(30) DEF Accepts, VerifyDeviceCredential
    <3>2. /\ row.version < scenario.version
          /\ devices' = [devices EXCEPT ![d] = new]
          /\ net' = (net \ {r}) \cup Answered(r, "ok", cred)
      BY <1>1, <1>6, <2>3, <3>1, RowFacts, ZenonT(30) DEF PrepareDeviceCredentialRotation, CoreOK
    <3>a. row \in Row /\ scenario.version \in 0..MaxVersion
      BY <1>1, <3>1, RowFacts, ZenonT(30)
    <3>b. row.version \in 0..MaxVersion
      BY <3>a DEF Row
    <3>3. row.version + 1 \in 1..MaxVersion
      BY <3>2, <3>a, <3>b, Assumptions
    <3>c. row.version + 1 \in 0..MaxVersion
      BY <3>3, Assumptions
    <3>4. new \in Row
      <4> DEFINE v == row.version + 1
      <4> HIDE DEF v
      <4>1. v \in 0..MaxVersion /\ new = [row EXCEPT !.pending = fresh, !.expired = FALSE, !.pendingVersion = v]
        BY <3>c DEF v
      <4> QED
        BY <3>a, <4>1, ZenonT(30) DEF Row
    <3>5. cred \in Credential /\ cred \in MaybeCredential
      BY <3>1, <3>3 DEF Credential, MaybeCredential
    <3> HIDE DEF new, cred
    <3>6. CoreOK'
      BY <1>1, <1>2, <2>1, <3>1, <3>2, <3>4, RowStep DEF CoreOK
    <3> QED
      BY <1>1, <1>2, <2>1, <3>2, <3>5, <3>6, AnswerStep
  <2> QED
    BY <2>2, <2>3, ZenonT(30)
<1>7. CASE VerifyForConfirm(r)
  <2>1. StreamsOK' /\ CoreOK' /\ r.kind = "confirm"
    BY <1>2, <1>7, Frames DEF VerifyForConfirm
  <2>2. CASE \E d \in Device : Advance(r, "verified", d)
    BY <1>1, <1>2, <2>1, <2>2, AdvanceStep
  <2>3. CASE \E reply \in {"expired", "unauthorized"} : Answer(r, reply)
    BY <1>b, <2>1, <2>3
  <2> QED
    BY <1>7, <2>2, <2>3, ZenonT(30) DEF VerifyForConfirm, VerifyPendingDeviceCredential, VerifyDeviceCredential
<1>8. CASE ConfirmDeviceCredentialRotation(r)
  <2>1. StreamsOK' /\ UNCHANGED <<codes, revoking>> /\ r.kind = "confirm" /\ r.owner \in Device
    BY <1>1, <1>2, <1>8, Frames, ZenonT(30) DEF ConfirmDeviceCredentialRotation, ConfirmRequested, RequestOK
  <2>2. CASE UNCHANGED devices /\ \E reply \in {"ok", "unauthorized", "expired"} : Answer(r, reply)
    BY <1>2, <1>b, <1>c, <2>1, <2>2, Frames
  <2>3. CASE /\ devices' = [devices EXCEPT ![r.owner] = Promoted(devices[r.owner])]
             /\ Advance(r, "committed", r.owner)
    <3>a. devices[r.owner] \in Row
      BY <1>1, <2>1, RowFacts, ZenonT(30)
    <3>b. 0 \in 0..MaxVersion
      BY Assumptions
    <3>1. Promoted(devices[r.owner]) \in Row
      BY <3>a, <3>b, ZenonT(30) DEF Promoted, Row
    <3>2. CoreOK'
      BY <1>1, <1>2, <2>1, <2>3, <3>1, RowStep DEF CoreOK
    <3> QED
      BY <1>1, <1>2, <2>1, <2>3, <3>2, AdvanceStep
  <2> QED
    BY <1>8, <2>2, <2>3, ZenonT(30) DEF ConfirmDeviceCredentialRotation
<1>9. CASE closeDeviceSocketsAfterCredentialRotation(r)
  <2>1. r.kind = "confirm" /\ r.owner \in Device /\ CoreOK'
    BY <1>1, <1>2, <1>9, Frames, ZenonT(30) DEF closeDeviceSocketsAfterCredentialRotation, RequestOK
  <2>2. StreamsOK'
    BY <1>1, <1>2, <1>9, <2>1, CloseAllStep DEF closeDeviceSocketsAfterCredentialRotation
  <2> QED
    BY <1>9, <1>c, <2>1, <2>2 DEF closeDeviceSocketsAfterCredentialRotation
<1>10. CASE handleCancelDeviceCredentialRotation(r)
  <2>1. StreamsOK' /\ UNCHANGED <<codes, revoking>> /\ r.kind = "cancel"
    BY <1>2, <1>10, Frames DEF handleCancelDeviceCredentialRotation
  <2>2. CASE Accepts(r.cred)
    <3> DEFINE d == r.cred.device
               new == [devices[d] EXCEPT !.pending = None, !.pendingVersion = 0, !.expired = FALSE]
    <3>1. d \in Device
      BY <2>2 DEF Accepts, VerifyDeviceCredential
    <3>2. devices' = [devices EXCEPT ![d] = new] /\ Answer(r, "ok")
      BY <1>1, <1>10, <2>2, <3>1, ZenonT(30) DEF handleCancelDeviceCredentialRotation, CancelDeviceCredentialRotation, CoreOK
    <3>a. 0 \in 0..MaxVersion
      BY Assumptions
    <3>b. devices[d] \in Row
      BY <1>1, <3>1 DEF CoreOK
    <3>3. new \in Row
      BY <3>a, <3>b, ZenonT(30) DEF Row
    <3> HIDE DEF new
    <3>4. CoreOK'
      BY <1>1, <1>2, <2>1, <3>1, <3>2, <3>3, RowStep DEF CoreOK
    <3> QED
      BY <1>c, <2>1, <3>2, <3>4
  <2>3. CASE ~Accepts(r.cred)
    BY <1>2, <1>10, <1>b, <2>1, <2>3, Frames DEF handleCancelDeviceCredentialRotation
  <2> QED
    BY <2>2, <2>3
<1> QED
  BY <1>5, <1>6, <1>7, <1>8, <1>9, <1>10

(* The steps of the socket handler keep DeviceInv.                         *)
LEMMA StreamHandlersKeep ==
  ASSUME DeviceInv, UNCHANGED <<clientVars, scenario>>, NEW s \in conns,
         \/ AuthenticateStream(s)
         \/ registerDeviceSocket(s)
         \/ RevalidateStream(s)
         \/ PingStream(s)
         \/ unregisterDeviceSocket(s)
  PROVE  DeviceInv'
<1>1. UNCHANGED <<slots, transport, task, events, pairing, forgetting, scenario>> /\ StreamsOK
  BY DEF clientVars, DeviceInv
<1>2. UNCHANGED <<devices, codes, net, revoking>>
  BY DEF AuthenticateStream, registerDeviceSocket, RevalidateStream, PingStream, unregisterDeviceSocket
<1>3. CoreOK' /\ NetOK' /\ TaskOK' /\ LiveOK' /\ SlotsOK' /\ ClaimsOK' /\ EventsOK'
  BY <1>1, <1>2, Frames
<1>4. CASE \E at \in {"accepted", "registered", "live"} : Move(s, at)
  BY <1>1, <1>3, <1>4, MoveStep DEF DeviceInv
<1>5. CASE \E code \in {"none", "401", "4003", "4004"} : conns' = (conns \ {s}) \cup Ended(s, code)
  BY <1>1, <1>3, <1>5, EndedStep DEF DeviceInv
<1>6. CASE ~s.current /\ conns' = conns \ {s}
  <2>1. s \in Stream
    BY <1>1 DEF StreamsOK
  <2> QED
    BY <1>1, <1>3, <1>6, <2>1, StreamStep DEF DeviceInv
<1> QED
  BY <1>4, <1>5, <1>6, ZenonT(30) DEF AuthenticateStream, registerDeviceSocket, RevalidateStream, PingStream,
                          unregisterDeviceSocket, CloseStatus

(* A restart of Core keeps DeviceInv.                                      *)
LEMMA CoreRestartKeeps ==
  ASSUME DeviceInv, UNCHANGED <<clientVars, scenario>>, CoreRestart
  PROVE  DeviceInv'
<1>1. /\ UNCHANGED <<slots, transport, task, events, pairing, forgetting, scenario, devices, codes>>
      /\ CoreOK /\ NetOK /\ StreamsOK /\ LiveOK /\ ClaimsOK
      /\ net' \subseteq net /\ revoking' = {}
  BY ZenonT(30) DEF clientVars, DeviceInv, CoreRestart
<1>2. TaskOK' /\ SlotsOK' /\ EventsOK' /\ CoreOK'
  BY <1>1, Frames DEF CoreOK
<1>3. NetOK' /\ LiveOK' /\ ClaimsOK'
  BY <1>1 DEF NetOK, RequestOK, LiveOK, Rotation, ClaimsOK, Claim
<1>4. StreamsOK'
  <2> DEFINE shut(s) == [s EXCEPT !.at = "closed", !.code = "none"]
  <2>1. \A s \in conns : shut(s) \in Stream /\ shut(s).cred = s.cred /\ shut(s).current = s.current
    BY <1>1, ZenonT(30) DEF StreamsOK, Stream
  <2>2. conns' = {shut(s) : s \in {s \in conns : s.current}}
    BY ZenonT(30) DEF CoreRestart
  <2> HIDE DEF shut
  <2>3. conns' \subseteq Stream
    BY <2>1, <2>2
  <2>4. \A u \in conns' : u.current => \E v \in conns : v.current /\ u.cred = v.cred
    BY <2>1, <2>2
  <2>5. \A v \in conns : v.current => \E u \in conns' : u.current
    BY <2>1, <2>2
  <2>6. \A u, v \in conns' : u.current /\ v.current => u = v
    BY <1>1, <2>1, <2>2 DEF StreamsOK
  <2> QED
    BY <1>1, <2>3, <2>4, <2>5, <2>6, StreamsStep
<1> QED
  BY <1>2, <1>3, <1>4 DEF DeviceInv

(* Pairing sessions, expiries and revocation keep DeviceInv.               *)
LEMMA TableStepsKeep ==
  ASSUME DeviceInv, UNCHANGED <<clientVars, scenario>>,
         \/ \E c \in Code : CreatePairingSession(c) \/ PairingExpires(c)
         \/ \E d \in Device : PendingExpires(d) \/ RevokeDevice(d) \/ closeDeviceSockets(d)
  PROVE  DeviceInv'
<1>1. /\ UNCHANGED <<slots, transport, task, events, pairing, forgetting, scenario, net>>
      /\ CoreOK /\ StreamsOK
  BY DEF clientVars, DeviceInv, CreatePairingSession, PairingExpires, PendingExpires, RevokeDevice,
         closeDeviceSockets
<1>2. NetOK' /\ TaskOK' /\ LiveOK' /\ SlotsOK' /\ ClaimsOK' /\ EventsOK'
  BY <1>1, Frames
<1>3. ASSUME NEW c \in Code, CreatePairingSession(c) \/ PairingExpires(c) PROVE DeviceInv'
  <2>1. CoreOK' /\ StreamsOK'
    BY <1>1, <1>3, Frames DEF CreatePairingSession, PairingExpires, CoreOK
  <2> QED
    BY <1>2, <2>1 DEF DeviceInv
<1>4. ASSUME NEW d \in Device, PendingExpires(d) \/ RevokeDevice(d) PROVE DeviceInv'
  <2>1. StreamsOK' /\ UNCHANGED codes /\ revoking' \subseteq Device
    BY <1>1, <1>4, Frames DEF PendingExpires, RevokeDevice, CoreOK
  <2> DEFINE row == devices[d]
             old == [row EXCEPT !.expired = TRUE]
             gone == [row EXCEPT !.revoked = TRUE]
  <2>2. row \in Row
    BY <1>1, RowFacts, ZenonT(30)
  <2>3. old \in Row /\ gone \in Row
    BY <2>2, ZenonT(30) DEF Row
  <2>4. devices' = [devices EXCEPT ![d] = old] \/ devices' = [devices EXCEPT ![d] = gone]
    BY <1>1, <1>4 DEF PendingExpires, RevokeDevice, CoreOK
  <2> HIDE DEF old, gone
  <2>5. CoreOK'
    BY <1>1, <2>1, <2>3, <2>4, RowStep DEF CoreOK
  <2> QED
    BY <1>2, <2>1, <2>5 DEF DeviceInv
<1>5. ASSUME NEW d \in Device, closeDeviceSockets(d) PROVE DeviceInv'
  <2>1. CoreOK'
    BY <1>1, <1>5 DEF closeDeviceSockets, CoreOK
  <2>2. StreamsOK'
    BY <1>1, <1>5, CloseAllStep DEF closeDeviceSockets
  <2> QED
    BY <1>2, <2>1, <2>2 DEF DeviceInv
<1> QED
  BY <1>3, <1>4, <1>5

=============================================================================
