----------------------------- MODULE DeviceCore -----------------------------
(***************************************************************************)
(* Core's side of device identity (core/persistence/devices.go,            *)
(* internal/api/devices.go, internal/api/device_credentials.go, the socket *)
(* handler of internal/api/android.go): pairing, the two-phase rotation of *)
(* a device credential, revocation and the device streams.                 *)
(*                                                                         *)
(* The store has one database connection, so a transaction is one step.    *)
(* Between two steps of a handler anything may happen.  A transaction that *)
(* fails (the audit entry is written in it) changes nothing and is seen by *)
(* the client as a timeout.  Credentials stand for themselves: what the    *)
(* table keeps is their hash.                                              *)
(***************************************************************************)
EXTENDS Naturals, FiniteSets

CONSTANTS
    Device,      \* device identifiers, taken one by one by pairing
    Token,       \* random credentials
    Code,        \* one-time pairing codes
    None,        \* NULL
    MaxVersion,  \* bound on key_version
    Scenario     \* the cases: records of what may happen, see below

ASSUME DeviceAssumption ==
    /\ None \notin Device \cup Token \cup Code
    /\ MaxVersion \in Nat \ {0}
    /\ \A s \in Scenario : s.version \in 0..MaxVersion

VARIABLES
    scenario,    \* the case of the behaviour
    devices,     \* the devices table: [Device -> row]
    codes,       \* pairing_sessions: [Code -> "absent", "open", "expired", "consumed"]
    net,         \* HTTP requests on their way, in a handler, or answered
    conns,       \* device streams
    revoking     \* devices whose revocation is committed and whose streams
                 \* are still to be closed

coreVars == <<devices, codes, net, conns, revoking>>

\* What the users, the machines and the scheduler do, which Keystore operations
\* can fail, and the last key version a rotation reaches.
Operation == scenario.operation
Fault     == scenario.fault

NoCredential == [device |-> None, token |-> None, version |-> 0]

Credential == [device : Device, token : Token, version : 1..MaxVersion]

NoRow == [active |-> None, version |-> 0, pending |-> None, pendingVersion |-> 0,
          expired |-> FALSE, revoked |-> FALSE, code |-> None]

Row == [active : Token \cup {None}, version : 0..MaxVersion, pending : Token \cup {None},
        pendingVersion : 0..MaxVersion, expired : BOOLEAN, revoked : BOOLEAN,
        code : Code \cup {None}]

(***************************************************************************)
(* A request: at "sent" it may still get lost; "done" is a response on its *)
(* way.  The client waits for the one that is live.                        *)
(***************************************************************************)
Request == [kind : {"claim", "prepare", "confirm", "cancel"},
            cred : Credential \cup {NoCredential}, code : Code \cup {None},
            at : {"sent", "verified", "committed", "done"}, owner : Device \cup {None},
            reply : {"none", "ok", "unauthorized", "conflict", "expired"},
            fresh : Credential \cup {NoCredential}, live : BOOLEAN]

Ask(kind, cred, code) ==
    [kind |-> kind, cred |-> cred, code |-> code, at |-> "sent", owner |-> None,
     reply |-> "none", fresh |-> NoCredential, live |-> TRUE]

(***************************************************************************)
(* A stream: what the handler has reached, the close code it has sent, and *)
(* whether it is the stream the client's transport holds.                  *)
(***************************************************************************)
Stream == [cred : Credential, at : {"dialing", "accepted", "registered", "live", "closed"},
           code : {"none", "401", "4003", "4004"}, current : BOOLEAN]

Dial(cred) == [cred |-> cred, at |-> "dialing", code |-> "none", current |-> TRUE]

(***************************************************************************)
(* Authentication.                                                         *)
(***************************************************************************)
VerifyDeviceCredential(t) == {d \in Device : ~devices[d].revoked /\ devices[d].active = t}

VerifyPendingDeviceCredential(t) == {d \in Device : ~devices[d].revoked /\ devices[d].pending = t}

Accepts(cred) == cred.device \in VerifyDeviceCredential(cred.token)

(***************************************************************************)
(* Answers.  An abandoned request gets none: its response is dropped.      *)
(***************************************************************************)
Answered(r, reply, fresh) ==
    IF r.live THEN {[r EXCEPT !.at = "done", !.owner = None, !.reply = reply, !.fresh = fresh]}
              ELSE {}

Answer(r, reply) == net' = (net \ {r}) \cup Answered(r, reply, NoCredential)

Advance(r, at, d) == net' = (net \ {r}) \cup {[r EXCEPT !.at = at, !.owner = d]}

----------------------------------------------------------------------------
(***************************************************************************)
(* Pairing.                                                                *)
(***************************************************************************)
CreatePairingSession(c) ==
    /\ codes[c] = "absent"
    /\ codes' = [codes EXCEPT ![c] = "open"]
    /\ UNCHANGED <<devices, net, conns, revoking>>

PairingExpires(c) ==
    /\ codes[c] = "open"
    /\ codes' = [codes EXCEPT ![c] = "expired"]
    /\ UNCHANGED <<devices, net, conns, revoking>>

\* A code that was claimed before can be claimed again.
ClaimableAgain(c) == codes[c] \in {"open", "consumed"}

Claimable(c) == codes[c] = "open"

\* One transaction stores the device and consumes the code.
ClaimPairingSession(c, d, fresh) ==
    /\ devices' = [devices EXCEPT ![d] =
                      [NoRow EXCEPT !.active = fresh, !.version = 1, !.code = c]]
    /\ codes' = [codes EXCEPT ![c] = "consumed"]

handleClaimPairing(r, fresh) ==
    /\ r.kind = "claim" /\ r.at = "sent"
    /\ IF Claimable(r.code)
       THEN \E d \in {x \in Device : devices[x] = NoRow} :
              /\ ClaimPairingSession(r.code, d, fresh)
              /\ net' = (net \ {r}) \cup
                            Answered(r, "ok", [device |-> d, token |-> fresh, version |-> 1])
       ELSE Answer(r, "conflict") /\ UNCHANGED <<devices, codes>>
    /\ UNCHANGED <<conns, revoking>>

(***************************************************************************)
(* Rotation, first phase: the replacement becomes pending, the active      *)
(* credential stays.  Authentication and the transaction check the same    *)
(* row, and the transaction decides.                                       *)
(***************************************************************************)
PrepareAllowed(row) == row.pending = None \/ row.expired

PrepareDeviceCredentialRotation(r, fresh) ==
    LET d == r.cred.device
        row == devices[d]
    IN  /\ r.kind = "prepare" /\ r.at = "sent"
        /\ IF ~Accepts(r.cred)
           THEN Answer(r, "unauthorized") /\ UNCHANGED devices
           ELSE IF ~PrepareAllowed(row)
           THEN Answer(r, "conflict") /\ UNCHANGED devices
           ELSE /\ row.version < scenario.version
                /\ devices' = [devices EXCEPT ![d].pending = fresh, ![d].expired = FALSE,
                                              ![d].pendingVersion = row.version + 1]
                /\ net' = (net \ {r}) \cup
                       Answered(r, "ok", [device |-> d, token |-> fresh, version |-> row.version + 1])
        /\ UNCHANGED <<codes, conns, revoking>>

\* Five minutes pass.
PendingExpires(d) ==
    /\ devices[d].pending # None /\ ~devices[d].expired
    /\ devices' = [devices EXCEPT ![d].expired = TRUE]
    /\ UNCHANGED <<codes, net, conns, revoking>>

(***************************************************************************)
(* Second phase.  The handler looks the bearer up among the pending        *)
(* credentials, then among the active ones; the transaction then decides   *)
(* on the row as it is by that time.                                       *)
(***************************************************************************)
VerifyForConfirm(r) ==
    /\ r.kind = "confirm" /\ r.at = "sent"
    /\ LET pending == VerifyPendingDeviceCredential(r.cred.token)
           usable == {d \in pending : ~devices[d].expired}
           active == VerifyDeviceCredential(r.cred.token)
       IN  \/ \E d \in usable : Advance(r, "verified", d)
           \/ usable = {} /\ pending # {} /\ Answer(r, "expired")
           \/ \E d \in active : pending = {} /\ Advance(r, "verified", d)
           \/ pending = {} /\ active = {} /\ Answer(r, "unauthorized")
    /\ UNCHANGED <<devices, codes, conns, revoking>>

Promoted(row) == [row EXCEPT !.active = row.pending, !.version = row.pendingVersion,
                             !.pending = None, !.pendingVersion = 0, !.expired = FALSE]

\* The expiry is looked at only when the bearer is looked up.
UnexpiredUnchecked(row) == TRUE

Unexpired(row) == ~row.expired

\* A request with the bearer's device and a key version.
ConfirmRequested(r) == r.kind = "confirm" /\ r.at = "verified"

ConfirmDeviceCredentialRotation(r) ==
    LET d == r.owner
        row == devices[d]
    IN  /\ ConfirmRequested(r)
        /\ IF ~row.revoked /\ row.active = r.cred.token
           THEN /\ Answer(r, IF row.version = r.cred.version THEN "ok" ELSE "unauthorized")
                /\ UNCHANGED devices
           ELSE IF row.revoked \/ row.pending = None
           THEN Answer(r, "unauthorized") /\ UNCHANGED devices
           ELSE IF ~Unexpired(row)
           THEN Answer(r, "expired") /\ UNCHANGED devices
           ELSE IF row.pendingVersion # r.cred.version \/ row.pending # r.cred.token
           THEN Answer(r, "unauthorized") /\ UNCHANGED devices
           ELSE /\ devices' = [devices EXCEPT ![d] = Promoted(row)]
                /\ Advance(r, "committed", d)
        /\ UNCHANGED <<codes, conns, revoking>>

CancelDeviceCredentialRotation(d) ==
    devices' = [devices EXCEPT ![d].pending = None, ![d].pendingVersion = 0, ![d].expired = FALSE]

handleCancelDeviceCredentialRotation(r) ==
    /\ r.kind = "cancel" /\ r.at = "sent"
    /\ IF Accepts(r.cred)
       THEN CancelDeviceCredentialRotation(r.cred.device) /\ Answer(r, "ok")
       ELSE Answer(r, "unauthorized") /\ UNCHANGED devices
    /\ UNCHANGED <<codes, conns, revoking>>

(***************************************************************************)
(* Streams.  The handler authenticates, registers the connection, and only *)
(* then authenticates the same bearer again.                               *)
(***************************************************************************)
CloseStatus(cred) == IF devices[cred.device].revoked THEN "4003" ELSE "4004"

\* The server is done with s; the client's transport hears of it if s is
\* the stream it holds.
Ended(s, code) == IF s.current THEN {[s EXCEPT !.at = "closed", !.code = code]} ELSE {}

CloseAll(d, code) ==
    LET open == {s \in conns : s.cred.device = d /\ s.at \in {"registered", "live"}}
    IN  conns' = (conns \ open) \cup UNION {Ended(s, code) : s \in open}

closeDeviceSocketsAfterCredentialRotation(r) ==
    /\ r.at = "committed"
    /\ CloseAll(r.owner, "4004")
    /\ Answer(r, "ok")
    /\ UNCHANGED <<devices, codes, revoking>>

Move(s, at) == conns' = (conns \ {s}) \cup {[s EXCEPT !.at = at]}

AuthenticateStream(s) ==
    /\ s.at = "dialing"
    /\ IF Accepts(s.cred) THEN Move(s, "accepted")
                          ELSE conns' = (conns \ {s}) \cup Ended(s, "401")
    /\ UNCHANGED <<devices, codes, net, revoking>>

\* After its commit a confirmation goes on to close the streams without
\* waiting for anything.  That a client gives it up, comes back, and has a
\* stream opened with the promoted credential, or with a later one, meanwhile
\* takes a stall.
StillToClose(s) ==
    \E r \in net : r.at = "committed" /\ r.owner = s.cred.device /\ r.cred.version <= s.cred.version

registerDeviceSocket(s) ==
    /\ s.at = "accepted"
    /\ StillToClose(s) => "stall" \in Operation
    /\ Move(s, "registered")
    /\ UNCHANGED <<devices, codes, net, revoking>>

\* The bearer is not looked at again once the connection is registered.
RevalidateNothing(s) ==
    /\ s.at = "registered"
    /\ Move(s, "live")
    /\ UNCHANGED <<devices, codes, net, revoking>>

RevalidateStream(s) ==
    /\ s.at = "registered"
    /\ IF Accepts(s.cred) THEN Move(s, "live")
                          ELSE conns' = (conns \ {s}) \cup Ended(s, CloseStatus(s.cred))
    /\ UNCHANGED <<devices, codes, net, revoking>>

\* Every 20 seconds a live stream's bearer is authenticated again.
PingStream(s) ==
    /\ s.at = "live" /\ ~Accepts(s.cred)
    /\ conns' = (conns \ {s}) \cup Ended(s, CloseStatus(s.cred))
    /\ UNCHANGED <<devices, codes, net, revoking>>

\* The read or the ping of a stream that the client has given up fails.
unregisterDeviceSocket(s) ==
    /\ ~s.current
    /\ conns' = conns \ {s}
    /\ UNCHANGED <<devices, codes, net, revoking>>

(***************************************************************************)
(* Revocation: the commit, then the streams.                               *)
(***************************************************************************)
RevokeDevice(d) ==
    /\ devices[d] # NoRow /\ ~devices[d].revoked
    /\ devices' = [devices EXCEPT ![d].revoked = TRUE]
    /\ revoking' = revoking \cup {d}
    /\ UNCHANGED <<codes, net, conns>>

\* handleRevokeDevice goes on after the commit.
closeDeviceSockets(d) ==
    /\ d \in revoking
    /\ CloseAll(d, "4003")
    /\ revoking' = revoking \ {d}
    /\ UNCHANGED <<devices, codes, net>>

(***************************************************************************)
(* The process dies: requests and streams break, the tables stay.          *)
(***************************************************************************)
CoreRestart ==
    /\ net' = {r \in net : r.at = "done"}
    /\ conns' = {[s EXCEPT !.at = "closed", !.code = "none"] : s \in {s \in conns : s.current}}
    /\ revoking' = {}
    /\ UNCHANGED <<devices, codes>>
=============================================================================
