---------------------------- MODULE DeviceClaims ----------------------------
(***************************************************************************)
(* What device identity promises, on both sides of the connection.         *)
(***************************************************************************)
EXTENDS DeviceClient

\* The rows, requests, streams and slots are well formed, and the transport
\* is in mode "open" exactly when one of the streams is its own.
TypeOK ==
    /\ devices \in [Device -> Row]
    /\ codes \in [Code -> {"absent", "open", "expired", "consumed"}]
    /\ net \subseteq Request
    /\ conns \subseteq Stream
    /\ revoking \subseteq Device
    /\ slots \in [active : Credential \cup {NoCredential}, candidate : Credential \cup {NoCredential}]
    /\ transport \in [active : Credential \cup {NoCredential},
                      armed : Credential \cup {NoCredential},
                      mode : {"offline", "open", "waiting", "failed"}]
    /\ (transport.mode = "open") = \E s \in conns : {t \in conns : t.current} = {s}
    /\ task \in TaskState
    /\ events \in Seq(1..MaxVersion)
    /\ pairing \in BOOLEAN /\ forgetting \in BOOLEAN

PairedOnce == \A d, e \in Device : devices[d] # NoRow /\ devices[e] # NoRow => d = e

\* A paired device that is not revoked always has a credential Core accepts
\* in one of its two slots, whatever was lost, late, expired or not written
\* (docs/PROTOCOL.md: a lost response or failed Keystore write cannot strand
\* a paired device).  A phone that was paired anew is excepted: a confirmation
\* of the forgotten pairing that is still queued names only a key version, and
\* completeCredentialRotationFromSocket may take it for one of the new pairing.
NeverStranded ==
    slots.active # NoCredential /\ ~devices[slots.active.device].revoked /\ PairedOnce
        => Accepts(slots.active) \/ Accepts(slots.candidate)

\* No stream outlives its credential unnoticed: a live stream whose bearer is
\* no longer accepted is about to be closed by the confirmation or the
\* revocation that committed, although streams are opened concurrently.
NoStaleStream ==
    \A s \in conns :
        s.at = "live" => \/ Accepts(s.cred)
                        \/ s.cred.device \in revoking
                        \/ \E r \in net : r.at = "committed" /\ r.owner = s.cred.device

\* The two slots belong to one device and the candidate is the newer one,
\* also when the device is forgotten or paired anew under a running rotation.
SlotsAgree ==
    slots.candidate # NoCredential =>
        /\ slots.candidate.device = slots.active.device
        /\ slots.candidate.version > slots.active.version

\* Both sides are well formed, and the phone's slots never mix two pairings.
CredentialsWellFormed == TypeOK /\ SlotsAgree

\* A one-time code pairs at most one device, also when the claim is repeated
\* after a response was lost.
SingleUseCode ==
    \A d, e \in Device : devices[d].code # None /\ devices[d].code = devices[e].code => d = e

\* A rotation ends: the recovery from an expired replacement starts a second
\* preparation, which does not start a third.
RotationSettles == task.at \in Waiting ~> task = Idle

----------------------------------------------------------------------------
(***************************************************************************)
(* What the documents say and the code does not do.                        *)
(***************************************************************************)

\* docs/PROTOCOL.md: the transport is armed to use the replacement on the
\* next reconnect.  So, with no rotation running, it has not given up while
\* Core accepts a stored credential.
GivesUpOnlyWhenRefused ==
    transport.mode = "failed" /\ task = Idle /\ events = <<>>
        => ~Accepts(slots.active) /\ ~Accepts(slots.candidate)

\* docs/PROTOCOL.md: after the first confirmation Core closes old streams
\* with code 4004.
OldStreamsClosed ==
    [][\A s \in conns : \A t \in conns' :
          s.at # "closed" /\ t = [s EXCEPT !.at = "closed", !.code = "4004"] => ~Accepts(s.cred)]_vars

\* docs/PROTOCOL.md: pairing is required again if neither credential
\* authenticates; only then are the slots cleared.
DiscardOnlyRefused ==
    [][slots.active # NoCredential /\ slots'.active = NoCredential /\ ~forgetting
        => ~Accepts(slots.active) /\ ~Accepts(slots.candidate)]_vars
=============================================================================
