------------------------------ MODULE MCDevice ------------------------------
(***************************************************************************)
(* Instances of DeviceClient for TLC: two rotations in a row; one rotation *)
(* with the app and Core dying, failing Keystore writes and a revocation;  *)
(* and pairing, forgetting and pairing anew under a rotation.              *)
(***************************************************************************)
EXTENDS DeviceClaims, TLC

Rotations == [operation |-> {"rotate", "drop", "expire"}, fault |-> {}, version |-> 3]
Restarts  == [operation |-> {"rotate", "drop", "expire", "appRestart", "coreRestart", "revoke"},
              fault |-> {"write"}, version |-> 2]
Pairing   == [operation |-> {"pair", "forget", "rotate"}, fault |-> {}, version |-> 2]
Settling  == [operation |-> {"rotate", "expire"}, fault |-> {"read"}, version |-> 2]

SafetyScenarios == {Rotations, Restarts, Pairing}
LiveScenarios   == {Settling}

Symmetry == Permutations(Token) \cup Permutations(Device) \cup Permutations(Code)
=============================================================================
