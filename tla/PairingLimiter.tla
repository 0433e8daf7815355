--------------------------- MODULE PairingLimiter ---------------------------
(* The limiter in front of pairing claims (pairingClaimRateLimit and             *)
(* allowPairingClaim, internal/api/server.go): a sliding window for each address *)
(* and one for all of them.  A request reads the clock before it takes the lock, *)
(* so requests may enter in another order than their times.                      *)
EXTENDS Naturals, Sequences, FiniteSets, Bags

CONSTANTS
    Address,     \* what pairingClaimAddress makes of a remote address
    Claimant,    \* requests in flight at a time
    ClaimWindow, \* pairingClaimWindow
    PerAddress,  \* pairingClaimsPerIP
    Globally,    \* pairingClaimsGlobal
    MapTarget,   \* pairingAttemptMapTarget
    ClaimLag,    \* bound on the time between reading the clock and the lock
    ClaimTime    \* bound on the clock

ASSUME LimiterAssumption ==
    /\ {ClaimWindow, PerAddress, Globally, MapTarget, ClaimLag, ClaimTime} \subseteq Nat
    /\ ClaimLag < ClaimWindow
    /\ 2 * Globally <= MapTarget

VARIABLES
    clock,
    claimant,       \* the address and the time of each request before the lock
    pairingGlobal,  \* the slice of accepted times
    pairingAttempts,\* the map from addresses to accepted times
    allowed         \* history: the claims accepted lately, by address and time

limiterVars == <<clock, claimant, pairingGlobal, pairingAttempts, allowed>>

NoClaim == <<>>

LimiterInit ==
    /\ clock = ClaimWindow
    /\ claimant = [c \in Claimant |-> NoClaim]
    /\ pairingGlobal = <<>>
    /\ pairingAttempts = [a \in {} |-> <<>>]
    /\ allowed = EmptyBag

\* An entry at the edge of the window kept out one tick early.
recentAttemptsShort(attempts, now) ==
    LET old == {i \in DOMAIN attempts : \A j \in 1..i : attempts[j] + ClaimWindow <= now + 2}
    IN SubSeq(attempts, Cardinality(old) + 1, Len(attempts))

\* The leading entries that are not after the cutoff are dropped; the slice
\* need not be sorted, and an old entry behind a recent one stays.
recentAttempts(attempts, now) ==
    LET old == {i \in DOMAIN attempts : \A j \in 1..i : attempts[j] + ClaimWindow <= now}
    IN SubSeq(attempts, Cardinality(old) + 1, Len(attempts))

\* A map above its target loses the addresses without recent attempts.
Pruned(map, now) ==
    IF Cardinality(DOMAIN map) <= MapTarget THEN map
    ELSE [a \in {b \in DOMAIN map : recentAttempts(map[b], now) # <<>>} |->
             recentAttempts(map[a], now)]

AttemptsOf(address) ==
    IF address \in DOMAIN pairingAttempts THEN pairingAttempts[address] ELSE <<>>

WithAttempts(address, attempts) ==
    [a \in DOMAIN pairingAttempts \cup {address} |->
        IF a = address THEN attempts ELSE pairingAttempts[a]]

\* The global ceiling is checked before anything is allocated.
allowPairingClaim(c) ==
    /\ claimant[c] # NoClaim
    /\ LET address == claimant[c][1]
           now == claimant[c][2]
           global == recentAttempts(pairingGlobal, now)
           attempts == recentAttempts(AttemptsOf(address), now)
       IN \/ /\ Len(global) >= Globally
             /\ pairingGlobal' = global
             /\ UNCHANGED <<pairingAttempts, allowed>>
          \/ /\ Len(global) < Globally /\ Len(attempts) >= PerAddress
             /\ pairingGlobal' = global
             /\ pairingAttempts' = WithAttempts(address, attempts)
             /\ UNCHANGED allowed
          \/ /\ Len(global) < Globally /\ Len(attempts) < PerAddress
             /\ pairingGlobal' = Append(global, now)
             /\ pairingAttempts' = Pruned(WithAttempts(address, Append(attempts, now)), now)
             /\ allowed' = allowed (+) SetToBag({<<address, now>>})
    /\ claimant' = [claimant EXCEPT ![c] = NoClaim]
    /\ UNCHANGED clock

\* The middleware reads the clock.
pairingClaimRateLimit(c, address) ==
    /\ claimant[c] = NoClaim
    /\ claimant' = [claimant EXCEPT ![c] = <<address, clock>>]
    /\ UNCHANGED <<clock, pairingGlobal, pairingAttempts, allowed>>

\* The part of the history whose claims satisfy a condition.
AcceptedWhere(P(_)) == [e \in {d \in DOMAIN allowed : P(d)} |-> allowed[e]]

claimTick ==
    /\ clock < ClaimTime
    /\ \A c \in Claimant : claimant[c] # NoClaim => clock < claimant[c][2] + ClaimLag
    /\ clock' = clock + 1
    /\ allowed' = AcceptedWhere(LAMBDA e : clock + 1 < e[2] + ClaimWindow + ClaimLag)
    /\ UNCHANGED <<claimant, pairingGlobal, pairingAttempts>>

LimiterNext ==
    \/ \E c \in Claimant :
          \/ allowPairingClaim(c)
          \/ \E a \in Address : pairingClaimRateLimit(c, a)
    \/ claimTick

\* The claims of a set of addresses accepted within a window that ends at t,
\* shorter than the limiter's by what a request may be late.
Within(addresses, t) ==
    BagCardinality(AcceptedWhere(LAMBDA e :
        e[1] \in addresses /\ e[2] <= t /\ t < e[2] + ClaimWindow - ClaimLag))

\* No window, wherever it begins, sees more claims than the limits, from one
\* address or from all, in whatever order requests reach the lock.
ClaimsAreBounded ==
    \A t \in 0..clock :
       /\ Within(Address, t) <= Globally
       /\ \A a \in Address : Within({a}, t) <= PerAddress

\* However many addresses ask, the map stays within its target: what a prune
\* keeps was accepted within one window of a time that is itself at most a
\* window late.
LimiterIsBounded == Cardinality(DOMAIN pairingAttempts) <= MapTarget

\* The limiter limits, and the memory it needs for that is limited too.
LimitsHold == ClaimsAreBounded /\ LimiterIsBounded
=============================================================================
