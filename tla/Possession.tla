----------------------------- MODULE Possession -----------------------------
(***************************************************************************)
(* Verification of proofs that may be used once: DPoPVerifier              *)
(* (pytitect/security/dpop.py) and HttpMessageSignatureVerifier            *)
(* (pytitect/security/signatures.py) over the replay store in memory       *)
(* (pytitect/security/replay.py).                                          *)
(*                                                                         *)
(* A verifier first checks a proof, with a reading of the clock for its    *)
(* time window, and then reserves its identity: with a second reading      *)
(* (DPoP) or with the first one (signatures).  Requests are verified by    *)
(* several threads, and the clock moves on between the two steps.          *)
(***************************************************************************)
EXTENDS WallClock, FiniteSets

CONSTANTS
    Threads,
    ProofIds,           \* key thumbprint and jti, or digest of label, key, nonce and signature
    IssuedAt,           \* iat, or created
    ExpiresAt,          \* expires, of signatures
    MaxAge, MaxLifetime, ClockSkew, ReplayTtl,  \* the fields of the verifiers
    ProofCapacity,      \* capacity of the replay store
    MaxPause            \* the longest time a thread takes from the first check to the reservation

\* The window in which a proof is accepted, skew on both sides, and a pause must fit into the
\* time its identity is kept.  __post_init__ does not require it; the defaults satisfy it with
\* minutes to spare (five minutes of age and twice 30 seconds of skew, ten minutes of replay_ttl).
ASSUME PossessionAssumption ==
    /\ {MaxAge, MaxLifetime, ReplayTtl, ProofCapacity} \subseteq Nat \ {0}
    /\ {ClockSkew, MaxPause} \subseteq Nat /\ IssuedAt \subseteq Int
    /\ ReplayTtl > MaxAge + 2 * ClockSkew + MaxPause

VARIABLES
    verifier,   \* "dpop" or "signature"
    seen,       \* the replay store: identity -> expires_at
    thread,     \* thread -> the proof it has checked, and its reading of the clock
    used,       \* history: the proofs accepted
    reused      \* history: the proofs accepted more than once

possessionVars == <<clock, verifier, seen, thread, used, reused>>

\* What may be wrong with a proof, apart from its times.  Two proofs may carry the same identity.
Flaws == {"none", "form", "signature", "context", "digest"}

Proofs == [id : ProofIds, issued_at : IssuedAt, expires_at : ExpiresAt, flaw : Flaws]

NoProof == [pc |-> "rest"]

PossessionInit ==
    /\ verifier \in {"dpop", "signature"}
    /\ clock = 0
    /\ seen = << >>
    /\ thread = [t \in Threads |-> NoProof]
    /\ used = {}
    /\ reused = {}

\* Mutant of InWindow: a proof may be of any age.
InWindowAnyAge(p, now) == p.issued_at <= now + ClockSkew

\* _verify_context(): iat within max_age, with skew on both sides; verify() of signatures does
\* the same with created.
InWindow(p, now) ==
    /\ p.issued_at <= now + ClockSkew
    /\ p.issued_at >= now - MaxAge - ClockSkew

\* The further times of a signature.
Lives(p, now) ==
    /\ p.expires_at >= now - ClockSkew
    /\ p.expires_at > p.issued_at
    /\ p.expires_at - p.issued_at <= MaxLifetime

\* A compact JWS with exactly the header, key and claims allowed.
CompactProof(p) == p.flaw # "form"

\* _verify_signature(): the embedded key has signed the proof.
SignedProof(p) == p.flaw # "signature"

\* _verify_context(): the claims are about this method, target, token and nonce.
BoundToRequest(p) == p.flaw # "context"

\* The body is the one that Content-Digest names; DPoP does not look at it.
DigestMatches(p) == p.flaw # "digest"

\* The backend verifies the signature under one of the allowed algorithms.
BackendVerifies(p) == p.flaw \notin {"form", "signature"}

\* The signature covers the required components and has key, tag and nonce as the policy asks.
PolicyHolds(p) == p.flaw # "context"

\* verify() up to the reservation.  A proof that fails a check is rejected at once.
CheckDPoP(t, p) ==
    /\ verifier = "dpop" /\ thread[t] = NoProof
    /\ CompactProof(p) /\ SignedProof(p) /\ BoundToRequest(p) /\ InWindow(p, clock)
    /\ thread' = [thread EXCEPT ![t] = [pc |-> "checked", proof |-> p, read |-> clock]]
    /\ UNCHANGED <<clock, verifier, seen, used, reused>>

CheckSignature(t, p) ==
    /\ verifier = "signature" /\ thread[t] = NoProof
    /\ DigestMatches(p) /\ BackendVerifies(p) /\ PolicyHolds(p)
    /\ InWindow(p, clock) /\ Lives(p, clock)
    /\ thread' = [thread EXCEPT ![t] = [pc |-> "checked", proof |-> p, read |-> clock]]
    /\ UNCHANGED <<clock, verifier, seen, used, reused>>

\* The reading of the clock that the reservation is made with.
ReserveAt(t) == IF verifier = "dpop" THEN clock ELSE thread[t].read

\* reserve(): identities that ran out are dropped, then this one is kept, unless it is there or
\* the store is full.  The proof is accepted exactly when its identity was reserved.
ReserveProof(t) ==
    LET p == thread[t].proof
        now == ReserveAt(t)
        live == {i \in DOMAIN seen : seen[i] > now}
        free == p.id \notin live /\ Cardinality(live) < ProofCapacity
    IN /\ thread[t].pc = "checked"
       /\ seen' = [i \in live \cup (IF free THEN {p.id} ELSE {}) |->
                      IF i \in live THEN seen[i] ELSE now + ReplayTtl]
       /\ used' = IF free THEN used \cup {p} ELSE used
       /\ reused' = IF free /\ p \in used THEN reused \cup {p} ELSE reused
       /\ thread' = [thread EXCEPT ![t] = NoProof]
       /\ UNCHANGED <<clock, verifier>>

\* purge(): the operator's plan has a cutoff that is not in the future.
PurgeSeen(cutoff) ==
    /\ seen' = [i \in {j \in DOMAIN seen : seen[j] > cutoff} |-> seen[i]]
    /\ UNCHANGED <<clock, verifier, thread, used, reused>>

\* Time passes, but no thread pauses for longer than MaxPause.
TickPaused ==
    /\ \A t \in Threads : thread[t] # NoProof => clock - thread[t].read < MaxPause
    /\ Tick
    /\ UNCHANGED <<verifier, seen, thread, used, reused>>

PossessionNext ==
    \/ TickPaused
    \/ \E t \in Threads :
          \/ \E p \in Proofs : CheckDPoP(t, p) \/ CheckSignature(t, p)
          \/ ReserveProof(t)
    \/ \E cutoff \in 0..clock : PurgeSeen(cutoff)

PossessionSpec == PossessionInit /\ [][PossessionNext]_possessionVars

----------------------------------------------------------------------------
\* A proof is accepted at most once, whichever threads verify it, however the readings of the
\* clock interleave with reservations and purges of other threads.  Only accepted proofs use up
\* identities: one that was rejected takes nothing from a proof of the same identity that is in
\* order, nor from the capacity of the store.
ProofOnce ==
    /\ reused = {}
    /\ \A i \in DOMAIN seen : \E p \in used : p.id = i /\ p.flaw \in {"none", "digest"}

\* Strengthening.

\* A proof that a thread has checked is in order, and was in its window not long ago.
ThreadsCoherent ==
    \A t \in Threads :
        \/ thread[t] = NoProof
        \/ /\ thread[t].pc = "checked" /\ thread[t].proof \in Proofs
           /\ thread[t].proof.flaw \in {"none", "digest"}
           /\ thread[t].read \in Nat /\ thread[t].read <= clock /\ clock - thread[t].read <= MaxPause
           /\ InWindow(thread[t].proof, thread[t].read)

\* The last instant at which a proof may be reserved.
LastReserve(p) == p.issued_at + MaxAge + ClockSkew + MaxPause

\* A used proof is seen for as long as anybody may come to reserve it again.
UsedSeen ==
    \A p \in used : clock > LastReserve(p) \/ (p.id \in DOMAIN seen /\ seen[p.id] > LastReserve(p))

PossessionIInv ==
    /\ clock \in Nat /\ DOMAIN thread = Threads /\ used \subseteq Proofs
    /\ \A i \in DOMAIN seen : seen[i] \in Int
    /\ ThreadsCoherent /\ UsedSeen /\ ProofOnce
=============================================================================
