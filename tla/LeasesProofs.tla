---------------------------- MODULE LeasesProofs ----------------------------
(***************************************************************************)
(* Leases exclude and fencing orders, for every number of owners and       *)
(* resources, every ttl and every capacity.                                *)
(*                                                                         *)
(* The order of the writes is not inductive alone: TokensBounded adds that *)
(* the token counter dominates every token ever written under and that the *)
(* lease under a running mutation cannot be superseded; LeaseHonoured      *)
(* needs CallsHeld, that a renewal or release in flight is about the lease *)
(* its owner holds.                                                        *)
(***************************************************************************)
EXTENDS Leases, TLAPS

\* Nothing is leased, held or written at first.
LEMMA InitIInv == Init => IInv
  BY LeaseAssumption DEF Init, IInv, TypeOK, LeaseHonoured, FencedOrder,
     TokensBounded, CallsHeld, NoCall, NoLease, Free, TokenOf

\* The call an owner has in flight is well typed and sampled in the past.
LEMMA CallFacts ==
  ASSUME IInv, NEW o \in Owners, call[o] # NoCall
  PROVE  /\ call[o] \in AcquireCall \cup LeaseCall
         /\ call[o].now \in Nat
         /\ call[o].now <= clock /\ clock \in Nat
         /\ call[o].op \in {"renew", "release"} =>
               /\ call[o].lease \in Lease
               /\ call[o].lease = held[o]
  <1>1. call[o] \in AcquireCall \cup LeaseCall /\ call[o].now <= clock /\ clock \in Nat
    BY DEF IInv, TypeOK
  <1> QED BY <1>1 DEF IInv, CallsHeld, AcquireCall, LeaseCall

\* A value of type Lease is not the placeholder NoLease.
LEMMA LeaseIsReal ==
  ASSUME NEW l \in Lease
  PROVE  l # NoLease
  BY LeaseAssumption DEF Lease, NoLease

\* What every store method does to the call, the lock and the rest.
LEMMA LockedFacts ==
  ASSUME IInv, NEW o \in Owners, NEW op, Locked(o, op)
  PROVE  /\ lock = Free /\ lock' = lock /\ writes' = writes /\ clock' = clock
         /\ call[o] # NoCall /\ call[o].op = op
         /\ call' \in [Owners -> {NoCall} \cup AcquireCall \cup LeaseCall]
         /\ \A p \in Owners : call'[p] # NoCall => call'[p].now <= clock'
         /\ \A p \in Owners : call'[p] # NoCall => p # o /\ call'[p] = call[p]
  BY DEF IInv, TypeOK, Locked

\* Sampling the clock for a call changes nothing else.
LEMMA CallStep ==
  ASSUME IInv, NEW o \in Owners, NEW q \in AcquireCall \cup LeaseCall,
         q.now = clock, q.op \in {"renew", "release"} => q.lease = held[o],
         Call(o, q)
  PROVE  IInv'
  <1>1. UNCHANGED <<leases, tokens, clock, held, lock, writes>>
    BY DEF Call
  <1>2. /\ call' \in [Owners -> {NoCall} \cup AcquireCall \cup LeaseCall]
        /\ call'[o] = q
        /\ \A p \in Owners : p # o => call'[p] = call[p]
    BY DEF Call, IInv, TypeOK
  <1>3. clock \in Nat
    BY DEF IInv, TypeOK
  <1>4. TypeOK'
    BY <1>1, <1>2, <1>3 DEF IInv, TypeOK
  <1>5. CallsHeld'
    BY <1>1, <1>2 DEF IInv, CallsHeld
  <1> QED BY <1>1, <1>4, <1>5 DEF IInv, LeaseHonoured, FencedOrder, TokensBounded, TokenOf

\* A call that is refused (LeaseBusy, OverflowError, StaleLease).
LEMMA RefusedStep ==
  ASSUME IInv, NEW o \in Owners, NEW op, Locked(o, op),
         UNCHANGED <<leases, tokens, held>>
  PROVE  IInv'
  <1>1. TypeOK'
    BY LockedFacts DEF IInv, TypeOK
  <1>2. CallsHeld'
    BY LockedFacts DEF IInv, CallsHeld
  <1> QED BY <1>1, <1>2, LockedFacts
        DEF IInv, LeaseHonoured, FencedOrder, TokensBounded, TokenOf

\* A takeover happens only after the current lease ended, with a token greater
\* than any issued for the resource before.
LEMMA AcquireStep ==
  ASSUME IInv, NEW o \in Owners, Acquire(o)
  PROVE  IInv'
  <1> DEFINE r == call[o].resource
             now == call[o].now
             token == TokenOf(r) + 1
             lease == [resource |-> r, owner |-> o, fencing_token |-> token,
                       expires_at |-> now + Ttl]
  <1>1. Locked(o, "acquire")
    BY DEF Acquire
  <1>2. CASE UNCHANGED <<leases, tokens, held>>
    BY <1>1, <1>2, RefusedStep
  <1>3. CASE /\ ~Busy(r, now)
             /\ tokens' = Put(tokens, r, token)
             /\ leases' = Put(leases, r, lease)
             /\ held' = [held EXCEPT ![o] = lease]
    <2>1. /\ lock = Free /\ lock' = lock /\ writes' = writes /\ clock' = clock
          /\ call[o] # NoCall /\ call[o].op = "acquire"
          /\ call' \in [Owners -> {NoCall} \cup AcquireCall \cup LeaseCall]
          /\ \A p \in Owners : call'[p] # NoCall => call'[p].now <= clock'
          /\ \A p \in Owners : call'[p] # NoCall => p # o /\ call'[p] = call[p]
      BY <1>1, LockedFacts
    <2>2. r \in Resources /\ now \in Nat /\ now <= clock /\ clock \in Nat
      BY <2>1, CallFacts DEF AcquireCall, LeaseCall
    <2>3. token \in Nat \ {0} /\ TokenOf(r) \in Nat /\ TokenOf(r) < token
      BY DEF IInv, TypeOK, TokenOf
    <2>4. /\ lease \in Lease /\ lease.resource = r /\ lease.owner = o
          /\ lease.fencing_token = token /\ lease.expires_at = now + Ttl
      BY <2>2, <2>3, LeaseAssumption DEF Lease
    <2> HIDE DEF lease
    <2>5. /\ DOMAIN leases' = DOMAIN leases \cup {r}
          /\ leases'[r] = lease
          /\ \A q \in DOMAIN leases : q # r => leases'[q] = leases[q]
          /\ DOMAIN tokens' = DOMAIN tokens \cup {r}
          /\ tokens'[r] = token
          /\ \A q \in DOMAIN tokens : q # r => tokens'[q] = tokens[q]
      BY <1>3 DEF Put
    <2> HIDE DEF token
    <2>6. /\ held' \in [Owners -> {NoLease} \cup Lease]
          /\ held'[o] = lease
          /\ \A p \in Owners : p # o => held'[p] = held[p]
      BY <1>3, <2>4 DEF IInv, TypeOK
    <2>7. TypeOK'
      BY <2>1, <2>2, <2>3, <2>4, <2>5, <2>6 DEF IInv, TypeOK
    <2>8. LeaseHonoured'
      <3> SUFFICES ASSUME NEW p \in Owners, held'[p] # NoLease,
                          clock' < held'[p].expires_at
                   PROVE  /\ held'[p].resource \in DOMAIN leases'
                          /\ leases'[held'[p].resource] = held'[p]
        BY DEF LeaseHonoured
      <3>1. CASE p = o
        BY <2>4, <2>5, <2>6, <3>1
      <3>2. CASE p # o
        <4>1. /\ held[p].resource \in DOMAIN leases
              /\ leases[held[p].resource] = held[p]
              /\ held[p] \in Lease
          BY <2>1, <2>6, <3>2 DEF IInv, LeaseHonoured, TypeOK
        <4>2. held[p].resource # r
          BY <1>3, <2>1, <2>2, <2>6, <3>2, <4>1 DEF Busy, Lease
        <4> QED BY <2>5, <2>6, <3>2, <4>1, <4>2
      <3> QED BY <3>1, <3>2
    <2>9. FencedOrder'
      BY <2>1 DEF IInv, FencedOrder
    <2>10. \A q \in Resources : TokenOf(q) \in Nat /\ TokenOf(q) <= TokenOf(q)'
      BY <2>3, <2>5 DEF IInv, TypeOK, TokenOf
    <2>11. TokensBounded'
      <3>1. \A q \in Resources : \A i \in DOMAIN writes[q] : writes[q][i] <= TokenOf(q)'
        <4> SUFFICES ASSUME NEW q \in Resources, NEW i \in DOMAIN writes[q]
                     PROVE  writes[q][i] <= TokenOf(q)'
          OBVIOUS
        <4>1. writes[q][i] \in Nat /\ writes[q][i] <= TokenOf(q)
          BY DEF IInv, TypeOK, TokensBounded
        <4>2. TokenOf(q)' \in Nat
          BY <2>2, <2>3, <2>5 DEF IInv, TypeOK, TokenOf
        <4> QED BY <2>10, <4>1, <4>2
      <3>2. /\ DOMAIN leases' \subseteq DOMAIN tokens'
            /\ \A q \in DOMAIN leases' : leases'[q].fencing_token = tokens'[q]
        BY <2>4, <2>5 DEF IInv, TokensBounded
      <3> QED BY <2>1, <3>1, <3>2 DEF TokensBounded
    <2>12. CallsHeld'
      BY <2>1, <2>4, <2>6 DEF IInv, CallsHeld
    <2> QED BY <2>7, <2>8, <2>9, <2>11, <2>12 DEF IInv
  <1> QED BY <1>2, <1>3 DEF Acquire

\* The lease of a renewal or release that is not refused is its owner's, and
\* nobody else holds it unexpired.
LEMMA CurrentFacts ==
  ASSUME IInv, NEW o \in Owners, call[o] # NoCall, call[o].op \in {"renew", "release"},
         Current(call[o].lease, call[o].now)
  PROVE  /\ held[o] = call[o].lease /\ held[o] \in Lease /\ held[o] # NoLease
         /\ held[o].owner = o
         /\ held[o].resource \in DOMAIN leases /\ leases[held[o].resource] = held[o]
         /\ \A p \in Owners : p # o /\ held[p] # NoLease /\ clock < held[p].expires_at
                => held[p].resource # held[o].resource
  <1>1. held[o] = call[o].lease /\ held[o] \in Lease /\ held[o] # NoLease
    BY CallFacts, LeaseIsReal
  <1>2. held[o].resource \in DOMAIN leases /\ leases[held[o].resource] = held[o]
    BY <1>1 DEF Current
  <1>3. \A p \in Owners : held[p] # NoLease => held[p].owner = p
    BY DEF IInv, CallsHeld
  <1> QED BY <1>1, <1>2, <1>3 DEF IInv, LeaseHonoured

\* A renewal keeps the fencing token and moves the end of the lease.
LEMMA RenewStep ==
  ASSUME IInv, NEW o \in Owners, Renew(o)
  PROVE  IInv'
  <1> DEFINE lease == call[o].lease
             now == call[o].now
             renewed == [lease EXCEPT !.expires_at = now + Ttl]
             r == lease.resource
  <1>1. Locked(o, "renew") /\ tokens' = tokens
    BY DEF Renew
  <1>2. CASE ~Current(lease, now)
    <2>1. UNCHANGED <<leases, tokens, held>>
      BY <1>1, <1>2 DEF Renew
    <2> QED BY <1>1, <2>1, RefusedStep
  <1>3. CASE Current(lease, now)
    <2>1. /\ lock = Free /\ lock' = lock /\ writes' = writes /\ clock' = clock
          /\ call[o] # NoCall /\ call[o].op = "renew"
          /\ call' \in [Owners -> {NoCall} \cup AcquireCall \cup LeaseCall]
          /\ \A p \in Owners : call'[p] # NoCall => call'[p].now <= clock'
          /\ \A p \in Owners : call'[p] # NoCall => p # o /\ call'[p] = call[p]
      BY <1>1, LockedFacts
    <2>2. /\ held[o] = lease /\ lease \in Lease /\ lease # NoLease /\ lease.owner = o
          /\ r \in DOMAIN leases /\ leases[r] = lease
          /\ \A p \in Owners : p # o /\ held[p] # NoLease /\ clock < held[p].expires_at
                => held[p].resource # r
      BY <1>3, <2>1, CurrentFacts
    <2>3. leases' = Put(leases, r, renewed) /\ held' = [held EXCEPT ![o] = renewed]
      BY <1>3 DEF Renew
    <2>4. now \in Nat
      BY <2>1, CallFacts
    <2>5. /\ renewed \in Lease /\ renewed.resource = r /\ renewed.owner = o
          /\ renewed.fencing_token = lease.fencing_token
      BY <2>2, <2>4, LeaseAssumption DEF Lease
    <2> HIDE DEF renewed
    <2>6. /\ DOMAIN leases' = DOMAIN leases
          /\ leases'[r] = renewed
          /\ \A q \in DOMAIN leases : q # r => leases'[q] = leases[q]
      BY <2>2, <2>3 DEF Put
    <2>7. /\ held' \in [Owners -> {NoLease} \cup Lease]
          /\ held'[o] = renewed
          /\ \A p \in Owners : p # o => held'[p] = held[p]
      BY <2>3, <2>5 DEF IInv, TypeOK
    <2>8. TypeOK'
      BY <1>1, <2>1, <2>5, <2>6, <2>7 DEF IInv, TypeOK
    <2>9. LeaseHonoured'
      <3> SUFFICES ASSUME NEW p \in Owners, held'[p] # NoLease,
                          clock' < held'[p].expires_at
                   PROVE  /\ held'[p].resource \in DOMAIN leases'
                          /\ leases'[held'[p].resource] = held'[p]
        BY DEF LeaseHonoured
      <3>1. CASE p = o
        BY <2>2, <2>5, <2>6, <2>7, <3>1
      <3>2. CASE p # o
        BY <2>1, <2>2, <2>6, <2>7, <3>2 DEF IInv, LeaseHonoured
      <3> QED BY <3>1, <3>2
    <2>10. FencedOrder'
      BY <2>1 DEF IInv, FencedOrder
    <2>11. TokensBounded'
      BY <1>1, <2>1, <2>2, <2>5, <2>6 DEF IInv, TokensBounded, TokenOf
    <2>12. CallsHeld'
      BY <2>1, <2>5, <2>7 DEF IInv, CallsHeld
    <2> QED BY <2>8, <2>9, <2>10, <2>11, <2>12 DEF IInv
  <1> QED BY <1>2, <1>3

\* A release forgets the lease and keeps the token counter.
LEMMA ReleaseStep ==
  ASSUME IInv, NEW o \in Owners, Release(o)
  PROVE  IInv'
  <1> DEFINE lease == call[o].lease
             r == lease.resource
  <1>1. Locked(o, "release") /\ tokens' = tokens
    BY DEF Release
  <1>2. CASE ~Current(lease, call[o].now)
    <2>1. UNCHANGED <<leases, tokens, held>>
      BY <1>1, <1>2 DEF Release
    <2> QED BY <1>1, <2>1, RefusedStep
  <1>3. CASE Current(lease, call[o].now)
    <2>1. /\ lock = Free /\ lock' = lock /\ writes' = writes /\ clock' = clock
          /\ call[o] # NoCall /\ call[o].op = "release"
          /\ call' \in [Owners -> {NoCall} \cup AcquireCall \cup LeaseCall]
          /\ \A p \in Owners : call'[p] # NoCall => call'[p].now <= clock'
          /\ \A p \in Owners : call'[p] # NoCall => p # o /\ call'[p] = call[p]
      BY <1>1, LockedFacts
    <2>2. /\ held[o] = lease
          /\ \A p \in Owners : p # o /\ held[p] # NoLease /\ clock < held[p].expires_at
                => held[p].resource # r
      BY <1>3, <2>1, CurrentFacts
    <2>3. leases' = Drop(leases, r) /\ held' = [held EXCEPT ![o] = NoLease]
      BY <1>3 DEF Release
    <2>4. /\ DOMAIN leases' = DOMAIN leases \ {r}
          /\ \A q \in DOMAIN leases' : leases'[q] = leases[q]
      BY <2>3 DEF Drop
    <2>5. /\ held' \in [Owners -> {NoLease} \cup Lease]
          /\ held'[o] = NoLease
          /\ \A p \in Owners : p # o => held'[p] = held[p]
      BY <2>3 DEF IInv, TypeOK
    <2>6. TypeOK'
      BY <1>1, <2>1, <2>4, <2>5 DEF IInv, TypeOK
    <2>7. LeaseHonoured'
      BY <2>1, <2>2, <2>4, <2>5 DEF IInv, LeaseHonoured
    <2>8. FencedOrder'
      BY <2>1 DEF IInv, FencedOrder
    <2>9. TokensBounded'
      BY <1>1, <2>1, <2>4 DEF IInv, TokensBounded, TokenOf
    <2>10. CallsHeld'
      BY <2>1, <2>5 DEF IInv, CallsHeld
    <2> QED BY <2>6, <2>7, <2>8, <2>9, <2>10 DEF IInv
  <1> QED BY <1>2, <1>3

\* compare() found the owner's token current, and the lock keeps it so.
LEMMA CommitBeginsStep ==
  ASSUME IInv, NEW o \in Owners, CommitBegins(o)
  PROVE  IInv'
  <1>1. /\ UNCHANGED <<leases, tokens, clock, held, call, writes>>
        /\ lock' = [owner |-> o, lease |-> held[o]]
        /\ held[o] \in Lease /\ Authoritative(held[o])
    BY DEF CommitBegins, IInv, TypeOK
  <1>2. lock' \in [owner : Owners, lease : Lease] /\ lock'.lease = held[o]
    BY <1>1
  <1>3. TypeOK'
    BY <1>1, <1>2 DEF IInv, TypeOK
  <1>4. TokensBounded'
    BY <1>1, <1>2 DEF IInv, TokensBounded, Authoritative, TokenOf
  <1> QED BY <1>1, <1>3, <1>4 DEF IInv, LeaseHonoured, FencedOrder, CallsHeld

\* The mutation commits under the greatest token issued for the resource.
LEMMA CommitEndsStep ==
  ASSUME IInv, NEW o \in Owners, CommitEnds(o)
  PROVE  IInv'
  <1> DEFINE r == lock.lease.resource
             token == lock.lease.fencing_token
  <1>1. /\ UNCHANGED <<leases, tokens, clock, held, call>>
        /\ lock # Free /\ lock' = Free
        /\ writes' = [writes EXCEPT ![r] = Append(@, token)]
    BY DEF CommitEnds
  <1>2. /\ r \in Resources /\ token \in Nat /\ token = TokenOf(r)
        /\ writes \in [Resources -> Seq(Nat)]
    BY <1>1 DEF IInv, TypeOK, TokensBounded, TokenOf, Lease
  <1>3. /\ writes' \in [Resources -> Seq(Nat)]
        /\ writes'[r] = Append(writes[r], token)
        /\ \A q \in Resources : q # r => writes'[q] = writes[q]
    BY <1>1, <1>2
  <1>4. \A i \in DOMAIN writes[r] : writes[r][i] \in Nat /\ writes[r][i] <= token
    BY <1>2 DEF IInv, TokensBounded
  <1>5. \A i \in DOMAIN writes'[r] :
            \/ i \in DOMAIN writes[r] /\ writes'[r][i] = writes[r][i]
            \/ i = Len(writes[r]) + 1 /\ writes'[r][i] = token
    BY <1>2, <1>3
  <1>6. TypeOK'
    BY <1>1, <1>3 DEF IInv, TypeOK
  <1>7. FencedOrder'
    <2> SUFFICES ASSUME NEW q \in Resources, NEW i \in DOMAIN writes'[q],
                        NEW j \in DOMAIN writes'[q], i < j
                 PROVE  writes'[q][i] <= writes'[q][j]
      BY DEF FencedOrder
    <2>1. CASE q # r
      BY <1>3, <2>1 DEF IInv, FencedOrder
    <2>2. CASE q = r
      <3>1. \A k \in DOMAIN writes[r] : k <= Len(writes[r]) /\ k \in Nat
        BY <1>2
      <3>2. Len(writes[r]) \in Nat
        BY <1>2
      <3>3. i \in DOMAIN writes[r] /\ writes'[r][i] = writes[r][i]
        BY <1>5, <2>2, <3>1, <3>2
      <3> QED BY <1>2, <1>4, <1>5, <2>2, <3>3 DEF IInv, FencedOrder
    <2> QED BY <2>1, <2>2
  <1>8. TokensBounded'
    <2>1. \A q \in Resources : \A i \in DOMAIN writes'[q] : writes'[q][i] <= TokenOf(q)
      <3> SUFFICES ASSUME NEW q \in Resources, NEW i \in DOMAIN writes'[q]
                   PROVE  writes'[q][i] <= TokenOf(q)
        OBVIOUS
      <3>1. CASE q # r
        BY <1>3, <3>1 DEF IInv, TokensBounded
      <3>2. CASE q = r
        BY <1>2, <1>4, <1>5, <3>2
      <3> QED BY <3>1, <3>2
    <2> QED BY <1>1, <2>1 DEF IInv, TokensBounded, TokenOf
  <1> QED BY <1>1, <1>6, <1>7, <1>8 DEF IInv, LeaseHonoured, CallsHeld

\* A mutation that fails leaves no trace.
LEMMA CommitFailsStep ==
  ASSUME IInv, NEW o \in Owners, CommitFails(o)
  PROVE  IInv'
  BY DEF CommitFails, IInv, TypeOK, LeaseHonoured, FencedOrder, TokensBounded,
     CallsHeld, TokenOf

\* Time passing only ends leases.
LEMMA TickStep ==
  ASSUME IInv, Tick
  PROVE  IInv'
  <1>1. clock \in Nat /\ clock' = clock + 1
        /\ UNCHANGED <<leases, tokens, held, call, lock, writes>>
    BY DEF Tick, IInv, TypeOK
  <1>2. \A o \in Owners : call'[o] # NoCall => call'[o].now <= clock'
    BY <1>1, CallFacts
  <1>3. TypeOK'
    BY <1>1, <1>2 DEF IInv, TypeOK
  <1>4. LeaseHonoured'
    <2>1. \A o \in Owners : held[o] # NoLease => held[o].expires_at \in Nat
      BY DEF IInv, TypeOK, Lease
    <2> QED BY <1>1, <2>1 DEF IInv, LeaseHonoured
  <1> QED BY <1>1, <1>3, <1>4 DEF IInv, FencedOrder, TokensBounded, CallsHeld, TokenOf

\* Every step preserves the inductive invariant.
LEMMA NextPreserves == IInv /\ [Next]_vars => IInv'
  <1> SUFFICES ASSUME IInv, [Next]_vars
               PROVE  IInv'
    OBVIOUS
  <1>1. clock \in Nat
    BY DEF IInv, TypeOK
  <1>2. ASSUME NEW o \in Owners, NEW r \in Resources, CallAcquire(o, r)
        PROVE  IInv'
    BY <1>1, <1>2, CallStep DEF CallAcquire, AcquireCall
  <1>3. ASSUME NEW o \in Owners, CallRenew(o) \/ CallRelease(o)
        PROVE  IInv'
    <2>1. held[o] \in Lease
      BY <1>3 DEF IInv, TypeOK, CallRenew, CallRelease
    <2> QED BY <1>1, <1>3, <2>1, CallStep DEF CallRenew, CallRelease, LeaseCall
  <1>4. CASE UNCHANGED vars
    BY <1>4 DEF vars, IInv, TypeOK, LeaseHonoured, FencedOrder, TokensBounded,
       CallsHeld, TokenOf
  <1> QED
    BY <1>2, <1>3, <1>4, TickStep, AcquireStep, RenewStep, ReleaseStep,
       CommitBeginsStep, CommitEndsStep, CommitFailsStep DEF Next

\* The inductive invariant holds in every reachable state.
THEOREM Invariance == Spec => []IInv
  BY InitIInv, NextPreserves, PTL DEF Spec

\* An owner inside its lease is the resource's only lessee.
THEOREM LeasesExclude == Spec => []LeaseHonoured
  BY Invariance, PTL DEF IInv

\* Fenced mutations commit in the order of their fencing tokens.
THEOREM FencingOrders == Spec => []FencedOrder
  BY Invariance, PTL DEF IInv
=============================================================================
