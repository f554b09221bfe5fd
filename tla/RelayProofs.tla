----------------------------- MODULE RelayProofs -----------------------------
(***************************************************************************)
(* Theorems about outbox delivery (Relay), for any number of messages,     *)
(* relays and workers and any timing.                                      *)
(*                                                                         *)
(* NothingLost and ClaimExclusive are not inductive.  A worker holds a     *)
(* copy of its claim across the awaits of a publication, so what it may do *)
(* later rests on what the copy still says of the item: ClaimsFaithful     *)
(* (the attempt it copied is the item's as long as the claim is), Claims-  *)
(* Placed (a claim is in one worker's hands, or pending in one running     *)
(* round), ConfirmedReceived (a decision to settle as delivered outlives   *)
(* the broker's word) and RetriesAllowed.  UncertainStored and Items-      *)
(* Coherent say that an item that is settled or uncertain has no claim, so *)
(* no late settlement finds its claim id there.                            *)
(*                                                                         *)
(* The proof summarises each action once, by what it does to the outbox    *)
(* (Claiming, Applied, Removing ...) and to the claims in hand (Narrowing, *)
(* Emptying, Taking ...), and then takes the parts of the invariant one by *)
(* one over these summaries.                                               *)
(***************************************************************************)
EXTENDS Relay, FiniteSetTheorems, TLAPS

----------------------------------------------------------------------------
\* What the operators of the outbox make of an item.

LEMMA UnclaimedFacts ==
  ASSUME NEW item \in Item
  PROVE  LET new == Unclaimed(item) IN
         /\ new \in Item
         /\ new.attempt = item.attempt /\ new.available_at = item.available_at
         /\ new.claim_id = 0 /\ new.claimed_until = Never
         /\ new.delivered_at = item.delivered_at /\ new.failed_at = item.failed_at
  BY DEF Item, Unclaimed, Never

SettlingJobs ==
    [stage : {"settling"}, claim : OutboxClaim, now : Nat, available_at : Nat,
     op : {"delivered", "failed", "retry", "defer", "uncertain"}]

LEMMA SettledFacts ==
  ASSUME NEW item \in Item, NEW job \in SettlingJobs,
         job.op = "retry" => item.attempt + 1 < MaxAttempts
  PROVE  LET new == Settled(item, job) IN
         /\ new \in Item
         /\ new.attempt = IF job.op = "retry" THEN item.attempt + 1 ELSE item.attempt
         /\ new.claim_id = 0 /\ new.claimed_until = Never
         /\ new.delivered_at = IF job.op = "delivered" THEN job.now ELSE item.delivered_at
         /\ new.failed_at = IF job.op = "failed" THEN job.now ELSE item.failed_at
  <1> DEFINE u == Unclaimed(item)
  <1>1. /\ u \in Item /\ u.attempt = item.attempt
        /\ u.claim_id = 0 /\ u.claimed_until = Never
        /\ u.delivered_at = item.delivered_at /\ u.failed_at = item.failed_at
    BY UnclaimedFacts
  <1>2. MaxAttempts \in Nat
    BY RelayAssumption
  <1>3. job.now \in Nat /\ job.available_at \in Nat
        /\ job.op \in {"delivered", "failed", "retry", "defer", "uncertain"}
    BY DEF SettlingJobs
  <1> HIDE DEF u
  <1>4. CASE job.op = "delivered"
    <2>1. Settled(item, job) = [u EXCEPT !.delivered_at = job.now]
      BY <1>4 DEF Settled, u
    <2> QED BY <1>1, <1>3, <1>4, <2>1 DEF Item
  <1>5. CASE job.op = "failed"
    <2>1. Settled(item, job) = [u EXCEPT !.failed_at = job.now]
      BY <1>5 DEF Settled, u
    <2> QED BY <1>1, <1>3, <1>5, <2>1 DEF Item
  <1>6. CASE job.op = "retry"
    <2>1. Settled(item, job) = [u EXCEPT !.attempt = item.attempt + 1, !.available_at = job.available_at]
      BY <1>1, <1>6 DEF Settled, u
    <2>2. item.attempt + 1 \in 0..(MaxAttempts - 1)
      BY <1>2, <1>6 DEF Item
    <2> QED BY <1>1, <1>3, <1>6, <2>1, <2>2 DEF Item
  <1>7. CASE job.op = "defer"
    <2>1. Settled(item, job) = [u EXCEPT !.available_at = job.available_at]
      BY <1>7 DEF Settled, u
    <2> QED BY <1>1, <1>3, <1>7, <2>1 DEF Item
  <1>8. CASE job.op = "uncertain"
    <2>1. Settled(item, job) = u
      BY <1>8 DEF Settled, u
    <2> QED BY <1>1, <1>8, <2>1
  <1> QED BY <1>3, <1>4, <1>5, <1>6, <1>7, <1>8

\* A worker's activity, and its claim.
LEMMA WorkFacts ==
  ASSUME TypeOK, NEW r \in Relays, NEW w \in Workers
  PROVE  /\ work[r][w] \in Activity
         /\ work[r][w] # NoWork => work[r][w].claim \in OutboxClaim
         /\ work[r][w].stage = "publishing" => work[r][w] # NoWork
         /\ work[r][w].stage = "settling" => work[r][w] # NoWork /\ work[r][w] \in SettlingJobs
         /\ work[r][w] = NoWork => work[r][w].stage = "idle"
  <1>1. work[r][w] \in Activity
    BY DEF TypeOK
  <1>2. NoWork.stage = "idle"
    BY DEF NoWork
  <1> QED BY <1>1, <1>2 DEF Activity, SettlingJobs

\* One worker changes its activity.
LEMMA DoFacts ==
  ASSUME TypeOK, NEW r \in Relays, NEW w \in Workers, NEW a \in Activity, Do(r, w, a)
  PROVE  /\ work' \in [Relays -> [Workers -> Activity]]
         /\ work'[r][w] = a
         /\ \A v \in Workers : v # w => work'[r][v] = work[r][v]
         /\ \A s \in Relays : s # r => work'[s] = work[s]
  BY DEF TypeOK, Do

\* The claims of a relay, one by one.
LEMMA ClaimsFacts ==
  ASSUME NEW r \in Relays
  PROVE  \A claim : claim \in Claims(r) <=>
            \/ round[r].phase = "running" /\ claim \in round[r].pending
            \/ \E w \in Workers : work[r][w] # NoWork /\ claim = work[r][w].claim
  BY DEF Claims

----------------------------------------------------------------------------
\* What the actions do, beyond the variables they leave alone.

LEMMA AddFacts ==
  ASSUME TypeOK, NEW m \in Messages, Add(m)
  PROVE  /\ m \notin added /\ added' = added \cup {m} /\ DOMAIN items' = DOMAIN items \cup {m}
         /\ \A x \in DOMAIN items : x # m => items'[x] = items[x]
         /\ items'[m] \in Item /\ items'[m].attempt = 0 /\ items'[m].claim_id = 0
         /\ items'[m].claimed_until = Never /\ items'[m].delivered_at = Never
         /\ items'[m].failed_at = Never
  <1>1. items'[m] = Fresh(clock) /\ DOMAIN items' = DOMAIN items \cup {m}
        /\ \A x \in DOMAIN items : x # m => items'[x] = items[x]
    BY DEF Add, Put
  <1>2. Fresh(clock) \in Item
    BY RelayAssumption DEF TypeOK, Fresh, Item
  <1>3. /\ Fresh(clock).attempt = 0 /\ Fresh(clock).claim_id = 0 /\ Fresh(clock).claimed_until = Never
        /\ Fresh(clock).delivered_at = Never /\ Fresh(clock).failed_at = Never
    BY DEF Fresh
  <1> QED BY <1>1, <1>2, <1>3 DEF Add

LEMMA ResolveFacts ==
  ASSUME TypeOK, UncertainStored, NEW m \in Messages, NEW delivered \in BOOLEAN,
         ResolveUncertain(m, delivered, clock)
  PROVE  /\ m \in DOMAIN uncertain /\ m \in DOMAIN items /\ DOMAIN items' = DOMAIN items
         /\ DOMAIN uncertain' = DOMAIN uncertain \ {m}
         /\ \A x \in DOMAIN uncertain' : uncertain'[x] = uncertain[x]
         /\ \A x \in DOMAIN items : x # m => items'[x] = items[x]
         /\ items'[m] \in Item /\ items'[m].attempt = items[m].attempt
         /\ items'[m].claim_id = items[m].claim_id
         /\ items'[m].claimed_until = items[m].claimed_until
         /\ items'[m].failed_at = items[m].failed_at
         /\ items'[m].delivered_at # Never => Received(m)
  <1> DEFINE at == IF delivered THEN clock ELSE Never
             new == [items[m] EXCEPT !.delivered_at = at, !.available_at = clock]
  <1>1. m \in DOMAIN uncertain /\ m \in DOMAIN items
    BY DEF ResolveUncertain, UncertainStored
  <1>2. items' = [items EXCEPT ![m] = new]
    BY DEF ResolveUncertain
  <1>3. at \in Nat \cup {Never} /\ items[m] \in Item /\ clock \in Nat
    BY <1>1 DEF TypeOK
  <1> HIDE DEF at
  <1>4. /\ new \in Item /\ new.attempt = items[m].attempt
        /\ new.claim_id = items[m].claim_id /\ new.claimed_until = items[m].claimed_until
        /\ new.delivered_at = at /\ new.failed_at = items[m].failed_at
    BY <1>3 DEF Item
  <1>5. at # Never => Received(m)
    BY DEF ResolveUncertain, at
  <1> HIDE DEF new
  <1>6. items'[m] = new /\ DOMAIN items' = DOMAIN items
        /\ \A x \in DOMAIN items : x # m => items'[x] = items[x]
    BY <1>1, <1>2
  <1>7. /\ DOMAIN uncertain' = DOMAIN uncertain \ {m}
        /\ \A x \in DOMAIN uncertain' : uncertain'[x] = uncertain[x]
    BY DEF DropAll, ResolveUncertain
  <1> QED BY <1>1, <1>4, <1>5, <1>6, <1>7

\* A round claims K, of the eligible messages S that it looked at.
Claiming(r, S, K) ==
    LET now == round[r].now IN
    /\ round[r].phase = "claiming" /\ now \in Nat
    /\ S \subseteq Eligible(now) /\ K \subseteq S
    /\ DOMAIN items' = DOMAIN items
    /\ \A x \in DOMAIN items \ S : items'[x] = items[x]
    /\ \A x \in S :
        /\ items'[x] \in Item /\ items'[x].attempt = items[x].attempt
        /\ items'[x].delivered_at = items[x].delivered_at
        /\ items'[x].failed_at = items[x].failed_at
        /\ x \in K => items'[x].claim_id = rounds + 1 /\ items'[x].claimed_until = now + ClaimTtl
        /\ x \notin K => items'[x].claim_id = 0 /\ items'[x].claimed_until = Never
    /\ round'[r].phase = "running" /\ round'[r].pending = {ClaimOf(m, now) : m \in K}
    /\ \A m \in K : ClaimOf(m, now) \in OutboxClaim
    /\ round' \in [Relays -> Round]
    /\ \A s \in Relays : s # r => round'[s] = round[s]

LEMMA ClaimFacts ==
  ASSUME TypeOK, NEW r \in Relays, Claim(r)
  PROVE  \E S \in SUBSET DOMAIN items : \E K \in SUBSET S : Claiming(r, S, K)
  <1>0. PICK S \in SUBSET Eligible(round[r].now) : \E K \in SUBSET S :
          /\ items' = [m \in DOMAIN items |->
                IF m \in K THEN [items[m] EXCEPT !.claim_id = rounds + 1,
                                                 !.claimed_until = round[r].now + ClaimTtl]
                ELSE IF m \in S THEN Unclaimed(items[m])
                ELSE items[m]]
          /\ round' = [round EXCEPT ![r] =
                [phase |-> "running", pending |-> {ClaimOf(m, round[r].now) : m \in K},
                 deadline |-> round[r].deadline, authority |-> round[r].authority]]
    BY DEF Claim
  <1>1. PICK K \in SUBSET S :
          /\ items' = [m \in DOMAIN items |->
                IF m \in K THEN [items[m] EXCEPT !.claim_id = rounds + 1,
                                                 !.claimed_until = round[r].now + ClaimTtl]
                ELSE IF m \in S THEN Unclaimed(items[m])
                ELSE items[m]]
          /\ round' = [round EXCEPT ![r] =
                [phase |-> "running", pending |-> {ClaimOf(m, round[r].now) : m \in K},
                 deadline |-> round[r].deadline, authority |-> round[r].authority]]
    BY <1>0
  <1> DEFINE now == round[r].now
  <1>2. round[r].phase = "claiming" /\ now \in Nat /\ round[r].deadline \in Nat /\ round[r].authority \in Nat
    <2>1. round[r] \in Round
      BY DEF TypeOK
    <2>2. round[r].phase = "claiming"
      BY DEF Claim
    <2>3. NoRound.phase = "idle"
      BY DEF NoRound
    <2> QED BY <2>1, <2>2, <2>3 DEF Round
  <1>3. S \subseteq DOMAIN items
    BY DEF Eligible
  <1>4. \A x \in DOMAIN items : items[x] \in Item
    BY DEF TypeOK
  <1>5. rounds + 1 \in Nat \ {0} /\ now + ClaimTtl \in Nat
    BY <1>2, RelayAssumption DEF TypeOK
  <1> HIDE DEF now
  <1>6. ASSUME NEW x \in S
        PROVE  /\ items'[x] \in Item /\ items'[x].attempt = items[x].attempt
               /\ items'[x].delivered_at = items[x].delivered_at
               /\ items'[x].failed_at = items[x].failed_at
               /\ x \in K => items'[x].claim_id = rounds + 1 /\ items'[x].claimed_until = now + ClaimTtl
               /\ x \notin K => items'[x].claim_id = 0 /\ items'[x].claimed_until = Never
    <2>1. items[x] \in Item
      BY <1>3, <1>4
    <2>2. CASE x \in K
      <3>1. items'[x] = [items[x] EXCEPT !.claim_id = rounds + 1, !.claimed_until = now + ClaimTtl]
        BY <1>1, <1>3, <2>2 DEF now
      <3> QED BY <1>5, <2>1, <2>2, <3>1 DEF Item
    <2>3. CASE x \notin K
      <3>1. items'[x] = Unclaimed(items[x])
        BY <1>1, <1>3, <2>3
      <3> QED BY <2>1, <2>3, <3>1, UnclaimedFacts
    <2> QED BY <2>2, <2>3
  <1>7. DOMAIN items' = DOMAIN items /\ \A x \in DOMAIN items \ S : items'[x] = items[x]
    BY <1>1
  <1>8. \A m \in K : ClaimOf(m, now) \in OutboxClaim
    <2> SUFFICES ASSUME NEW m \in K PROVE ClaimOf(m, now) \in OutboxClaim
      OBVIOUS
    <2>1. m \in Messages /\ items[m] \in Item
      BY <1>3, <1>4 DEF TypeOK
    <2> QED BY <1>5, <2>1 DEF ClaimOf, OutboxClaim, Item
  <1> DEFINE new == [phase |-> "running", pending |-> {ClaimOf(m, now) : m \in K},
                     deadline |-> round[r].deadline, authority |-> round[r].authority]
  <1>9. new \in Round
    <2>1. {ClaimOf(m, now) : m \in K} \in SUBSET OutboxClaim
      BY <1>8
    <2> QED BY <1>2, <2>1 DEF Round
  <1>10. new.phase = "running" /\ new.pending = {ClaimOf(m, now) : m \in K}
    OBVIOUS
  <1>11. round' = [round EXCEPT ![r] = new]
    BY <1>1 DEF now
  <1> HIDE DEF new
  <1>12. /\ round'[r] = new /\ round' \in [Relays -> Round]
         /\ \A s \in Relays : s # r => round'[s] = round[s]
    BY <1>9, <1>11 DEF TypeOK
  <1>13. S \subseteq Eligible(now)
    BY DEF now
  <1>14. Claiming(r, S, K)
    BY <1>2, <1>6, <1>7, <1>8, <1>10, <1>12, <1>13 DEF now, Claiming
  <1> QED BY <1>3, <1>14

\* A relay's round.
LEMMA RoundFacts ==
  ASSUME TypeOK, NEW r \in Relays
  PROVE  /\ round[r] \in Round
         /\ round[r].phase \in {"idle", "claiming", "running"}
         /\ round[r].phase = "running" => /\ round[r].pending \in SUBSET OutboxClaim
                                          /\ round[r].deadline \in Nat /\ round[r].authority \in Nat
         /\ round[r].phase = "claiming" => round[r].now \in Nat
  <1>1. round[r] \in Round
    BY DEF TypeOK
  <1>2. NoRound.phase = "idle"
    BY DEF NoRound
  <1> QED BY <1>1, <1>2 DEF Round

\* A settlement that a worker has decided on.
LEMMA SettlingFacts ==
  ASSUME TypeOK, NEW claim \in OutboxClaim, NEW at \in Nat,
         NEW op \in {"delivered", "failed", "retry", "defer", "uncertain"}
  PROVE  /\ Settling(claim, op, at) \in Activity
         /\ Settling(claim, op, at) # NoWork
         /\ Settling(claim, op, at).stage = "settling"
         /\ Settling(claim, op, at).claim = claim
         /\ Settling(claim, op, at).op = op
  <1>1. clock \in Nat
    BY DEF TypeOK
  <1>2. Settling(claim, op, at) \in Activity
    BY <1>1 DEF Settling, Activity
  <1>3. /\ Settling(claim, op, at).stage = "settling" /\ Settling(claim, op, at).claim = claim
        /\ Settling(claim, op, at).op = op
    BY DEF Settling
  <1>4. NoWork.stage = "idle"
    BY DEF NoWork
  <1> QED BY <1>2, <1>3, <1>4

\* The workers other than w of r, and the other relays, do what they did.
OthersWork(r, w) ==
    /\ \A v \in Workers : v # w => work'[r][v] = work[r][v]
    /\ \A s \in Relays : s # r => work'[s] = work[s]

\* A worker takes a claim and drops it, defers it or publishes it.
Taking(r, w, claim) ==
    /\ round[r].phase = "running" /\ work[r][w] = NoWork
    /\ claim \in round[r].pending /\ claim \in OutboxClaim
    /\ round' \in [Relays -> Round]
    /\ round'[r].phase = "running" /\ round'[r].pending = round[r].pending \ {claim}
    /\ \A s \in Relays : s # r => round'[s] = round[s]
    /\ work' \in [Relays -> [Workers -> Activity]]
    /\ OthersWork(r, w)
    /\ \/ work'[r][w] = NoWork /\ wire' = wire
       \/ /\ work'[r][w] # NoWork /\ work'[r][w].claim = claim
          /\ work'[r][w].stage = "settling" /\ work'[r][w].op = "defer"
          /\ wire' = wire
       \/ /\ work'[r][w] # NoWork /\ work'[r][w].claim = claim
          /\ work'[r][w].stage = "publishing"
          /\ claim.claimed_until > clock
          /\ wire' = wire \cup {[message |-> claim.message, claim_id |-> claim.claim_id]}

LEMMA TakeFacts ==
  ASSUME TypeOK, NEW r \in Relays, NEW w \in Workers, Take(r, w)
  PROVE  \E claim \in round[r].pending : Taking(r, w, claim)
  <1> DEFINE pub(c) == [message |-> c.message, claim_id |-> c.claim_id]
  <1>1. PICK claim \in round[r].pending :
          /\ round' = [round EXCEPT ![r].pending = @ \ {claim}]
          /\ \/ UNCHANGED <<work, wire>>
             \/ /\ Do(r, w, Settling(claim, "defer", clock))
                /\ UNCHANGED wire
             \/ /\ ~(claim.claimed_until <= clock)
                /\ Do(r, w, [stage |-> "publishing", claim |-> claim])
                /\ wire' = wire \cup {pub(claim)}
    BY DEF Take
  <1>2. round[r].phase = "running" /\ work[r][w] = NoWork
    BY DEF Take
  <1>3. /\ round[r].pending \in SUBSET OutboxClaim
        /\ round[r].deadline \in Nat /\ round[r].authority \in Nat /\ round[r] \in Round
    BY <1>2, RoundFacts
  <1>4. claim \in OutboxClaim /\ claim.claimed_until \in Nat /\ clock \in Nat
    BY <1>3 DEF OutboxClaim, TypeOK
  <1>5. round[r] \in [phase : {"running"}, pending : SUBSET OutboxClaim, deadline : Nat, authority : Nat]
    <2>1. NoRound.phase = "idle"
      BY DEF NoRound
    <2> QED BY <1>2, <1>3, <2>1 DEF Round
  <1> DEFINE new == [round[r] EXCEPT !.pending = round[r].pending \ {claim}]
  <1>6. new \in Round /\ new.phase = "running" /\ new.pending = round[r].pending \ {claim}
    BY <1>5 DEF Round
  <1>7. round' = [round EXCEPT ![r] = new]
    BY <1>1
  <1> HIDE DEF new
  <1>8. /\ round' \in [Relays -> Round] /\ round'[r] = new
        /\ \A s \in Relays : s # r => round'[s] = round[s]
    BY <1>6, <1>7 DEF TypeOK
  <1>9. work \in [Relays -> [Workers -> Activity]]
    BY DEF TypeOK
  <1> DEFINE busy == [stage |-> "publishing", claim |-> claim]
  <1>10. busy \in Activity /\ busy # NoWork /\ busy.claim = claim /\ busy.stage = "publishing"
    <2>1. NoWork.stage = "idle"
      BY DEF NoWork
    <2> QED BY <1>4, <2>1 DEF Activity
  <1> HIDE DEF busy
  <1>11. CASE UNCHANGED <<work, wire>>
    <2> QED BY <1>2, <1>4, <1>6, <1>8, <1>9, <1>11 DEF Taking, OthersWork
  <1>12. CASE Do(r, w, Settling(claim, "defer", clock)) /\ UNCHANGED wire
    <2> DEFINE a == Settling(claim, "defer", clock)
    <2>1. a \in Activity /\ a # NoWork /\ a.stage = "settling" /\ a.claim = claim /\ a.op = "defer"
      BY <1>4, SettlingFacts
    <2> HIDE DEF a
    <2>2. Do(r, w, a)
      BY <1>12 DEF a
    <2>3. work' \in [Relays -> [Workers -> Activity]] /\ work'[r][w] = a /\ OthersWork(r, w)
      BY <2>1, <2>2, DoFacts DEF OthersWork
    <2> QED BY <1>2, <1>4, <1>6, <1>8, <1>12, <2>1, <2>3 DEF Taking
  <1>13. CASE ~(claim.claimed_until <= clock) /\ Do(r, w, [stage |-> "publishing", claim |-> claim])
              /\ wire' = wire \cup {pub(claim)}
    <2>1. Do(r, w, busy)
      BY <1>13 DEF busy
    <2>2. work' \in [Relays -> [Workers -> Activity]] /\ work'[r][w] = busy /\ OthersWork(r, w)
      BY <1>10, <2>1, DoFacts DEF OthersWork
    <2>3. claim.claimed_until > clock
      BY <1>4, <1>13
    <2> QED BY <1>2, <1>4, <1>6, <1>8, <1>10, <1>13, <2>2, <2>3 DEF Taking
  <1> QED BY <1>1, <1>11, <1>12, <1>13

\* The delays of a retry are natural numbers.
LEMMA DelayFacts ==
  ASSUME NEW attempt, NEW delay \in Delays(attempt)
  PROVE  delay \in Nat
  <1> DEFINE longest == Delay(attempt)
  <1> HIDE DEF longest
  <1>1. PICK jittered \in 0..longest, pause \in RetryAfters :
          delay = IF pause > jittered THEN pause ELSE jittered
    BY DEF Delays, longest
  <1> QED BY <1>1, RelayAssumption

\* A worker hears of its publication: it drops the claim or decides its settlement.
\* A retry takes from the budget; nothing else does.
Returning(r, w) ==
    /\ work[r][w] # NoWork /\ work[r][w].stage = "publishing"
    /\ work' \in [Relays -> [Workers -> Activity]]
    /\ OthersWork(r, w)
    /\ \/ work'[r][w] = NoWork /\ budget' = budget
       \/ /\ work'[r][w] # NoWork /\ work'[r][w].stage = "settling"
          /\ work'[r][w].claim = work[r][w].claim
          /\ work'[r][w].op = "delivered" => Received(work[r][w].claim.message)
          /\ IF work'[r][w].op = "retry"
             THEN work[r][w].claim.attempt + 1 < MaxAttempts /\ budget > 0 /\ budget' = budget - 1
             ELSE budget' = budget

LEMMA PublishFacts ==
  ASSUME TypeOK, NEW r \in Relays, NEW w \in Workers,
         NEW result \in {"confirmed", "retryable", "rejected", "uncertain"},
         PublishReturns(r, w, result)
  PROVE  Returning(r, w)
  <1> DEFINE claim == work[r][w].claim
             attempt == claim.attempt + 1
             verdict == Verdict(result, attempt)
  <1>1. work[r][w].stage = "publishing" /\ work[r][w] # NoWork /\ claim \in OutboxClaim
    BY WorkFacts DEF PublishReturns, Reports
  <1>2. clock \in Nat /\ budget \in Nat
    BY RelayAssumption DEF TypeOK
  <1>3. result = "confirmed" => Received(claim.message)
    <2>1. result = "confirmed" => Publication(r, w) \in broker
      BY DEF PublishReturns, Reports
    <2>2. Publication(r, w).message = claim.message
      BY DEF Publication
    <2> QED BY <2>1, <2>2 DEF Received
  <1>4. /\ verdict \in {"uncertain", "delivered", "failed", "schedule"}
        /\ verdict = "delivered" => result = "confirmed"
    BY DEF Verdict
  <1>5. \/ Do(r, w, NoWork) /\ budget' = budget
        \/ verdict # "schedule" /\ Do(r, w, Settling(claim, verdict, clock)) /\ budget' = budget
        \/ /\ verdict = "schedule"
           /\ \E delay \in Delays(attempt) :
                /\ Do(r, w, Settling(claim, IF Scheduled(attempt, round[r].deadline, delay)
                                            THEN "retry" ELSE "defer", clock + delay))
                /\ budget' = IF Scheduled(attempt, round[r].deadline, delay)
                             THEN Taken(budget) ELSE budget
    BY DEF PublishReturns
  <1>6. NoWork \in Activity
    BY DEF Activity
  <1> HIDE DEF verdict, claim
  <1>7. CASE Do(r, w, NoWork) /\ budget' = budget
    <2>1. work' \in [Relays -> [Workers -> Activity]] /\ work'[r][w] = NoWork /\ OthersWork(r, w)
      BY <1>6, <1>7, DoFacts DEF OthersWork
    <2> QED BY <1>1, <1>7, <2>1 DEF Returning
  <1>8. CASE verdict # "schedule" /\ Do(r, w, Settling(claim, verdict, clock)) /\ budget' = budget
    <2> DEFINE a == Settling(claim, verdict, clock)
    <2>1. a \in Activity /\ a # NoWork /\ a.stage = "settling" /\ a.claim = claim /\ a.op = verdict
      BY <1>1, <1>2, <1>4, <1>8, SettlingFacts
    <2> HIDE DEF a
    <2>2. Do(r, w, a)
      BY <1>8 DEF a
    <2>3. work' \in [Relays -> [Workers -> Activity]] /\ work'[r][w] = a /\ OthersWork(r, w)
      BY <2>1, <2>2, DoFacts DEF OthersWork
    <2>4. verdict # "retry"
      BY <1>4
    <2> QED BY <1>1, <1>3, <1>4, <1>8, <2>1, <2>3, <2>4 DEF Returning, claim
  <1>9. ASSUME verdict = "schedule", NEW delay \in Delays(attempt),
               NEW scheduled, scheduled = Scheduled(attempt, round[r].deadline, delay),
               Do(r, w, Settling(claim, IF scheduled THEN "retry" ELSE "defer", clock + delay)),
               budget' = IF scheduled THEN Taken(budget) ELSE budget
        PROVE  Returning(r, w)
    <2> DEFINE op == IF scheduled THEN "retry" ELSE "defer"
               a == Settling(claim, op, clock + delay)
    <2>1. op \in {"delivered", "failed", "retry", "defer", "uncertain"} /\ clock + delay \in Nat
      BY <1>2, <1>9, DelayFacts
    <2> HIDE DEF op
    <2>2. a \in Activity /\ a # NoWork /\ a.stage = "settling" /\ a.claim = claim /\ a.op = op
      BY <1>1, <2>1, SettlingFacts
    <2> HIDE DEF a
    <2>3. Do(r, w, a)
      BY <1>9 DEF a, op
    <2>4. work' \in [Relays -> [Workers -> Activity]] /\ work'[r][w] = a /\ OthersWork(r, w)
      BY <2>2, <2>3, DoFacts DEF OthersWork
    <2>5. CASE scheduled
      <3>1. op = "retry" /\ budget' = budget - 1
        BY <1>9, <2>5 DEF op, Taken
      <3>2. attempt < MaxAttempts /\ budget > 0
        BY <1>9, <2>5 DEF Scheduled
      <3> QED BY <1>1, <2>2, <2>4, <3>1, <3>2 DEF Returning, claim
    <2>6. CASE ~scheduled
      <3>1. op = "defer" /\ budget' = budget
        BY <1>9, <2>6 DEF op
      <3> QED BY <1>1, <2>2, <2>4, <3>1 DEF Returning, claim
    <2> QED BY <2>5, <2>6
  <1> QED BY <1>5, <1>7, <1>8, <1>9

\* A worker's settlement reaches the store, which applies it to a current claim.
Concluding(r, w) ==
    LET job == work[r][w]
        m == job.claim.message
    IN
    /\ job # NoWork /\ job \in SettlingJobs
    /\ work' \in [Relays -> [Workers -> Activity]]
    /\ OthersWork(r, w) /\ work'[r][w] = NoWork
    /\ \/ items' = items /\ uncertain' = uncertain
       \/ /\ Current(job.claim, job.now)
          /\ DOMAIN items' = DOMAIN items
          /\ \A x \in DOMAIN items : x # m => items'[x] = items[x]
          /\ items'[m] = Settled(items[m], job)
          /\ \/ /\ job.op = "uncertain" /\ DOMAIN uncertain' = DOMAIN uncertain \cup {m}
                /\ uncertain'[m] = job.now
                /\ \A x \in DOMAIN uncertain : x # m => uncertain'[x] = uncertain[x]
             \/ job.op # "uncertain" /\ uncertain' = uncertain

LEMMA SettleFacts ==
  ASSUME TypeOK, NEW r \in Relays, NEW w \in Workers, Settle(r, w)
  PROVE  Concluding(r, w)
  <1> DEFINE job == work[r][w]
             m == job.claim.message
  <1>1. job # NoWork /\ job \in SettlingJobs
    BY WorkFacts DEF Settle
  <1>2. NoWork \in Activity /\ Do(r, w, NoWork)
    BY DEF Activity, Settle
  <1>3. work' \in [Relays -> [Workers -> Activity]] /\ OthersWork(r, w) /\ work'[r][w] = NoWork
    BY <1>2, DoFacts DEF OthersWork
  <1>4. \/ items' = items /\ uncertain' = uncertain
        \/ /\ Current(job.claim, job.now)
           /\ items' = [items EXCEPT ![m] = Settled(items[m], job)]
           /\ uncertain' = IF job.op = "uncertain" THEN Put(uncertain, m, job.now) ELSE uncertain
    BY DEF Settle
  <1> HIDE DEF job
  <1>5. ASSUME Current(job.claim, job.now),
               items' = [items EXCEPT ![m] = Settled(items[m], job)],
               uncertain' = IF job.op = "uncertain" THEN Put(uncertain, m, job.now) ELSE uncertain
        PROVE  Concluding(r, w)
    <2>1. m \in DOMAIN items
      BY <1>5 DEF Current
    <2>2. /\ DOMAIN items' = DOMAIN items
          /\ \A x \in DOMAIN items : x # m => items'[x] = items[x]
          /\ items'[m] = Settled(items[m], job)
      BY <1>5, <2>1
    <2>3. \/ /\ job.op = "uncertain" /\ DOMAIN uncertain' = DOMAIN uncertain \cup {m}
             /\ uncertain'[m] = job.now
             /\ \A x \in DOMAIN uncertain : x # m => uncertain'[x] = uncertain[x]
          \/ job.op # "uncertain" /\ uncertain' = uncertain
      BY <1>5 DEF Put
    <2> QED BY <1>1, <1>3, <1>5, <2>2, <2>3 DEF Concluding, job
  <1> QED BY <1>1, <1>3, <1>4, <1>5 DEF Concluding, job

----------------------------------------------------------------------------
\* How the parts of a step bear on the outbox and on the claims.

\* The store applies worker w's settlement, of the claim that the item still has.
Applied(r, w) ==
    LET job == work[r][w]
        m == job.claim.message
    IN
    /\ m \in DOMAIN items /\ m \notin DOMAIN uncertain
    /\ items[m].claim_id = job.claim.claim_id
    /\ items[m].delivered_at = Never /\ items[m].failed_at = Never
    /\ DOMAIN items' = DOMAIN items
    /\ \A x \in DOMAIN items : x # m => items'[x] = items[x]
    /\ items'[m] \in Item /\ items'[m].claim_id = 0 /\ items'[m].claimed_until = Never
    /\ job.op = "retry" => items'[m].attempt = items[m].attempt + 1
    /\ job.op # "retry" => items'[m].attempt = items[m].attempt
    /\ items'[m].delivered_at # Never => job.op = "delivered"
    /\ items'[m].failed_at # Never => job.op = "failed"
    /\ \/ /\ job.op = "uncertain" /\ DOMAIN uncertain' = DOMAIN uncertain \cup {m}
          /\ uncertain'[m] = job.now
          /\ \A x \in DOMAIN uncertain : x # m => uncertain'[x] = uncertain[x]
       \/ job.op # "uncertain" /\ uncertain' = uncertain

LEMMA AppliedFacts ==
  ASSUME IInv, NEW r \in Relays, NEW w \in Workers, Settle(r, w)
  PROVE  /\ Concluding(r, w)
         /\ \/ items' = items /\ uncertain' = uncertain
            \/ Applied(r, w)
  <1> DEFINE job == work[r][w]
             m == job.claim.message
  <1>1. TypeOK /\ UncertainStored /\ ClaimsFaithful /\ RetriesAllowed
    BY DEF IInv
  <1>2. Concluding(r, w) /\ work[r][w].stage = "settling"
    BY <1>1, SettleFacts DEF Settle
  <1>3. job # NoWork /\ job \in SettlingJobs
    BY <1>2 DEF Concluding
  <1>4. job.claim \in Claims(r)
    BY <1>3, ClaimsFacts
  <1>5. job.op = "retry" => job.claim.attempt + 1 < MaxAttempts
    BY <1>1, <1>2 DEF RetriesAllowed
  <1>6. job.claim.claim_id \in Nat \ {0} /\ job.now \in Nat
    BY <1>3 DEF SettlingJobs, OutboxClaim
  <1>7. m \in DOMAIN items /\ items[m].claim_id = job.claim.claim_id => items[m].attempt = job.claim.attempt
    BY <1>1, <1>4 DEF ClaimsFaithful
  <1>8. \/ items' = items /\ uncertain' = uncertain
        \/ /\ Current(job.claim, job.now)
           /\ DOMAIN items' = DOMAIN items
           /\ \A x \in DOMAIN items : x # m => items'[x] = items[x]
           /\ items'[m] = Settled(items[m], job)
           /\ \/ /\ job.op = "uncertain" /\ DOMAIN uncertain' = DOMAIN uncertain \cup {m}
                 /\ uncertain'[m] = job.now
                 /\ \A x \in DOMAIN uncertain : x # m => uncertain'[x] = uncertain[x]
              \/ job.op # "uncertain" /\ uncertain' = uncertain
    BY <1>2 DEF Concluding
  <1> HIDE DEF job
  <1>9. ASSUME Current(job.claim, job.now),
               DOMAIN items' = DOMAIN items,
               \A x \in DOMAIN items : x # m => items'[x] = items[x],
               items'[m] = Settled(items[m], job),
               \/ /\ job.op = "uncertain" /\ DOMAIN uncertain' = DOMAIN uncertain \cup {m}
                  /\ uncertain'[m] = job.now
                  /\ \A x \in DOMAIN uncertain : x # m => uncertain'[x] = uncertain[x]
               \/ job.op # "uncertain" /\ uncertain' = uncertain
        PROVE  Applied(r, w)
    <2>1. /\ m \in DOMAIN items /\ items[m].claim_id = job.claim.claim_id
          /\ items[m].delivered_at = Never /\ items[m].failed_at = Never
      BY <1>9 DEF Current
    <2>2. m \notin DOMAIN uncertain
      BY <1>1, <1>6, <2>1 DEF UncertainStored
    <2>3. items[m] \in Item
      BY <1>1, <2>1 DEF TypeOK
    <2>4. job.op = "retry" => items[m].attempt + 1 < MaxAttempts
      BY <1>5, <1>7, <2>1
    <2> DEFINE new == Settled(items[m], job)
    <2>5. /\ new \in Item
          /\ new.attempt = IF job.op = "retry" THEN items[m].attempt + 1 ELSE items[m].attempt
          /\ new.claim_id = 0 /\ new.claimed_until = Never
          /\ new.delivered_at = IF job.op = "delivered" THEN job.now ELSE items[m].delivered_at
          /\ new.failed_at = IF job.op = "failed" THEN job.now ELSE items[m].failed_at
      BY <1>3, <2>3, <2>4, SettledFacts
    <2> HIDE DEF new
    <2>6. items'[m] = new
      BY <1>9 DEF new
    <2> QED BY <1>9, <2>1, <2>2, <2>5, <2>6 DEF Applied, job
  <1> QED BY <1>2, <1>8, <1>9

\* A step that leaves the outbox alone.
Quiet == UNCHANGED <<items, uncertain, rounds, added, archived>> /\ broker \subseteq broker'

\* Maintenance removes S from the outbox.
Removing(S) ==
    /\ S \subseteq DOMAIN items /\ DOMAIN items' = DOMAIN items \ S
    /\ \A x \in DOMAIN items' : items'[x] = items[x]
    /\ UNCHANGED <<uncertain, rounds, added, broker>>
    /\ \/ (\A m \in S : items[m].delivered_at # Never) /\ archived' = archived
       \/ (\A m \in S : items[m].failed_at # Never) /\ archived' = archived \cup S

LEMMA RemoveFacts ==
  ASSUME NEW S, PurgeDelivered(S) \/ ArchiveFailed(S)
  PROVE  Removing(S)
  <1>1. S \subseteq DOMAIN items /\ items' = DropAll(items, S) /\ UNCHANGED <<uncertain, rounds, added, broker>>
    BY DEF PurgeDelivered, ArchiveFailed
  <1>2. DOMAIN items' = DOMAIN items \ S /\ \A x \in DOMAIN items' : items'[x] = items[x]
    BY <1>1 DEF DropAll
  <1>3. \/ (\A m \in S : items[m].delivered_at # Never) /\ archived' = archived
        \/ (\A m \in S : items[m].failed_at # Never) /\ archived' = archived \cup S
    BY DEF PurgeDelivered, ArchiveFailed
  <1> QED BY <1>1, <1>2, <1>3 DEF Removing

\* The steps, as the outbox sees them.
LEMMA OutboxSteps ==
  ASSUME [Next]_vars
  PROVE  \/ Quiet
         \/ \E m \in Messages : Add(m)
         \/ \E S \in SUBSET DOMAIN items : Removing(S)
         \/ \E m \in Messages, delivered \in BOOLEAN : ResolveUncertain(m, delivered, clock)
         \/ \E r \in Relays : Claim(r)
         \/ \E r \in Relays, w \in Workers : Settle(r, w)
  <1>1. CASE UNCHANGED vars
    BY <1>1 DEF vars, Quiet
  <1>2. CASE Tick
    BY <1>2 DEF Tick, Quiet
  <1>3. CASE \E S \in SUBSET DOMAIN items : PurgeDelivered(S) \/ ArchiveFailed(S)
    BY <1>3, RemoveFacts
  <1>4. CASE \E p \in wire : BrokerAccepts(p)
    BY <1>4 DEF BrokerAccepts, Quiet
  <1>5. ASSUME NEW r \in Relays, NEW limit, RoundStarts(r, limit) PROVE Quiet
    BY <1>5 DEF RoundStarts, Quiet
  <1>6. ASSUME NEW r \in Relays, RoundAborts(r) \/ RoundEnds(r) PROVE Quiet
    BY <1>6 DEF RoundAborts, RoundEnds, Quiet
  <1>7. ASSUME NEW r \in Relays, NEW w \in Workers, Take(r, w) PROVE Quiet
    BY <1>7 DEF Take, Quiet
  <1>8. ASSUME NEW r \in Relays, NEW w \in Workers, NEW result, PublishReturns(r, w, result) PROVE Quiet
    BY <1>8 DEF PublishReturns, Quiet
  <1> QED BY <1>1, <1>2, <1>3, <1>4, <1>5, <1>6, <1>7, <1>8 DEF Next

\* ClaimsPlaced for one relay: its claims are each in one place of a running round.
Placed(s) ==
    \A w \in Workers : work[s][w] # NoWork =>
        /\ round[s].phase = "running"
        /\ work[s][w].claim \notin round[s].pending
        /\ \A v \in Workers \ {w} : work[s][v] # NoWork => work[s][v].claim # work[s][w].claim

\* Relay s goes on with the claims it has, or with fewer.
Narrowing(s) ==
    /\ round'[s] = round[s]
    /\ \A w \in Workers : \/ work'[s][w] = NoWork
                          \/ work[s][w] # NoWork /\ work'[s][w].claim = work[s][w].claim

\* Relay s begins or ends a round, with nothing in hand.
Emptying(s) ==
    /\ round'[s].phase # "running"
    /\ \A w \in Workers : work'[s][w] = NoWork

\* The steps, as a relay sees them.
LEMMA RoundSteps ==
  ASSUME IInv, [Next]_vars, NEW s \in Relays
  PROVE  \/ Narrowing(s)
         \/ Emptying(s)
         \/ \E w \in Workers : \E claim \in round[s].pending : Taking(s, w, claim)
         \/ Claim(s)
  <1>1. TypeOK /\ ClaimsPlaced
    BY DEF IInv
  <1>2. CASE UNCHANGED <<round, work>>
    BY <1>2 DEF Narrowing
  <1>3. ASSUME NEW r \in Relays, NEW limit, RoundStarts(r, limit)
        PROVE  Narrowing(s) \/ Emptying(s)
    <2>1. CASE r = s
      <3>1. round'[s].phase = "claiming"
        BY <1>1, <1>3, <2>1 DEF RoundStarts, TypeOK
      <3>2. \A w \in Workers : work[s][w] = NoWork
        BY <1>1, <1>3, <2>1 DEF RoundStarts, ClaimsPlaced
      <3> QED BY <1>3, <3>1, <3>2 DEF RoundStarts, Emptying
    <2>2. CASE r # s
      BY <1>1, <1>3, <2>2 DEF RoundStarts, Narrowing, TypeOK
    <2> QED BY <2>1, <2>2
  <1>4. ASSUME NEW r \in Relays, RoundAborts(r)
        PROVE  Narrowing(s) \/ Emptying(s)
    <2>1. CASE r = s
      <3>1. round'[s].phase # "running"
        BY <1>1, <1>4, <2>1 DEF RoundAborts, TypeOK, NoRound
      <3>2. \A w \in Workers : work'[s][w] = NoWork
        BY <1>1, <1>4, <2>1 DEF RoundAborts, TypeOK
      <3> QED BY <3>1, <3>2 DEF Emptying
    <2>2. CASE r # s
      BY <1>1, <1>4, <2>2 DEF RoundAborts, Narrowing, TypeOK
    <2> QED BY <2>1, <2>2
  <1>5. ASSUME NEW r \in Relays, RoundEnds(r)
        PROVE  Narrowing(s) \/ Emptying(s)
    <2>1. CASE r = s
      <3>1. round'[s].phase # "running"
        BY <1>1, <1>5, <2>1 DEF RoundEnds, TypeOK, NoRound
      <3>2. \A w \in Workers : work'[s][w] = NoWork
        BY <1>5, <2>1 DEF RoundEnds
      <3> QED BY <3>1, <3>2 DEF Emptying
    <2>2. CASE r # s
      BY <1>1, <1>5, <2>2 DEF RoundEnds, Narrowing, TypeOK
    <2> QED BY <2>1, <2>2
  <1>6. ASSUME NEW r \in Relays, Claim(r), r # s
        PROVE  Narrowing(s)
    <2>1. PICK S \in SUBSET DOMAIN items : \E K \in SUBSET S : Claiming(r, S, K)
      BY <1>1, <1>6, ClaimFacts
    <2>2. round'[s] = round[s]
      BY <1>6, <2>1 DEF Claiming
    <2>3. work' = work
      BY <1>6 DEF Claim
    <2> QED BY <2>2, <2>3 DEF Narrowing
  <1>7. ASSUME NEW r \in Relays, NEW w \in Workers, Take(r, w)
        PROVE  Narrowing(s) \/ \E v \in Workers : \E claim \in round[s].pending : Taking(s, v, claim)
    <2>1. PICK claim \in round[r].pending : Taking(r, w, claim)
      BY <1>1, <1>7, TakeFacts
    <2>2. CASE r # s
      <3>1. round'[s] = round[s] /\ work'[s] = work[s]
        BY <2>1, <2>2 DEF Taking, OthersWork
      <3> QED BY <3>1 DEF Narrowing
    <2> QED BY <2>1, <2>2
  <1>8. ASSUME NEW r \in Relays, NEW w \in Workers,
               NEW result \in {"confirmed", "retryable", "rejected", "uncertain"},
               PublishReturns(r, w, result)
        PROVE  Narrowing(s)
    <2>1. Returning(r, w) /\ round' = round
      BY <1>1, <1>8, PublishFacts DEF PublishReturns
    <2> QED BY <2>1 DEF Returning, OthersWork, Narrowing
  <1>9. ASSUME NEW r \in Relays, NEW w \in Workers, Settle(r, w)
        PROVE  Narrowing(s)
    <2>1. Concluding(r, w) /\ round' = round
      BY <1>1, <1>9, SettleFacts DEF Settle
    <2>2. OthersWork(r, w) /\ work'[r][w] = NoWork
      BY <2>1 DEF Concluding
    <2> QED BY <2>1, <2>2 DEF OthersWork, Narrowing
  <1>10. CASE Tick \/ (\E m \in Messages : Add(m))
              \/ (\E S \in SUBSET DOMAIN items : PurgeDelivered(S) \/ ArchiveFailed(S))
              \/ (\E m \in Messages, delivered \in BOOLEAN : ResolveUncertain(m, delivered, clock))
              \/ (\E p \in wire : BrokerAccepts(p))
    <2>1. UNCHANGED <<round, work>>
      BY <1>10 DEF Tick, Add, PurgeDelivered, ArchiveFailed, ResolveUncertain, BrokerAccepts
    <2> QED BY <1>2, <2>1
  <1>11. CASE UNCHANGED vars
    BY <1>2, <1>11 DEF vars
  <1> QED BY <1>3, <1>4, <1>5, <1>6, <1>7, <1>8, <1>9, <1>10, <1>11 DEF Next

\* Only its own claim gives a relay a claim it did not have.
LEMMA ClaimsShrink ==
  ASSUME IInv, [Next]_vars, NEW s \in Relays, ~Claim(s)
  PROVE  /\ Claims(s)' \subseteq Claims(s)
         /\ Placed(s)'
  <1>1. TypeOK /\ Placed(s)
    BY DEF IInv, ClaimsPlaced, Placed
  <1>2. CASE Narrowing(s)
    <2>1. Claims(s)' \subseteq Claims(s)
      BY <1>2 DEF Narrowing, Claims
    <2>2. Placed(s)'
      BY <1>1, <1>2 DEF Narrowing, Placed
    <2> QED BY <2>1, <2>2
  <1>3. CASE Emptying(s)
    BY <1>3 DEF Emptying, Claims, Placed
  <1>4. ASSUME NEW w \in Workers, NEW claim \in round[s].pending, Taking(s, w, claim)
        PROVE  Claims(s)' \subseteq Claims(s) /\ Placed(s)'
    <2>1. /\ round[s].phase = "running" /\ work[s][w] = NoWork
          /\ round'[s].phase = "running" /\ round'[s].pending = round[s].pending \ {claim}
          /\ \A v \in Workers : v # w => work'[s][v] = work[s][v]
          /\ work'[s][w] = NoWork \/ work'[s][w].claim = claim
      BY <1>4 DEF Taking, OthersWork
    <2>2. Claims(s)' \subseteq Claims(s)
      <3> SUFFICES ASSUME NEW c \in Claims(s)' PROVE c \in Claims(s)
        OBVIOUS
      <3>1. CASE c \in round'[s].pending
        BY <2>1, <3>1 DEF Claims
      <3>2. CASE \E v \in Workers : work'[s][v] # NoWork /\ c = work'[s][v].claim
        BY <2>1, <3>2 DEF Claims
      <3> QED BY <2>1, <3>1, <3>2 DEF Claims
    <2>3. Placed(s)'
      BY <1>1, <2>1 DEF Placed
    <2> QED BY <2>2, <2>3
  <1> QED BY <1>2, <1>3, <1>4, RoundSteps

\* Relay r claims K: these are its claims, with an id that no claim has had, and
\* the other relays keep theirs.
Claimed(r, K) ==
    /\ \A c \in Claims(r)' : \E m \in K :
        /\ c \in OutboxClaim /\ c.message = m /\ c.claim_id = rounds + 1
        /\ c.attempt = items[m].attempt /\ c.claimed_until = round[r].now + ClaimTtl
        /\ c = ClaimOf(m, round[r].now)
    /\ \A s \in Relays : s # r => Claims(s)' \subseteq Claims(s)
    /\ Placed(r)'
    /\ rounds' = rounds + 1 /\ UNCHANGED <<uncertain, clock, work, added, archived, broker>>

LEMMA NewClaims ==
  ASSUME IInv, NEW r \in Relays, Claim(r), NEW S, NEW K, Claiming(r, S, K)
  PROVE  Claimed(r, K)
  <1> DEFINE now == round[r].now
  <1>1. \A w \in Workers : work[r][w] = NoWork
    BY DEF IInv, ClaimsPlaced, Claiming
  <1>2. rounds' = rounds + 1 /\ UNCHANGED <<uncertain, clock, work, added, archived, broker>>
    BY DEF Claim
  <1>3. round'[r].pending = {ClaimOf(m, now) : m \in K}
    BY DEF Claiming
  <1>4. ASSUME NEW c \in Claims(r)'
        PROVE  \E m \in K :
                /\ c \in OutboxClaim /\ c.message = m /\ c.claim_id = rounds + 1
                /\ c.attempt = items[m].attempt /\ c.claimed_until = now + ClaimTtl
                /\ c = ClaimOf(m, now)
    <2>1. c \in round'[r].pending
      BY <1>1, <1>2 DEF Claims
    <2>2. PICK m \in K : c = ClaimOf(m, now)
      BY <1>3, <2>1
    <2>3. c \in OutboxClaim
      BY <2>2 DEF Claiming
    <2>4. c.message = m /\ c.claim_id = rounds + 1 /\ c.attempt = items[m].attempt
          /\ c.claimed_until = now + ClaimTtl
      BY <2>2 DEF ClaimOf
    <2> QED BY <2>2, <2>3, <2>4
  <1>5. ASSUME NEW s \in Relays, s # r PROVE Claims(s)' \subseteq Claims(s)
    <2>1. round'[s] = round[s]
      BY <1>5 DEF Claiming
    <2> QED BY <1>2, <2>1 DEF Claims
  <1>6. Placed(r)'
    BY <1>1, <1>2 DEF Placed
  <1> QED BY <1>2, <1>4, <1>5, <1>6 DEF Claimed

\* Every claim is one of the outbox, of a round that claimed.
LEMMA ClaimTypes ==
  ASSUME IInv, NEW r \in Relays, NEW c \in Claims(r)
  PROVE  c \in OutboxClaim /\ c.claim_id \in Nat \ {0} /\ c.claim_id <= rounds
         /\ c.message \in Messages /\ c.claimed_until \in Nat
  <1>1. TypeOK /\ ClaimsFaithful
    BY DEF IInv
  <1>2. c \in OutboxClaim
    BY <1>1, ClaimsFacts, RoundFacts, WorkFacts
  <1> QED BY <1>1, <1>2 DEF ClaimsFaithful, OutboxClaim

----------------------------------------------------------------------------
\* A step preserves each part of the invariant.

LEMMA ClockStep ==
  ASSUME TypeOK, [Next]_vars
  PROVE  clock' \in Nat /\ clock <= clock'
  <1>1. clock \in Nat
    BY DEF TypeOK
  <1>2. CASE UNCHANGED clock
    BY <1>1, <1>2
  <1>3. CASE Tick
    BY <1>1, <1>3 DEF Tick
  <1>4. CASE (\E m \in Messages : Add(m))
             \/ (\E S \in SUBSET DOMAIN items : PurgeDelivered(S) \/ ArchiveFailed(S))
             \/ (\E m \in Messages, delivered \in BOOLEAN : ResolveUncertain(m, delivered, clock))
             \/ (\E p \in wire : BrokerAccepts(p))
    BY <1>2, <1>4 DEF Add, PurgeDelivered, ArchiveFailed, ResolveUncertain, BrokerAccepts
  <1>5. ASSUME NEW r \in Relays,
               (\E limit \in 1..MaxAdmitted : RoundStarts(r, limit)) \/ RoundAborts(r) \/ RoundEnds(r)
        PROVE  clock' = clock
    BY <1>5 DEF RoundStarts, RoundAborts, RoundEnds
  <1>6. ASSUME NEW r \in Relays, Claim(r) PROVE clock' = clock
    BY <1>6 DEF Claim
  <1>7. ASSUME NEW r \in Relays, NEW w \in Workers, Take(r, w) PROVE clock' = clock
    BY <1>7 DEF Take
  <1>8. ASSUME NEW r \in Relays, NEW w \in Workers, NEW result, PublishReturns(r, w, result)
        PROVE  clock' = clock
    BY <1>8 DEF PublishReturns
  <1>9. ASSUME NEW r \in Relays, NEW w \in Workers, Settle(r, w) PROVE clock' = clock
    BY <1>9 DEF Settle
  <1>10. CASE UNCHANGED vars
    BY <1>2, <1>10 DEF vars
  <1> QED BY <1>2, <1>3, <1>4, <1>5, <1>6, <1>7, <1>8, <1>9, <1>10 DEF Next

LEMMA PlacedStep ==
  ASSUME IInv, [Next]_vars
  PROVE  ClaimsPlaced'
  <1>1. TypeOK /\ ClaimsPlaced
    BY DEF IInv
  <1>2. rounds \in Nat /\ clock \in Nat
    BY <1>1 DEF TypeOK
  <1>3. CASE \E r \in Relays : Claim(r)
    <2>1. PICK r \in Relays : Claim(r)
      BY <1>3
    <2>2. PICK S \in SUBSET DOMAIN items : \E K \in SUBSET S : Claiming(r, S, K)
      BY <1>1, <2>1, ClaimFacts
    <2>3. PICK K \in SUBSET S : Claiming(r, S, K)
      BY <2>2
    <2>4. /\ \A c \in Claims(r)' : \E m \in K :
                c.message = m /\ c.claim_id = rounds + 1 /\ c = ClaimOf(m, round[r].now)
          /\ \A s \in Relays : s # r => Claims(s)' \subseteq Claims(s)
          /\ Placed(r)'
          /\ clock' = clock /\ work' = work
      <3>1. Claimed(r, K)
        BY <2>1, <2>3, NewClaims
      <3> QED BY <3>1 DEF Claimed
    <2>5. \A s \in Relays : Placed(s)'
      <3> SUFFICES ASSUME NEW s \in Relays, s # r PROVE Placed(s)'
        BY <2>4
      <3>1. round'[s] = round[s] /\ work' = work
        BY <2>3, <2>4 DEF Claiming
      <3>2. Placed(s)
        BY <1>1 DEF ClaimsPlaced, Placed
      <3> QED BY <3>1, <3>2 DEF Placed
    <2>6. ASSUME NEW p \in Relays, NEW s \in Relays, NEW a \in Claims(p)', NEW b \in Claims(s)',
                 a.message = b.message, a.claim_id = b.claim_id
          PROVE  p = s /\ a = b
      <3>1. CASE p = r /\ s = r
        BY <2>4, <2>6, <3>1
      <3>2. CASE p # r /\ s # r
        BY <1>1, <2>4, <2>6, <3>2 DEF ClaimsPlaced
      <3>3. CASE p = r /\ s # r
        <4>1. a.claim_id = rounds + 1 /\ b \in Claims(s)
          BY <2>4, <3>3
        <4>2. b.claim_id \in Nat /\ b.claim_id <= rounds
          BY <4>1, ClaimTypes
        <4> QED BY <1>2, <2>6, <4>1, <4>2
      <3>4. CASE p # r /\ s = r
        <4>1. b.claim_id = rounds + 1 /\ a \in Claims(p)
          BY <2>4, <3>4
        <4>2. a.claim_id \in Nat /\ a.claim_id <= rounds
          BY <4>1, ClaimTypes
        <4> QED BY <1>2, <2>6, <4>1, <4>2
      <3> QED BY <3>1, <3>2, <3>3, <3>4
    <2>7. ASSUME NEW s \in Relays, round'[s].phase = "claiming"
          PROVE  round'[s].now <= clock'
      <3>1. s # r /\ round'[s] = round[s]
        BY <2>3, <2>7 DEF Claiming
      <3> QED BY <1>1, <2>4, <2>7, <3>1 DEF ClaimsPlaced
    <2> QED BY <2>5, <2>6, <2>7 DEF ClaimsPlaced, Placed
  <1>4. CASE \A r \in Relays : ~Claim(r)
    <2>1. \A s \in Relays : Claims(s)' \subseteq Claims(s) /\ Placed(s)'
      BY <1>4, ClaimsShrink
    <2>2. ASSUME NEW p \in Relays, NEW s \in Relays, NEW a \in Claims(p)', NEW b \in Claims(s)',
                 a.message = b.message, a.claim_id = b.claim_id
          PROVE  p = s /\ a = b
      <3>1. a \in Claims(p) /\ b \in Claims(s)
        BY <2>1
      <3> QED BY <1>1, <2>2, <3>1 DEF ClaimsPlaced
    <2>3. ASSUME NEW s \in Relays, round'[s].phase = "claiming"
          PROVE  round'[s].now <= clock'
      <3>0. clock' \in Nat /\ clock <= clock'
        BY <1>1, ClockStep
      <3>1. CASE round'[s] = round[s]
        <4>1. round[s].now \in Nat /\ round[s].now <= clock
          BY <1>1, <2>3, <3>1, RoundFacts DEF ClaimsPlaced
        <4> QED BY <1>2, <3>0, <3>1, <4>1
      <3>2. ASSUME NEW limit, RoundStarts(s, limit) PROVE round'[s].now <= clock'
        BY <1>1, <1>2, <3>2 DEF RoundStarts, TypeOK
      <3>3. \/ round'[s] = round[s]
            \/ round'[s].phase # "claiming"
            \/ \E limit \in 1..MaxAdmitted : RoundStarts(s, limit)
        <4>1. CASE UNCHANGED round
          BY <4>1
        <4>2. ASSUME NEW r \in Relays, NEW limit \in 1..MaxAdmitted, RoundStarts(r, limit)
              PROVE  round'[s] = round[s] \/ r = s
          BY <1>1, <4>2 DEF RoundStarts, TypeOK
        <4>3. ASSUME NEW r \in Relays, RoundAborts(r) \/ RoundEnds(r)
              PROVE  round'[s] = round[s] \/ round'[s].phase # "claiming"
          BY <1>1, <4>3 DEF RoundAborts, RoundEnds, TypeOK, NoRound
        <4>4. ASSUME NEW r \in Relays, NEW w \in Workers, Take(r, w)
              PROVE  round'[s] = round[s] \/ round'[s].phase # "claiming"
          BY <1>1, <4>4, TakeFacts DEF Taking
        <4>5. CASE Tick \/ (\E m \in Messages : Add(m))
              \/ (\E S \in SUBSET DOMAIN items : PurgeDelivered(S) \/ ArchiveFailed(S))
              \/ (\E m \in Messages, delivered \in BOOLEAN : ResolveUncertain(m, delivered, clock))
              \/ (\E p \in wire : BrokerAccepts(p))
              \/ \E r \in Relays, w \in Workers :
                    \/ \E result \in {"confirmed", "retryable", "rejected", "uncertain"} :
                            PublishReturns(r, w, result)
                    \/ Settle(r, w)
          BY <4>1, <4>5 DEF Tick, Add, PurgeDelivered, ArchiveFailed, ResolveUncertain, BrokerAccepts,
                 PublishReturns, Settle
        <4>6. CASE UNCHANGED vars
          BY <4>1, <4>6 DEF vars
        <4> QED BY <1>4, <4>2, <4>3, <4>4, <4>5, <4>6 DEF Next
      <3> QED BY <2>3, <3>1, <3>2, <3>3
    <2> QED BY <2>1, <2>2, <2>3 DEF ClaimsPlaced, Placed
  <1> QED BY <1>3, <1>4

\* Once a settlement is applied nobody has its claim any more.
LEMMA SpentClaim ==
  ASSUME IInv, NEW r \in Relays, NEW w \in Workers, Settle(r, w), Concluding(r, w),
         NEW s \in Relays, NEW c \in Claims(s), c \in Claims(s)',
         c.message = work[r][w].claim.message, c.claim_id = work[r][w].claim.claim_id
  PROVE  FALSE
  <1> DEFINE job == work[r][w]
  <1>1. ClaimsPlaced
    BY DEF IInv
  <1>2. job # NoWork /\ OthersWork(r, w) /\ work'[r][w] = NoWork /\ round' = round
    BY DEF Concluding, Settle
  <1>3. job.claim \in Claims(r)
    BY <1>2, ClaimsFacts
  <1>4. s = r /\ c = job.claim
    BY <1>1, <1>3 DEF ClaimsPlaced
  <1>5. /\ job.claim \notin round[r].pending
        /\ \A v \in Workers \ {w} : work[r][v] # NoWork => work[r][v].claim # job.claim
    BY <1>1, <1>2 DEF ClaimsPlaced
  <1>6. \/ c \in round[r].pending
        \/ \E v \in Workers : work'[r][v] # NoWork /\ c = work'[r][v].claim
    BY <1>2, <1>4 DEF Claims
  <1> QED BY <1>2, <1>4, <1>5, <1>6 DEF OthersWork

LEMMA ExclusiveStep ==
  ASSUME IInv, [Next]_vars
  PROVE  ClaimExclusive'
  <1>1. TypeOK /\ ClaimExclusive /\ ClaimsPlaced /\ DOMAIN items \subseteq added
    BY DEF IInv
  <1>2. clock \in Nat /\ clock' \in Nat /\ clock <= clock' /\ ClaimTtl \in Nat
    BY <1>1, ClockStep, RelayAssumption DEF TypeOK
  <1> SUFFICES ASSUME NEW s \in Relays, NEW c \in Claims(s)', c.claimed_until > clock'
               PROVE  Current(c, clock)' /\ c.message \notin DOMAIN uncertain'
    BY DEF ClaimExclusive
  \* A claim that outlives the step finds its item as it was.
  <1>3. ASSUME c \in Claims(s), c.message \in DOMAIN items => c.message \in DOMAIN items',
               c.message \in DOMAIN items => items'[c.message] = items[c.message]
                                             /\ (c.message \notin DOMAIN uncertain =>
                                                    c.message \notin DOMAIN uncertain')
        PROVE  Current(c, clock)' /\ c.message \notin DOMAIN uncertain'
    <2>1. c.claimed_until \in Nat
      BY <1>3, ClaimTypes
    <2>2. Current(c, clock) /\ c.message \notin DOMAIN uncertain
      BY <1>1, <1>2, <1>3, <2>1 DEF ClaimExclusive
    <2>3. Current(c, clock)'
      BY <1>3, <2>2 DEF Current
    <2> QED BY <1>3, <2>2, <2>3 DEF Current
  <1>4. CASE \E r \in Relays : Claim(r)
    <2>1. PICK r \in Relays : Claim(r)
      BY <1>4
    <2>2. PICK S \in SUBSET DOMAIN items : \E K \in SUBSET S : Claiming(r, S, K)
      BY <1>1, <2>1, ClaimFacts
    <2>3. PICK K \in SUBSET S : Claiming(r, S, K)
      BY <2>2
    <2>4. Claimed(r, K)
      BY <2>1, <2>3, NewClaims
    <2>5. /\ round[r].now \in Nat /\ round[r].now <= clock /\ clock' = clock /\ uncertain' = uncertain
          /\ \A x \in S : /\ x \notin DOMAIN uncertain /\ items[x].claimed_until <= round[r].now
                          /\ items[x].delivered_at = Never /\ items[x].failed_at = Never
      BY <1>1, <2>3, <2>4 DEF Claiming, Claimed, Eligible, ClaimsPlaced
    <2>6. CASE s = r
      <3>1. PICK m \in K : c.message = m /\ c.claim_id = rounds + 1 /\ c.claimed_until = round[r].now + ClaimTtl
        BY <2>4, <2>6 DEF Claimed
      <3>2. /\ m \in DOMAIN items' /\ items'[m].claim_id = rounds + 1
            /\ items'[m].claimed_until = round[r].now + ClaimTtl
            /\ items'[m].delivered_at = Never /\ items'[m].failed_at = Never
        BY <2>3, <2>5 DEF Claiming
      <3> QED BY <2>5, <3>1, <3>2 DEF Current
    <2>7. CASE s # r
      <3>1. c \in Claims(s) /\ c.claimed_until \in Nat
        BY <2>4, <2>7, ClaimTypes DEF Claimed
      <3>2. Current(c, clock)
        BY <1>1, <2>5, <3>1 DEF ClaimExclusive
      <3>3. c.message \notin S
        BY <1>2, <2>5, <3>1, <3>2 DEF Current
      <3>4. c.message \in DOMAIN items' /\ items'[c.message] = items[c.message]
        BY <2>3, <3>2, <3>3 DEF Claiming, Current
      <3> QED BY <1>3, <2>5, <3>1, <3>4
    <2> QED BY <2>6, <2>7
  <1>5. CASE \A r \in Relays : ~Claim(r)
    <2>1. c \in Claims(s) /\ c.claimed_until \in Nat
      BY <1>5, ClaimsShrink, ClaimTypes
    <2>2. Current(c, clock) /\ c.message \notin DOMAIN uncertain
      BY <1>1, <1>2, <2>1 DEF ClaimExclusive
    <2>3. CASE Quiet
      BY <1>3, <2>1, <2>3 DEF Quiet
    <2>4. ASSUME NEW m \in Messages, Add(m)
          PROVE  Current(c, clock)' /\ c.message \notin DOMAIN uncertain'
      <3>1. c.message # m /\ uncertain' = uncertain
        BY <1>1, <2>2, <2>4 DEF Current, Add
      <3> QED BY <1>1, <1>3, <2>1, <2>2, <2>4, <3>1, AddFacts
    <2>5. ASSUME NEW S \in SUBSET DOMAIN items, Removing(S)
          PROVE  Current(c, clock)' /\ c.message \notin DOMAIN uncertain'
      <3>1. c.message \notin S
        BY <2>2, <2>5 DEF Current, Removing
      <3> QED BY <1>3, <2>1, <2>2, <2>5, <3>1 DEF Removing
    <2>6. ASSUME NEW m \in Messages, NEW delivered \in BOOLEAN, ResolveUncertain(m, delivered, clock)
          PROVE  Current(c, clock)' /\ c.message \notin DOMAIN uncertain'
      <3>1. UncertainStored
        BY DEF IInv
      <3>2. /\ m \in DOMAIN uncertain /\ DOMAIN items' = DOMAIN items
            /\ \A x \in DOMAIN items : x # m => items'[x] = items[x]
            /\ DOMAIN uncertain' = DOMAIN uncertain \ {m}
        BY <1>1, <2>6, <3>1, ResolveFacts
      <3>3. c.message # m
        BY <2>2, <3>2
      <3> QED BY <1>3, <2>1, <3>2, <3>3
    <2>7. ASSUME NEW r \in Relays, NEW w \in Workers, Settle(r, w)
          PROVE  Current(c, clock)' /\ c.message \notin DOMAIN uncertain'
      <3>1. Concluding(r, w) /\ (Applied(r, w) \/ (items' = items /\ uncertain' = uncertain))
        BY <2>7, AppliedFacts
      <3>2. CASE items' = items /\ uncertain' = uncertain
        BY <1>3, <2>1, <3>2
      <3>3. CASE Applied(r, w)
        <4> DEFINE m == work[r][w].claim.message
        <4>1. /\ DOMAIN items' = DOMAIN items /\ \A x \in DOMAIN items : x # m => items'[x] = items[x]
              /\ DOMAIN uncertain' \subseteq DOMAIN uncertain \cup {m}
              /\ items[m].claim_id = work[r][w].claim.claim_id
          BY <3>3 DEF Applied
        <4>2. CASE c.message = m
          BY <2>1, <2>2, <2>7, <3>1, <4>1, <4>2, SpentClaim DEF Current
        <4>3. CASE c.message # m
          BY <1>3, <2>1, <4>1, <4>3
        <4> QED BY <4>2, <4>3
      <3> QED BY <3>1, <3>2, <3>3
    <2> QED BY <1>5, <2>3, <2>4, <2>5, <2>6, <2>7, OutboxSteps
  <1> QED BY <1>4, <1>5

LEMMA FaithfulStep ==
  ASSUME IInv, [Next]_vars
  PROVE  ClaimsFaithful'
  <1>1. TypeOK /\ ClaimsFaithful /\ UncertainStored /\ ItemsCoherent
    BY DEF IInv
  <1>2. rounds \in Nat
    BY <1>1 DEF TypeOK
  <1> SUFFICES ASSUME NEW s \in Relays, NEW c \in Claims(s)'
               PROVE  /\ c.claim_id <= rounds'
                      /\ c.message \in DOMAIN items' =>
                            (items'[c.message].claim_id = c.claim_id =>
                                items'[c.message].attempt = c.attempt)
    BY DEF ClaimsFaithful
  <1>3. CASE \E r \in Relays : Claim(r)
    <2>1. PICK r \in Relays : Claim(r)
      BY <1>3
    <2>2. PICK S \in SUBSET DOMAIN items : \E K \in SUBSET S : Claiming(r, S, K)
      BY <1>1, <2>1, ClaimFacts
    <2>3. PICK K \in SUBSET S : Claiming(r, S, K)
      BY <2>2
    <2>4. Claimed(r, K) /\ rounds' = rounds + 1
      BY <2>1, <2>3, NewClaims DEF Claim
    <2>5. CASE s = r
      <3>1. PICK m \in K : c.message = m /\ c.claim_id = rounds + 1 /\ c.attempt = items[m].attempt
        BY <2>4, <2>5 DEF Claimed
      <3>2. items'[m].attempt = items[m].attempt
        BY <2>3 DEF Claiming
      <3> QED BY <1>2, <2>4, <3>1, <3>2
    <2>6. CASE s # r
      <3>1. c \in Claims(s) /\ c.claim_id \in Nat \ {0} /\ c.claim_id <= rounds
        BY <2>4, <2>6, ClaimTypes DEF Claimed
      <3>2. c.message \in DOMAIN items /\ items[c.message].claim_id = c.claim_id
              => items[c.message].attempt = c.attempt
        BY <1>1, <3>1 DEF ClaimsFaithful
      <3>3. CASE c.message \in S
        <4>1. items'[c.message].claim_id \in {0, rounds + 1}
          BY <2>3, <3>3 DEF Claiming
        <4> QED BY <1>2, <2>4, <3>1, <4>1
      <3>4. CASE c.message \notin S
        <4>1. c.message \in DOMAIN items' =>
                c.message \in DOMAIN items /\ items'[c.message] = items[c.message]
          BY <2>3, <3>4 DEF Claiming
        <4> QED BY <1>2, <2>4, <3>1, <3>2, <4>1
      <3> QED BY <3>3, <3>4
    <2> QED BY <2>5, <2>6
  <1>4. CASE \A r \in Relays : ~Claim(r)
    <2>1. c \in Claims(s) /\ c.claim_id \in Nat \ {0} /\ c.claim_id <= rounds
      BY <1>4, ClaimsShrink, ClaimTypes
    <2>2. c.message \in DOMAIN items /\ items[c.message].claim_id = c.claim_id
            => items[c.message].attempt = c.attempt
      BY <1>1, <2>1 DEF ClaimsFaithful
    <2> DEFINE Goal == /\ c.claim_id <= rounds'
                       /\ c.message \in DOMAIN items' =>
                            (items'[c.message].claim_id = c.claim_id =>
                                items'[c.message].attempt = c.attempt)
    <2>3. CASE Quiet
      BY <2>1, <2>2, <2>3 DEF Quiet
    <2>4. ASSUME NEW m \in Messages, Add(m) PROVE Goal
      <3>1. items'[m].claim_id = 0 /\ DOMAIN items' = DOMAIN items \cup {m}
            /\ (\A x \in DOMAIN items : x # m => items'[x] = items[x]) /\ rounds' = rounds
        BY <1>1, <2>4, AddFacts DEF Add
      <3> QED BY <2>1, <2>2, <3>1
    <2>5. ASSUME NEW S \in SUBSET DOMAIN items, Removing(S) PROVE Goal
      BY <2>1, <2>2, <2>5 DEF Removing
    <2>6. ASSUME NEW m \in Messages, NEW delivered \in BOOLEAN, ResolveUncertain(m, delivered, clock)
          PROVE  Goal
      <3>1. /\ m \in DOMAIN items /\ DOMAIN items' = DOMAIN items
            /\ \A x \in DOMAIN items : x # m => items'[x] = items[x]
            /\ items'[m].claim_id = items[m].claim_id /\ items'[m].attempt = items[m].attempt
        BY <1>1, <2>6, ResolveFacts
      <3>2. rounds' = rounds
        BY <2>6 DEF ResolveUncertain
      <3> QED BY <2>1, <2>2, <3>1, <3>2
    <2>7. ASSUME NEW r \in Relays, NEW w \in Workers, Settle(r, w) PROVE Goal
      <3>1. (Applied(r, w) \/ items' = items) /\ rounds' = rounds
        BY <2>7, AppliedFacts DEF Settle
      <3>2. CASE items' = items
        BY <2>1, <2>2, <3>1, <3>2
      <3>3. CASE Applied(r, w)
        <4> DEFINE m == work[r][w].claim.message
        <4>1. /\ DOMAIN items' = DOMAIN items /\ \A x \in DOMAIN items : x # m => items'[x] = items[x]
              /\ items'[m].claim_id = 0
          BY <3>3 DEF Applied
        <4> QED BY <2>1, <2>2, <3>1, <4>1
      <3> QED BY <3>1, <3>2, <3>3
    <2> QED BY <1>4, <2>3, <2>4, <2>5, <2>6, <2>7, OutboxSteps
  <1> QED BY <1>3, <1>4

\* What the outbox stores: typed, coherent, and delivered only when received.
Stored ==
    /\ DOMAIN items \subseteq Messages /\ DOMAIN items \subseteq added
    /\ \A m \in DOMAIN items : items[m] \in Item
    /\ ItemsCoherent
    /\ \A m \in DOMAIN items : items[m].delivered_at # Never => Received(m)

\* An item that is as it was stays sound.
LEMMA StoredKept ==
  ASSUME Stored, TypeOK, broker \subseteq broker', added \subseteq added',
         rounds' = rounds \/ rounds' = rounds + 1,
         NEW m \in DOMAIN items, items'[m] = items[m]
  PROVE  /\ m \in Messages /\ m \in added' /\ items'[m] \in Item
         /\ items'[m].delivered_at # Never \/ items'[m].failed_at # Never => items'[m].claim_id = 0
         /\ items'[m].claim_id = 0 <=> items'[m].claimed_until = Never
         /\ items'[m].claim_id <= rounds'
         /\ items'[m].delivered_at # Never => Received(m)'
  <1>1. items[m] \in Item /\ items[m].claim_id \in Nat /\ rounds \in Nat
    BY DEF Stored, TypeOK, Item
  <1>2. items[m].claim_id <= rounds
    BY DEF Stored, ItemsCoherent
  <1>3. items'[m].claim_id <= rounds'
    BY <1>1, <1>2
  <1>4. items'[m].delivered_at # Never => Received(m)'
    BY DEF Stored, Received
  <1> QED BY <1>1, <1>3, <1>4 DEF Stored, ItemsCoherent

LEMMA StoredStep ==
  ASSUME IInv, [Next]_vars
  PROVE  Stored'
  <1>1. TypeOK /\ Stored /\ UncertainStored /\ ConfirmedReceived
    BY DEF IInv, Stored, ConfirmedReceived, TypeOK
  <1>2. rounds \in Nat /\ rounds + 1 # 0
    BY <1>1 DEF TypeOK
  <1> DEFINE Sound(m) ==
        /\ m \in Messages /\ m \in added' /\ items'[m] \in Item
        /\ items'[m].delivered_at # Never \/ items'[m].failed_at # Never => items'[m].claim_id = 0
        /\ items'[m].claim_id = 0 <=> items'[m].claimed_until = Never
        /\ items'[m].claim_id <= rounds'
        /\ items'[m].delivered_at # Never => Received(m)'
  <1> SUFFICES ASSUME NEW m \in DOMAIN items' PROVE Sound(m)
    BY DEF Stored, ItemsCoherent
  <1>3. ASSUME broker \subseteq broker', added \subseteq added', rounds' = rounds \/ rounds' = rounds + 1,
               m \in DOMAIN items, items'[m] = items[m]
        PROVE  Sound(m)
    BY <1>1, <1>3, StoredKept
  <1> HIDE DEF Sound
  <1>4. CASE Quiet
    BY <1>3, <1>4 DEF Quiet
  <1>5. ASSUME NEW x \in Messages, Add(x) PROVE Sound(m)
    <2>1. /\ added' = added \cup {x} /\ DOMAIN items' = DOMAIN items \cup {x}
          /\ \A y \in DOMAIN items : y # x => items'[y] = items[y]
          /\ items'[x] \in Item /\ items'[x].claim_id = 0
          /\ items'[x].claimed_until = Never /\ items'[x].delivered_at = Never
          /\ items'[x].failed_at = Never
      BY <1>1, <1>5, AddFacts
    <2>2. rounds' = rounds /\ broker' = broker
      BY <1>5 DEF Add
    <2>3. CASE m = x
      BY <1>2, <2>1, <2>2, <2>3 DEF Sound
    <2>4. CASE m # x
      BY <1>3, <2>1, <2>2, <2>4
    <2> QED BY <2>3, <2>4
  <1>6. ASSUME NEW S \in SUBSET DOMAIN items, Removing(S) PROVE Sound(m)
    BY <1>3, <1>6 DEF Removing
  <1>7. ASSUME NEW x \in Messages, NEW delivered \in BOOLEAN, ResolveUncertain(x, delivered, clock)
        PROVE  Sound(m)
    <2>1. /\ x \in DOMAIN uncertain /\ x \in DOMAIN items /\ DOMAIN items' = DOMAIN items
          /\ \A y \in DOMAIN items : y # x => items'[y] = items[y]
          /\ items'[x] \in Item /\ items'[x].claim_id = items[x].claim_id
          /\ items'[x].claimed_until = items[x].claimed_until
          /\ items'[x].delivered_at # Never => Received(x)
      BY <1>1, <1>7, ResolveFacts
    <2>2. rounds' = rounds /\ broker' = broker /\ added' = added
      BY <1>7 DEF ResolveUncertain
    <2>3. CASE m = x
      <3>1. items[x].claim_id = 0 /\ items[x].claimed_until = Never
        BY <1>1, <2>1 DEF UncertainStored
      <3>2. Received(x) => Received(x)'
        BY <2>2 DEF Received
      <3> QED BY <1>1, <1>2, <2>1, <2>2, <2>3, <3>1, <3>2 DEF Sound, Stored
    <2>4. CASE m # x
      BY <1>3, <2>1, <2>2, <2>4
    <2> QED BY <2>3, <2>4
  <1>8. ASSUME NEW r \in Relays, Claim(r) PROVE Sound(m)
    <2>1. PICK S \in SUBSET DOMAIN items : \E K \in SUBSET S : Claiming(r, S, K)
      BY <1>1, <1>8, ClaimFacts
    <2>2. PICK K \in SUBSET S : Claiming(r, S, K)
      BY <2>1
    <2>3. rounds' = rounds + 1 /\ broker' = broker /\ added' = added
      BY <1>8 DEF Claim
    <2>4. CASE m \in S
      <3>1. /\ items'[m] \in Item /\ items'[m].delivered_at = items[m].delivered_at
            /\ items'[m].failed_at = items[m].failed_at
            /\ m \in K => items'[m].claim_id = rounds + 1
                          /\ items'[m].claimed_until = round[r].now + ClaimTtl
            /\ m \notin K => items'[m].claim_id = 0 /\ items'[m].claimed_until = Never
            /\ round[r].now \in Nat
        BY <2>2, <2>4 DEF Claiming
      <3>2. items[m].delivered_at = Never /\ items[m].failed_at = Never
        BY <2>2, <2>4 DEF Claiming, Eligible
      <3>3. round[r].now + ClaimTtl # Never
        BY <3>1, RelayAssumption DEF Never
      <3>4. m \in K \/ m \notin K
        OBVIOUS
      <3>5. m \in Messages /\ m \in added'
        BY <1>1, <2>1, <2>3, <2>4 DEF Stored
      <3> QED BY <1>2, <2>3, <3>1, <3>2, <3>3, <3>4, <3>5 DEF Sound
    <2>5. CASE m \notin S
      BY <1>3, <2>2, <2>3, <2>5 DEF Claiming
    <2> QED BY <2>4, <2>5
  <1>9. ASSUME NEW r \in Relays, NEW w \in Workers, Settle(r, w) PROVE Sound(m)
    <2>1. Applied(r, w) \/ items' = items
      BY <1>9, AppliedFacts
    <2>2. rounds' = rounds /\ broker' = broker /\ added' = added /\ work[r][w].stage = "settling"
      BY <1>9 DEF Settle
    <2>3. CASE items' = items
      BY <1>3, <2>2, <2>3
    <2>4. CASE Applied(r, w) /\ m = work[r][w].claim.message
      <3>1. /\ m \in DOMAIN items /\ items'[m] \in Item /\ items'[m].claim_id = 0
            /\ items'[m].claimed_until = Never
            /\ items'[m].delivered_at # Never => work[r][w].op = "delivered"
        BY <2>4 DEF Applied
      <3>2. items'[m].delivered_at # Never => Received(m)'
        BY <1>1, <2>2, <2>4, <3>1 DEF ConfirmedReceived, Received
      <3> QED BY <1>1, <1>2, <2>2, <3>1, <3>2 DEF Sound, Stored
    <2>5. CASE Applied(r, w) /\ m # work[r][w].claim.message
      <3>1. m \in DOMAIN items /\ items'[m] = items[m]
        BY <2>5 DEF Applied
      <3> QED BY <1>3, <2>2, <3>1
    <2> QED BY <2>1, <2>3, <2>4, <2>5
  <1> QED BY <1>4, <1>5, <1>6, <1>7, <1>8, <1>9, OutboxSteps

LEMMA UncertainStoredStep ==
  ASSUME IInv, [Next]_vars
  PROVE  /\ UncertainStored'
         /\ DOMAIN uncertain' \subseteq Messages /\ \A m \in DOMAIN uncertain' : uncertain'[m] \in Nat
  <1>1. TypeOK /\ UncertainStored /\ DOMAIN items \subseteq added
    BY DEF IInv
  <1> DEFINE Sound(m) ==
        /\ m \in DOMAIN items'
        /\ items'[m].claim_id = 0 /\ items'[m].claimed_until = Never
        /\ items'[m].delivered_at = Never /\ items'[m].failed_at = Never
        /\ m \in Messages /\ uncertain'[m] \in Nat
  <1> SUFFICES ASSUME NEW m \in DOMAIN uncertain' PROVE Sound(m)
    BY DEF UncertainStored
  <1>2. ASSUME m \in DOMAIN uncertain, uncertain'[m] = uncertain[m],
               m \in DOMAIN items', items'[m] = items[m]
        PROVE  Sound(m)
    BY <1>1, <1>2 DEF UncertainStored, TypeOK
  <1>3. m \in DOMAIN uncertain => m \in DOMAIN items
    BY <1>1 DEF UncertainStored
  <1> HIDE DEF Sound
  <1>4. CASE Quiet
    BY <1>2, <1>3, <1>4 DEF Quiet
  <1>5. ASSUME NEW x \in Messages, Add(x) PROVE Sound(m)
    <2>1. /\ x \notin added /\ DOMAIN items' = DOMAIN items \cup {x}
          /\ \A y \in DOMAIN items : y # x => items'[y] = items[y]
      BY <1>1, <1>5, AddFacts
    <2>2. uncertain' = uncertain
      BY <1>5 DEF Add
    <2> QED BY <1>1, <1>2, <1>3, <2>1, <2>2
  <1>6. ASSUME NEW S \in SUBSET DOMAIN items, Removing(S) PROVE Sound(m)
    <2>1. m \in DOMAIN uncertain /\ uncertain' = uncertain
      BY <1>6 DEF Removing
    <2>2. m \notin S
      BY <1>1, <1>6, <2>1 DEF Removing, UncertainStored
    <2> QED BY <1>2, <1>3, <1>6, <2>1, <2>2 DEF Removing
  <1>7. ASSUME NEW x \in Messages, NEW delivered \in BOOLEAN, ResolveUncertain(x, delivered, clock)
        PROVE  Sound(m)
    <2>1. /\ DOMAIN items' = DOMAIN items
          /\ DOMAIN uncertain' = DOMAIN uncertain \ {x}
          /\ \A y \in DOMAIN uncertain' : uncertain'[y] = uncertain[y]
          /\ \A y \in DOMAIN items : y # x => items'[y] = items[y]
      BY <1>1, <1>7, ResolveFacts
    <2> QED BY <1>2, <1>3, <2>1
  <1>8. ASSUME NEW r \in Relays, Claim(r) PROVE Sound(m)
    <2>1. PICK S \in SUBSET DOMAIN items : \E K \in SUBSET S : Claiming(r, S, K)
      BY <1>1, <1>8, ClaimFacts
    <2>2. m \in DOMAIN uncertain /\ uncertain' = uncertain
      BY <1>8 DEF Claim
    <2>3. m \notin S
      BY <2>1, <2>2 DEF Claiming, Eligible
    <2> QED BY <1>2, <1>3, <2>1, <2>2, <2>3 DEF Claiming
  <1>9. ASSUME NEW r \in Relays, NEW w \in Workers, Settle(r, w) PROVE Sound(m)
    <2>1. Concluding(r, w) /\ (Applied(r, w) \/ (items' = items /\ uncertain' = uncertain))
      BY <1>9, AppliedFacts
    <2>2. CASE items' = items /\ uncertain' = uncertain
      BY <1>2, <1>3, <2>2
    <2>3. CASE Applied(r, w) /\ m = work[r][w].claim.message
      <3>1. /\ m \in DOMAIN items' /\ items'[m].claim_id = 0 /\ items'[m].claimed_until = Never
            /\ work[r][w].op = "uncertain" /\ uncertain'[m] = work[r][w].now
        BY <2>3 DEF Applied
      <3>2. items'[m].delivered_at = Never /\ items'[m].failed_at = Never
        BY <2>3, <3>1 DEF Applied
      <3>3. m \in Messages /\ work[r][w].now \in Nat
        BY <2>1, <2>3 DEF Concluding, SettlingJobs, OutboxClaim
      <3> QED BY <3>1, <3>2, <3>3 DEF Sound
    <2>4. CASE Applied(r, w) /\ m # work[r][w].claim.message
      <3>1. m \in DOMAIN uncertain /\ uncertain'[m] = uncertain[m]
        BY <2>4 DEF Applied
      <3>2. m \in DOMAIN items' /\ items'[m] = items[m]
        BY <1>3, <2>4, <3>1 DEF Applied
      <3> QED BY <1>2, <3>1, <3>2
    <2> QED BY <2>1, <2>2, <2>3, <2>4
  <1> QED BY <1>4, <1>5, <1>6, <1>7, <1>8, <1>9, OutboxSteps

LEMMA LostStep ==
  ASSUME IInv, [Next]_vars
  PROVE  NothingLost'
  <1>1. TypeOK /\ NothingLost /\ UncertainStored /\ ConfirmedReceived /\ Stored' /\ DOMAIN items \subseteq added
    BY StoredStep DEF IInv
  <1>2. \A m \in DOMAIN items' : items'[m].delivered_at # Never => Received(m)'
    BY <1>1 DEF Stored
  <1> SUFFICES ASSUME NEW m \in added'
               PROVE  Received(m)' \/ m \in archived' \/ m \in DOMAIN items'
    BY <1>2 DEF NothingLost
  <1>3. ASSUME m \in added, broker \subseteq broker', archived \subseteq archived',
               m \in DOMAIN items => m \in DOMAIN items'
        PROVE  Received(m)' \/ m \in archived' \/ m \in DOMAIN items'
    <2>1. Received(m) => Received(m)'
      BY <1>3 DEF Received
    <2> QED BY <1>1, <1>3, <2>1 DEF NothingLost
  <1>4. CASE Quiet
    BY <1>3, <1>4 DEF Quiet
  <1>5. ASSUME NEW x \in Messages, Add(x)
        PROVE  Received(m)' \/ m \in archived' \/ m \in DOMAIN items'
    <2>1. added' = added \cup {x} /\ DOMAIN items' = DOMAIN items \cup {x}
      BY <1>1, <1>5, AddFacts
    <2>2. archived' = archived /\ broker' = broker
      BY <1>5 DEF Add
    <2> QED BY <1>3, <2>1, <2>2
  <1>6. ASSUME NEW S \in SUBSET DOMAIN items, Removing(S)
        PROVE  Received(m)' \/ m \in archived' \/ m \in DOMAIN items'
    <2>1. m \in added /\ broker' = broker /\ archived \subseteq archived'
      BY <1>6 DEF Removing
    <2>2. CASE m \in S
      <3>1. CASE items[m].delivered_at # Never
        BY <1>1, <1>6, <2>1, <2>2, <3>1 DEF ConfirmedReceived, Received
      <3>2. CASE items[m].delivered_at = Never
        BY <1>6, <2>2, <3>2 DEF Removing
      <3> QED BY <3>1, <3>2
    <2>3. CASE m \notin S
      BY <1>3, <1>6, <2>1, <2>3 DEF Removing
    <2> QED BY <2>2, <2>3
  <1>7. ASSUME NEW x \in Messages, NEW delivered \in BOOLEAN, ResolveUncertain(x, delivered, clock)
        PROVE  Received(m)' \/ m \in archived' \/ m \in DOMAIN items'
    <2>1. DOMAIN items' = DOMAIN items
      BY <1>1, <1>7, ResolveFacts
    <2> QED BY <1>3, <1>7, <2>1 DEF ResolveUncertain
  <1>8. ASSUME NEW r \in Relays, Claim(r)
        PROVE  Received(m)' \/ m \in archived' \/ m \in DOMAIN items'
    <2>1. DOMAIN items' = DOMAIN items
      BY <1>1, <1>8, ClaimFacts DEF Claiming
    <2>2. UNCHANGED <<added, archived, broker>>
      BY <1>8 DEF Claim
    <2> QED BY <1>3, <2>1, <2>2
  <1>9. ASSUME NEW r \in Relays, NEW w \in Workers, Settle(r, w)
        PROVE  Received(m)' \/ m \in archived' \/ m \in DOMAIN items'
    <2>1. DOMAIN items' = DOMAIN items
      BY <1>9, AppliedFacts DEF Applied
    <2>2. UNCHANGED <<added, archived, broker>>
      BY <1>9 DEF Settle
    <2> QED BY <1>3, <2>1, <2>2
  <1> QED BY <1>4, <1>5, <1>6, <1>7, <1>8, <1>9, OutboxSteps

\* What a worker is about to settle is justified: delivered by the broker's word, a
\* retry by the attempts left.
Justified(a) ==
    a.stage = "settling" =>
        /\ a.op = "delivered" => Received(a.claim.message)
        /\ a.op = "retry" => a.claim.attempt + 1 < MaxAttempts

\* The rest of the types, and what the workers are about to do.
Running ==
    /\ rounds \in Nat /\ budget \in 0..Allowance
    /\ round \in [Relays -> Round]
    /\ work \in [Relays -> [Workers -> Activity]]
    /\ wire \subseteq Publications /\ broker \subseteq Publications
    /\ added \subseteq Messages /\ archived \subseteq Messages
    /\ \A r \in Relays, w \in Workers : Justified(work[r][w])

LEMMA JustifiedKept ==
  ASSUME NEW a, Justified(a), broker \subseteq broker'
  PROVE  Justified(a)'
  BY DEF Justified, Received

LEMMA RunningStep ==
  ASSUME IInv, [Next]_vars
  PROVE  Running'
  <1>1. TypeOK /\ Running
    BY DEF IInv, TypeOK, Running, Justified, ConfirmedReceived, RetriesAllowed
  <1>2. Allowance \in Nat
    BY RelayAssumption
  <1> DEFINE Workings == \A r \in Relays, w \in Workers : Justified(work[r][w])
  <1>3. ASSUME broker \subseteq broker', work' = work PROVE Workings'
    BY <1>1, <1>3, JustifiedKept DEF Running
  <1> HIDE DEF Workings
  <1>4. CASE UNCHANGED vars
    BY <1>1, <1>3, <1>4 DEF vars, Running, Workings
  <1>5. CASE Tick
    BY <1>1, <1>3, <1>5 DEF Tick, Running, Workings
  <1>6. ASSUME NEW m \in Messages, Add(m) PROVE Running'
    BY <1>1, <1>3, <1>6 DEF Add, Running, Workings
  <1>7. ASSUME NEW S \in SUBSET DOMAIN items, PurgeDelivered(S) PROVE Running'
    BY <1>1, <1>3, <1>7 DEF PurgeDelivered, Running, Workings
  <1>8. ASSUME NEW S \in SUBSET DOMAIN items, ArchiveFailed(S) PROVE Running'
    <2>1. S \subseteq Messages
      BY <1>1 DEF TypeOK
    <2> QED BY <1>1, <1>3, <1>8, <2>1 DEF ArchiveFailed, Running, Workings
  <1>9. ASSUME NEW m, NEW delivered, ResolveUncertain(m, delivered, clock) PROVE Running'
    BY <1>1, <1>3, <1>9 DEF ResolveUncertain, Running, Workings
  <1>10. ASSUME NEW p \in wire, BrokerAccepts(p) PROVE Running'
    <2>1. broker \subseteq broker' /\ work' = work
      BY <1>10 DEF BrokerAccepts
    <2> QED BY <1>1, <1>3, <1>10, <2>1 DEF BrokerAccepts, Running, Workings
  <1>11. ASSUME NEW r \in Relays, NEW limit \in 1..MaxAdmitted, RoundStarts(r, limit) PROVE Running'
    <2> DEFINE new == [phase |-> "claiming", now |-> clock, limit |-> limit,
                       deadline |-> After(RoundTimeout), authority |-> After(ClaimTtl)]
    <2>1. clock \in Nat /\ After(RoundTimeout) \in Nat /\ After(ClaimTtl) \in Nat
      BY <1>1, RelayAssumption DEF TypeOK, After
    <2>2. new \in Round
      BY <2>1 DEF Round
    <2>3. round' = [round EXCEPT ![r] = new]
      BY <1>11 DEF RoundStarts
    <2> HIDE DEF new
    <2>4. round' \in [Relays -> Round]
      BY <1>1, <2>2, <2>3 DEF Running
    <2> QED BY <1>1, <1>3, <1>11, <2>4 DEF RoundStarts, Running, Workings
  <1>12. ASSUME NEW r \in Relays, Claim(r) PROVE Running'
    <2>1. round' \in [Relays -> Round]
      BY <1>1, <1>12, ClaimFacts DEF Claiming
    <2>2. rounds' \in Nat
      <3>1. rounds' = rounds + 1
        BY <1>12 DEF Claim
      <3> QED BY <1>1, <3>1 DEF Running
    <2>3. UNCHANGED <<work, budget, wire, broker, added, archived>>
      BY <1>12 DEF Claim
    <2> QED BY <1>1, <1>3, <2>1, <2>2, <2>3 DEF Running, Workings
  <1>13. ASSUME NEW r \in Relays, RoundAborts(r) PROVE Running'
    <2>1. round' \in [Relays -> Round]
      BY <1>1, <1>13 DEF RoundAborts, Running, Round
    <2>2. work' \in [Relays -> [Workers -> Activity]]
      BY <1>1, <1>13 DEF RoundAborts, Running, Activity
    <2>3. UNCHANGED <<rounds, budget, wire, broker, added, archived>>
      BY <1>13 DEF RoundAborts
    <2>4. ASSUME NEW s \in Relays, NEW v \in Workers PROVE Justified(work[s][v])'
      <3>1. work'[s][v] = NoWork \/ work'[s][v] = work[s][v]
        BY <1>1, <1>13 DEF RoundAborts, Running
      <3>2. Justified(work[s][v])
        BY <1>1 DEF Running
      <3> QED BY <2>3, <3>1, <3>2 DEF Justified, NoWork, Received
    <2> QED BY <1>1, <2>1, <2>2, <2>3, <2>4 DEF Running
  <1>14. ASSUME NEW r \in Relays, RoundEnds(r) PROVE Running'
    <2>1. round' \in [Relays -> Round]
      BY <1>1, <1>14 DEF RoundEnds, Running, Round
    <2> QED BY <1>1, <1>3, <1>14, <2>1 DEF RoundEnds, Running, Workings
  <1>15. ASSUME NEW r \in Relays, NEW w \in Workers, Take(r, w) PROVE Running'
    <2>1. PICK claim \in round[r].pending : Taking(r, w, claim)
      BY <1>1, <1>15, TakeFacts
    <2>2. UNCHANGED <<rounds, budget, broker, added, archived>>
      BY <1>15 DEF Take
    <2>3. round' \in [Relays -> Round] /\ work' \in [Relays -> [Workers -> Activity]]
      BY <2>1 DEF Taking
    <2>4. wire' \subseteq Publications
      <3>1. claim.message \in Messages /\ claim.claim_id \in Nat \ {0}
        BY <2>1 DEF Taking, OutboxClaim
      <3>2. wire' = wire \/ wire' = wire \cup {[message |-> claim.message, claim_id |-> claim.claim_id]}
        BY <2>1 DEF Taking
      <3> QED BY <1>1, <3>1, <3>2 DEF Running, Publications
    <2>5. ASSUME NEW s \in Relays, NEW v \in Workers PROVE Justified(work[s][v])'
      <3>1. Justified(work[s][v])
        BY <1>1 DEF Running
      <3>2. CASE s = r /\ v = w
        <4>1. \/ work'[s][v].stage # "settling"
              \/ work'[s][v].op = "defer"
          BY <2>1, <3>2 DEF Taking, NoWork
        <4> QED BY <4>1 DEF Justified
      <3>3. CASE ~(s = r /\ v = w)
        <4>1. work'[s][v] = work[s][v]
          BY <2>1, <3>3 DEF Taking, OthersWork
        <4> QED BY <2>2, <3>1, <4>1 DEF Justified, Received
      <3> QED BY <3>2, <3>3
    <2> QED BY <1>1, <2>2, <2>3, <2>4, <2>5 DEF Running
  <1>16. ASSUME NEW r \in Relays, NEW w \in Workers,
                NEW result \in {"confirmed", "retryable", "rejected", "uncertain"},
                PublishReturns(r, w, result)
         PROVE  Running'
    <2>1. Returning(r, w)
      BY <1>1, <1>16, PublishFacts
    <2>2. UNCHANGED <<rounds, round, wire, broker, added, archived>>
      BY <1>16 DEF PublishReturns
    <2>3. work' \in [Relays -> [Workers -> Activity]]
      BY <2>1 DEF Returning
    <2>4. budget' \in 0..Allowance
      <3>1. budget' = budget \/ (budget > 0 /\ budget' = budget - 1)
        BY <2>1 DEF Returning
      <3> QED BY <1>1, <1>2, <3>1 DEF Running
    <2>5. ASSUME NEW s \in Relays, NEW v \in Workers PROVE Justified(work[s][v])'
      <3>1. Justified(work[s][v])
        BY <1>1 DEF Running
      <3>2. CASE s = r /\ v = w
        <4>1. CASE work'[s][v] = NoWork
          BY <4>1 DEF Justified, NoWork
        <4>2. CASE work'[s][v] # NoWork
          <5>1. /\ work'[s][v].claim = work[s][v].claim
                /\ work'[s][v].op = "delivered" => Received(work[s][v].claim.message)
                /\ work'[s][v].op = "retry" => work[s][v].claim.attempt + 1 < MaxAttempts
            BY <2>1, <3>2, <4>2 DEF Returning
          <5> QED BY <2>2, <5>1 DEF Justified, Received
        <4> QED BY <4>1, <4>2
      <3>3. CASE ~(s = r /\ v = w)
        <4>1. work'[s][v] = work[s][v]
          BY <2>1, <3>3 DEF Returning, OthersWork
        <4> QED BY <2>2, <3>1, <4>1 DEF Justified, Received
      <3> QED BY <3>2, <3>3
    <2> QED BY <1>1, <2>2, <2>3, <2>4, <2>5 DEF Running
  <1>17. ASSUME NEW r \in Relays, NEW w \in Workers, Settle(r, w) PROVE Running'
    <2>1. Concluding(r, w)
      BY <1>1, <1>17, SettleFacts
    <2>2. UNCHANGED <<rounds, round, budget, wire, broker, added, archived>>
      BY <1>17 DEF Settle
    <2>3. work' \in [Relays -> [Workers -> Activity]] /\ OthersWork(r, w) /\ work'[r][w] = NoWork
      BY <2>1 DEF Concluding
    <2>4. ASSUME NEW s \in Relays, NEW v \in Workers PROVE Justified(work[s][v])'
      <3>1. work'[s][v] = NoWork \/ work'[s][v] = work[s][v]
        BY <2>3 DEF OthersWork
      <3>2. Justified(work[s][v])
        BY <1>1 DEF Running
      <3> QED BY <2>2, <3>1, <3>2 DEF Justified, NoWork, Received
    <2> QED BY <1>1, <2>2, <2>3, <2>4 DEF Running
  <1> QED BY <1>4, <1>5, <1>6, <1>7, <1>8, <1>9, <1>10, <1>11, <1>12, <1>13, <1>14, <1>15, <1>16, <1>17
          DEF Next

----------------------------------------------------------------------------
\* The theorems.

LEMMA InvInit == Init => IInv
  <1> SUFFICES ASSUME Init PROVE IInv
    OBVIOUS
  <1>1. DOMAIN items = {} /\ DOMAIN uncertain = {}
    BY DEF Init
  <1>2. \A r \in Relays : round[r] = NoRound /\ \A w \in Workers : work[r][w] = NoWork
    BY DEF Init, RelaysIdle
  <1>3. NoRound.phase = "idle" /\ NoWork.stage = "idle"
    BY DEF NoRound, NoWork
  <1>4. \A r \in Relays : Claims(r) = {}
    BY <1>2, <1>3 DEF Claims
  <1>5. TypeOK
    <2>1. round \in [Relays -> Round] /\ work \in [Relays -> [Workers -> Activity]]
      BY DEF Init, RelaysIdle, Round, Activity
    <2>2. budget \in 0..Allowance
      BY RelayAssumption DEF Init, RelaysIdle
    <2> QED BY <1>1, <2>1, <2>2 DEF Init, TypeOK
  <1>6. NothingLost /\ ClaimExclusive /\ UncertainStored /\ ItemsCoherent /\ ClaimsFaithful
    BY <1>1, <1>4 DEF Init, NothingLost, ClaimExclusive, UncertainStored, ItemsCoherent, ClaimsFaithful
  <1>7. ConfirmedReceived /\ ClaimsPlaced /\ RetriesAllowed
    BY <1>1, <1>2, <1>3, <1>4 DEF ConfirmedReceived, ClaimsPlaced, RetriesAllowed
  <1> QED BY <1>1, <1>5, <1>6, <1>7 DEF IInv

LEMMA InvStep == IInv /\ [Next]_vars => IInv'
  <1> SUFFICES ASSUME IInv, [Next]_vars PROVE IInv'
    OBVIOUS
  <1>1. Stored' /\ Running'
    BY StoredStep, RunningStep
  <1>2. clock' \in Nat
    BY ClockStep DEF IInv
  <1>3. UncertainStored' /\ DOMAIN uncertain' \subseteq Messages
        /\ \A m \in DOMAIN uncertain' : uncertain'[m] \in Nat
    BY UncertainStoredStep
  <1>4. TypeOK'
    BY <1>1, <1>2, <1>3 DEF TypeOK, Stored, Running
  <1>5. ConfirmedReceived' /\ RetriesAllowed'
    BY <1>1 DEF Stored, Running, Justified, ConfirmedReceived, RetriesAllowed
  <1>6. NothingLost' /\ ClaimExclusive' /\ ClaimsFaithful' /\ ClaimsPlaced'
    BY LostStep, ExclusiveStep, FaithfulStep, PlacedStep
  <1> QED BY <1>1, <1>3, <1>4, <1>5, <1>6 DEF IInv, Stored

\* The strengthened invariant holds in every behaviour, for any number of relays,
\* workers, messages and any timing.
THEOREM Invariance == Spec => []IInv
  BY InvInit, InvStep, PTL DEF Spec

\* No message is lost: whatever add accepted is in the outbox undelivered, has reached
\* the broker, or has been archived (outbox.py, aio/runtime.py _run).
THEOREM NothingLostTheorem == Spec => []NothingLost
  <1>1. IInv => NothingLost
    BY DEF IInv
  <1> QED BY <1>1, Invariance, PTL

\* While a claim lasts its relay is the only claimant of the message, which is neither
\* settled nor uncertain (outbox.py claim, _current).
THEOREM ClaimExclusiveTheorem == Spec => []ClaimExclusive
  <1>1. IInv => ClaimExclusive
    BY DEF IInv
  <1> QED BY <1>1, Invariance, PTL

LEMMA SettledStepHolds ==
  ASSUME IInv, [Next]_vars
  PROVE  SettledStep
  <1>1. TypeOK /\ UncertainStored
    BY DEF IInv
  <1> SUFFICES ASSUME NEW m \in DOMAIN items \cap DOMAIN items',
                      items[m].delivered_at # Never \/ items[m].failed_at # Never
               PROVE  items'[m] = items[m]
    BY DEF SettledStep
  <1>2. CASE Quiet
    BY <1>2 DEF Quiet
  <1>3. ASSUME NEW x \in Messages, Add(x) PROVE items'[m] = items[m]
    <2>1. x \notin DOMAIN items
      BY <1>3 DEF IInv, Add
    <2> QED BY <1>1, <1>3, <2>1, AddFacts
  <1>4. ASSUME NEW S \in SUBSET DOMAIN items, Removing(S) PROVE items'[m] = items[m]
    BY <1>4 DEF Removing
  <1>5. ASSUME NEW x \in Messages, NEW delivered \in BOOLEAN, ResolveUncertain(x, delivered, clock)
        PROVE  items'[m] = items[m]
    <2>1. x \in DOMAIN uncertain /\ \A y \in DOMAIN items : y # x => items'[y] = items[y]
      BY <1>1, <1>5, ResolveFacts
    <2> QED BY <1>1, <2>1 DEF UncertainStored
  <1>6. ASSUME NEW r \in Relays, Claim(r) PROVE items'[m] = items[m]
    <2>1. PICK S \in SUBSET DOMAIN items : \E K \in SUBSET S : Claiming(r, S, K)
      BY <1>1, <1>6, ClaimFacts
    <2>2. m \notin S
      BY <2>1 DEF Claiming, Eligible
    <2> QED BY <2>1, <2>2 DEF Claiming
  <1>7. ASSUME NEW r \in Relays, NEW w \in Workers, Settle(r, w) PROVE items'[m] = items[m]
    BY <1>7, AppliedFacts DEF Applied
  <1> QED BY <1>2, <1>3, <1>4, <1>5, <1>6, <1>7, OutboxSteps

\* A settlement is final: a delivered or failed item stays as it is until maintenance
\* removes it (outbox.py mark_delivered, mark_failed; aio/stores.py resolve_uncertain).
THEOREM SettledFinalTheorem == Spec => SettledFinal
  <1>1. IInv /\ [Next]_vars => [SettledStep]_vars
    BY SettledStepHolds
  <1> QED BY <1>1, Invariance, PTL DEF Spec, SettledFinal

LEMMA WireStep ==
  ASSUME IInv, [Next]_vars, NEW p \in wire' \ wire
  PROVE  p.message \notin DOMAIN uncertain
  <1>1. TypeOK /\ ClaimExclusive
    BY DEF IInv
  <1>2. ASSUME NEW r \in Relays, NEW w \in Workers, Take(r, w)
        PROVE  p.message \notin DOMAIN uncertain
    <2>1. PICK claim \in round[r].pending : Taking(r, w, claim)
      BY <1>1, <1>2, TakeFacts
    <2>2. /\ p = [message |-> claim.message, claim_id |-> claim.claim_id]
          /\ claim.claimed_until > clock /\ round[r].phase = "running"
      BY <2>1 DEF Taking
    <2>3. claim \in Claims(r)
      BY <2>2, ClaimsFacts
    <2> QED BY <1>1, <2>2, <2>3 DEF ClaimExclusive
  <1>3. CASE UNCHANGED vars
    BY <1>3 DEF vars
  <1>4. CASE Tick \/ (\E m \in Messages : Add(m))
             \/ (\E S \in SUBSET DOMAIN items : PurgeDelivered(S) \/ ArchiveFailed(S))
             \/ (\E m \in Messages, delivered \in BOOLEAN : ResolveUncertain(m, delivered, clock))
             \/ (\E q \in wire : BrokerAccepts(q))
    BY <1>4 DEF Tick, Add, PurgeDelivered, ArchiveFailed, ResolveUncertain, BrokerAccepts
  <1>5. ASSUME NEW r \in Relays,
               (\E limit \in 1..MaxAdmitted : RoundStarts(r, limit)) \/ RoundAborts(r) \/ RoundEnds(r)
        PROVE  FALSE
    BY <1>5 DEF RoundStarts, RoundAborts, RoundEnds
  <1>6. ASSUME NEW r \in Relays, Claim(r) PROVE FALSE
    BY <1>6 DEF Claim
  <1>7. ASSUME NEW r \in Relays, NEW w \in Workers, NEW result, PublishReturns(r, w, result) PROVE FALSE
    BY <1>7 DEF PublishReturns
  <1>8. ASSUME NEW r \in Relays, NEW w \in Workers, Settle(r, w) PROVE FALSE
    BY <1>8 DEF Settle
  <1> QED BY <1>2, <1>3, <1>4, <1>5, <1>6, <1>7, <1>8 DEF Next

LEMMA UncertainStepHolds ==
  ASSUME IInv, [Next]_vars
  PROVE  UncertainStep
  <1>1. TypeOK /\ UncertainStored
    BY DEF IInv
  <1> SUFFICES ASSUME NEW m \in DOMAIN uncertain \cap DOMAIN uncertain'
               PROVE  m \in DOMAIN items' /\ items'[m] = items[m]
    BY WireStep DEF UncertainStep
  <1>2. m \in DOMAIN items /\ m \in DOMAIN items'
    BY <1>1, UncertainStoredStep DEF UncertainStored
  <1> SUFFICES items'[m] = items[m]
    BY <1>2
  <1>3. CASE Quiet
    BY <1>3 DEF Quiet
  <1>4. ASSUME NEW x \in Messages, Add(x) PROVE items'[m] = items[m]
    <2>1. x \notin DOMAIN items
      BY <1>4 DEF IInv, Add
    <2> QED BY <1>1, <1>2, <1>4, <2>1, AddFacts
  <1>5. ASSUME NEW S \in SUBSET DOMAIN items, Removing(S) PROVE items'[m] = items[m]
    BY <1>2, <1>5 DEF Removing
  <1>6. ASSUME NEW x \in Messages, NEW delivered \in BOOLEAN, ResolveUncertain(x, delivered, clock)
        PROVE  items'[m] = items[m]
    <2>1. /\ DOMAIN uncertain' = DOMAIN uncertain \ {x}
          /\ \A y \in DOMAIN items : y # x => items'[y] = items[y]
      BY <1>1, <1>6, ResolveFacts
    <2> QED BY <1>2, <2>1
  <1>7. ASSUME NEW r \in Relays, Claim(r) PROVE items'[m] = items[m]
    <2>1. PICK S \in SUBSET DOMAIN items : \E K \in SUBSET S : Claiming(r, S, K)
      BY <1>1, <1>7, ClaimFacts
    <2>2. m \notin S
      BY <2>1 DEF Claiming, Eligible
    <2> QED BY <1>2, <2>1, <2>2 DEF Claiming
  <1>8. ASSUME NEW r \in Relays, NEW w \in Workers, Settle(r, w) PROVE items'[m] = items[m]
    BY <1>2, <1>8, AppliedFacts DEF Applied
  <1> QED BY <1>3, <1>4, <1>5, <1>6, <1>7, <1>8, OutboxSteps

\* A message whose fate is unknown waits for the operator: nobody claims, publishes,
\* settles or purges it (outbox.py mark_uncertain, aio/stores.py claim).
THEOREM UncertainHeldTheorem == Spec => UncertainHeld
  <1>1. IInv /\ [Next]_vars => [UncertainStep]_vars
    BY UncertainStepHolds
  <1> QED BY <1>1, Invariance, PTL DEF Spec, UncertainHeld

----------------------------------------------------------------------------
\* Retries.

Recorded == {x \in Messages \X (1..MaxAttempts) :
                x[1] \in DOMAIN items /\ x[2] <= items[x[1]].attempt}

UnderWay == {x \in Relays \X Workers :
                work[x[1]][x[2]] # NoWork /\ work[x[1]][x[2]].stage = "settling"
                    /\ work[x[1]][x[2]].op = "retry"}

LEMMA PaidMeaning ==
  RetriesPaid <=> budget >= 0 /\ Cardinality(Recorded) + Cardinality(UnderWay) <= Allowance - budget
  BY DEF RetriesPaid, Recorded, UnderWay

LEMMA CountsFinite == IsFiniteSet(Recorded) /\ IsFiniteSet(UnderWay)
  <1>1. IsFiniteSet(1..MaxAttempts)
    <2>1. MaxAttempts \in Int /\ 1 \in Int
      BY RelayAssumption
    <2> QED BY <2>1, FS_Interval
  <1>2. IsFiniteSet(Messages \X (1..MaxAttempts)) /\ IsFiniteSet(Relays \X Workers)
    BY <1>1, RelayAssumption, FS_Product
  <1>3. Recorded \subseteq Messages \X (1..MaxAttempts) /\ UnderWay \subseteq Relays \X Workers
    BY DEF Recorded, UnderWay
  <1> QED BY <1>2, <1>3, FS_Subset

\* An attempt is recorded only by a worker that settles a retry.
LEMMA RecordedStep ==
  ASSUME IInv, [Next]_vars
  PROVE  \/ Recorded' \subseteq Recorded
         \/ \E r \in Relays, w \in Workers :
                Settle(r, w) /\ Applied(r, w) /\ work[r][w].op = "retry"
  <1>1. TypeOK /\ UncertainStored
    BY DEF IInv
  <1>2. ASSUME \A m \in DOMAIN items' : \/ m \in DOMAIN items /\ items'[m].attempt = items[m].attempt
                                        \/ items'[m].attempt = 0
        PROVE  Recorded' \subseteq Recorded
    BY <1>2 DEF Recorded
  <1>3. CASE Quiet
    BY <1>2, <1>3 DEF Quiet
  <1>4. ASSUME NEW x \in Messages, Add(x) PROVE Recorded' \subseteq Recorded
    <2>1. /\ DOMAIN items' = DOMAIN items \cup {x} /\ items'[x].attempt = 0
          /\ \A y \in DOMAIN items : y # x => items'[y] = items[y]
      BY <1>1, <1>4, AddFacts
    <2> QED BY <1>2, <2>1
  <1>5. ASSUME NEW S \in SUBSET DOMAIN items, Removing(S) PROVE Recorded' \subseteq Recorded
    BY <1>2, <1>5 DEF Removing
  <1>6. ASSUME NEW x \in Messages, NEW delivered \in BOOLEAN, ResolveUncertain(x, delivered, clock)
        PROVE  Recorded' \subseteq Recorded
    <2>1. /\ DOMAIN items' = DOMAIN items /\ items'[x].attempt = items[x].attempt
          /\ \A y \in DOMAIN items : y # x => items'[y] = items[y]
      BY <1>1, <1>6, ResolveFacts
    <2> QED BY <1>2, <2>1
  <1>7. ASSUME NEW r \in Relays, Claim(r) PROVE Recorded' \subseteq Recorded
    <2>1. PICK S \in SUBSET DOMAIN items : \E K \in SUBSET S : Claiming(r, S, K)
      BY <1>1, <1>7, ClaimFacts
    <2>2. \A m \in DOMAIN items' : m \in DOMAIN items /\ items'[m].attempt = items[m].attempt
      BY <2>1 DEF Claiming
    <2> QED BY <1>2, <2>2
  <1>8. ASSUME NEW r \in Relays, NEW w \in Workers, Settle(r, w)
        PROVE  Recorded' \subseteq Recorded \/ (Applied(r, w) /\ work[r][w].op = "retry")
    <2>1. Applied(r, w) \/ items' = items
      BY <1>8, AppliedFacts
    <2>2. CASE items' = items
      BY <1>2, <2>2
    <2>3. CASE Applied(r, w) /\ work[r][w].op # "retry"
      <3>1. \A m \in DOMAIN items' : m \in DOMAIN items /\ items'[m].attempt = items[m].attempt
        BY <2>3 DEF Applied
      <3> QED BY <1>2, <3>1
    <2> QED BY <2>1, <2>2, <2>3
  <1> QED BY <1>3, <1>4, <1>5, <1>6, <1>7, <1>8, OutboxSteps

\* A worker comes to owe an attempt only when the budget pays for it.
LEMMA UnderWayStep ==
  ASSUME IInv, [Next]_vars
  PROVE  \/ UnderWay' \subseteq UnderWay /\ budget' = budget
         \/ \E r \in Relays, w \in Workers :
                /\ UnderWay' \subseteq UnderWay \cup {<<r, w>>} /\ UNCHANGED items
                /\ budget > 0 /\ budget' = budget - 1
  <1>1. TypeOK
    BY DEF IInv
  <1> DEFINE Owes(a) == a # NoWork /\ a.stage = "settling" /\ a.op = "retry"
  <1>2. ASSUME \A r \in Relays, w \in Workers : Owes(work'[r][w]) => Owes(work[r][w])
        PROVE  UnderWay' \subseteq UnderWay
    BY <1>2 DEF UnderWay
  <1>3. CASE UNCHANGED <<work, budget>>
    BY <1>2, <1>3
  <1>4. ASSUME NEW r \in Relays, RoundAborts(r)
        PROVE  UnderWay' \subseteq UnderWay /\ budget' = budget
    <2>1. \A s \in Relays, v \in Workers : work'[s][v] = NoWork \/ work'[s][v] = work[s][v]
      BY <1>1, <1>4 DEF RoundAborts, TypeOK
    <2> QED BY <1>2, <1>4, <2>1 DEF RoundAborts
  <1>5. ASSUME NEW r \in Relays, NEW w \in Workers, Take(r, w)
        PROVE  UnderWay' \subseteq UnderWay /\ budget' = budget
    <2>1. PICK claim \in round[r].pending : Taking(r, w, claim)
      BY <1>1, <1>5, TakeFacts
    <2>2. ~Owes(work'[r][w]) /\ OthersWork(r, w)
      BY <2>1 DEF Taking
    <2>3. UnderWay' \subseteq UnderWay
      BY <1>2, <2>2 DEF OthersWork
    <2> QED BY <1>5, <2>3 DEF Take
  <1>6. ASSUME NEW r \in Relays, NEW w \in Workers,
               NEW result \in {"confirmed", "retryable", "rejected", "uncertain"},
               PublishReturns(r, w, result)
        PROVE  \/ UnderWay' \subseteq UnderWay /\ budget' = budget
               \/ /\ UnderWay' \subseteq UnderWay \cup {<<r, w>>} /\ UNCHANGED items
                  /\ budget > 0 /\ budget' = budget - 1
    <2>1. Returning(r, w) /\ UNCHANGED items
      BY <1>1, <1>6, PublishFacts DEF PublishReturns
    <2>2. CASE ~Owes(work'[r][w])
      <3>1. UnderWay' \subseteq UnderWay
        BY <1>2, <2>1, <2>2 DEF Returning, OthersWork
      <3>2. budget' = budget
        BY <2>1, <2>2 DEF Returning
      <3> QED BY <3>1, <3>2
    <2>3. CASE Owes(work'[r][w])
      <3>1. budget > 0 /\ budget' = budget - 1
        BY <2>1, <2>3 DEF Returning
      <3>2. ASSUME NEW x \in UnderWay' PROVE x \in UnderWay \cup {<<r, w>>}
        <4>1. x \in Relays \X Workers /\ Owes(work'[x[1]][x[2]])
          BY DEF UnderWay
        <4>2. CASE x[1] = r /\ x[2] = w
          BY <4>1, <4>2
        <4>3. CASE ~(x[1] = r /\ x[2] = w)
          <5>1. work'[x[1]][x[2]] = work[x[1]][x[2]]
            BY <2>1, <4>1, <4>3 DEF Returning, OthersWork
          <5> QED BY <4>1, <5>1 DEF UnderWay
        <4> QED BY <4>2, <4>3
      <3> QED BY <2>1, <3>1, <3>2
    <2> QED BY <2>2, <2>3
  <1>7. ASSUME NEW r \in Relays, NEW w \in Workers, Settle(r, w)
        PROVE  UnderWay' \subseteq UnderWay /\ budget' = budget
    <2>1. Concluding(r, w) /\ budget' = budget
      BY <1>1, <1>7, SettleFacts DEF Settle
    <2>2. OthersWork(r, w) /\ work'[r][w] = NoWork
      BY <2>1 DEF Concluding
    <2> QED BY <1>2, <2>1, <2>2 DEF OthersWork
  <1>8. CASE UNCHANGED vars
    BY <1>3, <1>8 DEF vars
  <1>9. CASE Tick \/ (\E m \in Messages : Add(m))
             \/ (\E S \in SUBSET DOMAIN items : PurgeDelivered(S) \/ ArchiveFailed(S))
             \/ (\E m \in Messages, delivered \in BOOLEAN : ResolveUncertain(m, delivered, clock))
             \/ (\E q \in wire : BrokerAccepts(q))
    BY <1>3, <1>9 DEF Tick, Add, PurgeDelivered, ArchiveFailed, ResolveUncertain, BrokerAccepts
  <1>10. ASSUME NEW r \in Relays,
               (\E limit \in 1..MaxAdmitted : RoundStarts(r, limit)) \/ RoundEnds(r)
        PROVE  UNCHANGED <<work, budget>>
    BY <1>10 DEF RoundStarts, RoundEnds
  <1>11. ASSUME NEW r \in Relays, Claim(r) PROVE UNCHANGED <<work, budget>>
    BY <1>11 DEF Claim
  <1> HIDE DEF Owes
  <1> QED BY <1>3, <1>4, <1>5, <1>6, <1>7, <1>8, <1>9, <1>10, <1>11 DEF Next

LEMMA PaidStep ==
  ASSUME IInv, RetriesPaid, [Next]_vars
  PROVE  RetriesPaid'
  <1> DEFINE rec == Cardinality(Recorded)
             way == Cardinality(UnderWay)
  <1>1. /\ TypeOK /\ Allowance \in Nat /\ budget \in Nat /\ budget' \in Nat
        /\ budget >= 0 /\ rec + way <= Allowance - budget
    BY RelayAssumption, RunningStep, PaidMeaning DEF IInv, TypeOK, Running
  <1>2. /\ IsFiniteSet(Recorded) /\ IsFiniteSet(UnderWay) /\ rec \in Nat /\ way \in Nat
    BY CountsFinite, FS_CardinalityType
  <1>3. /\ IsFiniteSet(Recorded)' /\ IsFiniteSet(UnderWay)'
    BY CountsFinite, PTL
  <1> DEFINE rec2 == Cardinality(Recorded')
             way2 == Cardinality(UnderWay')
  <1>4. rec2 \in Nat /\ way2 \in Nat
    BY <1>3, FS_CardinalityType
  <1>5. RetriesPaid' <=> budget' >= 0 /\ rec2 + way2 <= Allowance - budget'
    BY DEF RetriesPaid, Recorded, UnderWay
  <1>6. Recorded' \subseteq Recorded => rec2 <= rec
    BY <1>2, FS_Subset
  <1>7. UnderWay' \subseteq UnderWay => way2 <= way
    BY <1>2, FS_Subset
  <1> HIDE DEF rec, way, rec2, way2
  <1>8. CASE Recorded' \subseteq Recorded /\ UnderWay' \subseteq UnderWay /\ budget' = budget
    BY <1>1, <1>2, <1>4, <1>5, <1>6, <1>7, <1>8
  <1>9. ASSUME NEW r \in Relays, NEW w \in Workers,
               UnderWay' \subseteq UnderWay \cup {<<r, w>>}, UNCHANGED items,
               budget > 0, budget' = budget - 1
        PROVE  RetriesPaid'
    <2>1. Recorded' \subseteq Recorded
      BY <1>9 DEF Recorded
    <2>2. way2 <= way + 1
      <3>1. /\ IsFiniteSet(UnderWay \cup {<<r, w>>})
            /\ Cardinality(UnderWay \cup {<<r, w>>}) =
                  IF <<r, w>> \in UnderWay THEN Cardinality(UnderWay) ELSE Cardinality(UnderWay) + 1
        BY <1>2, FS_AddElement
      <3>2. way2 <= Cardinality(UnderWay \cup {<<r, w>>})
        BY <1>9, <3>1, FS_Subset DEF way2
      <3> QED BY <1>2, <1>4, <3>1, <3>2 DEF way
    <2> QED BY <1>1, <1>2, <1>4, <1>5, <1>6, <1>9, <2>1, <2>2
  <1>10. ASSUME NEW r \in Relays, NEW w \in Workers,
                Settle(r, w), Applied(r, w), work[r][w].op = "retry"
         PROVE  RetriesPaid'
    <2> DEFINE m == work[r][w].claim.message
               step == <<m, items[m].attempt + 1>>
               mine == <<r, w>>
    <2>1. Concluding(r, w) /\ budget' = budget /\ work[r][w].stage = "settling"
      BY <1>1, <1>10, SettleFacts DEF Settle
    <2>2. OthersWork(r, w) /\ work'[r][w] = NoWork /\ work[r][w] # NoWork
      BY <2>1 DEF Concluding
    <2>3. way2 <= way - 1
      <3>1. mine \in UnderWay
        BY <1>10, <2>1, <2>2 DEF UnderWay
      <3>2. UnderWay' \subseteq UnderWay \ {mine}
        <4> SUFFICES ASSUME NEW x \in UnderWay' PROVE x \in UnderWay \ {mine}
          OBVIOUS
        <4>1. /\ x \in Relays \X Workers /\ work'[x[1]][x[2]] # NoWork
              /\ work'[x[1]][x[2]].stage = "settling" /\ work'[x[1]][x[2]].op = "retry"
          BY DEF UnderWay
        <4>2. ~(x[1] = r /\ x[2] = w)
          BY <2>2, <4>1
        <4>3. work'[x[1]][x[2]] = work[x[1]][x[2]]
          BY <2>2, <4>1, <4>2 DEF OthersWork
        <4>4. x # mine
          BY <4>2
        <4> QED BY <4>1, <4>3, <4>4 DEF UnderWay
      <3> HIDE DEF mine
      <3>3. /\ IsFiniteSet(UnderWay \ {mine})
            /\ Cardinality(UnderWay \ {mine}) = Cardinality(UnderWay) - 1
        BY <1>2, <3>1, FS_RemoveElement
      <3>4. way2 <= Cardinality(UnderWay \ {mine})
        BY <3>2, <3>3, FS_Subset DEF way2
      <3> QED BY <3>3, <3>4 DEF way
    <2>4. rec2 <= rec + 1
      <3>0. m \in DOMAIN items /\ items[m] \in Item /\ items'[m] \in Item
        BY <1>1, <1>10 DEF Applied, TypeOK
      <3>1. Recorded' \subseteq Recorded \cup {step}
        <4> SUFFICES ASSUME NEW x \in Recorded', x \notin Recorded PROVE x = step
          OBVIOUS
        <4>1. /\ x \in Messages \X (1..MaxAttempts) /\ x[1] \in DOMAIN items'
              /\ x[2] <= items'[x[1]].attempt
          BY DEF Recorded
        <4>2. x[1] = m
          BY <1>10, <4>1 DEF Applied, Recorded
        <4>3. items'[m].attempt = items[m].attempt + 1 /\ items[m].attempt \in Nat
          BY <1>10, <3>0, RelayAssumption DEF Applied, Item
        <4>4. ~(x[2] <= items[m].attempt)
          BY <3>0, <4>1, <4>2 DEF Recorded
        <4>5. x[2] = items[m].attempt + 1
          BY <4>1, <4>2, <4>3, <4>4, RelayAssumption
        <4> QED BY <4>1, <4>2, <4>5
      <3> HIDE DEF step
      <3>2. /\ IsFiniteSet(Recorded \cup {step})
            /\ Cardinality(Recorded \cup {step}) =
                  IF step \in Recorded THEN Cardinality(Recorded) ELSE Cardinality(Recorded) + 1
        BY <1>2, FS_AddElement
      <3>3. rec2 <= Cardinality(Recorded \cup {step})
        BY <3>1, <3>2, FS_Subset DEF rec2
      <3> QED BY <1>2, <1>4, <3>2, <3>3 DEF rec
    <2> QED BY <1>1, <1>2, <1>4, <1>5, <2>1, <2>3, <2>4
  <1> QED BY <1>8, <1>9, <1>10, RecordedStep, UnderWayStep

LEMMA PaidInit == Init => RetriesPaid
  <1> SUFFICES ASSUME Init PROVE RetriesPaid
    OBVIOUS
  <1>1. Recorded = {}
    BY DEF Init, Recorded
  <1>2. UnderWay = {}
    BY DEF Init, RelaysIdle, UnderWay
  <1>3. Cardinality(Recorded) = 0 /\ Cardinality(UnderWay) = 0
    BY <1>1, <1>2, FS_EmptySet
  <1>4. budget = Allowance /\ Allowance \in Nat
    BY RelayAssumption DEF Init, RelaysIdle
  <1> QED BY <1>3, <1>4, PaidMeaning

\* Every attempt that is recorded or about to be was taken from the shared retry
\* budget (aio/resilience.py RetryBudget.take, RetryComposition.schedule).
THEOREM RetriesPaidTheorem == Spec => []RetriesPaid
  <1>1. Init => RetriesPaid
    BY PaidInit
  <1>2. IInv /\ RetriesPaid /\ [Next]_vars => RetriesPaid'
    BY PaidStep
  <1> QED BY <1>1, <1>2, Invariance, PTL DEF Spec
=============================================================================
