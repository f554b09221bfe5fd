-------------------------------- MODULE Relay --------------------------------
(***************************************************************************)
(* Outbox delivery: the transactional outbox with its claims               *)
(* (pytitect/outbox.py InMemoryOutboxStore, pytitect/aio/stores.py         *)
(* InMemoryAsyncOutboxStore), the relays that publish from it              *)
(* (pytitect/aio/runtime.py AsyncRelay with the retry composition of       *)
(* pytitect/aio/resilience.py), the broker, and the operator who resolves  *)
(* uncertain publications.                                                 *)
(*                                                                         *)
(* Every await is a step boundary: a relay samples the clock, and the      *)
(* store compares the sampled instant later, when its lock is free.  The   *)
(* broker may accept a publication after its publisher gave up waiting.    *)
(* The UTC clock and the monotonic clock of the deadlines run together.    *)
(***************************************************************************)
EXTENDS Integers, FiniteSets, FiniteSetsExt

CONSTANTS
    Messages,        \* message identities: integers, ordered like their text
    Size,            \* encoded size of each message
    Relays,          \* AsyncRelay instances over the same outbox
    Workers,         \* worker tasks of a round (concurrency)
    MaxAdmitted,     \* bound on the claims of one round (max_admitted)
    MaxBytes,        \* max_retained_bytes of each relay
    Capacity,        \* capacity of the outbox
    ClaimTtl, RoundTimeout,
    InitialDelay, Multiplier, MaximumDelay, MaxAttempts,  \* RetryPolicy
    RetryAfters,     \* pauses a broker may ask for; 0 is none
    Allowance,       \* RetryBudget(allowance)
    MaxClock,        \* bound on the instants the clock reaches
    MaxRounds        \* bound on the rounds that claim

ASSUME RelayAssumption ==
    /\ Messages \subseteq Nat /\ IsFiniteSet(Messages)
    /\ IsFiniteSet(Relays) /\ IsFiniteSet(Workers)
    /\ Size \in [Messages -> Nat] /\ MaxBytes \in [Relays -> Nat \ {0}]
    /\ {MaxAdmitted, Capacity, ClaimTtl, RoundTimeout,
        InitialDelay, Multiplier, MaximumDelay, MaxAttempts} \subseteq Nat \ {0}
    /\ RetryAfters \subseteq Nat
    /\ {Allowance, MaxClock, MaxRounds} \subseteq Nat

VARIABLES
    items,      \* _items: message -> stored envelope, claim and settlement
    uncertain,  \* _uncertain: message -> the instant its fate became unknown
    clock,
    rounds,     \* how many rounds have claimed: the source of claim ids
    round,      \* each relay's round
    work,       \* what each worker of each relay is doing
    budget,     \* RetryBudget._remaining, shared by the relays
    wire,       \* publications sent and not taken by the broker
    broker,     \* publications the broker accepted
    added,      \* history: messages some add accepted
    archived    \* history: failed messages handed to the archive

vars == <<items, uncertain, clock, rounds, round, work, budget, wire, broker,
          added, archived>>

Never == -1

Fresh(at) == [attempt |-> 0, available_at |-> at, claim_id |-> 0,
              claimed_until |-> Never, delivered_at |-> Never, failed_at |-> Never]

NoRound == [phase |-> "idle"]
NoWork == [stage |-> "idle"]

\* AsyncRelay.__init__: no round runs, and the composition's budget is whole.
RelaysIdle ==
    /\ round = [r \in Relays |-> NoRound]
    /\ work = [r \in Relays |-> [w \in Workers |-> NoWork]]
    /\ budget = Allowance

Init ==
    /\ items = [m \in {} |-> Fresh(0)]
    /\ uncertain = [m \in {} |-> 0]
    /\ clock = 0
    /\ rounds = 0
    /\ RelaysIdle
    /\ wire = {}
    /\ broker = {}
    /\ added = {}
    /\ archived = {}

Put(f, k, v) == [x \in DOMAIN f \cup {k} |-> IF x = k THEN v ELSE f[x]]

DropAll(f, S) == [x \in DOMAIN f \ S |-> f[x]]

Received(m) == \E p \in broker : p.message = m

Tick ==
    /\ clock < MaxClock
    /\ clock' = clock + 1
    /\ UNCHANGED <<items, uncertain, rounds, round, work, budget, wire, broker,
                   added, archived>>

----------------------------------------------------------------------------
\* The outbox.

\* add: a full outbox refuses, and an identity that is still stored is a duplicate
\* that changes nothing.  Producers do not reuse an identity after its purge.
Add(m) ==
    /\ m \notin added
    /\ Cardinality(DOMAIN items) < Capacity
    /\ items' = Put(items, m, Fresh(clock))
    /\ added' = added \cup {m}
    /\ UNCHANGED <<uncertain, clock, rounds, round, work, budget, wire, broker,
                   archived>>

\* Items and claims are taken in the order of (available_at, message_id).
Before(a, m, b, n) == a < b \/ (a = b /\ m < n)

Precedes(m, n) == Before(items[m].available_at, m, items[n].available_at, n)

\* Mutant of claim: a claim counts as expired one instant early.
EligibleEarly(now) ==
    {m \in DOMAIN items \ DOMAIN uncertain :
        /\ items[m].available_at <= now
        /\ items[m].delivered_at = Never /\ items[m].failed_at = Never
        /\ items[m].claimed_until <= now + 1}

\* Mutant of claim: uncertain identities are not held out.
EligibleUncertain(now) ==
    {m \in DOMAIN items :
        /\ items[m].available_at <= now
        /\ items[m].delivered_at = Never /\ items[m].failed_at = Never
        /\ items[m].claimed_until <= now}

Eligible(now) ==
    {m \in DOMAIN items \ DOMAIN uncertain :
        /\ items[m].available_at <= now
        /\ items[m].delivered_at = Never /\ items[m].failed_at = Never
        /\ items[m].claimed_until <= now}

\* S is the first `limit` members of E.
FirstOf(E, limit, S) ==
    /\ S \subseteq E
    /\ Cardinality(S) = Min({limit, Cardinality(E)})
    /\ \A m \in S, n \in E \ S : Precedes(m, n)

\* K are the members of S that fit in max_bytes, taken greedily in order.
Fitting(S, max_bytes, K) ==
    /\ K \subseteq S
    /\ \A m \in S :
        m \in K <=> MapThenSumSet(LAMBDA n : Size[n], {n \in K : Precedes(n, m)})
                        + Size[m] <= max_bytes

\* Mutant of _current: only the claim's own expiry is checked.
CurrentUnfenced(claim, at) ==
    /\ claim.message \in DOMAIN items
    /\ claim.claimed_until > at

\* The claim is its item's, and unexpired: `_valid` and `_current` together.
Current(claim, at) ==
    /\ claim.message \in DOMAIN items
    /\ items[claim.message].claim_id = claim.claim_id
    /\ items[claim.message].delivered_at = Never
    /\ items[claim.message].failed_at = Never
    /\ items[claim.message].claimed_until = claim.claimed_until
    /\ claim.claimed_until > at

Unclaimed(item) == [item EXCEPT !.claim_id = 0, !.claimed_until = Never]

\* Maintenance (purge_delivered, archive_failed): the oldest items up to a batch.
PurgeDelivered(S) ==
    /\ S # {} /\ S \subseteq DOMAIN items
    /\ \A m \in S : items[m].delivered_at # Never
    /\ \A m \in S, n \in DOMAIN items \ S : items[n].delivered_at # Never =>
            Before(items[m].delivered_at, m, items[n].delivered_at, n)
    /\ items' = DropAll(items, S)
    /\ UNCHANGED <<uncertain, clock, rounds, round, work, budget, wire, broker,
                   added, archived>>

ArchiveFailed(S) ==
    /\ S # {} /\ S \subseteq DOMAIN items
    /\ \A m \in S : items[m].failed_at # Never
    /\ \A m \in S, n \in DOMAIN items \ S : items[n].failed_at # Never =>
            Before(items[m].failed_at, m, items[n].failed_at, n)
    /\ items' = DropAll(items, S)
    /\ archived' = archived \cup S
    /\ UNCHANGED <<uncertain, clock, rounds, round, work, budget, wire, broker,
                   added>>

\* The operator's resolve_uncertain, a compare-and-set on the instant the
\* operator read (any other expected_at is STALE).  The operator says delivered
\* only when the broker has the message.
ResolveUncertain(m, delivered, available_at) ==
    /\ m \in DOMAIN uncertain
    /\ delivered => Received(m)
    /\ items' = [items EXCEPT ![m] =
            [@ EXCEPT !.delivered_at = IF delivered THEN clock ELSE Never,
                      !.available_at = available_at]]
    /\ uncertain' = DropAll(uncertain, {m})
    /\ UNCHANGED <<clock, rounds, round, work, budget, wire, broker, added, archived>>

----------------------------------------------------------------------------
\* A round of a relay.

\* Deadline.after, and a deadline with no time remaining.
After(duration) == clock + duration
Passed(deadline) == deadline <= clock

\* run_once (busy unless the relay is idle) samples the deadlines and `now`.
RoundStarts(r, limit) ==
    /\ round[r].phase = "idle"
    /\ round' = [round EXCEPT ![r] =
            [phase |-> "claiming", now |-> clock, limit |-> limit,
             deadline |-> After(RoundTimeout), authority |-> After(ClaimTtl)]]
    /\ UNCHANGED <<items, uncertain, clock, rounds, work, budget, wire, broker,
                   added, archived>>

\* The store's claim: the items that do not fit are claimed and released.
ClaimOf(m, now) ==
    [message |-> m, claim_id |-> rounds + 1, attempt |-> items[m].attempt,
     available_at |-> items[m].available_at, claimed_until |-> now + ClaimTtl]

Claim(r) ==
    /\ round[r].phase = "claiming"
    /\ rounds < MaxRounds
    /\ \E S \in SUBSET Eligible(round[r].now) : \E K \in SUBSET S :
        LET now == round[r].now IN
        /\ FirstOf(Eligible(now), round[r].limit, S)
        /\ Fitting(S, MaxBytes[r], K)
        /\ items' = [m \in DOMAIN items |->
                IF m \in K THEN [items[m] EXCEPT !.claim_id = rounds + 1,
                                                 !.claimed_until = now + ClaimTtl]
                ELSE IF m \in S THEN Unclaimed(items[m])
                ELSE items[m]]
        /\ round' = [round EXCEPT ![r] =
                [phase |-> "running", pending |-> {ClaimOf(m, now) : m \in K},
                 deadline |-> round[r].deadline, authority |-> round[r].authority]]
    /\ rounds' = rounds + 1
    /\ UNCHANGED <<uncertain, clock, work, budget, wire, broker, added, archived>>

\* The round times out in claim, an error or a cancellation ends its task group,
\* or the process dies.  What it claimed stays claimed; what it sent stays sent.
RoundAborts(r) ==
    /\ round[r].phase # "idle"
    /\ round' = [round EXCEPT ![r] = NoRound]
    /\ work' = [work EXCEPT ![r] = [w \in Workers |-> NoWork]]
    /\ UNCHANGED <<items, uncertain, clock, rounds, budget, wire, broker, added,
                   archived>>

RoundEnds(r) ==
    /\ round[r].phase = "running"
    /\ round[r].pending = {}
    /\ \A w \in Workers : work[r][w] = NoWork
    /\ round' = [round EXCEPT ![r] = NoRound]
    /\ UNCHANGED <<items, uncertain, clock, rounds, work, budget, wire, broker,
                   added, archived>>

Do(r, w, activity) == work' = [work EXCEPT ![r][w] = activity]

Settling(claim, op, available_at) ==
    [stage |-> "settling", claim |-> claim, op |-> op, now |-> clock,
     available_at |-> available_at]

\* A worker takes the next claim: stale by now, out of round time, or published.
Take(r, w) ==
    /\ round[r].phase = "running"
    /\ work[r][w] = NoWork
    /\ \E claim \in round[r].pending :
        LET stale == claim.claimed_until <= clock \/ Passed(round[r].authority)
            late == Passed(round[r].deadline)
            publication == [message |-> claim.message, claim_id |-> claim.claim_id]
        IN
        /\ \A other \in round[r].pending \ {claim} :
                Before(claim.available_at, claim.message,
                       other.available_at, other.message)
        /\ round' = [round EXCEPT ![r].pending = @ \ {claim}]
        /\ \/ /\ stale
              /\ UNCHANGED <<work, wire>>
           \/ /\ ~stale /\ late
              /\ Do(r, w, Settling(claim, "defer", clock))
              /\ UNCHANGED wire
           \/ /\ ~stale /\ ~late
              /\ Do(r, w, [stage |-> "publishing", claim |-> claim])
              /\ wire' = wire \cup {publication}
    /\ UNCHANGED <<items, uncertain, clock, rounds, budget, broker, added, archived>>

\* The broker takes a publication at its own pace; one that it refuses, or that is lost,
\* is never taken.
BrokerAccepts(p) ==
    /\ p \in wire
    /\ wire' = wire \ {p}
    /\ broker' = broker \cup {p}
    /\ UNCHANGED <<items, uncertain, clock, rounds, round, work, budget, added,
                   archived>>

----------------------------------------------------------------------------
\* RetryPolicy.delay.
Delay(attempt) ==
    LET delay == InitialDelay * Multiplier ^ (attempt - 1) IN
    IF delay < MaximumDelay THEN delay ELSE MaximumDelay

\* RetryComposition.schedule: the delays it may answer with, jittered down or
\* raised to the pause the broker asks for, and whether the retry is scheduled
\* (RetryScheduled) or only deferred (RetryDeferred).
Delays(attempt) ==
    {IF pause > jittered THEN pause ELSE jittered :
        jittered \in 0..Delay(attempt), pause \in RetryAfters}

\* RetryBudget.take, when it answers True.
Taken(remaining) == remaining - 1

\* Mutant of schedule: RetryBudget.take is not asked.
ScheduledUnbudgeted(attempt, deadline, delay) ==
    attempt < MaxAttempts /\ delay < deadline - clock

Scheduled(attempt, deadline, delay) ==
    attempt < MaxAttempts /\ delay < deadline - clock /\ budget > 0

\* The publication a worker waits for.
Publication(r, w) == [message |-> work[r][w].claim.message,
                      claim_id |-> work[r][w].claim.claim_id]

\* What the publisher reports: it confirms only on the broker's word.  Anything else
\* leaves the fate open, a refusal too: the publishers reject on exceptions and
\* answers they do not know (see Transports).
Reports(r, w, result) ==
    /\ work[r][w].stage = "publishing"
    /\ result = "confirmed" => Publication(r, w) \in broker

\* Mutant of _run: a publication that timed out is taken for delivered.
VerdictOptimistic(result, attempt) ==
    CASE result \in {"uncertain", "confirmed"} -> "delivered"
      [] result = "retryable" /\ attempt < MaxAttempts -> "schedule"
      [] OTHER -> "failed"

\* What the worker makes of the report.
Verdict(result, attempt) ==
    CASE result = "uncertain" -> "uncertain"
      [] result = "confirmed" -> "delivered"
      [] result = "retryable" /\ attempt < MaxAttempts -> "schedule"
      [] OTHER -> "failed"

\* The publisher answers or gives up, and the worker decides the settlement;
\* once the authority is gone it drops the claim as stale.
PublishReturns(r, w, result) ==
    /\ Reports(r, w, result)
    /\ LET claim == work[r][w].claim
           attempt == claim.attempt + 1
           stale == Passed(round[r].authority)
           verdict == Verdict(result, attempt)
       IN
       \/ /\ stale
          /\ Do(r, w, NoWork)
          /\ UNCHANGED budget
       \/ /\ ~stale /\ verdict # "schedule"
          /\ Do(r, w, Settling(claim, verdict, clock))
          /\ UNCHANGED budget
       \/ /\ ~stale /\ verdict = "schedule"
          /\ \E delay \in Delays(attempt) :
                LET scheduled == Scheduled(attempt, round[r].deadline, delay) IN
                /\ Do(r, w, Settling(claim, IF scheduled THEN "retry" ELSE "defer",
                                     clock + delay))
                /\ budget' = IF scheduled THEN Taken(budget) ELSE budget
    /\ UNCHANGED <<items, uncertain, clock, rounds, round, wire, broker, added, archived>>

\* The store's settlement, on the instant the worker sampled.
Settled(item, job) ==
    CASE job.op = "delivered" -> [Unclaimed(item) EXCEPT !.delivered_at = job.now]
      [] job.op = "failed" -> [Unclaimed(item) EXCEPT !.failed_at = job.now]
      [] job.op = "retry" -> [Unclaimed(item) EXCEPT !.attempt = @ + 1,
                                                     !.available_at = job.available_at]
      [] job.op = "defer" -> [Unclaimed(item) EXCEPT !.available_at = job.available_at]
      [] job.op = "uncertain" -> Unclaimed(item)

Settle(r, w) ==
    /\ work[r][w].stage = "settling"
    /\ LET job == work[r][w]
           m == job.claim.message
       IN
       \/ /\ ~Current(job.claim, job.now)  \* STALE
          /\ UNCHANGED <<items, uncertain>>
       \/ /\ Current(job.claim, job.now)
          /\ items' = [items EXCEPT ![m] = Settled(@, job)]
          /\ uncertain' = IF job.op = "uncertain" THEN Put(uncertain, m, job.now)
                          ELSE uncertain
    /\ Do(r, w, NoWork)
    /\ UNCHANGED <<clock, rounds, round, budget, wire, broker, added, archived>>

Next ==
    \/ Tick
    \/ \E m \in Messages : Add(m)
    \/ \E S \in SUBSET DOMAIN items : PurgeDelivered(S) \/ ArchiveFailed(S)
    \/ \E m \in Messages, delivered \in BOOLEAN : ResolveUncertain(m, delivered, clock)
    \/ \E p \in wire : BrokerAccepts(p)
    \/ \E r \in Relays :
        \/ \E limit \in 1..MaxAdmitted : RoundStarts(r, limit)
        \/ Claim(r)
        \/ RoundAborts(r)
        \/ RoundEnds(r)
        \/ \E w \in Workers :
            \/ Take(r, w)
            \/ \E result \in {"confirmed", "retryable", "rejected", "uncertain"} :
                    PublishReturns(r, w, result)
            \/ Settle(r, w)

Spec == Init /\ [][Next]_vars
----------------------------------------------------------------------------
Item == [attempt : 0..MaxAttempts - 1, available_at : Nat, claim_id : Nat,
         claimed_until : Nat \cup {Never}, delivered_at : Nat \cup {Never},
         failed_at : Nat \cup {Never}]

OutboxClaim == [message : Messages, claim_id : Nat \ {0}, attempt : 0..MaxAttempts - 1,
                available_at : Nat, claimed_until : Nat]

Round == {NoRound}
    \cup [phase : {"claiming"}, now : Nat, limit : 1..MaxAdmitted, deadline : Nat,
          authority : Nat]
    \cup [phase : {"running"}, pending : SUBSET OutboxClaim, deadline : Nat,
          authority : Nat]

Activity == {NoWork}
    \cup [stage : {"publishing"}, claim : OutboxClaim]
    \cup [stage : {"settling"}, claim : OutboxClaim, now : Nat, available_at : Nat,
          op : {"delivered", "failed", "retry", "defer", "uncertain"}]

Publications == [message : Messages, claim_id : Nat \ {0}]

\* Types.  Attempts stay below max_attempts although the relay decides on the
\* attempt its claim copied and the store increments the one it has by then.
TypeOK ==
    /\ DOMAIN items \subseteq Messages /\ \A m \in DOMAIN items : items[m] \in Item
    /\ DOMAIN uncertain \subseteq Messages /\ \A m \in DOMAIN uncertain : uncertain[m] \in Nat
    /\ clock \in Nat /\ rounds \in Nat /\ budget \in 0..Allowance
    /\ round \in [Relays -> Round]
    /\ work \in [Relays -> [Workers -> Activity]]
    /\ wire \subseteq Publications /\ broker \subseteq Publications
    /\ added \subseteq Messages /\ archived \subseteq Messages

\* Every retry is paid for.  The attempts that the outbox holds, and the ones that workers of
\* any relay are about to record, never exceed what was taken from the shared retry budget,
\* which never goes below zero (RetryBudget.take): a deferred settlement, or one on a claim
\* that somebody else has taken over, adds no attempt.
RetriesPaid ==
    LET recorded == {x \in Messages \X (1..MaxAttempts) :
                        x[1] \in DOMAIN items /\ x[2] <= items[x[1]].attempt}
        under_way == {x \in Relays \X Workers :
                        work[x[1]][x[2]] # NoWork /\ work[x[1]][x[2]].stage = "settling"
                            /\ work[x[1]][x[2]].op = "retry"}
    IN  /\ budget >= 0
        /\ Cardinality(recorded) + Cardinality(under_way) <= Allowance - budget

\* No message is lost: what was added is still in the outbox awaiting delivery or
\* reached the broker or the archive.  In particular an item is settled as
\* delivered, and later purged, only once the broker has it, however timeouts,
\* late answers, takeovers and operators interleave.
NothingLost ==
    \A m \in added :
        \/ Received(m)
        \/ m \in archived
        \/ m \in DOMAIN items /\ items[m].delivered_at = Never

\* A relay's claims: the ones it has still to take and the ones it works on.
Claims(r) ==
    (IF round[r].phase = "running" THEN round[r].pending ELSE {})
        \cup {work[r][w].claim : w \in {v \in Workers : work[r][v] # NoWork}}

\* While a claim lasts its relay is the message's only claimant: the claim is the
\* one in the outbox, so no other relay publishes or settles the message, and the
\* message is neither settled nor uncertain.
ClaimExclusive ==
    \A r \in Relays : \A claim \in Claims(r) :
        claim.claimed_until > clock =>
            /\ Current(claim, clock)
            /\ claim.message \notin DOMAIN uncertain

\* A message whose fate is unknown waits for the operator: until it is resolved
\* nobody claims, publishes, settles or purges it (docs/reliability-foundations.md:
\* uncertain publications are not retried automatically).
UncertainStep ==
    \A m \in DOMAIN uncertain \cap DOMAIN uncertain' :
        /\ m \in DOMAIN items' /\ items'[m] = items[m]
        /\ \A p \in wire' : p.message = m => p \in wire

UncertainHeld == [][UncertainStep]_vars

\* A settlement is final: a delivered or failed item is never claimed, settled or
\* resolved again by a late worker or operator; it stays as it is until
\* maintenance removes it.
SettledStep ==
    \A m \in DOMAIN items \cap DOMAIN items' :
        items[m].delivered_at # Never \/ items[m].failed_at # Never =>
            items'[m] = items[m]

SettledFinal == [][SettledStep]_vars

\* Strengthening.
\* An uncertain item is stored, unsettled and unclaimed.
UncertainStored ==
    \A m \in DOMAIN uncertain :
        /\ m \in DOMAIN items
        /\ items[m].claim_id = 0 /\ items[m].claimed_until = Never
        /\ items[m].delivered_at = Never /\ items[m].failed_at = Never

\* A settled item has no claim, and an item has a claim id and its expiry or
\* neither; claim ids come from rounds that claimed.
ItemsCoherent ==
    \A m \in DOMAIN items :
        /\ items[m].delivered_at # Never \/ items[m].failed_at # Never =>
                items[m].claim_id = 0
        /\ items[m].claim_id = 0 <=> items[m].claimed_until = Never
        /\ items[m].claim_id <= rounds

\* A claim that is still its item's carries the item's attempt.
ClaimsFaithful ==
    \A r \in Relays : \A claim \in Claims(r) :
        /\ claim.claim_id <= rounds
        /\ claim.message \in DOMAIN items =>
            (items[claim.message].claim_id = claim.claim_id =>
                items[claim.message].attempt = claim.attempt)

\* A worker decides delivered only on the broker's word.
ConfirmedReceived ==
    /\ \A r \in Relays, w \in Workers :
        work[r][w].stage = "settling" =>
            (work[r][w].op = "delivered" => Received(work[r][w].claim.message))
    /\ \A m \in DOMAIN items : items[m].delivered_at # Never => Received(m)

\* A claim is in one place, with the round that made it; a round claims as of an
\* instant of the past.
ClaimsPlaced ==
    /\ \A r \in Relays, w \in Workers : work[r][w] # NoWork =>
        /\ round[r].phase = "running"
        /\ work[r][w].claim \notin round[r].pending
        /\ \A v \in Workers \ {w} : work[r][v] # NoWork => work[r][v].claim # work[r][w].claim
    /\ \A r, s \in Relays : \A a \in Claims(r), b \in Claims(s) :
        a.message = b.message /\ a.claim_id = b.claim_id => r = s /\ a = b
    /\ \A r \in Relays : round[r].phase = "claiming" => round[r].now <= clock

\* A worker is about to record a retry only below max_attempts.
RetriesAllowed ==
    \A r \in Relays, w \in Workers :
        work[r][w].stage = "settling" =>
            (work[r][w].op = "retry" => work[r][w].claim.attempt + 1 < MaxAttempts)

IInv ==
    /\ TypeOK /\ NothingLost /\ ClaimExclusive
    /\ UncertainStored /\ ItemsCoherent /\ ClaimsFaithful /\ ConfirmedReceived
    /\ ClaimsPlaced /\ RetriesAllowed /\ DOMAIN items \subseteq added
=============================================================================
