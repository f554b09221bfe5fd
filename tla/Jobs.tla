-------------------------------- MODULE Jobs --------------------------------
(***************************************************************************)
(* Durable jobs and their schedules: InMemoryJobStore and JobRunner        *)
(* (pytitect/jobs.py), SQLAlchemyJobStore (pytitect/sqlalchemy/            *)
(* workflows.py).                                                          *)
(*                                                                         *)
(* A runner samples the clock once per round, claims with that instant     *)
(* and settles one claim after the other while time passes, so it may      *)
(* settle a claim that has expired or that another runner took over.  A    *)
(* job's id is <<name, number>>: an occurrence of a schedule carries its   *)
(* sequence number, a submitted job 0; submitted names are not schedules'. *)
(***************************************************************************)
EXTENDS Integers, FiniteSets, Sequences

CONSTANTS
    Runners,       \* callers of run_once()
    Names,         \* names of submitted jobs
    Schedules,     \* schedule ids
    Limit,         \* claims of one round
    ClaimTtl,      \* how long a claim is valid
    MaxAttempts,   \* a job's max_attempts
    Interval,      \* of a fixed-interval schedule
    InitialDelay, Multiplier, MaximumDelay,  \* the RetryPolicy
    MaterializeLimit,  \* jobs one materialize() creates
    Capacity,      \* of the in-memory store
    Starts,        \* instants for which jobs and schedules are first set
    MaxClock       \* bound on the instants the clock reaches

ASSUME JobAssumption ==
    /\ {Limit, ClaimTtl, MaxAttempts, Interval, InitialDelay, Multiplier, MaximumDelay,
        MaterializeLimit, Capacity} \subseteq Nat \ {0}
    /\ MaxClock \in Nat
    /\ Starts \subseteq Nat
    /\ Names \cap Schedules = {}

VARIABLES
    store,      \* which store this is: "memory" or "sqlalchemy"
    jobs,       \* job id -> its row
    schedules,  \* schedule id -> its JobSchedule
    decisions,  \* what succeeded jobs decided, in order
    sweep,      \* the materialize() call that holds the lock
    clock,
    run         \* what each runner is at

vars == <<store, jobs, schedules, decisions, sweep, clock, run>>

Ids == (Names \X {0}) \cup (Schedules \X Nat)

Kinds == {"one_shot", "fixed_interval", "consumer_policy"}

\* claim_id is a fresh identifier for every claim; the fencing token, fresh for its
\* job, stands for it.  0 is None, as it is for claimed_until.
Jobs == [run_at : Nat, attempt : Nat, state : {"scheduled", "succeeded", "terminal"},
         claim_id : Nat, claimed_until : Nat, fencing_token : Nat]

Claims == [id : Ids, run_at : Nat, attempt : Nat, fencing_token : Nat, claimed_until : Nat]

ScheduleRows == [kind : Kinds, next_run : Nat, first : Nat, sequence : Nat, active : BOOLEAN]

Rounds == [stage : {"idle", "claiming", "handling"}, now : Nat, todo : SUBSET Claims]

NoSweep == [todo |-> {}, now |-> 0, created |-> 0]
Idle == [stage |-> "idle", now |-> 0, todo |-> {}]

Init ==
    /\ store \in {"memory", "sqlalchemy"}
    /\ jobs = [id \in {} |-> 0]
    /\ schedules = [s \in {} |-> 0]
    /\ decisions = << >>
    /\ sweep = NoSweep
    /\ clock = 0
    /\ run = [r \in Runners |-> Idle]

Tick ==
    /\ clock < MaxClock
    /\ clock' = clock + 1
    /\ UNCHANGED <<store, jobs, schedules, decisions, sweep, run>>

Put(f, k, v) == [x \in DOMAIN f \cup {k} |-> IF x = k THEN v ELSE f[x]]

Unlocked == sweep.todo = {}

Fits ==
    store = "memory" =>
        Cardinality(DOMAIN jobs) + Cardinality(DOMAIN schedules) + Len(decisions) < Capacity

NewJob(run_at) ==
    [run_at |-> run_at, attempt |-> 0, state |-> "scheduled", claim_id |-> 0,
     claimed_until |-> 0, fencing_token |-> 0]

----------------------------------------------------------------------------
\* schedule(): a known id is a duplicate and a full store raises; nothing changes then.
Schedule(name, run_at) ==
    /\ Unlocked
    /\ <<name, 0>> \notin DOMAIN jobs
    /\ Fits
    /\ jobs' = Put(jobs, <<name, 0>>, NewJob(run_at))
    /\ UNCHANGED <<store, schedules, decisions, sweep, clock, run>>

AddSchedule(s, kind, next_run) ==
    /\ store = "memory"
    /\ Unlocked
    /\ s \notin DOMAIN schedules
    /\ Fits
    /\ schedules' = Put(schedules, s,
            [kind |-> kind, next_run |-> next_run, first |-> next_run,
             sequence |-> 0, active |-> TRUE])
    /\ UNCHANGED <<store, jobs, decisions, sweep, clock, run>>

\* materialize() under the lock: every schedule is visited once, in the order of its
\* next run (ties in any order), and due ones produce their next occurrence.
MaterializeBegins(now) ==
    /\ store = "memory"
    /\ Unlocked
    /\ DOMAIN schedules # {}
    /\ sweep' = [todo |-> DOMAIN schedules, now |-> now, created |-> 0]
    /\ UNCHANGED <<store, jobs, schedules, decisions, clock, run>>

Due(s) ==
    /\ sweep.created < MaterializeLimit
    /\ schedules[s].active
    /\ schedules[s].next_run <= sweep.now

\* Mutant of advance: a fixed interval is counted from the instant of the sweep.
AdvancedDrifting(schedule) ==
    LET next == [schedule EXCEPT !.sequence = @ + 1] IN
    IF schedule.kind = "fixed_interval"
    THEN {[next EXCEPT !.next_run = sweep.now + Interval]}
    ELSE {[next EXCEPT !.active = FALSE]}

Following(schedule, next_run, active) ==
    [kind |-> schedule.kind, first |-> schedule.first, next_run |-> next_run,
     sequence |-> schedule.sequence + 1, active |-> active]

\* _advance_schedule; a consumer's policy names a later instant or ends the schedule.
Advanced(schedule) ==
    LET ended == Following(schedule, schedule.next_run, FALSE) IN
    CASE schedule.kind = "one_shot" -> {ended}
      [] schedule.kind = "fixed_interval" ->
            {Following(schedule, schedule.next_run + Interval, TRUE)}
      [] schedule.kind = "consumer_policy" -> {ended} \cup
            {Following(schedule, schedule.next_run + later, TRUE) : later \in 1..Interval}

\* Whether the sweep creates the job, or finds it from a sweep whose policy raised.
Fresh(s) == <<s, schedules[s].sequence>> \notin DOMAIN jobs

Visited(s) ==
    [todo |-> sweep.todo \ {s}, now |-> sweep.now,
     created |-> IF Due(s) /\ Fresh(s) THEN sweep.created + 1 ELSE sweep.created]

Materialized(s) ==
    IF Fresh(s)
    THEN Put(jobs, <<s, schedules[s].sequence>>, NewJob(schedules[s].next_run)) ELSE jobs

Materialize(s) ==
    /\ s \in sweep.todo
    /\ \A t \in sweep.todo : schedules[s].next_run <= schedules[t].next_run
    /\ \/ /\ ~Due(s)
          /\ sweep' = Visited(s)
          /\ UNCHANGED <<jobs, schedules>>
       \/ /\ Due(s)
          /\ Fresh(s) => Fits
          /\ jobs' = Materialized(s)
          /\ \E next \in Advanced(schedules[s]) : schedules' = Put(schedules, s, next)
          /\ sweep' = Visited(s)
       \/ /\ Due(s)
          /\ Fresh(s) /\ ~Fits  \* OverflowError
          /\ sweep' = NoSweep
          /\ UNCHANGED <<jobs, schedules>>
       \/ /\ Due(s)
          /\ Fresh(s) => Fits
          /\ schedules[s].kind = "consumer_policy"  \* its policy is unknown or raises
          /\ jobs' = Materialized(s)
          /\ sweep' = NoSweep
          /\ UNCHANGED schedules
    /\ UNCHANGED <<store, decisions, clock, run>>

----------------------------------------------------------------------------
\* run_once(): the clock is read, then the store is asked for claims.
RunStarts(r) ==
    /\ run[r].stage = "idle"
    /\ run' = [run EXCEPT ![r] = [stage |-> "claiming", now |-> clock, todo |-> {}]]
    /\ UNCHANGED <<store, jobs, schedules, decisions, sweep, clock>>

\* Mutant of eligible: a claim in progress is not respected.
EligibleClaimed(id, now) ==
    /\ jobs[id].state = "scheduled"
    /\ jobs[id].run_at <= now

\* Mutant of eligible: settled jobs are not left out.
EligibleSettled(id, now) ==
    /\ jobs[id].run_at <= now
    /\ jobs[id].claimed_until <= now

Eligible(id, now) ==
    /\ jobs[id].state = "scheduled"
    /\ jobs[id].run_at <= now
    /\ jobs[id].claimed_until <= now  \* None is 0

\* The first `limit` eligible jobs by run_at; equal instants are ordered by their
\* ids, here in any order.  The SQL store skips rows that another transaction locks.
Chosen(chosen, now) ==
    LET eligible == {id \in DOMAIN jobs : Eligible(id, now)} IN
    /\ chosen \subseteq eligible
    /\ Cardinality(chosen) <= Limit
    /\ store = "memory" =>
        /\ chosen # eligible => Cardinality(chosen) = Limit
        /\ \A id \in chosen, other \in eligible \ chosen : jobs[id].run_at <= jobs[other].run_at

ClaimOf(id, now) ==
    [id |-> id, run_at |-> jobs[id].run_at, attempt |-> jobs[id].attempt,
     fencing_token |-> jobs[id].fencing_token + 1, claimed_until |-> now + ClaimTtl]

Claimed(row, now) ==
    [row EXCEPT !.fencing_token = @ + 1, !.claim_id = row.fencing_token + 1,
                !.claimed_until = now + ClaimTtl]

Claim(r) ==
    /\ run[r].stage = "claiming"
    /\ Unlocked
    /\ \E chosen \in SUBSET DOMAIN jobs :
        /\ Chosen(chosen, run[r].now)
        /\ jobs' = [id \in DOMAIN jobs |->
                IF id \in chosen THEN Claimed(jobs[id], run[r].now) ELSE jobs[id]]
        /\ run' = [run EXCEPT ![r] =
                [stage |-> IF chosen = {} THEN "idle" ELSE "handling", now |-> run[r].now,
                 todo |-> {ClaimOf(id, run[r].now) : id \in chosen}]]
    /\ UNCHANGED <<store, schedules, decisions, sweep, clock>>

\* Mutant of valid: any claim of a job that is still scheduled settles it.
ValidAny(claim) ==
    /\ claim.id \in DOMAIN jobs
    /\ jobs[claim.id].state = "scheduled"

\* The SQL store's _settle also wants the claim unexpired by the database's clock.
Unexpired(claim) ==
    /\ jobs[claim.id].claimed_until = claim.claimed_until
    /\ jobs[claim.id].claimed_until > clock

\* _valid
Valid(claim) ==
    LET row == jobs[claim.id] IN
    /\ claim.id \in DOMAIN jobs
    /\ row.claim_id = claim.fencing_token
    /\ row.fencing_token = claim.fencing_token
    /\ row.state = "scheduled"
    /\ store = "sqlalchemy" => Unexpired(claim)

\* Claims are handled in the order of their run_at.  The handler has run since the
\* last settlement; what it left is settled now.
NextUp(r) ==
    {claim \in run[r].todo : \A other \in run[r].todo : claim.run_at <= other.run_at}

Settled(r, claim) ==
    run' = [run EXCEPT ![r] =
                IF run[r].todo = {claim} THEN Idle
                ELSE [stage |-> "handling", now |-> run[r].now, todo |-> run[r].todo \ {claim}]]

Released(row) == [row EXCEPT !.claim_id = 0, !.claimed_until = 0]

\* Mutant of succeed: the job is released but stays scheduled.
SucceedReleased(r, claim) ==
    /\ Valid(claim)
    /\ store = "memory" => Len(decisions) < Capacity
    /\ jobs' = [jobs EXCEPT ![claim.id] = Released(@)]
    /\ decisions' = Append(decisions, [id |-> claim.id, token |-> claim.fencing_token])

\* succeed(): the row and the decision change together.
Succeed(r, claim) ==
    /\ Valid(claim)
    /\ store = "memory" => Len(decisions) < Capacity
    /\ jobs' = [jobs EXCEPT ![claim.id] =
            [Released(jobs[claim.id]) EXCEPT !.state = "succeeded"]]
    /\ decisions' = Append(decisions, [id |-> claim.id, token |-> claim.fencing_token])

\* RetryPolicy.delay
Delay(attempt) ==
    LET grown == InitialDelay * Multiplier ^ (attempt - 1) IN
    IF grown \in 0..MaximumDelay THEN grown ELSE MaximumDelay

\* The memory store counts on the row's attempt, the SQL store on the claim's.
Attempt(claim) ==
    1 + (IF store = "memory" THEN jobs[claim.id].attempt ELSE claim.attempt)

Retry(r, claim) ==
    LET row == jobs[claim.id]
        exhausted == Attempt(claim) >= MaxAttempts
        run_at == IF exhausted /\ store = "memory" THEN row.run_at
                  ELSE run[r].now + Delay(claim.attempt + 1)
    IN
    /\ Valid(claim)
    /\ jobs' = [jobs EXCEPT ![claim.id] =
            [Released(row) EXCEPT !.attempt = Attempt(claim), !.run_at = run_at,
                                  !.state = IF exhausted THEN "terminal" ELSE "scheduled"]]
    /\ UNCHANGED decisions

Terminate(r, claim) ==
    /\ Valid(claim)
    /\ jobs' = [jobs EXCEPT ![claim.id] =
            [Released(jobs[claim.id]) EXCEPT !.state = "terminal"]]
    /\ UNCHANGED decisions

\* StaleJobClaim, whatever the handler did.
Stale(claim) ==
    /\ ~Valid(claim)
    /\ UNCHANGED <<jobs, decisions>>

Settle(r) ==
    /\ run[r].stage = "handling"
    /\ Unlocked
    /\ \E claim \in NextUp(r) :
        /\ Succeed(r, claim) \/ Retry(r, claim) \/ Terminate(r, claim) \/ Stale(claim)
        /\ Settled(r, claim)
    /\ UNCHANGED <<store, schedules, sweep, clock>>

\* The process dies, or a PermanentJobError without a message makes _reason raise: the
\* round's claims are left to expire.
RunAborts(r) ==
    /\ run[r].stage # "idle"
    /\ run' = [run EXCEPT ![r] = Idle]
    /\ UNCHANGED <<store, jobs, schedules, decisions, sweep, clock>>

Step(r) == RunStarts(r) \/ Claim(r) \/ Settle(r) \/ RunAborts(r)

Next ==
    \/ Tick
    \/ \E name \in Names, run_at \in Starts : Schedule(name, run_at)
    \/ \E s \in Schedules, kind \in Kinds, next_run \in Starts : AddSchedule(s, kind, next_run)
    \/ \E now \in 0..clock : MaterializeBegins(now)
    \/ \E s \in Schedules : Materialize(s)
    \/ \E r \in Runners : Step(r)

Spec == Init /\ [][Next]_vars

\* The store, the schedules and the rounds keep their types; no runner has sampled an
\* instant ahead of the clock and a sweep visits existing schedules.
TypeOK ==
    /\ store \in {"memory", "sqlalchemy"}
    /\ clock \in Nat
    /\ DOMAIN jobs \subseteq Ids /\ jobs \in [DOMAIN jobs -> Jobs]
    /\ DOMAIN schedules \subseteq Schedules
    /\ schedules \in [DOMAIN schedules -> ScheduleRows]
    /\ decisions \in Seq([id : Ids, token : Nat])
    /\ sweep \in [todo : SUBSET DOMAIN schedules, now : Nat, created : Nat]
    /\ run \in [Runners -> Rounds]
    /\ \A r \in Runners : run[r].now <= clock

----------------------------------------------------------------------------
\* docs/event-platform.md: "stale claim tokens cannot commit".  Whoever runs a job how
\* often, exactly the succeeded jobs have a decision, each has one, and it is that of
\* the last claim that was ever issued for it.
DecidedOnce ==
    /\ \A k, l \in 1..Len(decisions) : decisions[k].id = decisions[l].id => k = l
    /\ \A k \in 1..Len(decisions) :
        /\ decisions[k].id \in DOMAIN jobs
        /\ jobs[decisions[k].id].state = "succeeded"
        /\ jobs[decisions[k].id].fencing_token = decisions[k].token
    /\ \A id \in DOMAIN jobs : jobs[id].state = "succeeded" =>
        \E k \in 1..Len(decisions) : decisions[k].id = id

\* A claim inside its ttl is the job's: no second runner was given the job, also one
\* that claims on an old instant, and the holder's settlement will be accepted.
ClaimExclusive ==
    \A r \in Runners : \A claim \in run[r].todo :
        claim.claimed_until > clock => Valid(claim)

\* Occurrences of a schedule are neither skipped nor repeated, whatever sweeps find the
\* store full or a policy raising; a one-shot schedule runs once, and a fixed interval
\* is counted from the intended instants, without drift.
OccurrencesExact ==
    \A s \in DOMAIN schedules :
        LET schedule == schedules[s]
            made == {k \in 0..schedule.sequence : <<s, k>> \in DOMAIN jobs}
        IN
        /\ (0..schedule.sequence - 1) \subseteq made
        /\ schedule.sequence \in made => schedule.kind = "consumer_policy" /\ schedule.active
        /\ schedule.kind = "one_shot" => schedule.sequence = IF schedule.active THEN 0 ELSE 1
        /\ schedule.kind = "fixed_interval" =>
            /\ schedule.next_run = schedule.first + schedule.sequence * Interval
            /\ \A k \in made : jobs[<<s, k>>].attempt = 0 =>
                jobs[<<s, k>>].run_at = schedule.first + k * Interval

\* succeed() raises when the list of decisions is full, but never meets that: a store
\* that had room for a job has room for its decision.
DecisionsFit ==
    store = "memory" =>
        (\A id \in DOMAIN jobs : jobs[id].state = "scheduled" => Len(decisions) < Capacity)

\* A settled job is never claimed, changed or dropped.
SettledFinal ==
    [][\A id \in DOMAIN jobs : jobs[id].state # "scheduled" =>
        id \in DOMAIN jobs' /\ jobs'[id] = jobs[id]]_vars

----------------------------------------------------------------------------
\* The strengthening the proofs rest on.

\* A claim in hand is its row's current one, not settled yet, or it was superseded
\* after it expired.  No two hands hold one claim.
ClaimsHeld ==
    /\ \A r \in Runners : \A claim \in run[r].todo :
        /\ claim.id \in DOMAIN jobs
        /\ claim.fencing_token # 0
        /\ \/ /\ claim.fencing_token = jobs[claim.id].fencing_token
              /\ claim.fencing_token = jobs[claim.id].claim_id
              /\ claim.claimed_until = jobs[claim.id].claimed_until
              /\ jobs[claim.id].state = "scheduled"
           \/ /\ claim.fencing_token < jobs[claim.id].fencing_token
              /\ claim.claimed_until <= clock
    /\ \A r, q \in Runners : \A claim \in run[r].todo, other \in run[q].todo :
        claim.id = other.id /\ claim.fencing_token = other.fencing_token =>
            r = q /\ claim = other

\* Occurrences exist only of known schedules and not beyond the next one.
OccurrencesKnown ==
    \A id \in DOMAIN jobs : id[1] \in Schedules =>
        id[1] \in DOMAIN schedules /\ id[2] <= schedules[id[1]].sequence

\* Decisions count the succeeded jobs, and a bounded store has room for its jobs.
DecisionsCounted ==
    /\ IsFiniteSet(DOMAIN jobs) /\ IsFiniteSet(DOMAIN schedules)
    /\ Len(decisions) = Cardinality({id \in DOMAIN jobs : jobs[id].state = "succeeded"})
    /\ store = "memory" => Cardinality(DOMAIN jobs) <= Capacity

IInv ==
    /\ TypeOK
    /\ DecidedOnce
    /\ ClaimsHeld
    /\ OccurrencesExact
    /\ OccurrencesKnown
    /\ DecisionsCounted
=============================================================================
