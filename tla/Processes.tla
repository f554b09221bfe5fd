----------------------------- MODULE Processes -----------------------------
(***************************************************************************)
(* Process managers and their timers: InMemoryProcessManagerStore and      *)
(* ProcessManagerRuntime (pytitect/processes.py), SQLAlchemyProcessStore   *)
(* (pytitect/sqlalchemy/workflows.py) with its inbox (stores.py).          *)
(*                                                                         *)
(* A handler loads a process, decides, and applies the decision to the     *)
(* version it loaded.  The memory store does that under its lock.  The SQL *)
(* store does it in a transaction of its caller: the rows it writes stay   *)
(* locked and invisible until the commit, which may come much later or     *)
(* never.  Timers are claimed with a ttl and a fencing token and completed *)
(* by whoever holds the claim, while decisions cancel them.                *)
(***************************************************************************)
EXTENDS Integers, FiniteSets, Sequences

CONSTANTS
    Handlers,    \* callers of handle() and apply_message()
    Firers,      \* callers of claim_timers() and complete_timer()
    Keys,        \* processes
    Messages,    \* identities of inputs
    NoMessage,   \* of an input that is applied without an inbox
    TimerIds, EffectIds,  \* names that decisions use
    Dues,        \* instants timers are set to
    Limit,       \* timers of one claim
    ClaimTtl,    \* how long a claim is valid
    InboxTtl,    \* how long a reservation of the inbox is valid
    Capacity,    \* of the in-memory store
    MaxVersion,  \* bound on the decisions of a process
    MaxClock     \* bound on the instants the clock reaches

ASSUME ProcessAssumption ==
    /\ {Limit, ClaimTtl, InboxTtl, Capacity} \subseteq Nat \ {0}
    /\ MaxVersion \in Nat /\ MaxClock \in Nat
    /\ Dues \subseteq Nat
    /\ NoMessage \notin Messages
    /\ TimerIds \cap EffectIds = {}

VARIABLES
    store,    \* which store this is: "memory" or "sqlalchemy"
    states,   \* process -> its version, 0 when there is none
    timers,   \* <<process, timer id>> -> its row
    effects,  \* what is to be sent: pending_effects, or what save_effect wrote
    inbox,    \* the inbox row of each message
    clock,
    call,     \* what each handler is at
    hand,     \* the claims each firer holds
    log,      \* history: the decisions applied to each process, in order
    fired     \* history: the claims with which timers were completed

vars == <<store, states, timers, effects, inbox, clock, call, hand, log, fired>>

Decisions ==
    {d \in [effects : SUBSET EffectIds, schedule : SUBSET TimerIds,
            cancel_timers : SUBSET TimerIds, due_at : Dues] :
        d.schedule \cap d.cancel_timers = {}}

\* claim_id is fresh for every claim; the fencing token, fresh for its timer, stands
\* for it.  0 is None, as it is for claimed_until.
Timers == [due_at : Nat, terminal : BOOLEAN, claim_id : Nat, claimed_until : Nat,
           fencing_token : Nat]

Claims == [timer : Keys \X TimerIds, token : Nat, claimed_until : Nat]

\* A decision's effect carries the version it made, a timer's the token it fired with.
Effects == [key : Keys, id : EffectIds \cup TimerIds, number : Nat]

Entries == [basis : Nat, message : Messages \cup {NoMessage}, decision : Decisions]

Calls == [stage : {"loaded", "reserved", "applied", "completed"}, key : Keys,
          basis : Nat, message : Messages \cup {NoMessage}, decision : Decisions,
          expires_at : Nat]

Idle == [stage |-> "idle"]

\* `firing` is the claim whose row the transaction of complete_timer() has locked, and
\* `written` says that the row was updated in it.
Hands == [claims : SUBSET Claims, firing : SUBSET Claims, written : BOOLEAN]

Holding(claims) == [claims |-> claims, firing |-> {}, written |-> FALSE]

Init ==
    /\ store \in {"memory", "sqlalchemy"}
    /\ states = [k \in Keys |-> 0]
    /\ timers = [x \in {} |-> 0]
    /\ effects = {}
    /\ inbox = [m \in Messages |-> "absent"]
    /\ clock = 0
    /\ call = [h \in Handlers |-> Idle]
    /\ hand = [f \in Firers |-> Holding({})]
    /\ log = [k \in Keys |-> << >>]
    /\ fired = {}

Tick ==
    /\ clock < MaxClock
    /\ clock' = clock + 1
    /\ UNCHANGED <<store, states, timers, effects, inbox, call, hand, log, fired>>

----------------------------------------------------------------------------
\* Rows that transactions keep locked.

Open(h) == call[h].stage \in {"applied", "completed"}

ProcessLocked(k) == \E h \in Handlers : Open(h) /\ call[h].key = k

InboxLocked(m) == \E h \in Handlers : call[h].stage # "idle" /\ call[h].stage # "loaded"
                                      /\ call[h].message = m

Firing(x) == \E f \in Firers : \E claim \in hand[f].firing : claim.timer = x

\* A cancellation locks the rows it changes, pending ones.
Cancelling(x) ==
    \E h \in Handlers : /\ Open(h)
                        /\ call[h].key = x[1] /\ x[2] \in call[h].decision.cancel_timers
                        /\ ~timers[x].terminal

----------------------------------------------------------------------------
\* Handling an input: load the process, decide, apply.

Handle(h, k, message) ==
    /\ call[h].stage = "idle"
    /\ states[k] < MaxVersion
    /\ store = "memory" => message = NoMessage
    /\ \E decision \in Decisions :
        call' = [call EXCEPT ![h] =
            [stage |-> "loaded", key |-> k, basis |-> states[k], message |-> message,
             decision |-> decision, expires_at |-> 0]]
    /\ UNCHANGED <<store, states, timers, effects, inbox, clock, hand, log, fired>>

At(h, stage, expires_at) ==
    call' = [call EXCEPT ![h] =
        [stage |-> stage, key |-> call[h].key, basis |-> call[h].basis,
         message |-> call[h].message, decision |-> call[h].decision,
         expires_at |-> expires_at]]

Ends(h) == call' = [call EXCEPT ![h] = Idle]

\* apply_message() reserves the message; a row of another transaction is waited for, and
\* one that was committed answers "duplicate".
Reserve(h) ==
    /\ call[h].stage = "loaded" /\ call[h].message # NoMessage
    /\ ~InboxLocked(call[h].message)
    /\ IF inbox[call[h].message] = "absent" THEN At(h, "reserved", clock + InboxTtl)
       ELSE Ends(h)
    /\ UNCHANGED <<store, states, timers, effects, inbox, clock, hand, log, fired>>

Applying(h) ==
    /\ \/ call[h].stage = "loaded" /\ call[h].message = NoMessage
       \/ call[h].stage = "reserved"
    /\ ~ProcessLocked(call[h].key)

\* Mutant of current: the version is not compared.
CurrentAny(h) == TRUE

Current(h) == states[call[h].key] = call[h].basis

\* apply() refuses a timer id that was ever used, the memory store also an effect id,
\* and more than it has room for.
Refused(h) ==
    LET k == call[h].key
        d == call[h].decision
    IN
    \/ \E t \in d.schedule : <<k, t>> \in DOMAIN timers
    \/ /\ store = "memory"
       /\ \/ \E e \in effects : e.id \in d.effects
          \/ Cardinality({q \in Keys : states[q] # 0}) + Cardinality(DOMAIN timers)
             + Cardinality(effects) + (IF states[k] = 0 THEN 1 ELSE 0)
             + Cardinality(d.schedule) + Cardinality(d.effects) > Capacity

NewTimer(due_at) ==
    [due_at |-> due_at, terminal |-> FALSE, claim_id |-> 0, claimed_until |-> 0,
     fencing_token |-> 0]

\* The memory store leaves the claim of a cancelled timer in place.
CancelledTimer(row) ==
    [due_at |-> row.due_at, terminal |-> TRUE, fencing_token |-> row.fencing_token,
     claim_id |-> IF store = "memory" THEN row.claim_id ELSE 0,
     claimed_until |-> IF store = "memory" THEN row.claimed_until ELSE 0]

AppliedTimers(k, d) ==
    [x \in DOMAIN timers \cup {<<k, t>> : t \in d.schedule} |->
        IF x[1] = k /\ x[2] \in d.schedule THEN NewTimer(d.due_at)
        ELSE IF x[1] = k /\ x[2] \in d.cancel_timers /\ ~timers[x].terminal
             THEN CancelledTimer(timers[x]) ELSE timers[x]]

\* What a decision writes, at once.
Writes(h) ==
    LET k == call[h].key
        d == call[h].decision
        version == call[h].basis + 1
    IN
    /\ timers' = AppliedTimers(k, d)
    /\ effects' = effects \cup {[key |-> k, id |-> e, number |-> version] : e \in d.effects}
    /\ states' = [states EXCEPT ![k] = version]
    /\ log' = [log EXCEPT ![k] = Append(log[k], [basis |-> call[h].basis,
                                                 message |-> call[h].message,
                                                 decision |-> d])]

\* The memory store's apply().
ApplyAtOnce(h) ==
    /\ store = "memory"
    /\ Applying(h)
    /\ Current(h) /\ ~Refused(h)
    /\ Writes(h)
    /\ Ends(h)
    /\ UNCHANGED <<store, inbox, clock, hand, fired>>

\* The SQL store's: the process row is locked, then the timers it cancels.
Apply(h) ==
    /\ store = "sqlalchemy"
    /\ Applying(h)
    /\ Current(h) /\ ~Refused(h)
    /\ \A t \in call[h].decision.cancel_timers : ~Firing(<<call[h].key, t>>)
    /\ At(h, "applied", call[h].expires_at)
    /\ UNCHANGED <<store, states, timers, effects, inbox, clock, hand, log, fired>>

\* Mutant of stale: the reservation is not rolled back with the decision.
StaleKeepsReservation(h) ==
    /\ Applying(h)
    /\ ~Current(h)
    /\ inbox' = [m \in Messages |-> IF m = call[h].message THEN "reserved" ELSE inbox[m]]
    /\ Ends(h)
    /\ UNCHANGED <<store, states, timers, effects, clock, hand, log, fired>>

\* StaleProcessVersion: apply_message() rolls the reservation back with it.
Stale(h) ==
    /\ Applying(h)
    /\ ~Current(h)
    /\ Ends(h)
    /\ UNCHANGED <<store, states, timers, effects, inbox, clock, hand, log, fired>>

\* inbox.complete() wants the reservation unexpired by the database's clock.
Complete(h) ==
    /\ call[h].stage = "applied" /\ call[h].message # NoMessage
    /\ call[h].expires_at > clock
    /\ At(h, "completed", call[h].expires_at)
    /\ UNCHANGED <<store, states, timers, effects, inbox, clock, hand, log, fired>>

Commit(h) ==
    /\ Open(h)
    /\ call[h].stage = "applied" => call[h].message = NoMessage
    /\ Writes(h)
    /\ inbox' = [m \in Messages |-> IF m = call[h].message THEN "completed" ELSE inbox[m]]
    /\ Ends(h)
    /\ UNCHANGED <<store, clock, hand, fired>>

\* A refused decision, an expired reservation, a failed commit or a crash: the
\* transaction leaves nothing.  The input may come again.
Abort(h) ==
    /\ call[h].stage # "idle"
    /\ Ends(h)
    /\ UNCHANGED <<store, states, timers, effects, inbox, clock, hand, log, fired>>

----------------------------------------------------------------------------
\* Timers.

Eligible(x, now) ==
    /\ ~timers[x].terminal
    /\ timers[x].due_at <= now
    /\ timers[x].claimed_until <= now  \* None is 0
    /\ ~Firing(x) /\ ~Cancelling(x)    \* skip_locked

\* The first `limit` eligible timers by due_at; the SQL store may miss rows that other
\* claims have locked.
Chosen(chosen, now) ==
    LET eligible == {x \in DOMAIN timers : Eligible(x, now)} IN
    /\ chosen \subseteq eligible
    /\ Cardinality(chosen) <= Limit
    /\ store = "memory" =>
        /\ chosen # eligible => Cardinality(chosen) = Limit
        /\ \A x \in chosen, y \in eligible \ chosen : timers[x].due_at <= timers[y].due_at

ClaimedTimer(row, now) ==
    [due_at |-> row.due_at, terminal |-> row.terminal, fencing_token |-> row.fencing_token + 1,
     claim_id |-> row.fencing_token + 1, claimed_until |-> now + ClaimTtl]

ClaimOf(x, now) ==
    [timer |-> x, token |-> timers[x].fencing_token + 1, claimed_until |-> now + ClaimTtl]

\* claim_timers(), on an instant the caller sampled before.
ClaimTimers(f, now) ==
    /\ hand[f].claims = {}
    /\ \E chosen \in SUBSET DOMAIN timers :
        /\ Chosen(chosen, now)
        /\ timers' = [x \in DOMAIN timers |->
                IF x \in chosen THEN ClaimedTimer(timers[x], now) ELSE timers[x]]
        /\ hand' = [hand EXCEPT ![f] = Holding({ClaimOf(x, now) : x \in chosen})]
    /\ UNCHANGED <<store, states, effects, inbox, clock, call, log, fired>>

\* The SQL store wants the claim unexpired by the database's clock.
Unexpired(claim) ==
    /\ timers[claim.timer].claimed_until = claim.claimed_until
    /\ timers[claim.timer].claimed_until > clock

\* Mutant of valid: neither claim id nor token is compared.
ValidAny(claim) == claim.timer \in DOMAIN timers /\ ~timers[claim.timer].terminal

\* What complete_timer() compares.
Valid(claim) ==
    LET row == timers[claim.timer] IN
    /\ claim.timer \in DOMAIN timers
    /\ ~row.terminal
    /\ row.claim_id = claim.token
    /\ row.fencing_token = claim.token
    /\ store = "sqlalchemy" => Unexpired(claim)

CompletedTimer(row) ==
    [due_at |-> row.due_at, terminal |-> TRUE, fencing_token |-> row.fencing_token,
     claim_id |-> 0, claimed_until |-> 0]

EffectOf(claim) == [key |-> claim.timer[1], id |-> claim.timer[2], number |-> claim.token]

Fires(claim) ==
    /\ timers' = [timers EXCEPT ![claim.timer] = CompletedTimer(timers[claim.timer])]
    /\ fired' = fired \cup {claim}

\* The memory store's complete_timer() records no effect; its caller performs it.
CompleteAtOnce(f) ==
    /\ store = "memory"
    /\ \E claim \in hand[f].claims :
        /\ Valid(claim)
        /\ Fires(claim)
        /\ hand' = [hand EXCEPT ![f] = Holding(hand[f].claims \ {claim})]
    /\ UNCHANGED <<store, states, effects, inbox, clock, call, log>>

\* The SQL store's: the row is locked and compared, and save_effect() called.
FireBegins(f) ==
    /\ store = "sqlalchemy"
    /\ hand[f].firing = {}
    /\ \E claim \in hand[f].claims :
        /\ Valid(claim)
        /\ ~Firing(claim.timer) /\ ~Cancelling(claim.timer)
        /\ hand' = [hand EXCEPT ![f] =
                [claims |-> hand[f].claims, firing |-> {claim}, written |-> FALSE]]
    /\ UNCHANGED <<store, states, timers, effects, inbox, clock, call, log, fired>>

\* The second comparison; when the claim has expired since, the effect is rolled back.
FireWrites(f) ==
    /\ ~hand[f].written
    /\ \E claim \in hand[f].firing :
        hand' = [hand EXCEPT ![f] =
            IF claim.claimed_until > clock
            THEN [claims |-> hand[f].claims, firing |-> {claim}, written |-> TRUE]
            ELSE Holding(hand[f].claims \ {claim})]
    /\ UNCHANGED <<store, states, timers, effects, inbox, clock, call, log, fired>>

\* Mutant of fire commits: what was saved is committed though nothing was updated.
FireCommitsAnyway(f) ==
    /\ \E claim \in hand[f].firing :
        /\ IF hand[f].written THEN Fires(claim) ELSE UNCHANGED <<timers, fired>>
        /\ effects' = effects \cup {EffectOf(claim)}
        /\ hand' = [hand EXCEPT ![f] = Holding(hand[f].claims \ {claim})]
    /\ UNCHANGED <<store, states, inbox, clock, call, log>>

FireCommits(f) ==
    /\ hand[f].written
    /\ \E claim \in hand[f].firing :
        /\ Fires(claim)
        /\ effects' = effects \cup {EffectOf(claim)}
        /\ hand' = [hand EXCEPT ![f] = Holding(hand[f].claims \ {claim})]
    /\ UNCHANGED <<store, states, inbox, clock, call, log>>

\* A refused completion, a failed commit or a crash.  A claim that is given up expires.
GivesUp(f) ==
    /\ \E claim \in hand[f].claims :
        hand' = [hand EXCEPT ![f] = Holding(hand[f].claims \ {claim})]
    /\ UNCHANGED <<store, states, timers, effects, inbox, clock, call, log, fired>>

HandlerStep(h) ==
    \/ \E k \in Keys, message \in Messages \cup {NoMessage} : Handle(h, k, message)
    \/ Reserve(h) \/ ApplyAtOnce(h) \/ Apply(h) \/ Stale(h) \/ Complete(h) \/ Commit(h)
    \/ Abort(h)

FirerStep(f) ==
    \/ \E now \in 0..clock : ClaimTimers(f, now)
    \/ CompleteAtOnce(f) \/ FireBegins(f) \/ FireWrites(f) \/ FireCommits(f) \/ GivesUp(f)

Next ==
    \/ Tick
    \/ \E h \in Handlers : HandlerStep(h)
    \/ \E f \in Firers : FirerStep(f)

Spec == Init /\ [][Next]_vars

TypeOK ==
    /\ store \in {"memory", "sqlalchemy"}
    /\ states \in [Keys -> Nat]
    /\ DOMAIN timers \subseteq Keys \X TimerIds
    /\ \A x \in DOMAIN timers : timers[x] \in Timers
    /\ effects \subseteq Effects
    /\ inbox \in [Messages -> {"absent", "reserved", "completed"}]
    /\ clock \in Nat
    /\ call \in [Handlers -> Calls \cup {Idle}]
    /\ hand \in [Firers -> Hands]
    /\ log \in [Keys -> Seq(Entries)]
    /\ fired \subseteq Claims

----------------------------------------------------------------------------
\* Every decision was made from the state its predecessor left: concurrent handlers of
\* one process, and handlers whose commit comes late, overwrite nothing.
NoLostUpdate ==
    \A k \in Keys :
        /\ states[k] = Len(log[k])
        /\ \A i \in 1..Len(log[k]) : log[k][i].basis = i - 1

\* docs/event-platform.md: "Each handled input atomically updates state, records the
\* inbox entry".  The inbox has exactly the messages that were applied, each applied
\* once, and no reservation outlives its transaction, however handlers fail.
InputOnce ==
    /\ \A m \in Messages :
        inbox[m] = IF \E k \in Keys : \E i \in 1..Len(log[k]) : log[k][i].message = m
                   THEN "completed" ELSE "absent"
    /\ \A k, q \in Keys : \A i \in 1..Len(log[k]), j \in 1..Len(log[q]) :
        log[k][i].message = log[q][j].message /\ log[k][i].message # NoMessage =>
            k = q /\ i = j

CancelledBy(x) == {i \in 1..Len(log[x[1]]) : x[2] \in log[x[1]][i].decision.cancel_timers}
ScheduledBy(x) == {i \in 1..Len(log[x[1]]) : x[2] \in log[x[1]][i].decision.schedule}

\* A claim inside its ttl is the timer's, unless the timer has ended: no second caller
\* was given it, also one that claims on an old instant.
ClaimExclusive ==
    \A f \in Firers : \A claim \in hand[f].claims :
        /\ claim.timer \in DOMAIN timers
        /\ claim.claimed_until > clock =>
            timers[claim.timer].terminal \/ Valid(claim)

\* A timer exists because one decision scheduled it.  It ends because a claim completed
\* it or a later decision cancelled it; it completes at most once, with the last token
\* that was issued, and not after its cancellation.  Until then a claim that lasts is the
\* timer's only one.
TimerEndsOnce ==
    /\ ClaimExclusive
    /\ \A x \in Keys \X TimerIds :
        /\ x \in DOMAIN timers <=> ScheduledBy(x) # {}
        /\ \A i, j \in ScheduledBy(x) : i = j
    /\ \A x \in DOMAIN timers : timers[x].terminal <=>
        \/ \E claim \in fired : claim.timer = x
        \/ \E i \in ScheduledBy(x), j \in CancelledBy(x) : i < j
    /\ \A claim, other \in fired : claim.timer = other.timer => claim = other
    /\ \A claim \in fired :
        /\ claim.timer \in DOMAIN timers
        /\ claim.token = timers[claim.timer].fencing_token

\* docs/reliability-foundations.md: "Stale versions/fences cannot commit their staged
\* effects".  What is to be sent is what applied decisions and, in the SQL store,
\* completed timers ask for: nothing of an attempt that failed, nothing missing.
EffectsExact ==
    /\ \A k \in Keys : \A i \in 1..Len(log[k]) : \A e \in log[k][i].decision.effects :
        [key |-> k, id |-> e, number |-> i] \in effects
    /\ store = "sqlalchemy" => \A claim \in fired : EffectOf(claim) \in effects
    /\ \A e \in effects :
        \/ e.number \in 1..Len(log[e.key]) /\ e.id \in log[e.key][e.number].decision.effects
        \/ store = "sqlalchemy" /\ \E claim \in fired : e = EffectOf(claim)

\* Strengthening.
\* An open transaction decided on the version that is still the process's, on timer ids that
\* are still unused, and cancels no timer that is being completed; the message it reserved is
\* its alone, and still absent.  Calls of the memory store hold nothing.
CallsCoherent ==
    \A h \in Handlers : call[h].stage # "idle" =>
        /\ store = "memory" => call[h].stage = "loaded" /\ call[h].message = NoMessage
        /\ call[h].stage \in {"reserved", "completed"} => call[h].message # NoMessage
        /\ call[h].stage # "loaded" /\ call[h].message # NoMessage =>
            /\ inbox[call[h].message] = "absent"
            /\ \A g \in Handlers \ {h} : call[g].stage \notin {"idle", "loaded"} =>
                    call[g].message # call[h].message
        /\ Open(h) =>
            /\ Current(h)
            /\ \A t \in call[h].decision.schedule : <<call[h].key, t>> \notin DOMAIN timers
            /\ \A t \in call[h].decision.cancel_timers : ~Firing(<<call[h].key, t>>)
            /\ \A g \in Handlers \ {h} : Open(g) => call[g].key # call[h].key

\* A claim that lasts is its timer's, also by the instant it ends.
ClaimsCoherent ==
    \A f \in Firers : \A claim \in hand[f].claims :
        LET row == timers[claim.timer] IN
        /\ claim.timer \in DOMAIN timers
        /\ claim.claimed_until > clock /\ ~row.terminal =>
            /\ row.claim_id = claim.token /\ row.fencing_token = claim.token
            /\ row.claimed_until = claim.claimed_until

\* The row of a timer that is being completed stays as it was compared, with one firer.
FiringsCoherent ==
    \A f \in Firers : \A claim \in hand[f].firing :
        /\ store = "sqlalchemy" /\ claim \in hand[f].claims
        /\ ~timers[claim.timer].terminal
        /\ timers[claim.timer].fencing_token = claim.token
        /\ \A g \in Firers \ {f} : \A other \in hand[g].firing : other.timer # claim.timer

IInv ==
    /\ TypeOK /\ NoLostUpdate /\ InputOnce /\ TimerEndsOnce /\ EffectsExact
    /\ CallsCoherent /\ ClaimsCoherent /\ FiringsCoherent
=============================================================================
