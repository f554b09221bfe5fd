---------------------------- MODULE Idempotency ----------------------------
(***************************************************************************)
(* The idempotency coordinator and its in-memory reference store           *)
(* (pytitect/idempotency.py).                                              *)
(*                                                                         *)
(* IdempotencyCoordinator reads the clock BEFORE the store takes its lock, *)
(* so a call is two steps: the coordinator's method samples `now`, and the *)
(* store's method runs later, under the lock, with a `now` that may by     *)
(* then be older than the samples of calls that overtook it.  Threads      *)
(* share reservation tokens freely: a heartbeat thread renews a token that *)
(* a worker completes, and a worker that was presumed dead comes back.     *)
(***************************************************************************)
EXTENDS Integers, FiniteSets

CONSTANTS
    Threads,      \* callers of the coordinator
    Identities,   \* (IdempotencyScope, key) pairs
    Fingerprints, \* request fingerprints
    Values,       \* results an execution can produce
    NoValue,      \* _Entry.value = None
    Tokens,       \* the uuid4 reservation tokens the run may draw (a bound)
    Capacity,     \* InMemoryIdempotencyStore(capacity=...)
    LeaseTtl,     \* policy.execution_lease_ttl
    RetentionTtl, \* policy.result_retention_ttl
    UncertainTtl, \* policy.uncertainty_retention_ttl
    BatchSizes,   \* the batch_size values maintenance plans use
    MaxClock      \* bound on the instants the clock reaches

ASSUME PolicyAssumption ==
    /\ LeaseTtl \in Nat \ {0}
    /\ RetentionTtl \in Nat \ {0}
    /\ UncertainTtl \in Nat \ {0}
    /\ Capacity \in Nat \ {0}
    /\ BatchSizes \subseteq Nat \ {0}
    /\ MaxClock \in Nat
    /\ NoValue \notin Values

VARIABLES
    entries,   \* _entries: identity -> _Entry
    tokens,    \* _tokens: token -> identity
    clock,     \* the UTC clock all threads read
    call,      \* the call each thread has in flight, with its sampled `now`
    decision,  \* what begin() returned, until the thread's next call
    promise    \* history: what the store last told the holder of each token

vars == <<entries, tokens, clock, call, decision, promise>>

Entry == [token : Tokens, fingerprint : Fingerprints, expires_at : Nat,
          state : {"reserved", "completed", "uncertain"},
          value : Values \cup {NoValue}]

NoCall == [op |-> "none"]
ReserveCall == [op : {"reserve"}, identity : Identities,
                fingerprint : Fingerprints, now : Nat]
TokenCall == [op : {"renew", "complete", "mark_uncertain", "abandon"},
              token : Tokens, now : Nat]

NoDecision == [kind |-> "none"]
Refused == [kind : {"Conflict", "InProgress", "Uncertain", "Full"}]
Executed == [kind : {"Execute"}, token : Tokens]
Replayed == [kind : {"Replay"}, identity : Identities,
             fingerprint : Fingerprints, value : Values \cup {NoValue}]

\* What a token's holder was told: the reservation's identity and request, the
\* phase of the reservation and until when the store keeps it in that phase.
Promise == [identity : Identities, fingerprint : Fingerprints, until : Nat,
            phase : {"executing", "completed", "uncertain", "abandoned"},
            value : Values \cup {NoValue}]

Init ==
    /\ entries = [i \in {} |-> NoCall]
    /\ tokens = [t \in {} |-> NoCall]
    /\ clock = 0
    /\ call = [c \in Threads |-> NoCall]
    /\ decision = [c \in Threads |-> NoDecision]
    /\ promise = [t \in {} |-> NoCall]

Issued == DOMAIN promise

----------------------------------------------------------------------------
\* Dictionary updates.

Put(f, k, v) == [x \in DOMAIN f \cup {k} |-> IF x = k THEN v ELSE f[x]]

Drop(f, ks) == [x \in DOMAIN f \ ks |-> f[x]]

----------------------------------------------------------------------------
\* The coordinator: each method reads the clock and calls the store.

Tick ==
    /\ clock < MaxClock
    /\ clock' = clock + 1
    /\ UNCHANGED <<entries, tokens, call, decision, promise>>

Call(c, request) ==
    /\ call[c] = NoCall
    /\ call' = [call EXCEPT ![c] = request]
    /\ decision' = [decision EXCEPT ![c] = NoDecision]
    /\ UNCHANGED <<entries, tokens, clock, promise>>

Begin(c, i, f) ==
    Call(c, [op |-> "reserve", identity |-> i, fingerprint |-> f, now |-> clock])

CallRenew(c, t) ==
    /\ t \in Issued
    \* One heartbeat per reservation: renewals of a token do not overlap.
    /\ \A d \in Threads : call[d] # NoCall =>
            ~(call[d].op = "renew" /\ call[d].token = t)
    /\ Call(c, [op |-> "renew", token |-> t, now |-> clock])

CallComplete(c, t) ==
    t \in Issued /\ Call(c, [op |-> "complete", token |-> t, now |-> clock])

CallUncertain(c, t) ==
    t \in Issued /\ Call(c, [op |-> "mark_uncertain", token |-> t, now |-> clock])

CallAbandon(c, t) ==
    t \in Issued /\ Call(c, [op |-> "abandon", token |-> t, now |-> clock])

----------------------------------------------------------------------------
\* The store.  Every method runs under _lock, hence is one step.

\* Mutants of _purge: the expiry comparison is off by one; uncertain entries
\* are not spared.
ExpiredTooEarly(now) ==
    {i \in DOMAIN entries : /\ entries[i].expires_at <= now + 1
                            /\ entries[i].state # "uncertain"}

ExpiredUncertainToo(now) == {i \in DOMAIN entries : entries[i].expires_at <= now}

\* _purge(now): the identities whose entries it removes.
Expired(now) ==
    {i \in DOMAIN entries : /\ entries[i].expires_at <= now
                            /\ entries[i].state # "uncertain"}

TokensOf(ids) == {entries[i].token : i \in ids}

\* _executing(token, now): the reservation still executes under this token.
Executing(t, now) ==
    /\ t \in DOMAIN tokens
    /\ tokens[t] \in DOMAIN entries
    /\ LET e == entries[tokens[t]] IN
        /\ e.token = t
        /\ e.state = "reserved"
        /\ e.expires_at > now

Answer(c, reply) ==
    /\ call' = [call EXCEPT ![c] = NoCall]
    /\ decision' = [decision EXCEPT ![c] = reply]
    /\ UNCHANGED clock

\* Mutant of reserve: a completed entry replays whatever was requested.
ExistingUnchecked(e, i, f) ==
    IF e.state = "completed"
    THEN [kind |-> "Replay", identity |-> i, fingerprint |-> f, value |-> e.value]
    ELSE [kind |-> "InProgress"]

\* The branches of reserve() on an entry that survives _purge.
Existing(e, i, f) ==
    CASE e.fingerprint # f -> [kind |-> "Conflict"]
      [] e.fingerprint = f /\ e.state = "completed" ->
            [kind |-> "Replay", identity |-> i, fingerprint |-> f, value |-> e.value]
      [] e.fingerprint = f /\ e.state = "uncertain" -> [kind |-> "Uncertain"]
      [] OTHER -> [kind |-> "InProgress"]

Reserve(c) ==
    /\ call[c] # NoCall
    /\ call[c].op = "reserve"
    /\ LET i == call[c].identity
           f == call[c].fingerprint
           now == call[c].now
           kept == Drop(entries, Expired(now))
           index == Drop(tokens, TokensOf(Expired(now)))
       IN
       \/ /\ i \in DOMAIN kept
          /\ entries' = kept
          /\ tokens' = index
          /\ Answer(c, Existing(kept[i], i, f))
          /\ UNCHANGED promise
       \/ /\ i \notin DOMAIN kept
          /\ Cardinality(DOMAIN kept) >= Capacity
          /\ entries' = kept
          /\ tokens' = index
          /\ Answer(c, [kind |-> "Full"])
          /\ UNCHANGED promise
       \/ /\ i \notin DOMAIN kept
          /\ Cardinality(DOMAIN kept) < Capacity
          /\ \E t \in Tokens \ Issued :
                /\ entries' = Put(kept, i,
                        [token |-> t, fingerprint |-> f, expires_at |-> now + LeaseTtl,
                         state |-> "reserved", value |-> NoValue])
                /\ tokens' = Put(index, t, i)
                /\ Answer(c, [kind |-> "Execute", token |-> t])
                /\ promise' = Put(promise, t,
                        [identity |-> i, fingerprint |-> f, until |-> now + LeaseTtl,
                         phase |-> "executing", value |-> NoValue])

TokenStep(c, op) ==
    /\ call[c] # NoCall
    /\ call[c].op = op
    /\ call' = [call EXCEPT ![c] = NoCall]
    /\ UNCHANGED <<clock, decision>>

\* StaleReservation: nothing changes and the caller learns nothing new.
Stale == UNCHANGED <<entries, tokens, promise>>

Renew(c) ==
    /\ TokenStep(c, "renew")
    /\ LET t == call[c].token
           now == call[c].now
       IN
       \/ ~Executing(t, now) /\ Stale
       \/ /\ Executing(t, now)
          /\ entries' = [entries EXCEPT ![tokens[t]] = [@ EXCEPT !.expires_at = now + LeaseTtl]]
          /\ promise' = [promise EXCEPT ![t] = [@ EXCEPT !.until = now + LeaseTtl]]
          /\ UNCHANGED tokens

Complete(c, v) ==
    /\ TokenStep(c, "complete")
    /\ LET t == call[c].token
           now == call[c].now
       IN
       \/ ~Executing(t, now) /\ Stale
       \/ /\ Executing(t, now)
          /\ entries' = [entries EXCEPT ![tokens[t]] =
                [@ EXCEPT !.state = "completed", !.value = v, !.expires_at = now + RetentionTtl]]
          /\ promise' = [promise EXCEPT ![t] =
                [@ EXCEPT !.phase = "completed", !.value = v, !.until = now + RetentionTtl]]
          /\ UNCHANGED tokens

MarkUncertain(c) ==
    /\ TokenStep(c, "mark_uncertain")
    /\ LET t == call[c].token
           now == call[c].now
       IN
       \/ ~Executing(t, now) /\ Stale
       \/ /\ Executing(t, now)
          /\ entries' = [entries EXCEPT ![tokens[t]] =
                [@ EXCEPT !.state = "uncertain", !.expires_at = now + UncertainTtl]]
          /\ promise' = [promise EXCEPT ![t] =
                [@ EXCEPT !.phase = "uncertain", !.until = now + UncertainTtl]]
          /\ UNCHANGED tokens

\* Mutant of abandon: the entry goes, its token stays in the index.
AbandonKeepsToken(c) ==
    /\ TokenStep(c, "abandon")
    /\ LET t == call[c].token IN
       \/ ~Executing(t, call[c].now) /\ Stale
       \/ /\ Executing(t, call[c].now)
          /\ entries' = Drop(entries, {tokens[t]})
          /\ promise' = [promise EXCEPT ![t] = [@ EXCEPT !.phase = "abandoned"]]
          /\ UNCHANGED tokens

Abandon(c) ==
    /\ TokenStep(c, "abandon")
    /\ LET t == call[c].token
           now == call[c].now
       IN
       \/ ~Executing(t, now) /\ Stale
       \/ /\ Executing(t, now)
          /\ entries' = Drop(entries, {tokens[t]})
          /\ tokens' = Drop(tokens, {t})
          /\ promise' = [promise EXCEPT ![t] = [@ EXCEPT !.phase = "abandoned"]]

\* Mutant of purge: a completed entry counts from its completion, not from the
\* end of its retention.
PurgeableCompleted(cutoff, include_uncertain) ==
    {i \in DOMAIN entries :
        \/ /\ entries[i].expires_at <= cutoff
           /\ entries[i].state # "uncertain" \/ include_uncertain
        \/ entries[i].state = "completed" /\ entries[i].expires_at - RetentionTtl <= cutoff}

\* purge(plan): the oldest batch_size entries that expired by the cutoff.  Ties
\* are broken by the identity's text in the code, by any choice here.  Plans
\* look back: a cutoff lies in the past.
Purgeable(cutoff, include_uncertain) ==
    {i \in DOMAIN entries :
        /\ entries[i].expires_at <= cutoff
        /\ entries[i].state # "uncertain" \/ include_uncertain}

OldestFirst(selected, eligible, batch_size) ==
    /\ Cardinality(selected) <= batch_size
    /\ selected # eligible => Cardinality(selected) = batch_size
    /\ \A i \in selected, j \in eligible \ selected :
            entries[i].expires_at <= entries[j].expires_at

Purge(cutoff, batch_size, include_uncertain) ==
    LET eligible == Purgeable(cutoff, include_uncertain) IN
    /\ cutoff <= clock
    /\ \E selected \in SUBSET eligible :
        /\ OldestFirst(selected, eligible, batch_size)
        /\ entries' = Drop(entries, selected)
        /\ tokens' = Drop(tokens, TokensOf(selected))
    /\ UNCHANGED <<clock, call, decision, promise>>

----------------------------------------------------------------------------
\* AsyncIdempotencyCoordinator is the same two steps, and InMemoryAsyncIdempotencyStore
\* hands each operation to the store above without a suspension in between.
CoordinatorStep(c) ==
    \/ \E i \in Identities, f \in Fingerprints : Begin(c, i, f)
    \/ \E t \in Tokens : CallRenew(c, t)
    \/ \E t \in Tokens : CallComplete(c, t)
    \/ \E t \in Tokens : CallUncertain(c, t)
    \/ \E t \in Tokens : CallAbandon(c, t)

StoreStep(c) ==
    \/ Reserve(c)
    \/ Renew(c)
    \/ \E v \in Values : Complete(c, v)
    \/ MarkUncertain(c)
    \/ Abandon(c)

Maintenance ==
    \E cutoff \in 0..MaxClock, n \in BatchSizes, u \in BOOLEAN : Purge(cutoff, n, u)

Next ==
    \/ Tick
    \/ \E c \in Threads : CoordinatorStep(c) \/ StoreStep(c)
    \/ Maintenance

Spec == Init /\ [][Next]_vars

----------------------------------------------------------------------------
\* The dictionaries hold what idempotency.py declares, and a sampled `now` is
\* never ahead of the clock.
TypeOK ==
    /\ clock \in Nat
    /\ DOMAIN entries \subseteq Identities
    /\ \A i \in DOMAIN entries : entries[i] \in Entry
    /\ DOMAIN tokens \subseteq Tokens
    /\ \A t \in DOMAIN tokens : tokens[t] \in Identities
    /\ DOMAIN promise \subseteq Tokens
    /\ \A t \in DOMAIN promise : promise[t] \in Promise
    /\ call \in [Threads -> {NoCall} \cup ReserveCall \cup TokenCall]
    /\ \A c \in Threads : call[c] # NoCall => call[c].now <= clock
    /\ decision \in [Threads -> {NoDecision} \cup Refused \cup Executed \cup Replayed]

\* _tokens is exactly the inverse of the entries' tokens: no removal of an
\* entry (lease expiry in reserve, abandon, purge) leaks a token, and no token
\* of a live entry is lost, which would leave its holder stale for ever.
TokenIndexExact ==
    /\ \A i \in DOMAIN entries :
            entries[i].token \in DOMAIN tokens /\ tokens[entries[i].token] = i
    /\ \A t \in DOMAIN tokens :
            tokens[t] \in DOMAIN entries /\ entries[tokens[t]].token = t

\* Until the lease it was told of runs out, the holder of a token is the
\* store's authority for the identity: no other caller, late call with a stale
\* `now`, or maintenance plan takes the reservation away.  So no two holders
\* are ever both inside their leases (docs/idempotency.md: "concurrent work
\* returns InProgress").
AuthorityHonoured ==
    \A t \in Issued :
        promise[t].phase = "executing" /\ clock < promise[t].until =>
            /\ promise[t].identity \in DOMAIN entries
            /\ LET e == entries[promise[t].identity] IN
                e.token = t /\ e.state = "reserved"

\* Once complete() has returned ReservationCompleted(retained_until), the
\* identity stays completed with that value until that instant, whatever late
\* completions, renewals or abandons of any token arrive.
RetentionHonoured ==
    \A t \in Issued :
        promise[t].phase = "completed" /\ clock < promise[t].until =>
            /\ promise[t].identity \in DOMAIN entries
            /\ LET e == entries[promise[t].identity] IN
                /\ e.token = t
                /\ e.state = "completed"
                /\ e.value = promise[t].value

\* A Replay answers with the value that an execution of the same identity AND
\* the same request fingerprint published.
ReplayFaithful ==
    \A c \in Threads : decision[c].kind = "Replay" =>
        \E t \in Issued :
            /\ promise[t].phase = "completed"
            /\ promise[t].identity = decision[c].identity
            /\ promise[t].fingerprint = decision[c].fingerprint
            /\ promise[t].value = decision[c].value

\* "Uncertain reservations remain authoritative even after their configured
\* retention instant until a maintenance plan sets include_uncertain=True;
\* routine cleanup never silently reopens an uncertain identity"
\* (docs/idempotency.md:20-22).
UncertainHeld ==
    [][\A i \in DOMAIN entries : entries[i].state = "uncertain" =>
            \/ i \in DOMAIN entries' /\ entries'[i] = entries[i]
            \/ \E cutoff \in 0..MaxClock, n \in BatchSizes : Purge(cutoff, n, TRUE)]_vars

\* What makes the above inductive: a live entry carries what its token's holder
\* was told, so a promise can only be broken by removing or replacing the entry.
EntryPromised ==
    \A i \in DOMAIN entries :
        LET t == entries[i].token IN
        /\ t \in Issued
        /\ promise[t].identity = i
        /\ promise[t].fingerprint = entries[i].fingerprint
        /\ promise[t].until = entries[i].expires_at
        /\ promise[t].value = entries[i].value
        /\ promise[t].phase = IF entries[i].state = "reserved"
                              THEN "executing" ELSE entries[i].state

IInv == TypeOK /\ TokenIndexExact /\ EntryPromised /\ AuthorityHonoured
            /\ RetentionHonoured /\ ReplayFaithful
=============================================================================
