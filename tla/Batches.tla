------------------------------- MODULE Batches -------------------------------
(***************************************************************************)
(* Resumable mutation batches: MutationBatchCoordinator                    *)
(* (pytitect/sync/batches.py) over DjangoMutationBatchStore and            *)
(* DjangoIdempotencyStore (pytitect/django/stores.py) in one database.     *)
(*                                                                         *)
(* One batch identity is modelled; nothing relates two identities.  Every  *)
(* transaction locks the batch's row (select_for_update) in its first      *)
(* statement and keeps it to its end, so at most one is open.  Its `now`   *)
(* was sampled before the lock was free.  What an open transaction wrote   *)
(* is in its worker's record and reaches the tables when it commits.  No   *)
(* item row is ever committed as reserved or uncertain.                    *)
(***************************************************************************)
EXTENDS Integers, FiniteSets, Sequences

CONSTANTS
    Workers,       \* callers of execute()
    Payloads,      \* the items' payloads a request may carry
    N,             \* items of the batch (total_items)
    LeaseTtl,      \* policy.execution_lease_ttl
    RetentionTtl,  \* policy.result_retention_ttl
    MaxClock,      \* bound on the instants the clock reaches
    MaxTokens      \* bound on the leases that are issued

ASSUME BatchAssumption ==
    /\ N \in Nat \ {0}  \* an empty batch has nothing to apply
    /\ {LeaseTtl, RetentionTtl} \subseteq Nat \ {0}
    /\ {MaxClock, MaxTokens} \subseteq Nat

VARIABLES
    batch,    \* the batch's row, or NoRow
    items,    \* item -> its completed idempotency row
    clock,
    tokens,   \* how many leases were issued
    work,     \* what each worker is at, with its open transaction
    answer,   \* what execute() last returned to each worker
    effects   \* history: committed mutations of each item in each run of the batch

vars == <<batch, items, clock, tokens, work, answer, effects>>

Requests == [policy : {"all_or_nothing", "per_item"}, payload : Payloads]

Items == 1..N

\* A run of the batch, from the creation of its row to the row's deletion, is
\* named by its first token.
Runs == 1..MaxTokens

NoRow == [state |-> "absent"]
Idle == [stage |-> "idle", tx |-> FALSE]
NoAnswer == [kind |-> "none"]

Init ==
    /\ batch = NoRow
    /\ items = [i \in {} |-> NoRow]
    /\ clock = 0
    /\ tokens = 0
    /\ work = [w \in Workers |-> Idle]
    /\ answer = [w \in Workers |-> NoAnswer]
    /\ effects = [r \in Runs |-> [i \in Items |-> 0]]

Tick ==
    /\ clock < MaxClock
    /\ clock' = clock + 1
    /\ UNCHANGED <<batch, items, tokens, work, answer, effects>>

Unlocked == \A w \in Workers : ~work[w].tx

At(w, stage) == work[w].stage = stage

Move(w, activity) == work' = [work EXCEPT ![w] = activity]

\* execute() returns; an open transaction is rolled back.
Answer(w, reply) ==
    /\ work' = [work EXCEPT ![w] = Idle]
    /\ answer' = [answer EXCEPT ![w] = reply]

RolledBack(w) ==
    /\ Answer(w, [kind |-> "uncertain"])
    /\ UNCHANGED <<batch, items, effects>>

----------------------------------------------------------------------------
\* The batch store.

\* Mutant of begin: a batch in progress is resumed whatever its lease says.
DecisionImpatient(row, request, now) ==
    CASE row = NoRow -> "create"
      [] row # NoRow /\ row.request # request -> "conflict"
      [] OTHER -> IF row.state = "completed" THEN "replay" ELSE "resume"

\* begin(), on the row that survives the end of its retention.
Decision(row, request, now) ==
    CASE row = NoRow -> "create"
      [] row # NoRow /\ row.request # request -> "conflict"
      [] OTHER -> CASE row.state = "completed" -> "replay"
                    [] row.state = "uncertain" -> "uncertain"
                    [] row.state \notin {"completed", "uncertain"} ->
                        IF row.lease_expires_at > now THEN "in_progress" ELSE "resume"

Retained(row, now) ==
    IF row.state = "completed" THEN
        IF row.retention_expires_at <= now THEN NoRow ELSE row
    ELSE row

Created(request, now) ==
    [run |-> tokens + 1, request |-> request, token |-> tokens + 1,
     state |-> "processing", receipts |-> << >>, lease_expires_at |-> now + LeaseTtl,
     retention_expires_at |-> 0]

\* Mutant of active: the token and the progress of the lease are not compared.
ActiveAnyToken(lease, now) ==
    /\ batch.state \in {"processing", "partially_committed"}
    /\ batch.lease_expires_at > now

\* active(): the lease is the row's, unexpired and up to date.
Active(lease, now) ==
    /\ batch.state \in {"processing", "partially_committed"}
    /\ batch.token = lease.token
    /\ batch.lease_expires_at > now
    /\ batch.lease_expires_at = lease.lease_expires_at
    /\ batch.receipts = lease.receipts

\* The row a transaction holds is its own: only time can end its lease.
InTime(w) == work[w].lease.lease_expires_at > clock

RenewedAt(lease, now) == [lease EXCEPT !.lease_expires_at = now + LeaseTtl]

Progress(lease) == Len(lease.receipts)

----------------------------------------------------------------------------
\* execute(): the clock is read, then begin() waits for the row.
Execute(w, request) ==
    /\ At(w, "idle")
    /\ Move(w, [stage |-> "beginning", tx |-> FALSE, request |-> request, now |-> clock])
    /\ answer' = [answer EXCEPT ![w] = NoAnswer]
    /\ UNCHANGED <<batch, items, clock, tokens, effects>>

\* A lease is issued: committed at once for PER_ITEM, inside the one transaction
\* of ALL_OR_NOTHING otherwise.  That one is only ever committed complete, so it is
\* never resumed and has no prefix to prove.
Leased(w, request, lease, resumed) ==
    LET tx == request.policy = "all_or_nothing" IN
    Move(w, [stage |-> IF tx THEN "reserving" ELSE "leased", tx |-> tx,
             request |-> request, lease |-> lease, now |-> 0,
             unproven |-> IF resumed THEN Progress(lease) ELSE 0,
             reserved |-> [i \in {} |-> 0], writes |-> [i \in {} |-> NoRow]])

Begin(w) ==
    /\ At(w, "beginning")
    /\ Unlocked
    /\ LET request == work[w].request
           now == work[w].now
           row == Retained(batch, now)
           kind == Decision(row, request, now)
           lease == IF kind = "create" THEN Created(request, now)
                    ELSE [RenewedAt(row, now) EXCEPT !.token = tokens + 1]
       IN
       \/ /\ kind \notin {"create", "resume", "replay"}
          /\ Answer(w, [kind |-> kind])
          /\ UNCHANGED <<batch, tokens>>
       \/ /\ kind = "replay"
          /\ Answer(w, [kind |-> "replay", receipts |-> row.receipts])
          /\ UNCHANGED <<batch, tokens>>
       \/ /\ kind \in {"create", "resume"}
          /\ tokens < MaxTokens
          /\ tokens' = tokens + 1
          /\ Leased(w, request, lease, kind = "resume")
          /\ batch' = IF request.policy = "per_item" THEN lease ELSE batch
          /\ UNCHANGED answer
    /\ UNCHANGED <<items, clock, effects>>

\* PER_ITEM: the next transaction starts with a renewal (_renew_batch, _finish),
\* which samples the clock and waits for the row.
Sample(w) ==
    /\ At(w, "leased")
    /\ Move(w, [work[w] EXCEPT !.stage = "opening", !.now = clock])
    /\ UNCHANGED <<batch, items, clock, tokens, answer, effects>>

\* It proves the prefix, applies an item or finishes the batch.
Purpose(activity) ==
    IF activity.unproven > 0 THEN "proving"
    ELSE IF Progress(activity.lease) < N THEN "reserving" ELSE "finishing"

Open(w) ==
    /\ At(w, "opening")
    /\ Unlocked
    /\ LET purpose == Purpose(work[w]) IN
       \/ /\ Active(work[w].lease, work[w].now)
          /\ Move(w, [work[w] EXCEPT !.stage = purpose, !.tx = TRUE,
                                     !.lease = RenewedAt(@, work[w].now)])
          /\ UNCHANGED <<batch, items, answer, effects>>
       \/ /\ ~Active(work[w].lease, work[w].now)
          /\ purpose # "finishing"
          /\ RolledBack(w)
       \/ /\ ~Active(work[w].lease, work[w].now)
          /\ purpose = "finishing"
          /\ Answer(w, [kind |-> "envelope_unconfirmed"])
          /\ UNCHANGED <<batch, items, effects>>
    /\ UNCHANGED <<clock, tokens>>

----------------------------------------------------------------------------
\* _prove_prefix: the items of a resumed batch, in order.  An item whose receipt
\* is gone marks the batch uncertain, and the exception that reports it rolls the
\* mark back.
NextUnproven(w) == Progress(work[w].lease) - work[w].unproven + 1

Stored(i) == i \in DOMAIN items /\ items[i].expires_at > clock

Provable(w) ==
    LET i == NextUnproven(w) IN
    /\ Stored(i)
    /\ items[i].payload = work[w].request.payload
    /\ items[i].value = work[w].lease.receipts[i]

Prove(w) ==
    /\ At(w, "proving")
    /\ LET last == work[w].unproven = 1
           proven == [work[w] EXCEPT !.unproven = @ - 1]
       IN
       \/ /\ Provable(w) /\ last
          /\ Move(w, [proven EXCEPT !.stage = "committing"])
          /\ UNCHANGED <<batch, items, answer, effects>>
       \/ /\ Provable(w) /\ ~last /\ InTime(w)
          /\ Move(w, [proven EXCEPT !.lease = RenewedAt(@, clock)])
          /\ UNCHANGED <<batch, items, answer, effects>>
       \/ /\ Provable(w) => ~last /\ ~InTime(w)
          /\ RolledBack(w)
    /\ UNCHANGED <<clock, tokens>>

----------------------------------------------------------------------------
\* _reserve_item: Execute holds the new row until `until`; a row that is still
\* retained is replayed, or conflicts.
Reservation(i, request) ==
    IF ~Stored(i) THEN [kind |-> "execute", until |-> clock + LeaseTtl]
    ELSE IF items[i].payload # request.payload THEN [kind |-> "conflict"]
    ELSE [kind |-> "replay", value |-> items[i].value]

AllOrNothing(w) == work[w].request.policy = "all_or_nothing"

\* PER_ITEM reserves the item it applies next; ALL_OR_NOTHING renews the batch and
\* reserves, for every item, before it applies the first.
Reserve(w) ==
    /\ At(w, "reserving")
    /\ LET i == Progress(work[w].lease) + Cardinality(DOMAIN work[w].reserved) + 1
           item == Reservation(i, work[w].request)
           all == AllOrNothing(w)
           lease == IF all THEN RenewedAt(work[w].lease, clock) ELSE work[w].lease
           reserved == [j \in DOMAIN work[w].reserved \cup {i} |->
                            IF j = i THEN item ELSE work[w].reserved[j]]
       IN
       \/ /\ all => InTime(w)
          /\ item.kind # "conflict"
          /\ Move(w, [work[w] EXCEPT !.stage = IF all /\ i < N THEN "reserving"
                                               ELSE "applying",
                                     !.lease = lease, !.reserved = reserved])
          /\ UNCHANGED <<batch, items, answer, effects>>
       \/ /\ (all /\ ~InTime(w)) \/ item.kind = "conflict"
          /\ Answer(w, [kind |-> IF all /\ ~InTime(w) THEN "uncertain" ELSE "conflict"])
          /\ UNCHANGED <<batch, items, effects>>
    /\ UNCHANGED <<clock, tokens>>

\* _apply_reserved_item, up to the mutation: the batch and the item are renewed.
Apply(w) ==
    /\ At(w, "applying")
    /\ LET i == Progress(work[w].lease) + 1
           item == work[w].reserved[i]
           mine == item.kind = "execute" => item.until > clock
       IN
       \/ /\ InTime(w) /\ mine
          /\ Move(w, [work[w] EXCEPT !.stage = "recording",
                        !.lease = RenewedAt(@, clock),
                        !.reserved[i] = IF item.kind = "execute"
                                        THEN [@ EXCEPT !.until = clock + LeaseTtl] ELSE @])
          /\ UNCHANGED <<batch, items, answer, effects>>
       \/ /\ ~(InTime(w) /\ mine)
          /\ RolledBack(w)
    /\ UNCHANGED <<clock, tokens>>

\* ... and from it: the item is completed and the batch advanced.
Record(w) ==
    /\ At(w, "recording")
    /\ LET i == Progress(work[w].lease) + 1
           item == work[w].reserved[i]
           mine == item.kind = "execute" => item.until > clock
           receipt == IF item.kind = "execute"
                      THEN [item |-> i, run |-> work[w].lease.run] ELSE item.value
           row == [value |-> receipt, payload |-> work[w].request.payload,
                   expires_at |-> clock + RetentionTtl]
           lease == [RenewedAt(work[w].lease, clock) EXCEPT
                        !.receipts = Append(@, receipt), !.state = "partially_committed"]
       IN
       \/ /\ InTime(w) /\ mine
          /\ Move(w, [work[w] EXCEPT
                !.stage = IF ~AllOrNothing(w) THEN "committing"
                          ELSE IF i < N THEN "applying" ELSE "closing",
                !.lease = lease,
                !.writes = IF item.kind = "execute"
                           THEN [j \in DOMAIN @ \cup {i} |-> IF j = i THEN row ELSE @[j]]
                           ELSE @])
          /\ UNCHANGED <<batch, items, answer, effects>>
       \/ /\ ~(InTime(w) /\ mine)
          /\ RolledBack(w)
    /\ UNCHANGED <<clock, tokens>>

\* _finish: PER_ITEM renewed when it opened the transaction, ALL_OR_NOTHING does
\* so now ("closing").
Close(w) ==
    /\ At(w, "closing")
    /\ \/ /\ InTime(w)
          /\ Move(w, [work[w] EXCEPT !.stage = "finishing", !.lease = RenewedAt(@, clock)])
          /\ UNCHANGED <<batch, items, answer, effects>>
       \/ /\ ~InTime(w)
          /\ RolledBack(w)
    /\ UNCHANGED <<clock, tokens>>

Finish(w) ==
    /\ At(w, "finishing")
    /\ \/ /\ InTime(w)
          /\ Move(w, [work[w] EXCEPT !.stage = "committing",
                !.lease = [@ EXCEPT !.state = "completed",
                                    !.retention_expires_at = clock + RetentionTtl]])
          /\ UNCHANGED <<batch, items, answer, effects>>
       \/ /\ ~InTime(w) /\ AllOrNothing(w)
          /\ RolledBack(w)
       \/ /\ ~InTime(w) /\ ~AllOrNothing(w)
          /\ batch' = work[w].lease  \* the renewal is committed
          /\ Answer(w, [kind |-> "envelope_unconfirmed"])
          /\ UNCHANGED <<items, effects>>
    /\ UNCHANGED <<clock, tokens>>

----------------------------------------------------------------------------
\* What the database does when the transaction commits.
Committed(w) ==
    LET writes == work[w].writes IN
    /\ batch' = work[w].lease
    /\ items' = [i \in DOMAIN items \cup DOMAIN writes |->
                    IF i \in DOMAIN writes THEN writes[i] ELSE items[i]]
    /\ effects' = [effects EXCEPT ![work[w].lease.run] =
                    [i \in Items |-> IF i \in DOMAIN writes THEN @[i] + 1 ELSE @[i]]]

Commit(w) ==
    /\ At(w, "committing")
    /\ Committed(w)
    /\ IF work[w].lease.state = "completed"
       THEN Answer(w, [kind |-> "committed", receipts |-> work[w].lease.receipts])
       ELSE /\ Move(w, [work[w] EXCEPT !.stage = "leased", !.tx = FALSE,
                            !.reserved = [i \in {} |-> 0], !.writes = [i \in {} |-> NoRow]])
            /\ UNCHANGED answer
    /\ UNCHANGED <<clock, tokens>>

\* Mutant of _all_or_nothing: a commit that raises is answered as committed.
CommitSwallowed(w) ==
    /\ At(w, "committing")
    /\ Committed(w) \/ UNCHANGED <<batch, items, effects>>
    /\ Answer(w, [kind |-> "committed", receipts |-> work[w].lease.receipts])
    /\ UNCHANGED <<clock, tokens>>

\* The commit's result is lost: the caller gets an exception and no answer.
CommitLost(w) ==
    /\ At(w, "committing")
    /\ Committed(w) \/ UNCHANGED <<batch, items, effects>>
    /\ Answer(w, NoAnswer)
    /\ UNCHANGED <<clock, tokens>>

\* The mutation raises or the process dies; an open transaction is rolled back.
Crash(w) ==
    /\ ~At(w, "idle")
    /\ Answer(w, NoAnswer)
    /\ UNCHANGED <<batch, items, clock, tokens, effects>>

----------------------------------------------------------------------------
\* DjangoRetentionMaintenance, which skips locked rows.
PurgeBatch ==
    /\ Unlocked
    /\ batch.state = "completed"
    /\ batch.retention_expires_at <= clock
    /\ batch' = NoRow
    /\ UNCHANGED <<items, clock, tokens, work, answer, effects>>

Touched(i) ==
    \E w \in {v \in Workers : work[v].tx} :
        \/ At(w, "proving") /\ i < NextUnproven(w)
        \/ i \in DOMAIN work[w].reserved

PurgeItem(i) ==
    /\ i \in DOMAIN items
    /\ items[i].expires_at <= clock
    /\ ~Touched(i)
    /\ items' = [j \in DOMAIN items \ {i} |-> items[j]]
    /\ UNCHANGED <<batch, clock, tokens, work, answer, effects>>

Step(w) ==
    \/ \E request \in Requests : Execute(w, request)
    \/ Begin(w)
    \/ Sample(w)
    \/ Open(w)
    \/ Prove(w)
    \/ Reserve(w)
    \/ Apply(w)
    \/ Record(w)
    \/ Close(w)
    \/ Finish(w)
    \/ Commit(w)
    \/ CommitLost(w)
    \/ Crash(w)

Next ==
    \/ Tick
    \/ PurgeBatch
    \/ \E i \in Items : PurgeItem(i)
    \/ \E w \in Workers : Step(w)

Spec == Init /\ [][Next]_vars

----------------------------------------------------------------------------
\* No mutation is repeated or lost within a run of the batch, whatever workers
\* resume it, crash in it or learn nothing of their commit: the stored prefix of
\* receipts is exactly what took effect, once each.  An all-or-nothing batch is
\* never seen half done.
ProgressExact ==
    /\ \A r \in Runs, i \in Items : effects[r][i] <= 1
    /\ batch # NoRow =>
        /\ \A i \in Items :
            effects[batch.run][i] = IF i <= Progress(batch) THEN 1 ELSE 0
        /\ \A i \in 1..Progress(batch) : batch.receipts[i] = [item |-> i, run |-> batch.run]
        /\ batch.request.policy = "all_or_nothing" => Progress(batch) = N

\* Whoever is told BatchCommitted or BatchReplay holds the receipts of every item,
\* in order, of mutations that took effect in one run.
AnswersTrue ==
    \A w \in Workers : answer[w].kind \in {"committed", "replay"} =>
        /\ Len(answer[w].receipts) = N
        /\ \E r \in Runs : \A i \in Items :
            answer[w].receipts[i] = [item |-> i, run |-> r] /\ effects[r][i] = 1

\* A lease that has not expired is the row's: no second worker resumes a batch
\* whose worker is inside its lease ("one worker may resume the stored prefix",
\* docs/sync.md).
LeaseExclusive ==
    \A w \in Workers : work[w].stage \in {"leased", "opening"} =>
        (work[w].lease.lease_expires_at > clock => Active(work[w].lease, clock))

\* docs/sync.md:46: "If proof is no longer possible, the batch becomes uncertain
\* instead of reusing its identity": a step that finds an item of the prefix
\* unprovable leaves the batch uncertain.
UnprovenUncertain ==
    [][\A w \in Workers : Prove(w) /\ ~Provable(w) => batch'.state = "uncertain"]_vars
----------------------------------------------------------------------------
\* Strengthening.

Rows == [run : Runs, request : Requests, token : Nat,
         state : {"processing", "partially_committed", "completed"},
         receipts : Seq([item : Items, run : Runs]), lease_expires_at : Nat,
         retention_expires_at : Nat]

Beginning(a) ==
    a \in [stage : {"beginning"}, tx : {FALSE}, request : Requests, now : 0..clock]

Leasing(a) ==
    /\ DOMAIN a = {"stage", "tx", "request", "lease", "now", "unproven", "reserved", "writes"}
    /\ a.stage \in {"leased", "opening", "proving", "reserving", "applying", "recording",
                    "closing", "finishing", "committing"}
    /\ a.tx = (a.stage \notin {"leased", "opening"})
    /\ a.now \in Nat
    /\ a.lease \in Rows /\ a.lease.request = a.request
    /\ a.lease.token <= tokens /\ a.lease.run <= tokens
    /\ \A i \in DOMAIN a.writes : a.writes[i].expires_at \in Nat

TypeOK ==
    /\ batch \in Rows \cup {NoRow}
    /\ DOMAIN items \subseteq Items
    /\ \A i \in DOMAIN items : items[i].expires_at \in Nat
    /\ clock \in Nat /\ tokens \in 0..MaxTokens
    /\ effects \in [Runs -> [Items -> Nat]]
    /\ DOMAIN work = Workers /\ DOMAIN answer = Workers
    /\ \A w \in Workers : work[w] = Idle \/ Beginning(work[w]) \/ Leasing(work[w])

HasLease(a) == a.stage \notin {"idle", "beginning"}

Atomic(a) == a.request.policy = "all_or_nothing"

\* What an open transaction has written, with what is committed, is its lease's progress;
\* a lease it has completed outlives its items.
Wrote(a) ==
    LET done == Progress(a.lease) IN
    /\ done <= N
    /\ \A i \in 1..done : a.lease.receipts[i] = [item |-> i, run |-> a.lease.run]
    /\ DOMAIN a.writes \subseteq 1..done
    /\ \A i \in Items : effects[a.lease.run][i] =
            IF i <= done /\ i \notin DOMAIN a.writes THEN 1 ELSE 0
    /\ \A i \in DOMAIN a.writes : a.writes[i].expires_at <= clock + RetentionTtl
    /\ a.lease.state = "completed" =>
        /\ a.stage = "committing" /\ done = N
        /\ \A i \in DOMAIN a.writes : a.writes[i].expires_at <= a.lease.retention_expires_at
        /\ \A i \in DOMAIN items : items[i].expires_at <= a.lease.retention_expires_at

\* It reserves what it then applies, and nothing it reserves was applied before.
Reserves(a) ==
    LET done == Progress(a.lease) IN
    /\ a.stage \in {"reserving", "applying", "recording"} => done < N
    /\ a.stage = "reserving" =>
        IF Atomic(a) THEN done = 0 /\ \E c \in 0..(N - 1) : DOMAIN a.reserved = 1..c
        ELSE DOMAIN a.reserved = {}
    /\ a.stage \in {"applying", "recording"} =>
        IF Atomic(a) THEN DOMAIN a.reserved = Items ELSE done + 1 \in DOMAIN a.reserved
    /\ \A i \in DOMAIN a.reserved : a.reserved[i] \in [kind : {"execute"}, until : Nat]
    /\ a.stage \in {"closing", "finishing"} => done = N
    /\ a.stage = "closing" => Atomic(a)
    /\ a.stage = "proving" => ~Atomic(a)
    /\ a.stage = "committing" /\ Atomic(a) => a.lease.state = "completed"

\* PER_ITEM works on its own row, ALL_OR_NOTHING on none, or one that is over.
Based(a) ==
    IF Atomic(a)
    THEN batch # NoRow => batch.state = "completed" /\ batch.retention_expires_at <= clock
    ELSE /\ batch # NoRow /\ batch.state \in {"processing", "partially_committed"}
         /\ batch.token = a.lease.token /\ batch.run = a.lease.run
         /\ batch.request = a.lease.request
         /\ Progress(batch) <= Progress(a.lease)
         /\ a.stage # "committing" => batch.receipts = a.lease.receipts

TransactionsExact ==
    \A w \in Workers : work[w].tx =>
        /\ \A v \in Workers \ {w} : ~work[v].tx
        /\ Wrote(work[w]) /\ Reserves(work[w]) /\ Based(work[w])

\* Between its transactions a worker has nothing but its lease, and a row with its token is
\* its run's.
LeasesCoherent ==
    /\ \A w \in Workers : HasLease(work[w]) /\ ~work[w].tx =>
        /\ ~Atomic(work[w]) /\ work[w].lease.state # "completed"
        /\ DOMAIN work[w].writes = {} /\ DOMAIN work[w].reserved = {}
        /\ batch # NoRow /\ batch.token = work[w].lease.token =>
            batch.run = work[w].lease.run /\ batch.request = work[w].lease.request
    /\ \A w, v \in Workers : w # v /\ HasLease(work[w]) /\ HasLease(work[v]) =>
        work[w].lease.token # work[v].lease.token

\* A row is of an issued lease, completed with all its items, and outlives them then.
RowCoherent ==
    batch # NoRow =>
        /\ batch.token <= tokens /\ batch.run <= tokens /\ Progress(batch) <= N
        /\ Atomic(batch) => batch.state = "completed"
        /\ batch.state = "completed" =>
            /\ Progress(batch) = N
            /\ \A i \in DOMAIN items : items[i].expires_at <= batch.retention_expires_at

\* What is retained of the items is of the row's prefix; runs to come have no effect.
ItemsCovered ==
    /\ \A i \in DOMAIN items :
        /\ items[i].expires_at <= clock + RetentionTtl
        /\ items[i].expires_at > clock => batch # NoRow /\ i <= Progress(batch)
    /\ \A r \in Runs, i \in Items : r > tokens => effects[r][i] = 0

IInv ==
    /\ TypeOK /\ ProgressExact /\ AnswersTrue /\ LeaseExclusive
    /\ TransactionsExact /\ LeasesCoherent /\ RowCoherent /\ ItemsCovered
=============================================================================
