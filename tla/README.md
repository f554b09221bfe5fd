# Verification of pytitect's reliability core

pytitect is a library of reliability building blocks for Python services:
idempotent requests, leases with fencing, a transactional outbox and inbox with
asynchronous relays and consumers, jobs, process managers, event sourcing,
projections, receipts, checkpoints and the sync protocol, each with an in-memory
reference store and adapters to SQLAlchemy, Django, NATS, AWS and web frameworks.
This directory holds TLA+ models of its core, the TLC runs that check them and the
proofs TLAPS checks.  Source paths below are relative to `src/pytitect/`.

## Inventory

The library's stores are dictionaries behind a lock (or tables behind a
transaction).  What makes them hard is not the single call but the distance between
calls: callers sample a clock *before* the store takes its lock, workers act on
claims they took earlier, publishers time out while the broker still accepts, and a
process can die between any two awaits.

| Component | State | Operations | Interacts with | Hard behaviour | What makes it correct |
|---|---|---|---|---|---|
| Idempotency (`idempotency.py`) | `_entries`, `_tokens` | begin/reserve, renew, complete, mark_uncertain, abandon, purge | clock, maintenance plans, callers sharing tokens | stale `now`, late calls of presumed-dead workers, purging on the way | one authority per identity inside its lease; replays are faithful; retention and uncertainty are kept |
| Leases (`leases.py`) | `_leases`, `_tokens` | acquire, renew, release, `FencedCommit.commit` | clock, fenced resources | a mutation that outlives its lease, tokens after a release | exclusion until expiry; fenced writes in token order |
| Outbox and relay (`outbox.py`, `aio/stores.py`, `aio/runtime.py`, `aio/resilience.py`) | items with claims, `_uncertain`, retry budget | add, claim, five settlements, resolve, purge, archive; rounds of workers | broker, operator, maintenance | timeouts against late acceptance, takeovers, aborted rounds, byte budgets | nothing is lost, claims exclude, uncertain messages wait, settlements are final |
| Inbox, quarantine and consumer (`inbox.py`, `aio/runtime.py`, `aio/uow.py`, `aio/quarantine.py`, `sqlalchemy/uow.py`) | inbox entries, quarantine, admission semaphore, queue | run, process, reserve, commit, ack, retry, terminate | broker, handler, unit of work | redelivery of a message in progress, lost commit results and acks, nested timeouts, a bounded queue | effects at most once, settlement justified, every message settled in the end |
| Mutation batches (`sync/batches.py`) | batch rows with leases and receipts, token index, item rows | begin, renew, advance, complete, mark_uncertain, purge; execute under two policies | idempotency rows, transactions | compare-and-set after side effects in one transaction, leases kept past their row's change | an item is applied once and in order; a stale lease does nothing |
| Jobs and schedules (`jobs.py`, `sqlalchemy/workflows.py`) | jobs with claims, schedules, decisions | schedule, claim, succeed, retry, terminate, add_schedule, materialize; rounds of runners | clock, next-run policies | claims settled after expiry, sweeps that stop halfway | one decision per job, by its last claim; no occurrence skipped or repeated |
| Process managers, timers (`processes.py`) | instances, versions, timers, effects | handle, fire, cancel | event store, outbox | concurrent inputs, timer races | effects of one decision per version |
| Event store (`event_sourcing.py`, `sqlalchemy/events.py`) | events, log position, snapshots | append, read pages, load and save snapshots | projections, callers' transactions | positions given out in transactions that commit late | a gapless log; rehydration is a prefix of the stream |
| Projections (`projections.py`, `aio/projections.py`, `sqlalchemy/projections.py`) | live states, rebuild runs | project_once, begin and resume a rebuild | event store | rebuild and live projection race for the cutover | a projection is the reduction of a prefix of the log and never goes back |
| Reservations (Django, SQLAlchemy; `security/replay.py`) | rows of replay digests, idempotency records, inbox, leases, outbox claims | reserve or claim, renew, settle, abandon, resolve, purge | PostgreSQL, callers' transactions | two statements see different rows; insert collisions; `now` read before the waits | one grant of an identity at a time; late settlements do nothing |
| Receipts (`receipts.py` and adapters) | receipts by state | add, transition, reconcile, purge | requests | compare-and-set from an old reading | what is final stays |
| Transactional requests (`django/transactions.py`, `sqlalchemy/idempotency.py`) | record, effect, receipt, outbox row | execute, reconcile | PostgreSQL | a commit that raises and may have happened | one effect per key and retention; answers are true |
| Fenced commit, generations, checkpoints (`django/leases.py`, `sync/generations.py`, `checkpoints.py`) | authority, generation or checkpoint row | lock, compare, write, advance | PostgreSQL | state and checkpoint committed apart; takeover during a write | writes under a current row only; checkpoints never ahead of state |
| Transports (`aws/transport.py`, `nats/transport.py`, `faststream_nats.py`) | semaphores, delivery flags | publish, receive, ack, retry, terminate | brokers, an executor | cancelled tasks whose calls go on, lost answers | answers claim no more than the bus said, permits exact |
| Proofs of possession (`security/dpop.py`, `security/signatures.py`) | replay identities | verify, reserve, purge | clock, replay store | two clock readings around other threads' purges | a proof is accepted once |
| Dependency graph (`sync/graph.py`) | none | closure, order | - | limits during a walk in any order, cycles | the least closed set; parents first; a cycle is reported exactly |
| Web, wire, contracts, codecs, topology, observability | none of their own | encoding, mapping, declarations | HTTP | I/O | outside a state model; see below |

`PROJECT.json` lists all 27 parts with their status, and the hazards of the code
line by line.

## Modules

| Module | Models | Uses |
|---|---|---|
| `Idempotency` | coordinator and in-memory store | - |
| `IdempotencyProofs` | theorems about it | `Idempotency`, TLAPS |
| `Leases` | lease store and fenced commit | - |
| `LeasesProofs` | theorems about it | `Leases`, TLAPS |
| `Relay` | outbox, relays, broker, operator, maintenance | - |
| `RelayProofs` | theorems about it | `Relay`, TLAPS |
| `Effects` | abstract: what a consumer promises of each message | - |
| `Consumer` | intake loop, processing, inbox, quarantine, broker; implements `Effects` | `Effects` |
| `ConsumerProofs` | theorems about it, the refinement among them | `Consumer`, TLAPS |
| `Batches` | mutation batches over the Django batch and idempotency stores | - |
| `BatchesProofs` | theorems about `Batches` and `Dependencies` | these, TLAPS |
| `Jobs` | jobs, schedules and runners over the memory and the SQL store | - |
| `JobsProofs` | theorems about it | `Jobs`, TLAPS |
| `Processes` | process managers and timers over the memory and the SQL store | - |
| `ProcessesProofs` | theorems about it | `Processes`, TLAPS |
| `EventStore` | event streams, the log and snapshots, memory and SQL | - |
| `Projections` | live projections and rebuilds | `EventStore` |
| `WallClock` | the clock that the following modules share | - |
| `Reservations` | the tables whose rows are reservations, in ten stores | `WallClock` |
| `Receipts` | receipts, transitions and reconciliation | `WallClock` |
| `Requests` | requests executed once in one transaction | `Receipts` |
| `Guards` | writes that a locked row allows: leases, generations, checkpoints | `WallClock` |
| `StoresProofs` | theorems about `Guards`, `Receipts`, `Requests`, `EventStore`, `Projections`, `Possession`, `Transports`, `Reservations` and `BatchStore` | these, TLAPS |
| `BatchStore` | the stores behind mutation batches | `WallClock` |
| `Transports` | publishers, deliveries and sources of three brokers | - |
| `Possession` | verification of proofs that may be used once | `WallClock` |
| `Dependencies` | closure and order of datasets | - |
| `MC...` | the instances TLC checks; `MCStores` and `MCServices` hold several components side by side | their components |

### Idempotency

`entries` and `tokens` are the store's two dictionaries.  `Begin` and the `Call...`
actions are the coordinator's methods, which read the clock; `Reserve`, `Renew`,
`Complete`, `MarkUncertain` and `Abandon` are the store's methods under `_lock`, on
the `now` the call carries.  Any thread may call with any token that was ever
issued: heartbeats, workers presumed dead and duplicated calls are all covered.
`Purge` is a maintenance plan.  `promise` is a history variable: what the store last
told the holder of each token, and until when.  Each property compares that promise
with the store.  Two facts about callers are built in: a reservation has one heartbeat
(renewals of one token do not overlap in flight; two overlapping renewals could
shorten the lease the later answer promised), and a maintenance plan's cutoff lies
in the past.  The asynchronous coordinator takes the same two steps, and the
asynchronous reference store calls the synchronous one without a suspension.

### Leases

`Acquire`, `Renew`, `Release` follow `InMemoryLeaseStore`; `CommitBegins`,
`CommitEnds` and `CommitFails` are `FencedCommit.commit`, with the lock held from the
comparison to the end of the mutation.  Time passes in between.  `tokens` survives
releases, as `_tokens` does.

### Relay

`items` and `uncertain` are the outbox; `round` and `work` are the rounds of the
relays and their worker tasks.  Each await is a step boundary: `RoundStarts` samples
the deadlines and `now`, `Claim` is the store's claim, `Take` a worker's checks before
publishing, `PublishReturns` the publisher's report and the worker's decision, with
the delays and the budget of `RetryComposition.schedule`, `Settle` the store's
settlement.  `RoundAborts` is a timeout, an error, a cancellation or a crash.
`wire` and `broker` are external: a publication is accepted at the broker's pace or
never, also after its publisher gave up.  `ResolveUncertain` is the operator,
who says "delivered" only of a message the broker has.  A publisher confirms only on
the broker's word.  It may report anything else at any moment, the publish timeout
included, and none of it tells whether the broker has the message: a publication that
was reported rejected may still be accepted (see `Transports`).

### Consumer and Effects

`Effects` says what an at-least-once consumer owes: an effect at most once, an
acknowledgement only after the effect, a termination only of what quarantine keeps.
`Consumer` has the intake loop (`RunStarts`, `Pull`, `PutDelivery`, `SourceEnds`,
`PutEnd`, `Get`, `RunEnds`), direct processing (`Process`), and the stages of
`_process`: reserve the inbox row, handle, commit, acknowledge, retry, quarantine,
terminate.  `RowLocked` is the row lock (`FOR UPDATE`, or the wait of a conflicting
insertion) that a transaction keeps to its end.  A delivery over `max_message_bytes` is a `ValueError`:
of `process` to its caller, who keeps the delivery, of the intake loop to its task
group, which ends with every delivery in it (`PullOversized`, `Abort`).  The quarantine
refuses what exceeds its policy, and everything when it is full (`Keepable`); a
rejected delivery then goes back to the broker.  Commits with unknown results,
lost settlements, timeouts, crashes and ending sources draw on `MaxFaults`.
`Purge` is retention with a cutoff behind the broker's redelivery window: an entry
goes only after the message is settled and no delivery of it is left.  The docs ask
operators for that; without it at-most-once would be false by design.

### Batches

One batch identity over one database.  `batch` is its row, `items` the completed
idempotency rows of its items.  A worker's record holds its open transaction: the
lease as it has renewed and advanced it, the items it reserved and the rows it wrote,
which reach the tables in `Commit`.  At most one transaction is open, because each
locks the batch's row first; its `now` was sampled before that (`Execute`, `Sample`),
and `Begin` and `Open` are what `begin()` and the renewal find once they have the row.
`Prove` is one item of `_prove_prefix`, `Reserve`, `Apply` and `Record` are
`_reserve_item` and the two halves of `_apply_reserved_item`, `Close` and `Finish` are
`_finish`.  `CommitLost` is a commit whose result is unknown, `Crash` a mutation that
raises or a process that dies, `PurgeBatch` and `PurgeItem` are retention, which skips
locked rows.  `ALL_OR_NOTHING` does all of it in one transaction and is never seen
incomplete, so it is never resumed; `PER_ITEM` commits after each item.  A run of the
batch, from its row's creation to its deletion, is named by its first token; `effects`
counts the committed mutations of each item in each run.

### Jobs

`store`, chosen in `Init`, is the memory store or `SQLAlchemyJobStore`; they differ in
who counts attempts, in the expiry check on settlement, in skipping locked rows on a
claim, and in what only the memory store has: schedules and a capacity.  `jobs`,
`schedules` and `decisions` are the
store's tables.  A `materialize()` holds the lock and visits the schedules one by one
(`MaterializeBegins`, `Materialize`; `sweep` is where it is), so that a full store or a
raising policy ends it in the middle, after an occurrence was created and before its
schedule advanced.  `run` holds each runner's round: `RunStarts` reads the clock,
`Claim` is the store's claim on that instant, `Settle` is one handler's result and its
settlement (`Succeed`, `Retry`, `Terminate`, or `Stale`), in the order of the claims.
`RunAborts` is a process that dies or an exception out of `run_once`.  A `claim_id` is
fresh for every claim, so the fencing token stands for it.  Submitted jobs and schedules
have disjoint names: a caller who submits a job named like a coming occurrence takes its
place, which nothing forbids and the model leaves out.

### Processes

`states` holds each process's version, `timers` the timer rows, `effects` what is to be
sent (`_effects`, or what `save_effect` wrote), `inbox` the inbox rows.  A handler's
`Handle` loads the version and decides; the decision is any set of effects, timers to
schedule and timers to cancel.  In the memory store `ApplyAtOnce` is the whole of
`apply()`.  In the SQL store `Reserve`, `Apply`, `Complete` and `Commit` are
`apply_message()` and its caller's commit (without `Reserve` and `Complete` for a plain
`apply()`): rows are locked from the step that touches them to the end of the transaction
and change in `Commit`; `Stale` is the refused version, `Abort` an exception, a crash or a
failed commit.  A commit whose answer is lost is a `Commit` after which the input comes
again.  Firers claim timers on an instant sampled before (`ClaimTimers`), and complete
them: `CompleteAtOnce` in memory; `FireBegins`, `FireWrites` and `FireCommits` in SQL,
where the row stays locked after the second comparison until the commit, however late.
`log` and `fired` are history variables.  A process's status and data are not looked at
by the stores and are left out; so is the takeover of a reservation that was committed
uncompleted, which `InputOnce` shows never to exist here.

### EventStore and Projections

`events` are the committed events, `position` the row of the log.  A writer rehydrates
(`LoadSnapshot`, `ReadStream` page by page), decides and appends at the version it saw:
`AppendInMemory` under the lock, or `AppendInTransaction`, which holds the log's row until
`CommitWriter` or `RollbackWriter`.  Snapshots are saved the same two ways.  `FirstPage` is
a page of `read_stream()` or `read_all()`: the rows of the lowest places, each at its rank.

`Projections` extends this log.  A projector loads a projection or a rebuild, reads a page
and applies it to the checkpoint it loaded (`Load`, `ReadAll`, `Apply`; `LoadRebuild`,
`AdvanceRebuild`), in memory or in a transaction that holds the rows it touched.  A rebuild
has a fixed watermark, where `PageOf` cuts its pages; its last page replaces the live projection unless that has passed
the watermark or belongs to a newer version (`Supersedes`).

### Reservations

Replay digests, idempotency records, inbox rows, leases and outbox claims are all rows
that one caller reserves for a time.  `table` and `adapter`, chosen in `Init`, name the
store; `outer` says whether the transaction is the store's or its caller's.  Each call is a
sequence of statements at READ COMMITTED: `holder` is the lock on an identity's row or on
its key in the unique index, `staged` the row as its holder sees it.  An insert waits for the
other transaction's key even if that has deleted its row again (`KeySettled`).  Between two statements
of a call anything may commit, and the call goes on with the `now` it came with.  `grants`
is history.

### Receipts and Requests

`Receipts` has the transition table, the compare-and-set of the three stores and
reconciliation from a value read earlier.  `Requests` extends it: an execution reserves its
key, performs its effect, writes receipt and outbox row, completes the record and commits.
A Django
reservation whose insert collides decides on the row it finds without comparing its expiry
again, where `Reserve` takes an expired record over; collisions are modelled in
`Reservations`, and the answer (in progress, replay, conflict) is as true as a new execution.
`CommitRaises` is a commit whose fate is open: `DatabaseCommits` and `DatabaseAborts` decide
it before or after `Reconcile` looks, in a session of its own.

### Guards

One row allows writes: the authority of a lease, the generation of a dataset, or the
checkpoint of a stream.  `Acquire`, `RenewLease` and `Release` decide on a `now` that their
caller read before the row was free, `LockAuthority` on one read under the lock.  `LockAuthority` and `LoadGeneration` lock and compare, `CommitWrite`
ends the transaction later.  `AtomicLoad`, `AtomicAdvance` and `AtomicCommit` are one
transaction of `AtomicCheckpointCoordinator`; `DeferredLoad`, `DeferredCommit` and
`DeferredAdvance` are the three separate parts of the deferred one.  `GiveUp` is a rollback or a
crash between any two of them.

### BatchStore

The contract of the batch store itself, under callers who come with any lease they ever
got and with answers lost: in memory, with the index of tokens, the capacity and the purge,
and over Django rows.  `Batches` uses one such store through the coordinator; here nobody
is well-behaved.

### Transports

`task` is what each asyncio task awaits, `running` the calls at a broker, `permits` the
semaphores.  An AWS call runs in an executor: `Cancel` ends the await and not the call,
whose end (`Leave`) returns the permit.  `Endings` is how a publication may
end: whether the bus was heard and whether it has the event.  Only an acknowledgement
and an explicit refusal settle the second; an answer without an identity or without an
entry, an internal failure, a lost answer and an exception the classifiers do not know
leave it open.  `ClassifiedAws` and `ClassifiedNats` are the two classifiers.  SQS answers
a settlement; that a NATS client's `ack()` returns means only that it was sent, and
`SettleEnds` lets it be lost.  `Redeliver` is a visibility timeout.

### Possession and Dependencies

`CheckDPoP` and `CheckSignature` are the checks in their order with one reading of the
clock, `ReserveProof` is the reservation of the proof's identity, with a second reading (DPoP) or
the same (signatures); purges and other threads come between.  What a check computes is a
`flaw` the proof has or has not.  `Dependencies` runs the two loops of
`DatasetDependencyGraph` as steps, in any order where the code iterates over a set.

## Runs

| Run | Checks | Shows |
|---|---|---|
| `idempotency` | `TokenIndexExact`, `AuthorityHonoured`, `RetentionHonoured`, `ReplayFaithful`, `UncertainHeld` | stale samples, late calls and purges break no promise the store made |
| `leases` | `LeaseHonoured`, `FencedOrder` | leases exclude; fenced writes follow token order across releases, takeovers and slow mutations |
| `relay` | `RetriesPaid`, `NothingLost`, `ClaimExclusive`, `UncertainHeld`, `SettledFinal` | no retry is taken without budget, no message is lost, a publication needs an exclusive claim, uncertain messages wait for the operator, settlement is final |
| `consumer` | `AdmissionExact`, `EffectsOnce` (refinement), `AllSettled` (liveness) | at-most-once effects with justified settlement, exact admission, everything that fits settled once faults are over unless its rejection cannot be kept or an oversized delivery keeps ending the loop |
| `consumer_timeout` | `TimeoutRequestsRetry`, violated | the first finding |
| `batches` | `ProgressExact`, `AnswersTrue`, `LeaseExclusive` | no mutation of a run is repeated or lost, answers carry the receipts of real effects, a lease excludes a second worker |
| `jobs` | `DecidedOnce`, `ClaimExclusive`, `OccurrencesExact`, `DecisionsFit`, `SettledFinal` | each job is decided once, by its last claim; claims exclude; schedules skip, repeat and shift no occurrence; a decision always fits; settled jobs never change |
| `processes` | `NoLostUpdate`, `InputOnce`, `TimerEndsOnce`, `EffectsExact` | racing handlers lose no decision; a message is applied once; effects are those of what was applied; a timer ends once, by its last claim or by a cancellation, and no two claims of it run at once |
| `projections` | `LogExact`, `RehydrationExact`, `ProjectionExact`, `NeverBack` | late commits leave no gap and hide no event; writers decide on a prefix; projections and rebuilds count each event once and never go back |
| `stores` | `GrantExclusive`, `RequestsExact`, `WritesInOrder`, `CheckpointCovered`, `ReceiptFinal` | ten reservation stores grant an identity once at a time whatever their statements see; a request has one effect and true answers across commits that raise; guarded writes are current; checkpoints are covered; receipts are final |
| `services` | `BatchStoreExact`, `TransportExact`, `ProofOnce`, `OrderExact` | stale batch leases do nothing and the token index is exact; a confirmed publication is stored, silence never authorizes a retry, an SQS delivery is settled when deleted, permits come back once; a proof is accepted once; closures, orders and cycles are what their definitions say |
| `batches_proof` | `UnprovenUncertain`, violated | the second finding |

Deadlock checking is off in `leases`, `relay`, `jobs`, `processes`, `projections`, `stores`
and `services`, where the bounds on clock, tokens, calls and rounds stop the model, and in `consumer`, where a loop rightly waits for more
deliveries when all messages are settled.

### Bounds

* `idempotency`: two threads, two identities for a capacity of one, two
  fingerprints, two tokens, leases of 1 and retentions of 2 in a clock of 3.  A
  reservation can expire, be replaced, and its first holder come back with an old
  `now`; the second identity competes for capacity.  One value suffices to tell a
  replay from none, because fingerprints distinguish the requests.
* `leases`: two owners, two resources for a capacity of one, ttl 2 in a clock of 5,
  three tokens and three writes each: a takeover, a release and a second takeover
  with writes around each.
* `relay`: two relays with one worker, two messages, claims of 2 and rounds of 1 in
  a clock of 2, two rounds that claim, two attempts, a retry budget of one, one
  relay whose byte budget is below the two messages.  A takeover of an expired
  claim, a late acceptance, a retry, a deferral, exhaustion and a resolution occur.
* `consumer`: one consumer with two workers, a queue of one, an admission of two, an
  inbox of one, a quarantine with room for one, four messages and three faults.  One
  message is over the byte limit and one over the quarantine's payload limit; the other
  two may be rejected both, and then the second meets a full quarantine.  Two consumers differ from two direct
  `process` calls of one consumer only in their private admission; the inbox row is
  what they share, and two workers contend for it.
* `batches`: two workers, two items, either policy, leases of 2 and retentions of 3 in
  a clock of 5, three leases.  A lease expires between items and inside a transaction,
  a receipt expires before the batch is resumed, a completed batch is forgotten and run
  again.

* `jobs`: two runners, one submitted job and one schedule, a capacity of three, claims
  of 1 in a clock of 3, two attempts, an interval of 2.  A claim expires before its
  settlement and is taken over, a retry is exhausted, a schedule falls behind, the store
  fills during a sweep.

* `processes`: two handlers, two firers, one process with one timer, one effect and one
  message, two versions, claims and reservations of 1 in a clock of 3.  Two versions let
  one decision schedule the timer and the next cancel it while it is claimed or being
  completed; the clock lets a claim expire, be taken over and its first holder return.

* `projections`: two writers of one stream with two events, appends of one or two, pages of
  one, two projectors, two reducer versions, one rebuild with a watermark up to 2.  A page is
  seldom all there is, a transaction commits late, a rebuild is overtaken.  More streams
  change nothing that the log's row does not already order.
* `stores`: two sessions on one identity with two grants, ttl and retention of 1 in a clock of
  2: a grant lapses and is taken over while its first holder is between two statements.  Two
  reconcilers of one receipt; two clients and two attempts on one key, with two fingerprints,
  receipt ids and message ids so that uniqueness can collide; two writers, three tokens,
  generations, items and writes.
* `services`: two callers of two batches in a store with room for one, two tokens, leases and
  retentions of 1 in a clock of 3 (`MaxBatchClock`); two tasks, one permit, three calls, one
  message; two threads, three proof identities in a store with room for two, and a clock of 6,
  past the end of window, pause and replay ttl (5); every graph of three datasets with limits
  of 2 and 3.
* `stores` and `services` hold components that share nothing but a clock.  `focus` picks one of
  them per behaviour, so each is explored alone and nothing is multiplied.

### Fairness

Only `consumer` needs fairness.  Its loops and workers are asyncio tasks, which the
event loop keeps scheduling (weak fairness of each).  Retention is periodic (weak
fairness of `Purge`).  The broker keeps offering a message it was not told to forget:
strong fairness of `Deliver`, since the consumer's admission may be taken again and
again when the offer comes.  It makes no such promise of an oversized message, which may
be offered again and again or never.  Faults are finite, so `AllSettled` reads "once the
faults are over".  It does not promise progress of a handler that fails for ever, and
says what else keeps a message in the broker: a handler that rejects it again and again
while the quarantine cannot keep it, and an oversized delivery that ends the loop again
and again.  Both happen in the run; without either exception TLC finds the message that
is never settled.

### Findings

`aio/runtime.py:483`: the intake loop wraps `_process` in `asyncio.timeout(remaining)`,
counted from admission, and `_process` has its own `asyncio.timeout(handler_timeout)`
inside.  The outer one always fires first; `_process` sees a `CancelledError`, its
`except (TimeoutError, RetryableProcessingError)` never asks for a retry, and the
`TimeoutError` of the outer block ends the task group with every other delivery in
it.  `docs/reliability-foundations.md:33-34` says "Only `RetryableProcessingError` and a
timeout proven before commit request retry."  Nothing is lost (the broker redelivers;
`EffectsOnce` and `AllSettled` hold), but one slow handler aborts the whole loop.

`sync/batches.py:776`: `_prove_prefix` calls `mark_uncertain` and then raises
`_RollbackBatch`, which leaves the transaction that made the mark and undoes it.
`docs/sync.md:46` says "If proof is no longer possible, the batch becomes uncertain
instead of reusing its identity."  The row stays `partially_committed`: after each lease
the next `execute` takes a new one and fails the same way, and no maintenance plan
removes the row.  The caller is told `uncertain` each time and no mutation is repeated
(`ProgressExact` holds).  The test of this path (`tests/test_quality_edges.py:795`)
runs over a transaction that rolls nothing back.

### Observations

Behaviours the models show that no doc speaks against.  `JobRunner.run_once` counts a
retry's `run_at` from the start of the round, so a handler that fails after longer than
its delay is retried at once.  A `PermanentJobError` without a message makes `_reason`
raise inside `run_once`: the round aborts, no attempt is counted, and the job comes back
after each expiry.  The overflow check of `InMemoryJobStore.succeed` is unreachable
(`DecisionsFit`).  The memory store's `complete_timer` records no effect where the SQL store
saves the timer's effect with it: a caller of the first has to perform the effect itself.

A rebuild whose live projection has passed its watermark can never complete: its last page
is refused each time and `resume_rebuild` raises; as the docs say, a newer rebuild is needed.
`AtomicCheckpointCoordinator` compares the checkpoint it loaded itself, not the one its items
were pulled at: a second puller with older items applies them again and may set the checkpoint
back, which `CheckpointCovered` allows; `StaleCheckpoint` is only met when two callers insert
the first row.  `InMemoryGenerationStore.load_for_update` keeps no lock, so a `GenerationGuard`
over it does not exclude an activation during the mutation; `WritesInOrder` is about the Django
store.  The synchronous Django outbox settles on the claim's identity alone, after its expiry
too, as long as nobody has taken it over.  The Django receipt store compares state and
`updated_at`, not the result or `created_at`.  Django batch rows drop a receipt's `replayed`
flag, which the memory store keeps.

`ProofOnce` rests on `PossessionAssumption`: `replay_ttl` exceeds the age, twice the skew and the
longest pause between check and reservation.  The verifiers do not check that of their
fields; the defaults satisfy it with minutes to spare.  It is tight: with equality a proof is
accepted twice.

An oversized delivery is not quarantined: the intake loop raises, and so does the next one
when the broker offers it again, until the broker itself gives it up (`PullOversized`).  A
full quarantine hands rejected deliveries back at once, without a delay.

"Rejected" says nothing of what is stored.  `EventBridgePublisher` rejects an answer that names
no entry, and both classifiers reject every exception they do not know, one raised after the
bus took the event included; the relay then settles a message as failed that was published.
`TransportExact` therefore speaks of confirmed and retryable answers only.

An SQS `retry` does not mark its delivery as settled and a cancelled delete leaves it
unsettled, so that a delivery may be settled again; `TransportExact` has only the other
direction.

## Proofs

`IdempotencyProofs` proves type correctness (`TypeCorrect`), the four invariants and the
action property of its run for any threads, identities, tokens, capacity, ttls and clock bound, from
`PolicyAssumption` (positive ttls and capacity).  The promises are not inductive by
themselves: that a stale reserve cannot remove a live lease follows only when the
entry's `expires_at` is known to be the instant promised to its token.
`EntryPromised` says so: every entry carries identity, fingerprint, expiry, value and
phase of its token's promise.  Together with `TokenIndexExact` (a token determines its
entry) and "a sampled `now` is not ahead of the clock" (part of `TypeOK`), each action
either leaves a promise's entry alone, updates both together, or removes an entry whose
promise has run out.  `TransitionStep` is the common part of renew, complete and
mark_uncertain, `DroppedStore` that of the two purges.  `ExclusiveExecution` follows: two tokens
inside their leases never execute the same identity.  `UncertainKept` needs
the index for the settlement actions, which could otherwise reach an uncertain entry
through another token.

`LeasesProofs` proves `LeaseHonoured` and `FencedOrder` from `LeaseAssumption`, for any
owners, resources, ttl and capacity.  `LeaseHonoured` needs `CallsHeld`: a call in flight carries the
lease its owner holds, so a renewal never revives an older one.  `FencedOrder` needs
`TokensBounded`: the counter bounds every token that was written under, equals that of
the current lease, and survives a release; the lease of a running mutation is current
as long as the lock is held.

`JobsProofs` proves the five properties of the `jobs` run from `JobAssumption` (positive
limits, ttls, delays, capacity), for any runners, names, schedules and either store.
`ClaimExclusive` and `DecidedOnce` need `ClaimsHeld`: a claim in hand is its row's current
one and the row is unsettled, or it was superseded after it expired, and no two hands hold
one claim.  `OccurrencesExact` needs `OccurrencesKnown`: no occurrence lies beyond its
schedule's next one, so an advanced schedule never meets a job it did not make.
`DecisionsFit` needs `DecisionsCounted`: decisions count the succeeded jobs, so a scheduled
job leaves room for its own.

`RelayProofs` proves the three invariants and two action properties of the `relay` run from
`RelayAssumption` (positive limits; finitely many relays and workers, which `RetriesPaid`
needs to count).  A worker keeps a copy of its claim across the awaits of a publication, so
`IInv` says what the copy still tells of the item (`ClaimsFaithful`), that a claim is in one
place (`ClaimsPlaced`), that a decision to settle as delivered outlives the broker's word
(`ConfirmedReceived`), and that settled and uncertain items have no claim a late settlement
could name (`UncertainStored`, `ItemsCoherent`).

`ConsumerProofs` proves `AdmissionExact` and that `Consumer` implements `Effects`
(`EffectsOnce`), from `ConsumerAssumption` (positive capacities and at least one worker, as
`_positive_integer` checks of `concurrency`).  Admission needs the end marks: `run()` leaves the
queue as it is, and the next one starts with every permit free only because the marks count
off against the workers and stand behind every delivery (`LoopCoherent`).  The refinement needs
the stages to tell the truth about the stores (`SlotsCoherent`), one transaction per inbox row
(`RowsExclusive`), and that a purged entry's message is one the broker has forgotten
(`DecisionsRecorded`).

`ProcessesProofs` proves the four properties of the `processes` run.  They compare rows with the
history of commits, and a transaction writes at its commit what it checked when it applied; the
strengthening says that what was checked still holds (`CallsCoherent`, `FiringsCoherent`) and
who may complete a timer at all (`ClaimsCoherent`).

`BatchesProofs` proves the three invariants of the `batches` run.  What an open transaction wrote,
with what is committed, is the progress of its lease (`TransactionsExact`); a completed batch
row outlives its item rows, so a new run never replays an old item (`RowCoherent`,
`ItemsCovered`); tokens are issued once, so one worker passes `active()` (`LeasesCoherent`).

It also proves `OrderExact` over `DependenciesSpec`, for every graph, request and limit.  The
property speaks of finished walks only; `DependenciesIInv` says that the closure so far lacks only
parents of what waits (`ClosureSoFar`), that after n layers what is left is exactly what has a
chain of n parents above it, with every set of datasets that wait for each other in it
(`LayersSoFar`), and that what is out is in order and waits for nothing that is left
(`OutputSoFar`).  A closure that waits for nothing is closed and hence the least one; layers that
find nothing ready have left the largest set that waits for itself.  That `Sorted` has each
member once is a counting argument: ranks are injective into an interval of the same size.

`StoresProofs` proves the five properties of the `stores` run, each over its component's own
specification.  `WritesInOrder` and `CheckpointCovered` need that what is staged under a row's
lock is current and covered; `ReceiptFinal` needs types only.  `RequestsExact` needs that the
holder of the key was reserved after the retention of every effect so far and has new rows
(`ClientCoherent`), that one client holds the key (`ClientsApart`), and that the record
expires after every effect's retention (`RecordLatest`), so that a reservation which finds it
expired comes after them all.

`GrantExclusive` is proved for all ten stores at once, from `ReservationsAssumption` (positive
ttls and capacity; `Nobody` is no session).  Its invariant (`ReservationsIInv`) says that the row
of an identity backs the grant of it that runs: reserved until the same instant, or settled in a
way that keeps others out (`Backs`), and that a grant which runs, or whose token the reserved row
still carries, is the newest (`Coherent`).  A transaction may still roll back, so this is said
twice: of the row as its holder has it, with the grants as they are, and of the committed row, with
the grants as the rollback would leave them (`Seen`, `Before`).  Besides, a call that decides on
a row has its lock (`Called`), a caller's grant was not undone (`Keeps`), and a transaction undoes
only grants of rows that it holds (`Undoes`).  In the attempt the insert had to wait for a key
that another transaction had inserted and deleted again, which PostgreSQL does (`KeySettled`);
without it the second reading is false.

Over `EventStoreSpec` it proves `LogExact` and `RehydrationExact`, over the specification of
`Projections` `ProjectionExact` and `NeverBack`, and that the latter implements the former
(`ProjectionsImplementLog`).  `LogExact` needs that what a transaction has staged is
what comes next in the log (`StagedNext`), which holds because one transaction at a time has the
log's row and nobody appends without it.  That a page is the next events without a gap is again
counting: the places of the rows after a position are an interval without repetition, so a row's
rank is its distance (`Numbers`, `Gapless`).  `RehydrationExact` needs besides that a writer's
version is one that its stream has; `ProjectionExact` needs that what a projector has in its hands
is the reduction up to where it would write, and that what its open transaction has checked
stays true while it holds the rows (`Working`, `OpenWell`).  A page that was read stays right
however the log grows, which is where late commits would hurt.

`ProofOnce` and `TransportExact` are proved over `PossessionSpec` and `TransportsSpec`.
`ProofOnce` needs that an identity in use is seen until
the last instant at which a thread that checked the proof may reserve it (`UsedSeen`,
`LastReserve`) and that nobody is slower than `MaxPause` (`ThreadsCoherent`);
`PossessionAssumption` makes the reservation outlive that instant.  `TransportExact` is inductive
with its types: an answer is recorded with what the bus said and did at the end of the call that
its task still awaits, and a call's identity is fresh, so a new call takes one permit and its end, awaited
or not, returns one.  `BatchStoreExact` needs that no two rows and no two callers have one token
(`TokensUnique`), so that a lease that compares equal to its row is the only such lease, and
that the memory store's index leads to the executing rows and to nothing else (`IndexExact`).

The strengthened invariants were checked with TLC on the runs' instances before they were proved;
the runs keep the properties only.

Model-checked only: `AllSettled`, the liveness of the consumer, which the prover does not do.
Every invariant and action property of a passing run has a theorem.  Nothing is proved by
induction over data, which the provers cannot do: sequences that the code builds in loops are
functions over intervals here, and what they hold is shown by counting.

## Not modelled

Wire formats, codecs, contracts, schema resolution and canonical JSON are pure data.
Web adapters map requests and responses; topology documents are declarations.  The brokers
and PostgreSQL are external: the models state what the code relies on.  Signatures, digests
and canonical forms are computation; `Possession` has the order of the checks and not what
they compute.  The command and query runtimes dispatch under a timeout and keep no state.
The synchronous `OneRoundDispatcher` and the SQL quarantine store are not modelled.
Supervision, observation and metrics do not change outcomes.  Harnesses
are tests.  Within the modelled parts, formatting, counters, argument validation and
observation calls are left out.  The UTC and the monotonic clock run together.  The
liveness of relays is not claimed: a message that never fits a byte budget, or whose
delay never fits a round, is documented to stay where it is.

## Plan

1. `OneRoundDispatcher` over the synchronous stores, whose settlements carry the instant of
   the claim.
2. The reservation stores shown to implement an abstract reservation, of which `Idempotency`
   and `Leases` are the memory instances; `Coherent` in `Reservations` is its refinement mapping
   in the making.
