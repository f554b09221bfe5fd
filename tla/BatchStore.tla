----------------------------- MODULE BatchStore -----------------------------
(***************************************************************************)
(* The stores behind mutation batches: InMemoryMutationBatchStore          *)
(* (pytitect/sync/batches.py), whose entries are limited and have an index *)
(* of tokens, and DjangoMutationBatchStore (pytitect/django/stores.py).    *)
(*                                                                         *)
(* Callers are independent of each other.  A call is one critical section  *)
(* (a lock, or a transaction that has the row), but its `now` was read     *)
(* before the wait for it, so it is any reading up to the present one.     *)
(* Answers may be lost: a caller may use the last lease that it got for as *)
(* long as it likes.                                                       *)
(***************************************************************************)
EXTENDS WallClock, FiniteSets, Sequences

CONSTANTS
    Callers,
    BatchIds,           \* identities of batches: naturals, the order that purges break ties by
    BatchFingerprints,
    Totals,             \* the numbers of items of the batches
    BatchTtl,           \* lease_ttl
    BatchRetention,     \* retention_ttl
    BatchCapacity,      \* capacity of the store in memory
    PurgeSize,          \* batch_size of a purge plan
    MaxBatchTokens      \* bound on the tokens issued

ASSUME BatchStoreAssumption ==
    /\ BatchIds \subseteq Nat /\ IsFiniteSet(BatchIds)
    /\ Totals \subseteq Nat
    /\ {BatchTtl, BatchRetention, BatchCapacity, PurgeSize, MaxBatchTokens} \subseteq Nat \ {0}

VARIABLES
    keeper,     \* "memory" or "django"
    entries,    \* the stored batches: batch id -> row
    tokens,     \* _tokens of the store in memory: token -> batch id
    held,       \* caller -> the last lease it got
    minted,     \* number of tokens issued: uuid4 never repeats
    accepted    \* history: batch id -> the receipts answered with MutationBatchProgressed

storeVars == <<clock, keeper, entries, tokens, held, minted, accepted>>

NoLease == [token |-> 0]

\* MutationBatchLease; next_index is the number of receipts in rows and leases alike.
LeaseOf(b, row) ==
    [batch |-> b, token |-> row.token, receipts |-> row.receipts, expires_at |-> row.lease_expires_at]

BatchStoreInit ==
    /\ keeper \in {"memory", "django"}
    /\ clock = 0
    /\ entries = << >>
    /\ tokens = << >>
    /\ held = [c \in Callers |-> NoLease]
    /\ minted = 0
    /\ accepted = [b \in BatchIds |-> << >>]

Executing(row) == row.state \in {"processing", "partially_committed"}

Put(f, key, value) == [x \in DOMAIN f \cup {key} |-> IF x = key THEN value ELSE f[x]]

Without(f, keys) == [x \in DOMAIN f \ keys |-> f[x]]

PastRetention(row, states, cutoff) == row.state \in states /\ row.retention_expires_at <= cutoff

\* _purge_terminal(): begin() first drops every completed batch past its retention.
MemoryTerminal(now) == {x \in DOMAIN entries : PastRetention(entries[x], {"completed"}, now)}

\* Django drops only the row it was asked about.
DjangoTerminal(b, now) == {x \in DOMAIN entries \cap {b} : PastRetention(entries[x], {"completed"}, now)}

Kept(b, now) == Without(entries, IF keeper = "memory" THEN MemoryTerminal(now) ELSE DjangoTerminal(b, now))

\* Mutant of LeaseCurrent: the progress that the lease has seen is not compared.
CurrentAnyProgress(lease, now) ==
    /\ lease.token # 0 /\ lease.batch \in DOMAIN entries
    /\ LET row == entries[lease.batch]
       IN row.token = lease.token /\ Executing(row) /\ row.lease_expires_at > now

\* active() of Django: the lease is the row's, runs, and has seen all progress.
LeaseCurrent(lease, now) ==
    /\ lease.token # 0 /\ lease.batch \in DOMAIN entries
    /\ LET row == entries[lease.batch]
       IN Executing(row) /\ row.lease_expires_at > now /\ LeaseOf(lease.batch, row) = lease

\* _active() finds the row through the token.
ActiveRow(lease, now) ==
    /\ keeper = "memory" => lease.token \in DOMAIN tokens /\ tokens[lease.token] = lease.batch
    /\ LeaseCurrent(lease, now)

Index(f) == tokens' = IF keeper = "memory" THEN f ELSE << >>

\* The row of batch b is replaced, and the caller gets a lease on it, or the answer is lost.
GrantLease(c, b, others, row) ==
    /\ entries' = Put(others, b, row)
    /\ held' \in {held, [held EXCEPT ![c] = LeaseOf(b, row)]}

----------------------------------------------------------------------------
\* begin(): a new batch.
BeginNew(c, b, fingerprint, total, now) ==
    LET kept == Kept(b, now)
    IN /\ b \notin DOMAIN kept
       /\ keeper = "memory" => Cardinality(DOMAIN kept) < BatchCapacity
       /\ minted < MaxBatchTokens
       /\ minted' = minted + 1
       /\ GrantLease(c, b, kept,
                [fingerprint |-> fingerprint, total |-> total, token |-> minted', state |-> "processing",
                 receipts |-> << >>, lease_expires_at |-> now + BatchTtl, retention_expires_at |-> 0])
       /\ Index(Put(tokens, minted', b))
       /\ accepted' = [accepted EXCEPT ![b] = << >>]
       /\ UNCHANGED <<clock, keeper>>

\* begin(): a batch whose lease ran out gets a new token, and the old one is forgotten.
BeginResumed(c, b, fingerprint, total, now) ==
    LET kept == Kept(b, now)
    IN /\ b \in DOMAIN kept
       /\ kept[b].fingerprint = fingerprint /\ kept[b].total = total
       /\ Executing(kept[b]) /\ kept[b].lease_expires_at <= now
       /\ minted < MaxBatchTokens
       /\ minted' = minted + 1
       /\ GrantLease(c, b, kept, [kept[b] EXCEPT !.token = minted', !.lease_expires_at = now + BatchTtl])
       /\ Index(Put(Without(tokens, {kept[b].token}), minted', b))
       /\ UNCHANGED <<clock, keeper, accepted>>

\* begin(): conflict, replay, uncertain, in progress or no capacity.  Only the purge remains.
BeginRefused(b, fingerprint, total, now) ==
    LET kept == Kept(b, now)
    IN /\ IF b \in DOMAIN kept
          THEN \/ kept[b].fingerprint # fingerprint \/ kept[b].total # total
               \/ ~Executing(kept[b])
               \/ kept[b].lease_expires_at > now
          ELSE keeper = "memory" /\ Cardinality(DOMAIN kept) >= BatchCapacity
       /\ entries' = kept
       /\ UNCHANGED <<clock, keeper, tokens, held, minted, accepted>>

Begin(c, b, fingerprint, total, now) ==
    \/ BeginNew(c, b, fingerprint, total, now)
    \/ BeginResumed(c, b, fingerprint, total, now)
    \/ BeginRefused(b, fingerprint, total, now)

\* renew()
Renew(c, now) ==
    LET lease == held[c]
    IN /\ ActiveRow(lease, now)
       /\ GrantLease(c, lease.batch, entries, [entries[lease.batch] EXCEPT !.lease_expires_at = now + BatchTtl])
       /\ UNCHANGED <<clock, keeper, tokens, minted, accepted>>

\* encode_receipts() and decode_receipts(): a row of Django keeps item and result of a receipt,
\* not whether it was replayed.
Encoded(receipt) == [receipt EXCEPT !.replayed = FALSE]

\* The receipts of the row after one more: Django writes those of the lease again.
OneMore(lease, receipt) ==
    IF keeper = "memory" THEN Append(entries[lease.batch].receipts, receipt)
                         ELSE Append(lease.receipts, Encoded(receipt))

\* advance()
Advance(c, receipt, now) ==
    LET lease == held[c]
        row == entries[lease.batch]
    IN /\ ActiveRow(lease, now)
       /\ Len(row.receipts) < row.total
       /\ GrantLease(c, lease.batch, entries,
                [row EXCEPT !.receipts = OneMore(lease, receipt), !.state = "partially_committed",
                            !.lease_expires_at = now + BatchTtl])
       /\ accepted' = [accepted EXCEPT ![lease.batch] = Append(@, receipt.by)]
       /\ UNCHANGED <<clock, keeper, tokens, minted>>

\* The row ends in a terminal state and is retained; its token is forgotten.
Settle(lease, state, now) ==
    /\ entries' = [entries EXCEPT ![lease.batch].state = state,
                                  ![lease.batch].retention_expires_at = now + BatchRetention]
    /\ Index(Without(tokens, {lease.token}))
    /\ UNCHANGED <<clock, keeper, held, minted, accepted>>

\* complete(): only when every item has its receipt.
CompleteBatch(c, now) ==
    /\ ActiveRow(held[c], now)
    /\ Len(entries[held[c].batch].receipts) = entries[held[c].batch].total
    /\ Settle(held[c], "completed", now)

\* mark_uncertain()
MarkUncertain(c, now) == ActiveRow(held[c], now) /\ Settle(held[c], "uncertain", now)

\* The order in which a purge takes rows: retention_expires_at, then the identity.
Earlier(x, y) ==
    \/ entries[x].retention_expires_at < entries[y].retention_expires_at
    \/ entries[x].retention_expires_at = entries[y].retention_expires_at /\ x < y

\* purge() and purge_mutation_batches(): the first PurgeSize of the rows past their retention.
PurgeBatches(include_uncertain, cutoff) ==
    LET states == {"completed"} \cup (IF include_uncertain THEN {"uncertain"} ELSE {})
        selected == {x \in DOMAIN entries : PastRetention(entries[x], states, cutoff)}
        first == {x \in selected : Cardinality({y \in selected : Earlier(y, x)}) < PurgeSize}
    IN /\ first # {}
       /\ entries' = Without(entries, first)
       /\ UNCHANGED <<clock, keeper, tokens, held, minted, accepted>>

BatchStoreNext ==
    \/ Tick /\ UNCHANGED <<keeper, entries, tokens, held, minted, accepted>>
    \/ \E now \in 0..clock :
          \/ \E c \in Callers :
                \/ \E b \in BatchIds, f \in BatchFingerprints, n \in Totals : Begin(c, b, f, n, now)
                \/ Renew(c, now)
                \/ \E replayed \in BOOLEAN : Advance(c, [by |-> c, replayed |-> replayed], now)
                \/ CompleteBatch(c, now)
                \/ MarkUncertain(c, now)
          \/ \E include_uncertain \in BOOLEAN : PurgeBatches(include_uncertain, now)

BatchStoreSpec == BatchStoreInit /\ [][BatchStoreNext]_storeVars

----------------------------------------------------------------------------
Named(receipts) == [i \in DOMAIN receipts |-> receipts[i].by]

LeasesExact ==
    \A c, o \in Callers :
        ActiveRow(held[c], 0) =>
           /\ Named(held[c].receipts) = accepted[held[c].batch]
           /\ c # o /\ ActiveRow(held[o], 0) => held[c].batch # held[o].batch

EntriesExact ==
    /\ \A b \in DOMAIN entries :
          /\ Named(entries[b].receipts) = accepted[b]
          /\ entries[b].state = "completed" => Len(accepted[b]) = entries[b].total
    /\ keeper = "memory" =>
          /\ DOMAIN tokens = {entries[b].token : b \in {x \in DOMAIN entries : Executing(entries[x])}}
          /\ \A t \in DOMAIN tokens : entries[tokens[t]].token = t
          /\ Cardinality(DOMAIN entries) <= BatchCapacity

SettledKept ==
    \A b \in DOMAIN entries :
        ~Executing(entries[b]) /\ ~(b \in DOMAIN entries' /\ entries'[b] = entries[b]) =>
            entries[b].retention_expires_at <= clock

\* The store keeps what it has answered, whoever lost an answer.  Callers with leases on one
\* batch never can both use them, and the one that can has seen every receipt that any caller
\* was told is kept; the row holds exactly those.  The index of tokens leads from each
\* executing batch's token to it, and has nothing else, so neither a resumed, a settled nor a
\* purged batch leaves a token behind; the entries stay within the capacity.  A settled row
\* never changes, and is only removed once its retention is over.
BatchStoreExact == [](LeasesExact /\ EntriesExact) /\ [][SettledKept]_storeVars

----------------------------------------------------------------------------
\* Strengthening: whose token is whose.

BatchReceipts == [by : Callers, replayed : BOOLEAN]

BatchRows ==
    [fingerprint : BatchFingerprints, total : Totals, token : Nat, receipts : Seq(BatchReceipts),
     state : {"processing", "partially_committed", "completed", "uncertain"},
     lease_expires_at : Nat, retention_expires_at : Nat]

BatchLeases == [batch : BatchIds, token : Nat, receipts : Seq(BatchReceipts), expires_at : Nat]

BatchStoreTypeOK ==
    /\ clock \in Nat /\ minted \in Nat
    /\ DOMAIN entries \subseteq BatchIds /\ \A b \in DOMAIN entries : entries[b] \in BatchRows
    /\ held \in [Callers -> {NoLease} \cup BatchLeases]
    /\ accepted \in [BatchIds -> Seq(Callers)]

\* No two batches and no two callers have the same token, and every one was issued.
TokensUnique ==
    /\ \A b \in DOMAIN entries : entries[b].token # 0 /\ entries[b].token <= minted
    /\ \A b, d \in DOMAIN entries : entries[b].token = entries[d].token => b = d
    /\ \A c \in Callers : held[c].token <= minted
    /\ \A c, o \in Callers : held[c].token = held[o].token /\ held[c].token # 0 => c = o

\* The rows keep what was answered, and the index leads to the executing ones.
RowsExact ==
    \A b \in DOMAIN entries :
        /\ Named(entries[b].receipts) = accepted[b]
        /\ entries[b].state = "completed" => Len(accepted[b]) = entries[b].total

IndexExact ==
    keeper = "memory" =>
        /\ \A t \in DOMAIN tokens :
              tokens[t] \in DOMAIN entries /\ entries[tokens[t]].token = t /\ Executing(entries[tokens[t]])
        /\ \A b \in DOMAIN entries : Executing(entries[b]) => entries[b].token \in DOMAIN tokens
        /\ Cardinality(DOMAIN entries) <= BatchCapacity

BatchStoreIInv == BatchStoreTypeOK /\ TokensUnique /\ RowsExact /\ IndexExact
=============================================================================
