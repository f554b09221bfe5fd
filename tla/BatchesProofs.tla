---------------------------- MODULE BatchesProofs ----------------------------
(***************************************************************************)
(* Proofs about Batches, for any callers, payloads and number of items,    *)
(* and about Dependencies, for any graph, request and limit.               *)
(*                                                                         *)
(* ProgressExact says nothing of a transaction that is still open, yet it  *)
(* is the commit that must keep it: IInv adds that what the transaction    *)
(* wrote, with what is committed, is the progress of its lease             *)
(* (TransactionsExact), and that the row it is based on cannot have moved. *)
(* That a new run never replays an item row of an older one rests on the   *)
(* order of retention: a completed batch row outlives its items            *)
(* (RowCoherent, ItemsCovered).  That only one worker can pass active()    *)
(* rests on tokens being issued once (LeasesCoherent).                     *)
(*                                                                         *)
(* Every action is first summarised by one of four predicates on the step  *)
(* (Working, Resting, Issuing, Committing); Steps collects them, and one   *)
(* lemma per conjunct of IInv then follows by these cases.                 *)
(*                                                                         *)
(* Dependencies: nothing is said of a walk that has not ended, so          *)
(* DependenciesIInv adds that the closure so far lacks only parents of     *)
(* what waits (ClosureSoFar), that after n layers what is left is what has *)
(* a chain of n parents above it (LayersSoFar), and that what is out is in *)
(* order and waits for nothing that is left (OutputSoFar).  A closure that *)
(* waits for nothing is closed, hence the least one; layers that find      *)
(* nothing ready have left exactly what waits for itself.  Chains are      *)
(* functions, so that no induction over the graph is needed: a longer one  *)
(* is a shifted one with a dataset put before it.                          *)
(***************************************************************************)
EXTENDS Batches, Dependencies, FiniteSetTheorems, TLAPS

----------------------------------------------------------------------------
\* Rows and what a worker is at.

\* Nobody idle has a lease, and NoRow is not a row.
LEMMA IdleFacts ==
  /\ Idle.stage = "idle" /\ Idle.tx = FALSE /\ ~HasLease(Idle)
  /\ NoRow.state = "absent" /\ NoRow \notin Rows
  <1>1. Idle.stage = "idle" /\ Idle.tx = FALSE /\ NoRow.state = "absent"
    BY DEF Idle, NoRow
  <1>2. \A row \in Rows : row.state # "absent"
    BY DEF Rows
  <1> QED BY <1>1, <1>2 DEF HasLease

\* The fields of a row.
LEMMA RowFacts ==
  ASSUME NEW row \in Rows
  PROVE  /\ row.run \in Runs /\ row.run \in Nat /\ row.request \in Requests /\ row.token \in Nat
         /\ row.state \in {"processing", "partially_committed", "completed"}
         /\ row.receipts \in Seq([item : Items, run : Runs]) /\ Progress(row) \in Nat
         /\ row.lease_expires_at \in Nat /\ row.retention_expires_at \in Nat
         /\ row # NoRow
  <1>1. /\ row.run \in Runs /\ row.request \in Requests /\ row.token \in Nat
        /\ row.state \in {"processing", "partially_committed", "completed"}
        /\ row.receipts \in Seq([item : Items, run : Runs])
        /\ row.lease_expires_at \in Nat /\ row.retention_expires_at \in Nat
    BY DEF Rows
  <1>2. row.run \in Nat
    BY <1>1, BatchAssumption DEF Runs
  <1>3. Progress(row) \in Nat
    BY <1>1 DEF Progress
  <1> QED BY <1>1, <1>2, <1>3, IdleFacts

\* A lease that differs from L in its term at most.
SameLease(L, M) ==
    /\ M \in Rows /\ M.run = L.run /\ M.request = L.request /\ M.token = L.token
    /\ M.state = L.state /\ M.receipts = L.receipts
    /\ M.retention_expires_at = L.retention_expires_at

\* A renewal moves the expiry of a lease alone.
LEMMA RenewedFacts ==
  ASSUME NEW L \in Rows, NEW now \in Nat
  PROVE  SameLease(L, RenewedAt(L, now)) /\ RenewedAt(L, now).lease_expires_at = now + LeaseTtl
  <1>1. now + LeaseTtl \in Nat
    BY BatchAssumption
  <1> QED BY <1>1 DEF Rows, RenewedAt, SameLease

\* Who has a lease, and who a transaction.
LEMMA WorkFacts ==
  ASSUME TypeOK, NEW w \in Workers
  PROVE  /\ work[w].tx \in BOOLEAN
         /\ HasLease(work[w]) <=> Leasing(work[w])
         /\ work[w].tx => Leasing(work[w])
         /\ work[w].stage = "beginning" => Beginning(work[w])
         /\ work[w].stage = "idle" => work[w] = Idle
  <1>1. work[w] = Idle \/ Beginning(work[w]) \/ Leasing(work[w])
    BY DEF TypeOK
  <1>2. CASE work[w] = Idle
    BY <1>2, IdleFacts DEF Leasing
  <1>3. CASE Beginning(work[w])
    <2>1. work[w].stage = "beginning" /\ work[w].tx = FALSE
      BY <1>3 DEF Beginning
    <2> QED BY <1>3, <2>1 DEF HasLease, Leasing
  <1>4. CASE Leasing(work[w])
    BY <1>4 DEF Leasing, HasLease
  <1> QED BY <1>1, <1>2, <1>3, <1>4

\* The other workers are at what they were.
OthersWork(w) == DOMAIN work' = Workers /\ \A v \in Workers : v # w => work'[v] = work[v]

\* The worker that moves changes, the others do not.
LEMMA MoveFacts ==
  ASSUME TypeOK, NEW w \in Workers, NEW b, Move(w, b)
  PROVE  work'[w] = b /\ OthersWork(w)
  BY DEF TypeOK, Move, OthersWork

----------------------------------------------------------------------------
\* Inside a lease: w goes on to b, and nothing else changes.
Working(w, b) ==
    LET a == work[w] IN
    /\ work'[w] = b /\ OthersWork(w)
    /\ UNCHANGED <<batch, items, clock, tokens, answer, effects>>
    /\ Leasing(a) /\ Leasing(b) /\ b.lease.token = a.lease.token
    /\ \/ /\ b.tx /\ (a.tx \/ Unlocked)
          /\ Wrote(b) /\ Reserves(b) /\ Based(b)
       \/ /\ ~a.tx /\ ~b.tx /\ b.lease = a.lease /\ b.request = a.request
          /\ b.writes = a.writes /\ b.reserved = a.reserved

\* What renewing, and moving on, keeps.
LEMMA WroteSame ==
  ASSUME NEW a, NEW b, Wrote(a), a.lease.state # "completed",
         SameLease(a.lease, b.lease), b.writes = a.writes
  PROVE  Wrote(b)
  BY DEF Wrote, SameLease, Progress

\* What a transaction is based on depends on its lease and request only.
LEMMA BasedSame ==
  ASSUME NEW a, NEW b, Based(a), a.stage # "committing",
         SameLease(a.lease, b.lease), b.request = a.request
  PROVE  Based(b)
  BY DEF Based, SameLease, Progress, Atomic

\* A worker keeps the types of one with a lease while the lease is the same.
LEMMA LeasingSame ==
  ASSUME NEW a, NEW b, Leasing(a), SameLease(a.lease, b.lease), DOMAIN b = DOMAIN a,
         b.request = a.request, b.now \in Nat,
         \A i \in DOMAIN b.writes : b.writes[i].expires_at \in Nat,
         b.stage \in {"leased", "opening", "proving", "reserving", "applying", "recording",
                      "closing", "finishing", "committing"},
         b.tx = (b.stage \notin {"leased", "opening"})
  PROVE  Leasing(b)
  BY DEF Leasing, SameLease

\* The facts a worker inside its transaction relies on.
LEMMA TxFacts ==
  ASSUME IInv, NEW w \in Workers, HasLease(work[w]), work[w].stage \notin {"leased", "opening"}
  PROVE  LET a == work[w] IN
         /\ TypeOK /\ Leasing(a) /\ a.tx /\ Wrote(a) /\ Reserves(a) /\ Based(a)
         /\ a.lease \in Rows /\ Progress(a.lease) \in Nat /\ clock \in Nat
         /\ a.stage # "committing" => a.lease.state # "completed"
         /\ AllOrNothing(w) <=> Atomic(a)
  <1>1. TypeOK /\ TransactionsExact
    BY DEF IInv
  <1>2. Leasing(work[w]) /\ work[w].tx /\ work[w].lease \in Rows
    BY <1>1, WorkFacts DEF Leasing
  <1>3. Wrote(work[w]) /\ Reserves(work[w]) /\ Based(work[w])
    BY <1>1, <1>2 DEF TransactionsExact
  <1>4. Progress(work[w].lease) \in Nat /\ clock \in Nat
    BY <1>1, <1>2, RowFacts DEF TypeOK
  <1> QED BY <1>1, <1>2, <1>3, <1>4 DEF Wrote, AllOrNothing, Atomic

\* Reading the clock before a transaction.
LEMMA SampleFacts ==
  ASSUME IInv, NEW w \in Workers, Sample(w)
  PROVE  \E b : Working(w, b)
  <1> DEFINE a == work[w]
             b == [a EXCEPT !.stage = "opening", !.now = clock]
  <1>1. TypeOK /\ a.stage = "leased" /\ clock \in Nat
    BY DEF IInv, TypeOK, Sample, At
  <1>2. Leasing(a) /\ ~a.tx
    BY <1>1, WorkFacts DEF HasLease, Leasing
  <1>3. /\ DOMAIN b = DOMAIN a /\ b.stage = "opening" /\ b.tx = a.tx /\ b.request = a.request
        /\ b.lease = a.lease /\ b.now = clock /\ b.reserved = a.reserved /\ b.writes = a.writes
    BY <1>2 DEF Leasing
  <1>4. work'[w] = b /\ OthersWork(w) /\ UNCHANGED <<batch, items, clock, tokens, answer, effects>>
    BY <1>1, MoveFacts DEF Sample
  <1> HIDE DEF b
  <1>5. SameLease(a.lease, b.lease)
    BY <1>2, <1>3 DEF SameLease, Leasing
  <1>6. Leasing(b)
    BY <1>1, <1>2, <1>3, <1>5, LeasingSame DEF Leasing
  <1>7. Working(w, b)
    BY <1>2, <1>3, <1>4, <1>6 DEF Working
  <1> QED BY <1>7

\* Opening a transaction on an active lease.
LEMMA OpenFacts ==
  ASSUME IInv, NEW w \in Workers, Open(w), Active(work[w].lease, work[w].now),
         Move(w, [work[w] EXCEPT !.stage = Purpose(work[w]), !.tx = TRUE,
                                 !.lease = RenewedAt(@, work[w].now)]),
         UNCHANGED <<batch, items, answer, effects>>
  PROVE  \E b : Working(w, b)
  <1> DEFINE a == work[w]
             b == [a EXCEPT !.stage = Purpose(a), !.tx = TRUE, !.lease = RenewedAt(@, a.now)]
  <1>1. TypeOK /\ a.stage = "opening" /\ Unlocked /\ UNCHANGED <<clock, tokens>>
    BY DEF IInv, Open, At
  <1>2. Leasing(a) /\ ~a.tx /\ HasLease(a)
    BY <1>1, WorkFacts DEF HasLease, Leasing
  <1>3. a.lease \in Rows /\ a.now \in Nat
    BY <1>2 DEF Leasing
  <1>4. /\ DOMAIN b = DOMAIN a /\ b.stage = Purpose(a) /\ b.tx = TRUE /\ b.request = a.request
        /\ b.lease = RenewedAt(a.lease, a.now) /\ b.now = a.now /\ b.reserved = a.reserved
        /\ b.writes = a.writes
    BY <1>2 DEF Leasing
  <1>5. work'[w] = b /\ OthersWork(w)
    BY <1>1, MoveFacts
  <1> HIDE DEF b
  <1>6. SameLease(a.lease, b.lease)
    BY <1>3, <1>4, RenewedFacts
  <1>7. Purpose(a) \in {"proving", "reserving", "finishing"}
    BY DEF Purpose
  <1>8. Leasing(b)
    <2>1. b.stage \in {"proving", "reserving", "finishing"}
      BY <1>4, <1>7
    <2>2. b.tx = (b.stage \notin {"leased", "opening"})
      BY <1>4, <2>1
    <2>3. \A i \in DOMAIN b.writes : b.writes[i].expires_at \in Nat
      BY <1>2, <1>4 DEF Leasing
    <2> QED BY <1>2, <1>3, <1>4, <1>6, <2>1, <2>2, <2>3, LeasingSame
  <1>9. /\ ~Atomic(a) /\ a.lease.state # "completed" /\ DOMAIN a.writes = {} /\ DOMAIN a.reserved = {}
        /\ batch # NoRow /\ batch.token = a.lease.token =>
             batch.run = a.lease.run /\ batch.request = a.lease.request
    BY <1>2 DEF IInv, LeasesCoherent
  <1>10. /\ batch.state \in {"processing", "partially_committed"} /\ batch.token = a.lease.token
         /\ batch.receipts = a.lease.receipts /\ batch # NoRow
    BY IdleFacts DEF Active
  <1>11. batch \in Rows /\ batch.run = a.lease.run /\ batch.request = a.lease.request
    BY <1>1, <1>9, <1>10 DEF TypeOK
  <1>12. /\ \A i \in Items : effects[batch.run][i] = IF i <= Progress(batch) THEN 1 ELSE 0
         /\ \A i \in 1..Progress(batch) : batch.receipts[i] = [item |-> i, run |-> batch.run]
         /\ Progress(batch) <= N /\ Progress(batch) \in Nat
    BY <1>10, <1>11, RowFacts DEF IInv, ProgressExact, RowCoherent
  <1>13. Progress(b.lease) = Progress(batch) /\ Progress(a.lease) = Progress(batch)
    BY <1>6, <1>10 DEF SameLease, Progress
  <1>14. Wrote(b)
    BY <1>4, <1>6, <1>9, <1>10, <1>11, <1>12, <1>13 DEF Wrote, SameLease
  <1>15. Based(b)
    BY <1>4, <1>6, <1>7, <1>9, <1>10, <1>11, <1>12, <1>13 DEF Based, SameLease, Atomic
  <1>16. Reserves(b)
    <2>1. Purpose(a) = "reserving" => Progress(a.lease) < N
      BY DEF Purpose
    <2>2. Purpose(a) = "finishing" => ~(Progress(a.lease) < N)
      BY DEF Purpose
    <2>3. ~Atomic(b) /\ DOMAIN b.reserved = {} /\ N \in Nat
      BY <1>4, <1>9, BatchAssumption DEF Atomic
    <2> QED BY <1>4, <1>7, <1>12, <1>13, <2>1, <2>2, <2>3 DEF Reserves
  <1>17. Working(w, b)
    BY <1>1, <1>2, <1>4, <1>5, <1>6, <1>8, <1>14, <1>15, <1>16 DEF Working, SameLease
  <1> QED BY <1>17

\* Moving on inside the transaction, with the same progress.
LEMMA MovesOn ==
  ASSUME IInv, NEW w \in Workers, HasLease(work[w]), work[w].stage \notin {"leased", "opening", "committing"},
         NEW b, work'[w] = b, OthersWork(w),
         UNCHANGED <<batch, items, clock, tokens, answer, effects>>,
         DOMAIN b = DOMAIN work[w], b.tx = work[w].tx, b.request = work[w].request,
         b.now = work[w].now, b.writes = work[w].writes,
         b.stage \in {"proving", "reserving", "applying", "recording", "closing", "finishing",
                      "committing"},
         SameLease(work[w].lease, b.lease), Reserves(b)
  PROVE  Working(w, b)
  <1> DEFINE a == work[w]
  <1>1. /\ Leasing(a) /\ a.tx /\ Wrote(a) /\ Based(a) /\ a.lease.state # "completed"
    BY TxFacts
  <1>2. b.tx = (b.stage \notin {"leased", "opening"})
    BY <1>1 DEF Leasing
  <1>3. \A i \in DOMAIN b.writes : b.writes[i].expires_at \in Nat
    BY <1>1 DEF Leasing
  <1>4. b.now \in Nat
    BY <1>1 DEF Leasing
  <1>5. Leasing(b)
    BY <1>1, <1>2, <1>3, <1>4, LeasingSame
  <1>6. Wrote(b) /\ Based(b)
    BY <1>1, WroteSame, BasedSame
  <1> QED BY <1>1, <1>5, <1>6 DEF Working, SameLease

\* _prove_prefix() goes on, or is rolled back.
LEMMA ProveFacts ==
  ASSUME IInv, NEW w \in Workers, Prove(w)
  PROVE  (\E b : Working(w, b)) \/ RolledBack(w)
  <1> DEFINE a == work[w]
             p == [a EXCEPT !.unproven = @ - 1]
             b1 == [p EXCEPT !.stage = "committing"]
             b2 == [p EXCEPT !.lease = RenewedAt(@, clock)]
  <1>1. a.stage = "proving" /\ HasLease(a) /\ UNCHANGED <<clock, tokens>>
    BY DEF Prove, At, HasLease
  <1>2. TypeOK /\ Leasing(a) /\ a.tx /\ Reserves(a) /\ a.lease \in Rows /\ clock \in Nat
    BY <1>1, TxFacts
  <1>3. /\ DOMAIN b1 = DOMAIN a /\ b1.stage = "committing" /\ b1.tx = a.tx /\ b1.request = a.request
        /\ b1.lease = a.lease /\ b1.now = a.now /\ b1.reserved = a.reserved /\ b1.writes = a.writes
    BY <1>2 DEF Leasing
  <1>4. /\ DOMAIN b2 = DOMAIN a /\ b2.stage = a.stage /\ b2.tx = a.tx /\ b2.request = a.request
        /\ b2.lease = RenewedAt(a.lease, clock) /\ b2.now = a.now /\ b2.reserved = a.reserved
        /\ b2.writes = a.writes
    BY <1>2 DEF Leasing
  <1>5. \/ Move(w, b1) /\ UNCHANGED <<batch, items, answer, effects>>
        \/ Move(w, b2) /\ UNCHANGED <<batch, items, answer, effects>>
        \/ RolledBack(w)
    BY DEF Prove
  <1> HIDE DEF b1, b2
  <1>6. ASSUME NEW b, Move(w, b), UNCHANGED <<batch, items, answer, effects>>,
               DOMAIN b = DOMAIN a, b.tx = a.tx, b.request = a.request, b.now = a.now,
               b.writes = a.writes, b.reserved = a.reserved, b.stage \in {"proving", "committing"},
               SameLease(a.lease, b.lease)
        PROVE  Working(w, b)
    <2>1. work'[w] = b /\ OthersWork(w)
      BY <1>2, <1>6, MoveFacts
    <2>2. Reserves(b)
      BY <1>1, <1>2, <1>6 DEF Reserves, Atomic
    <2> QED BY <1>1, <1>6, <2>1, <2>2, MovesOn
  <1>7. SameLease(a.lease, b1.lease) /\ SameLease(a.lease, b2.lease)
    BY <1>2, <1>3, <1>4, RenewedFacts DEF SameLease
  <1>8. CASE Move(w, b1) /\ UNCHANGED <<batch, items, answer, effects>>
    BY <1>3, <1>6, <1>7, <1>8
  <1>9. CASE Move(w, b2) /\ UNCHANGED <<batch, items, answer, effects>>
    <2>1. b2.stage \in {"proving", "committing"}
      BY <1>1, <1>4
    <2> QED BY <1>4, <1>6, <1>7, <1>9, <2>1
  <1> QED BY <1>5, <1>8, <1>9

\* The next item has no retained row: rows that are retained are of the prefix.
LEMMA NotStored ==
  ASSUME IInv, NEW w \in Workers, HasLease(work[w]), work[w].stage = "reserving", NEW i \in Items,
         Atomic(work[w]) \/ i > Progress(work[w].lease)
  PROVE  ~Stored(i)
  <1> DEFINE a == work[w]
  <1>1. Based(a) /\ clock \in Nat /\ TypeOK /\ Progress(a.lease) \in Nat
    BY TxFacts
  <1> SUFFICES ASSUME Stored(i) PROVE FALSE
    OBVIOUS
  <1>2. i \in DOMAIN items /\ items[i].expires_at > clock /\ items[i].expires_at \in Nat
    BY <1>1 DEF Stored, TypeOK
  <1>3. batch # NoRow /\ i <= Progress(batch)
    BY <1>2 DEF IInv, ItemsCovered
  <1>4. CASE Atomic(a)
    <2>1. batch.state = "completed" /\ batch.retention_expires_at <= clock
      BY <1>1, <1>3, <1>4 DEF Based
    <2>2. items[i].expires_at <= batch.retention_expires_at
      BY <1>2, <1>3, <2>1 DEF IInv, RowCoherent
    <2>3. batch.retention_expires_at \in Nat
      BY <1>1, <1>3, RowFacts DEF TypeOK
    <2> QED BY <1>1, <1>2, <2>1, <2>2, <2>3
  <1>5. CASE ~Atomic(a)
    <2>1. batch.receipts = a.lease.receipts
      BY <1>1, <1>5 DEF Based
    <2>2. i \in Nat /\ Progress(batch) = Progress(a.lease)
      BY <2>1 DEF Progress, Items
    <2> QED BY <1>1, <1>3, <1>5, <2>2
  <1> QED BY <1>4, <1>5

\* An item is reserved or replayed, or the answer is a conflict or uncertain.
LEMMA ReserveFacts ==
  ASSUME IInv, NEW w \in Workers, Reserve(w)
  PROVE  \/ \E b : Working(w, b)
         \/ \E kind \in {"uncertain", "conflict"} :
                Answer(w, [kind |-> kind]) /\ UNCHANGED <<batch, items, clock, tokens, effects>>
  <1> DEFINE a == work[w]
             done == Progress(a.lease)
             i == done + Cardinality(DOMAIN a.reserved) + 1
             item == Reservation(i, a.request)
             all == AllOrNothing(w)
             lease == IF all THEN RenewedAt(a.lease, clock) ELSE a.lease
             reserved == [j \in DOMAIN a.reserved \cup {i} |-> IF j = i THEN item ELSE a.reserved[j]]
             b == [a EXCEPT !.stage = IF all /\ i < N THEN "reserving" ELSE "applying",
                            !.lease = lease, !.reserved = reserved]
  <1>1. a.stage = "reserving" /\ HasLease(a) /\ UNCHANGED <<clock, tokens>>
    BY DEF Reserve, At, HasLease
  <1>2. /\ TypeOK /\ Leasing(a) /\ a.tx /\ Reserves(a) /\ a.lease \in Rows /\ clock \in Nat
        /\ done \in Nat /\ (all <=> Atomic(a)) /\ N \in Nat /\ LeaseTtl \in Nat
    BY <1>1, TxFacts, BatchAssumption
  <1>3. \/ Move(w, b) /\ UNCHANGED <<batch, items, answer, effects>>
        \/ \E kind \in {"uncertain", "conflict"} :
                Answer(w, [kind |-> kind]) /\ UNCHANGED <<batch, items, effects>>
    BY DEF Reserve
  <1>4. ASSUME Move(w, b), UNCHANGED <<batch, items, answer, effects>> PROVE Working(w, b)
    <2>1. /\ DOMAIN b = DOMAIN a /\ b.stage = (IF all /\ i < N THEN "reserving" ELSE "applying")
          /\ b.tx = a.tx /\ b.request = a.request /\ b.lease = lease /\ b.now = a.now
          /\ b.reserved = reserved /\ b.writes = a.writes
      BY <1>2 DEF Leasing
    <2>2. work'[w] = b /\ OthersWork(w)
      BY <1>2, <1>4, MoveFacts
    <2>3. SameLease(a.lease, b.lease)
      <3>1. SameLease(a.lease, RenewedAt(a.lease, clock))
        BY <1>2, RenewedFacts
      <3>2. SameLease(a.lease, a.lease)
        BY <1>2 DEF SameLease
      <3>3. b.lease = RenewedAt(a.lease, clock) \/ b.lease = a.lease
        BY <2>1
      <3> HIDE DEF b
      <3> QED BY <3>1, <3>2, <3>3
    <2>4. PICK c \in 0..(N - 1) : DOMAIN a.reserved = 1..c /\ done + c < N
                                  /\ IF all THEN done = 0 ELSE c = 0
      <3>1. CASE all
        BY <1>1, <1>2, <3>1 DEF Reserves
      <3>2. CASE ~all
        <4>1. DOMAIN a.reserved = {} /\ done < N
          BY <1>1, <1>2, <3>2 DEF Reserves
        <4>2. 1..0 = {} /\ 0 \in 0..(N - 1)
          BY <1>2, <4>1
        <4> QED BY <1>2, <3>2, <4>1, <4>2
      <3> QED BY <3>1, <3>2
    <2>5. Cardinality(1..c) = c
      BY <2>4, FS_Interval
    <2>6. i = done + c + 1 /\ i \in Items /\ i <= N
      BY <1>2, <2>4, <2>5 DEF Items
    <2> HIDE DEF i
    <2>7. ~Stored(i)
      <3>1. Atomic(a) \/ i > done
        BY <1>2, <2>4, <2>6
      <3> QED BY <1>1, <2>6, <3>1, NotStored
    <2>8. item \in [kind : {"execute"}, until : Nat]
      BY <1>2, <2>7 DEF Reservation
    <2> HIDE DEF item
    <2>9. \A j \in DOMAIN b.reserved : b.reserved[j] \in [kind : {"execute"}, until : Nat]
      BY <1>2, <2>1, <2>8 DEF Reserves
    <2>10. DOMAIN b.reserved = 1..c \cup {i}
      BY <2>1, <2>4
    <2> HIDE DEF reserved, lease, b
    <2>11. Progress(b.lease) = done
      BY <2>3 DEF SameLease, Progress
    <2> HIDE DEF done
    <2>12. Reserves(b)
      <3>1. CASE all
        <4>1. DOMAIN b.reserved = 1..(c + 1) /\ done = 0 /\ i = c + 1
          BY <1>2, <2>4, <2>6, <2>10, <3>1
        <4>2. Atomic(b)
          BY <1>2, <2>1, <3>1 DEF Atomic
        <4>3. CASE i < N
          <5>1. b.stage = "reserving" /\ c + 1 \in 0..(N - 1)
            BY <1>2, <2>1, <2>4, <3>1, <4>1, <4>3
          <5> QED BY <1>2, <2>9, <2>11, <4>1, <4>2, <4>3, <5>1 DEF Reserves
        <4>4. CASE ~(i < N)
          <5>1. b.stage = "applying" /\ c + 1 = N /\ 0 < N
            BY <1>2, <2>1, <2>4, <2>6, <4>1, <4>4
          <5> QED BY <2>9, <2>11, <4>1, <4>2, <5>1 DEF Reserves, Items
        <4> QED BY <4>3, <4>4
      <3>2. CASE ~all
        <4>1. b.stage = "applying" /\ ~Atomic(b) /\ i = done + 1 /\ done < N
          BY <1>2, <2>1, <2>4, <2>6, <3>2 DEF Atomic
        <4> QED BY <2>9, <2>10, <2>11, <4>1 DEF Reserves
      <3> QED BY <3>1, <3>2
    <2> QED BY <1>1, <1>4, <2>1, <2>2, <2>3, <2>12, MovesOn
  <1> QED BY <1>1, <1>3, <1>4

\* The mutation, which may fail.
LEMMA ApplyFacts ==
  ASSUME IInv, NEW w \in Workers, Apply(w)
  PROVE  (\E b : Working(w, b)) \/ RolledBack(w)
  <1> DEFINE a == work[w]
             done == Progress(a.lease)
             i == done + 1
             b == [a EXCEPT !.stage = "recording", !.lease = RenewedAt(@, clock),
                            !.reserved[i] = IF a.reserved[i].kind = "execute"
                                            THEN [@ EXCEPT !.until = clock + LeaseTtl] ELSE @]
  <1>1. a.stage = "applying" /\ HasLease(a) /\ UNCHANGED <<clock, tokens>>
    BY DEF Apply, At, HasLease
  <1>2. /\ TypeOK /\ Leasing(a) /\ a.tx /\ Reserves(a) /\ a.lease \in Rows /\ clock \in Nat
        /\ done \in Nat /\ N \in Nat /\ clock + LeaseTtl \in Nat
    BY <1>1, TxFacts, BatchAssumption
  <1>3. \/ Move(w, b) /\ UNCHANGED <<batch, items, answer, effects>>
        \/ RolledBack(w)
    BY DEF Apply
  <1>4. ASSUME Move(w, b), UNCHANGED <<batch, items, answer, effects>> PROVE Working(w, b)
    <2>1. i \in DOMAIN a.reserved /\ \A j \in DOMAIN a.reserved : a.reserved[j] \in [kind : {"execute"}, until : Nat]
      BY <1>1, <1>2 DEF Reserves, Items
    <2> DEFINE until == [a.reserved[i] EXCEPT !.until = clock + LeaseTtl]
               reserved == [a.reserved EXCEPT ![i] = until]
    <2>2. until \in [kind : {"execute"}, until : Nat]
      BY <1>2, <2>1
    <2>3. /\ DOMAIN b = DOMAIN a /\ b.stage = "recording"
          /\ b.tx = a.tx /\ b.request = a.request /\ b.lease = RenewedAt(a.lease, clock)
          /\ b.now = a.now /\ b.writes = a.writes /\ b.reserved = reserved
      BY <1>2, <2>1 DEF Leasing
    <2>4. work'[w] = b /\ OthersWork(w)
      BY <1>2, <1>4, MoveFacts
    <2>5. SameLease(a.lease, b.lease)
      BY <1>2, <2>3, RenewedFacts
    <2> HIDE DEF b, until
    <2>6. DOMAIN b.reserved = DOMAIN a.reserved
          /\ \A j \in DOMAIN b.reserved : b.reserved[j] \in [kind : {"execute"}, until : Nat]
      BY <2>1, <2>2, <2>3
    <2>7. Progress(b.lease) = done
      BY <2>5 DEF SameLease, Progress
    <2>8. Reserves(b)
      BY <1>1, <1>2, <2>3, <2>6, <2>7 DEF Reserves, Atomic
    <2> QED BY <1>1, <1>4, <2>3, <2>4, <2>5, <2>8, MovesOn
  <1> QED BY <1>3, <1>4

\* The end of the items.
LEMMA CloseFacts ==
  ASSUME IInv, NEW w \in Workers, Close(w)
  PROVE  (\E b : Working(w, b)) \/ RolledBack(w)
  <1> DEFINE a == work[w]
             b == [a EXCEPT !.stage = "finishing", !.lease = RenewedAt(@, clock)]
  <1>1. a.stage = "closing" /\ HasLease(a) /\ UNCHANGED <<clock, tokens>>
    BY DEF Close, At, HasLease
  <1>2. /\ TypeOK /\ Leasing(a) /\ a.tx /\ Reserves(a) /\ a.lease \in Rows /\ clock \in Nat
    BY <1>1, TxFacts
  <1>3. \/ Move(w, b) /\ UNCHANGED <<batch, items, answer, effects>>
        \/ RolledBack(w)
    BY DEF Close
  <1>4. ASSUME Move(w, b), UNCHANGED <<batch, items, answer, effects>> PROVE Working(w, b)
    <2>1. /\ DOMAIN b = DOMAIN a /\ b.stage = "finishing"
          /\ b.tx = a.tx /\ b.request = a.request /\ b.lease = RenewedAt(a.lease, clock)
          /\ b.now = a.now /\ b.writes = a.writes /\ b.reserved = a.reserved
      BY <1>2 DEF Leasing
    <2>2. work'[w] = b /\ OthersWork(w)
      BY <1>2, <1>4, MoveFacts
    <2>3. SameLease(a.lease, b.lease)
      BY <1>2, <2>1, RenewedFacts
    <2> HIDE DEF b
    <2>4. Progress(b.lease) = Progress(a.lease)
      BY <2>3 DEF SameLease, Progress
    <2>5. Reserves(b)
      BY <1>1, <1>2, <2>1, <2>4 DEF Reserves, Atomic
    <2> QED BY <1>1, <1>4, <2>1, <2>2, <2>3, <2>5, MovesOn
  <1> QED BY <1>3, <1>4

\* Recording a receipt and advancing the lease with it.
LEMMA RecordFacts ==
  ASSUME IInv, NEW w \in Workers, Record(w)
  PROVE  (\E b : Working(w, b)) \/ RolledBack(w)
  <1> DEFINE a == work[w]
             done == Progress(a.lease)
             i == done + 1
             item == a.reserved[i]
             receipt == IF item.kind = "execute" THEN [item |-> i, run |-> a.lease.run] ELSE item.value
             row == [value |-> receipt, payload |-> a.request.payload, expires_at |-> clock + RetentionTtl]
             lease == [RenewedAt(a.lease, clock) EXCEPT
                          !.receipts = Append(@, receipt), !.state = "partially_committed"]
             b == [a EXCEPT
                    !.stage = IF ~AllOrNothing(w) THEN "committing"
                              ELSE IF i < N THEN "applying" ELSE "closing",
                    !.lease = lease,
                    !.writes = IF item.kind = "execute"
                               THEN [j \in DOMAIN @ \cup {i} |-> IF j = i THEN row ELSE @[j]]
                               ELSE @]
  <1>1. a.stage = "recording" /\ HasLease(a) /\ UNCHANGED <<clock, tokens>>
    BY DEF Record, At, HasLease
  <1>2. /\ TypeOK /\ Leasing(a) /\ a.tx /\ Wrote(a) /\ Reserves(a) /\ Based(a) /\ a.lease \in Rows
        /\ clock \in Nat /\ done \in Nat /\ N \in Nat /\ clock + RetentionTtl \in Nat
        /\ (AllOrNothing(w) <=> Atomic(a)) /\ a.lease.state # "completed"
    BY <1>1, TxFacts, BatchAssumption
  <1>3. \/ Move(w, b) /\ UNCHANGED <<batch, items, answer, effects>>
        \/ RolledBack(w)
    BY DEF Record
  <1>4. ASSUME Move(w, b), UNCHANGED <<batch, items, answer, effects>> PROVE Working(w, b)
    <2>1. i \in DOMAIN a.reserved /\ item.kind = "execute" /\ done < N
      BY <1>1, <1>2 DEF Reserves, Items
    <2> DEFINE writes == [j \in DOMAIN a.writes \cup {i} |-> IF j = i THEN row ELSE a.writes[j]]
    <2>2. /\ DOMAIN b = DOMAIN a
          /\ b.stage = (IF ~AllOrNothing(w) THEN "committing" ELSE IF i < N THEN "applying" ELSE "closing")
          /\ b.tx = a.tx /\ b.request = a.request /\ b.lease = lease
          /\ b.now = a.now /\ b.reserved = a.reserved /\ b.writes = writes
      BY <1>2, <2>1 DEF Leasing
    <2>3. work'[w] = b /\ OthersWork(w)
      BY <1>2, <1>4, MoveFacts
    <2>4. receipt = [item |-> i, run |-> a.lease.run] /\ row.expires_at = clock + RetentionTtl
      BY <2>1
    <2>5. receipt \in [item : Items, run : Runs]
      BY <1>2, <2>1, <2>4, RowFacts DEF Items
    <2> HIDE DEF receipt, row, item, b
    <2>6. a.lease.receipts \in Seq([item : Items, run : Runs]) /\ done = Len(a.lease.receipts)
      BY <1>2, RowFacts DEF Progress
    <2> DEFINE receipts == Append(a.lease.receipts, receipt)
    <2>7. /\ receipts \in Seq([item : Items, run : Runs]) /\ Len(receipts) = i /\ receipts[i] = receipt
          /\ \A j \in 1..done : receipts[j] = a.lease.receipts[j]
      BY <2>5, <2>6
    <2>8. SameLease(a.lease, RenewedAt(a.lease, clock))
      BY <1>2, RenewedFacts
    <2>9. /\ lease \in Rows /\ lease.run = a.lease.run /\ lease.request = a.lease.request
          /\ lease.token = a.lease.token /\ lease.state = "partially_committed"
          /\ lease.receipts = receipts
      <3> DEFINE L == RenewedAt(a.lease, clock)
      <3> HIDE DEF L
      <3>1. /\ L \in Rows /\ L.run = a.lease.run /\ L.request = a.lease.request
            /\ L.token = a.lease.token /\ L.receipts = a.lease.receipts
        BY <2>8 DEF SameLease, L
      <3>2. lease = [L EXCEPT !.receipts = Append(@, receipt), !.state = "partially_committed"]
        BY DEF L
      <3> HIDE DEF lease
      <3> QED BY <2>7, <3>1, <3>2 DEF Rows
    <2> HIDE DEF lease, receipts, writes
    <2>10. Progress(b.lease) = i
      BY <2>2, <2>7, <2>9 DEF Progress
    <2>11. DOMAIN writes = DOMAIN a.writes \cup {i} /\ writes[i] = row
           /\ \A j \in DOMAIN a.writes : j # i => writes[j] = a.writes[j]
      BY DEF writes
    <2>12. /\ \A j \in 1..done : a.lease.receipts[j] = [item |-> j, run |-> a.lease.run]
           /\ DOMAIN a.writes \subseteq 1..done
           /\ \A j \in Items : effects[a.lease.run][j] =
                 IF j <= done /\ j \notin DOMAIN a.writes THEN 1 ELSE 0
           /\ \A j \in DOMAIN a.writes : a.writes[j].expires_at <= clock + RetentionTtl
      BY <1>2 DEF Wrote
    <2>13. \A j \in DOMAIN a.writes : a.writes[j].expires_at \in Nat
      BY <1>2 DEF Leasing
    <2> HIDE DEF done
    <2>14. i \in Items /\ i <= N /\ 1..i = 1..done \cup {i} /\ i \notin 1..done
      BY <1>2, <2>1 DEF Items
    <2>15. Wrote(b)
      <3>1. \A j \in 1..i : b.lease.receipts[j] = [item |-> j, run |-> b.lease.run]
        BY <2>2, <2>4, <2>7, <2>9, <2>12, <2>14 DEF receipts
      <3>2. DOMAIN b.writes \subseteq 1..i
        BY <2>2, <2>11, <2>12, <2>14
      <3>3. ASSUME NEW j \in Items
            PROVE  effects[b.lease.run][j] = IF j <= i /\ j \notin DOMAIN b.writes THEN 1 ELSE 0
        <4>1. j \in Nat /\ (j <= i <=> j <= done \/ j = i) /\ (j = i => ~(j <= done))
          BY <1>2 DEF Items
        <4> HIDE DEF i
        <4> QED BY <2>2, <2>9, <2>11, <2>12, <4>1
      <3>4. \A j \in DOMAIN b.writes : b.writes[j].expires_at <= clock + RetentionTtl
        <4>1. writes[i].expires_at <= clock + RetentionTtl
          BY <1>2, <2>4, <2>11
        <4> QED BY <2>2, <2>11, <2>12, <4>1
      <3>5. b.lease.state # "completed"
        BY <2>2, <2>9
      <3> QED BY <2>10, <2>14, <3>1, <3>2, <3>3, <3>4, <3>5 DEF Wrote
    <2>16. Reserves(b)
      <3>1. Atomic(b) <=> AllOrNothing(w)
        BY <1>2, <2>2 DEF Atomic
      <3>2. \A j \in DOMAIN b.reserved : b.reserved[j] \in [kind : {"execute"}, until : Nat]
        BY <1>2, <2>2 DEF Reserves
      <3>3. CASE ~AllOrNothing(w)
        <4>1. b.stage = "committing"
          BY <2>2, <3>3
        <4> QED BY <3>1, <3>2, <3>3, <4>1 DEF Reserves
      <3>4. CASE AllOrNothing(w) /\ i < N
        <4>1. b.stage = "applying" /\ DOMAIN b.reserved = Items
          BY <1>1, <1>2, <2>2, <3>4 DEF Reserves
        <4> QED BY <2>10, <3>1, <3>2, <3>4, <4>1 DEF Reserves
      <3>5. CASE AllOrNothing(w) /\ ~(i < N)
        <4>1. b.stage = "closing" /\ i = N
          BY <1>2, <2>2, <2>14, <3>5
        <4> QED BY <2>10, <3>1, <3>2, <3>5, <4>1 DEF Reserves
      <3> QED BY <3>3, <3>4, <3>5
    <2>17. Based(b)
      <3>1. CASE Atomic(a)
        BY <1>2, <2>2, <3>1 DEF Based, Atomic
      <3>2. CASE ~Atomic(a)
        <4>1. b.stage = "committing" /\ ~Atomic(b)
          BY <1>2, <2>2, <3>2 DEF Atomic
        <4>2. batch.receipts = a.lease.receipts
          BY <1>1, <1>2, <3>2 DEF Based
        <4>3. Progress(batch) <= i
          BY <1>2, <4>2 DEF Progress, done
        <4> QED BY <1>2, <2>2, <2>9, <2>10, <3>2, <4>1, <4>3 DEF Based
      <3> QED BY <3>1, <3>2
    <2>18. Leasing(b)
      <3>1. \A j \in DOMAIN b.writes : b.writes[j].expires_at \in Nat
        BY <1>2, <2>2, <2>4, <2>11, <2>13
      <3>2. b.stage \in {"committing", "applying", "closing"}
        BY <2>2
      <3>3. b.lease \in Rows /\ b.lease.request = b.request /\ b.lease.token <= tokens /\ b.lease.run <= tokens
        BY <1>2, <2>2, <2>9 DEF Leasing
      <3> QED BY <1>2, <2>2, <3>1, <3>2, <3>3 DEF Leasing
    <2> QED BY <1>1, <1>2, <1>4, <2>2, <2>3, <2>9, <2>15, <2>16, <2>17, <2>18 DEF Working
  <1> QED BY <1>3, <1>4

\* Completing the batch in its transaction.
LEMMA FinishFacts ==
  ASSUME IInv, NEW w \in Workers, Finish(w),
         Move(w, [work[w] EXCEPT !.stage = "committing",
                !.lease = [@ EXCEPT !.state = "completed",
                                    !.retention_expires_at = clock + RetentionTtl]]),
         UNCHANGED <<batch, items, answer, effects>>
  PROVE  \E b : Working(w, b)
  <1> DEFINE a == work[w]
             lease == [a.lease EXCEPT !.state = "completed",
                                      !.retention_expires_at = clock + RetentionTtl]
             b == [a EXCEPT !.stage = "committing",
                            !.lease = [@ EXCEPT !.state = "completed",
                                                !.retention_expires_at = clock + RetentionTtl]]
  <1>1. a.stage = "finishing" /\ HasLease(a) /\ UNCHANGED <<clock, tokens>>
    BY DEF Finish, At, HasLease
  <1>2. /\ TypeOK /\ Leasing(a) /\ a.tx /\ Wrote(a) /\ Reserves(a) /\ Based(a) /\ a.lease \in Rows
        /\ clock + RetentionTtl \in Nat
    BY <1>1, TxFacts, BatchAssumption
  <1>3. /\ DOMAIN b = DOMAIN a /\ b.stage = "committing" /\ b.tx = a.tx /\ b.request = a.request
        /\ b.lease = lease /\ b.now = a.now /\ b.reserved = a.reserved /\ b.writes = a.writes
    BY <1>2 DEF Leasing
  <1>4. work'[w] = b /\ OthersWork(w)
    BY <1>2, MoveFacts
  <1>5. /\ lease \in Rows /\ lease.run = a.lease.run /\ lease.request = a.lease.request
        /\ lease.token = a.lease.token /\ lease.state = "completed"
        /\ lease.retention_expires_at = clock + RetentionTtl
        /\ lease.receipts = a.lease.receipts
    BY <1>2 DEF Rows
  <1> HIDE DEF b, lease
  <1>6. Progress(b.lease) = Progress(a.lease) /\ Progress(a.lease) = N
    BY <1>1, <1>2, <1>3, <1>5 DEF Progress, Reserves
  <1>7. \A i \in DOMAIN items : items[i].expires_at <= clock + RetentionTtl
    BY DEF IInv, ItemsCovered
  <1>8. Wrote(b)
    BY <1>2, <1>3, <1>5, <1>6, <1>7 DEF Wrote
  <1>9. Reserves(b)
    BY <1>2, <1>3, <1>5 DEF Reserves
  <1>10. Based(b)
    BY <1>1, <1>2, <1>3, <1>5, <1>6 DEF Based, Atomic
  <1>11. Leasing(b)
    BY <1>2, <1>3, <1>5 DEF Leasing
  <1>12. Working(w, b)
    BY <1>1, <1>2, <1>3, <1>4, <1>5, <1>8, <1>9, <1>10, <1>11 DEF Working
  <1> QED BY <1>12

----------------------------------------------------------------------------
\* Outside: w is idle again, or begins, with an answer that may be the row's.
OthersAnswer(w) == DOMAIN answer' = Workers /\ \A v \in Workers : v # w => answer'[v] = answer[v]

Told(reply, row) ==
    reply.kind \in {"committed", "replay"} =>
        reply.receipts = row.receipts /\ row \in Rows /\ row.state = "completed"

Resting(w) ==
    /\ work'[w] = Idle \/ Beginning(work'[w])
    /\ OthersWork(w) /\ OthersAnswer(w) /\ Told(answer'[w], batch)
    /\ UNCHANGED <<batch, items, clock, tokens, effects>>

\* An answer ends the work of its worker.
LEMMA AnswerFacts ==
  ASSUME TypeOK, NEW w \in Workers, NEW reply, Answer(w, reply)
  PROVE  work'[w] = Idle /\ OthersWork(w) /\ OthersAnswer(w) /\ answer'[w] = reply
  BY DEF TypeOK, Answer, OthersWork, OthersAnswer

\* An answer that is true and writes nothing.
LEMMA RestingFacts ==
  ASSUME TypeOK, NEW w \in Workers, NEW reply, Answer(w, reply), Told(reply, batch),
         UNCHANGED <<batch, items, clock, tokens, effects>>
  PROVE  Resting(w)
  BY AnswerFacts DEF Resting

\* The start of execute().
LEMMA ExecuteFacts ==
  ASSUME TypeOK, NEW w \in Workers, NEW asked \in Requests, Execute(w, asked)
  PROVE  Resting(w)
  <1> DEFINE b == [stage |-> "beginning", tx |-> FALSE, request |-> asked, now |-> clock]
  <1>1. clock \in Nat
    BY DEF TypeOK
  <1>2. clock \in 0..clock
    BY <1>1
  <1>3. Beginning(b)
    BY <1>2 DEF Beginning
  <1>4. Move(w, b) /\ UNCHANGED <<batch, items, clock, tokens, effects>>
        /\ answer' = [answer EXCEPT ![w] = NoAnswer]
    BY DEF Execute
  <1> HIDE DEF b
  <1>5. work'[w] = b /\ OthersWork(w)
    BY <1>4, MoveFacts
  <1>6. OthersAnswer(w) /\ answer'[w] = NoAnswer
    BY <1>4 DEF TypeOK, OthersAnswer
  <1>7. Told(NoAnswer, batch)
    BY DEF Told, NoAnswer
  <1> QED BY <1>3, <1>4, <1>5, <1>6, <1>7 DEF Resting

\* What begin() decides on a row.
LEMMA DecisionFacts ==
  ASSUME NEW row \in Rows \cup {NoRow}, NEW asked, NEW now \in Nat
  PROVE  LET kind == Decision(row, asked, now) IN
         /\ kind \in {"create", "conflict", "replay", "uncertain", "in_progress", "resume"}
         /\ kind = "create" => row = NoRow
         /\ kind = "replay" => row \in Rows /\ row.state = "completed"
         /\ kind = "resume" => /\ row \in Rows /\ row.request = asked
                               /\ row.state \in {"processing", "partially_committed"}
                               /\ row.lease_expires_at <= now
  <1>1. CASE row = NoRow
    BY <1>1 DEF Decision
  <1>2. CASE row \in Rows
    <2>1. /\ row # NoRow /\ row.state \in {"processing", "partially_committed", "completed"}
          /\ row.lease_expires_at \in Nat
      BY <1>2, RowFacts
    <2>2. CASE row.request # asked
      BY <2>1, <2>2 DEF Decision
    <2>3. CASE row.request = asked /\ row.state = "completed"
      BY <1>2, <2>1, <2>3 DEF Decision
    <2>4. CASE row.request = asked /\ row.state # "completed"
      BY <1>2, <2>1, <2>4 DEF Decision
    <2> QED BY <2>2, <2>3, <2>4
  <1> QED BY <1>1, <1>2

\* A lease is issued to w: of a new run, or of the run whose lease is over.
Issuing(w, L) ==
    LET b == work'[w] IN
    /\ Unlocked /\ L \in Rows /\ L.token = tokens + 1 /\ tokens' = tokens + 1
    /\ tokens + 1 \in Runs
    /\ OthersWork(w)
    /\ DOMAIN b = {"stage", "tx", "request", "lease", "now", "unproven", "reserved", "writes"}
    /\ b.request = L.request /\ b.lease = L /\ b.now = 0
    /\ DOMAIN b.reserved = {} /\ DOMAIN b.writes = {}
    /\ b.tx = Atomic(b) /\ b.stage = (IF Atomic(b) THEN "reserving" ELSE "leased")
    /\ batch' = IF Atomic(b) THEN batch ELSE L
    /\ \/ /\ L.run = tokens + 1 /\ L.receipts = << >> /\ L.state = "processing"
          /\ batch # NoRow => batch.state = "completed" /\ batch.retention_expires_at <= clock
       \/ /\ batch \in Rows /\ batch.state \in {"processing", "partially_committed"}
          /\ batch.lease_expires_at <= clock
          /\ L.run = batch.run /\ L.receipts = batch.receipts /\ L.state = batch.state
          /\ L.request = batch.request
    /\ UNCHANGED <<items, clock, answer, effects>>

\* begin() refuses, or issues a lease.
LEMMA BeginFacts ==
  ASSUME IInv, NEW w \in Workers, Begin(w)
  PROVE  Resting(w) \/ \E L : Issuing(w, L)
  <1> DEFINE asked == work[w].request
             now == work[w].now
             row == Retained(batch, now)
             kind == Decision(row, asked, now)
             lease == IF kind = "create" THEN Created(asked, now)
                      ELSE [RenewedAt(row, now) EXCEPT !.token = tokens + 1]
             tx == asked.policy = "all_or_nothing"
             b == [stage |-> IF tx THEN "reserving" ELSE "leased", tx |-> tx,
                   request |-> asked, lease |-> lease, now |-> 0,
                   unproven |-> IF kind = "resume" THEN Progress(lease) ELSE 0,
                   reserved |-> [i \in {} |-> 0], writes |-> [i \in {} |-> NoRow]]
  <1>1. TypeOK /\ Unlocked /\ work[w].stage = "beginning" /\ UNCHANGED <<items, clock, effects>>
    BY DEF IInv, Begin, At
  <1>2. clock \in Nat /\ asked \in Requests /\ now \in 0..clock /\ batch \in Rows \cup {NoRow}
    BY <1>1, WorkFacts DEF Beginning, TypeOK
  <1>3. now \in Nat /\ now <= clock
    BY <1>2
  <1>4. \/ /\ kind \notin {"create", "resume", "replay"} /\ Answer(w, [kind |-> kind])
           /\ UNCHANGED <<batch, tokens>>
        \/ /\ kind = "replay" /\ Answer(w, [kind |-> "replay", receipts |-> row.receipts])
           /\ UNCHANGED <<batch, tokens>>
        \/ /\ kind \in {"create", "resume"} /\ tokens < MaxTokens /\ tokens' = tokens + 1
           /\ Move(w, b)
           /\ batch' = IF asked.policy = "per_item" THEN lease ELSE batch
           /\ UNCHANGED answer
    BY DEF Begin, Leased
  <1>5. /\ row = batch \/ row = NoRow
        /\ batch # NoRow /\ row = NoRow => batch.state = "completed" /\ batch.retention_expires_at <= now
    BY DEF Retained
  <1>6. row \in Rows \cup {NoRow}
    BY <1>2, <1>5
  <1> HIDE DEF row
  <1>7. /\ kind \in {"create", "conflict", "replay", "uncertain", "in_progress", "resume"}
        /\ kind = "create" => row = NoRow
        /\ kind = "replay" => row \in Rows /\ row.state = "completed"
        /\ kind = "resume" => /\ row \in Rows /\ row.request = asked
                              /\ row.state \in {"processing", "partially_committed"}
                              /\ row.lease_expires_at <= now
    BY <1>3, <1>6, DecisionFacts
  <1> HIDE DEF kind
  <1>8. CASE /\ kind \notin {"create", "resume", "replay"} /\ Answer(w, [kind |-> kind])
             /\ UNCHANGED <<batch, tokens>>
    <2>1. Told([kind |-> kind], batch)
      BY <1>7, <1>8 DEF Told
    <2> QED BY <1>1, <1>8, <2>1, RestingFacts
  <1>9. CASE /\ kind = "replay" /\ Answer(w, [kind |-> "replay", receipts |-> row.receipts])
             /\ UNCHANGED <<batch, tokens>>
    <2>1. row = batch
      BY <1>5, <1>7, <1>9, IdleFacts
    <2>2. Told([kind |-> "replay", receipts |-> row.receipts], batch)
      BY <1>7, <1>9, <2>1 DEF Told
    <2> QED BY <1>1, <1>9, <2>2, RestingFacts
  <1>10. CASE /\ kind \in {"create", "resume"} /\ tokens < MaxTokens /\ tokens' = tokens + 1
              /\ Move(w, b)
              /\ batch' = IF asked.policy = "per_item" THEN lease ELSE batch
              /\ UNCHANGED answer
    <2>1. tokens \in Nat /\ tokens + 1 \in Runs /\ tokens + 1 \in Nat
      BY <1>1, <1>10, BatchAssumption DEF TypeOK, Runs
    <2>2. /\ lease \in Rows /\ lease.token = tokens + 1 /\ lease.request = asked
          /\ \/ /\ lease.run = tokens + 1 /\ lease.receipts = << >> /\ lease.state = "processing"
                /\ row = NoRow
             \/ /\ batch \in Rows /\ batch.state \in {"processing", "partially_committed"}
                /\ batch.lease_expires_at <= now
                /\ lease.run = batch.run /\ lease.receipts = batch.receipts
                /\ lease.state = batch.state /\ lease.request = batch.request
      <3>1. CASE kind = "create"
        <4>1. lease = Created(asked, now) /\ now + LeaseTtl \in Nat
          BY <1>3, <3>1, BatchAssumption
        <4>2. << >> \in Seq([item : Items, run : Runs])
          OBVIOUS
        <4>3. Created(asked, now) \in Rows
          BY <1>2, <2>1, <4>1, <4>2 DEF Created, Rows
        <4> HIDE DEF lease
        <4>4. /\ lease.token = tokens + 1 /\ lease.request = asked
              /\ lease.run = tokens + 1 /\ lease.receipts = << >> /\ lease.state = "processing"
          BY <4>1 DEF Created
        <4> QED BY <1>7, <3>1, <4>1, <4>3, <4>4
      <3>2. CASE kind = "resume"
        <4> DEFINE M == RenewedAt(row, now)
        <4>1. row \in Rows /\ row = batch
          BY <1>5, <1>7, <3>2, IdleFacts
        <4>2. SameLease(row, M)
          BY <1>3, <4>1, RenewedFacts
        <4>3. lease = [M EXCEPT !.token = tokens + 1]
          BY <3>2
        <4> HIDE DEF lease, M
        <4>4. /\ lease \in Rows /\ lease.token = tokens + 1 /\ lease.run = M.run
              /\ lease.receipts = M.receipts /\ lease.state = M.state /\ lease.request = M.request
          BY <2>1, <4>2, <4>3 DEF Rows, SameLease
        <4> QED BY <1>7, <3>2, <4>1, <4>2, <4>4 DEF SameLease
      <3> QED BY <1>10, <3>1, <3>2
    <2> HIDE DEF lease
    <2>3. /\ DOMAIN b = {"stage", "tx", "request", "lease", "now", "unproven", "reserved", "writes"}
          /\ b.request = asked /\ b.lease = lease /\ b.now = 0
          /\ DOMAIN b.reserved = {} /\ DOMAIN b.writes = {}
          /\ b.tx = tx /\ b.stage = IF tx THEN "reserving" ELSE "leased"
      OBVIOUS
    <2>4. work'[w] = b /\ OthersWork(w)
      BY <1>1, <1>10, MoveFacts
    <2> HIDE DEF b
    <2>5. tx = Atomic(b)
      BY <2>3 DEF Atomic
    <2>6. batch' = IF Atomic(b) THEN batch ELSE lease
      <3>1. asked.policy \in {"all_or_nothing", "per_item"}
        BY <1>2 DEF Requests
      <3> QED BY <1>10, <2>5, <3>1
    <2>7. batch # NoRow /\ row = NoRow => batch.state = "completed" /\ batch.retention_expires_at <= clock
      <3> SUFFICES ASSUME batch # NoRow, row = NoRow PROVE batch.state = "completed" /\ batch.retention_expires_at <= clock
        OBVIOUS
      <3>1. batch.retention_expires_at \in Nat
        BY <1>2, RowFacts
      <3> QED BY <1>2, <1>3, <1>5, <3>1
    <2>8. batch \in Rows /\ batch.lease_expires_at <= now => batch.lease_expires_at <= clock
      BY <1>2, <1>3, RowFacts
    <2> HIDE DEF tx
    <2>9. Issuing(w, lease)
      BY <1>1, <1>10, <2>1, <2>2, <2>3, <2>4, <2>5, <2>6, <2>7, <2>8 DEF Issuing
    <2> QED BY <2>9
  <1> QED BY <1>4, <1>8, <1>9, <1>10

----------------------------------------------------------------------------
\* The transaction of w reaches the tables.
Reached(w) ==
    LET a == work[w] IN
    /\ batch' = a.lease
    /\ DOMAIN items' = DOMAIN items \cup DOMAIN a.writes
    /\ \A i \in DOMAIN a.writes : items'[i] = a.writes[i]
    /\ \A i \in DOMAIN items \ DOMAIN a.writes : items'[i] = items[i]
    /\ effects' \in [Runs -> [Items -> Nat]]
    /\ \A r \in Runs : r # a.lease.run => effects'[r] = effects[r]
    /\ \A i \in Items : effects'[a.lease.run][i] = IF i <= Progress(a.lease) THEN 1 ELSE 0

Committing(w) ==
    LET a == work[w]
        b == work'[w]
    IN
    /\ Leasing(a) /\ a.tx /\ Wrote(a) /\ Based(a) /\ Reached(w)
    /\ Atomic(a) => a.lease.state = "completed"
    /\ OthersWork(w) /\ OthersAnswer(w) /\ UNCHANGED <<clock, tokens>>
    /\ \/ b = Idle /\ Told(answer'[w], a.lease)
       \/ /\ a.lease.state # "completed" /\ answer'[w] = answer[w]
          /\ Leasing(b) /\ b.stage = "leased" /\ b.lease = a.lease /\ b.request = a.request
          /\ DOMAIN b.writes = {} /\ DOMAIN b.reserved = {}

\* What a commit writes is what its lease has reached.
LEMMA ReachedFacts ==
  ASSUME IInv, NEW w \in Workers, Leasing(work[w]), Wrote(work[w]), Committed(w)
  PROVE  Reached(w)
  <1> DEFINE a == work[w]
             r == a.lease.run
             writes == a.writes
             new == [i \in Items |-> IF i \in DOMAIN writes THEN effects[r][i] + 1 ELSE effects[r][i]]
  <1>1. /\ batch' = a.lease
        /\ items' = [i \in DOMAIN items \cup DOMAIN writes |->
                        IF i \in DOMAIN writes THEN writes[i] ELSE items[i]]
        /\ effects' = [effects EXCEPT ![r] = new]
    BY DEF Committed
  <1>2. effects \in [Runs -> [Items -> Nat]] /\ r \in Runs
    BY RowFacts DEF IInv, TypeOK, Leasing
  <1>3. new \in [Items -> Nat] /\ \A i \in Items : new[i] = IF i \in DOMAIN writes THEN effects[r][i] + 1 ELSE effects[r][i]
    BY <1>2
  <1> HIDE DEF new
  <1>4. effects' \in [Runs -> [Items -> Nat]] /\ effects'[r] = new /\ \A q \in Runs : q # r => effects'[q] = effects[q]
    BY <1>1, <1>2, <1>3
  <1>5. /\ DOMAIN writes \subseteq 1..Progress(a.lease)
        /\ \A i \in Items : effects[r][i] = IF i <= Progress(a.lease) /\ i \notin DOMAIN writes THEN 1 ELSE 0
    BY DEF Wrote
  <1>6. Progress(a.lease) \in Nat
    BY RowFacts DEF Leasing
  <1>7. \A i \in DOMAIN writes : i <= Progress(a.lease)
    BY <1>5, <1>6
  <1>8. \A i \in Items : effects'[r][i] = IF i <= Progress(a.lease) THEN 1 ELSE 0
    BY <1>3, <1>4, <1>5, <1>7
  <1> QED BY <1>1, <1>4, <1>8 DEF Reached

\* A commit, whose answer may be lost.
LEMMA CommitFacts ==
  ASSUME IInv, NEW w \in Workers, Commit(w) \/ CommitLost(w)
  PROVE  Committing(w) \/ Resting(w)
  <1> DEFINE a == work[w]
             b == [a EXCEPT !.stage = "leased", !.tx = FALSE,
                            !.reserved = [i \in {} |-> 0], !.writes = [i \in {} |-> NoRow]]
  <1>1. a.stage = "committing" /\ HasLease(a) /\ UNCHANGED <<clock, tokens>>
    BY DEF Commit, CommitLost, At, HasLease
  <1>2. /\ TypeOK /\ Leasing(a) /\ a.tx /\ Wrote(a) /\ Reserves(a) /\ Based(a) /\ a.lease \in Rows
        /\ (Atomic(a) => a.lease.state = "completed")
    BY <1>1, TxFacts DEF Reserves
  <1>3. CASE Committed(w) /\ \/ Answer(w, NoAnswer)
                             \/ /\ a.lease.state = "completed"
                                /\ Answer(w, [kind |-> "committed", receipts |-> a.lease.receipts])
    <2>1. Reached(w)
      BY <1>2, <1>3, ReachedFacts
    <2>2. PICK reply : Answer(w, reply) /\ Told(reply, a.lease)
      <3>1. Told(NoAnswer, a.lease)
        BY DEF Told, NoAnswer
      <3>2. a.lease.state = "completed" => Told([kind |-> "committed", receipts |-> a.lease.receipts], a.lease)
        BY <1>2 DEF Told
      <3> QED BY <1>3, <3>1, <3>2
    <2>3. work'[w] = Idle /\ OthersWork(w) /\ OthersAnswer(w) /\ answer'[w] = reply
      BY <1>2, <2>2, AnswerFacts
    <2> QED BY <1>1, <1>2, <2>1, <2>2, <2>3 DEF Committing
  <1>4. CASE Committed(w) /\ a.lease.state # "completed" /\ Move(w, b) /\ UNCHANGED answer
    <2>1. Reached(w)
      BY <1>2, <1>4, ReachedFacts
    <2>2. work'[w] = b /\ OthersWork(w)
      BY <1>2, <1>4, MoveFacts
    <2>3. /\ DOMAIN b = DOMAIN a /\ b.stage = "leased" /\ b.tx = FALSE /\ b.request = a.request
          /\ b.lease = a.lease /\ b.now = a.now /\ DOMAIN b.writes = {} /\ DOMAIN b.reserved = {}
      BY <1>2 DEF Leasing
    <2> HIDE DEF b
    <2>4. Leasing(b)
      BY <1>2, <2>3 DEF Leasing
    <2>5. OthersAnswer(w) /\ answer'[w] = answer[w]
      BY <1>2, <1>4 DEF TypeOK, OthersAnswer
    <2> QED BY <1>1, <1>2, <1>4, <2>1, <2>2, <2>3, <2>4, <2>5 DEF Committing
  <1>5. CASE UNCHANGED <<batch, items, effects>> /\ Answer(w, NoAnswer)
    <2>1. Told(NoAnswer, batch)
      BY DEF Told, NoAnswer
    <2> QED BY <1>1, <1>2, <1>5, <2>1, RestingFacts
  <1>6. CASE Commit(w)
    BY <1>3, <1>4, <1>6 DEF Commit
  <1>7. CASE CommitLost(w)
    BY <1>3, <1>5, <1>7 DEF CommitLost
  <1> QED BY <1>6, <1>7

\* _finish() of a PER_ITEM batch whose lease is over commits its renewal, and nothing else.
LEMMA UnfinishedFacts ==
  ASSUME IInv, NEW w \in Workers, At(w, "finishing"), ~AllOrNothing(w), batch' = work[w].lease,
         Answer(w, [kind |-> "envelope_unconfirmed"]), UNCHANGED <<items, effects, clock, tokens>>
  PROVE  Committing(w)
  <1> DEFINE a == work[w]
  <1>1. a.stage = "finishing" /\ HasLease(a)
    BY DEF At, HasLease
  <1>2. /\ TypeOK /\ Leasing(a) /\ a.tx /\ Wrote(a) /\ Based(a) /\ a.lease \in Rows
        /\ ~Atomic(a) /\ a.lease.state # "completed" /\ Progress(a.lease) \in Nat
    BY <1>1, TxFacts
  <1>3. batch # NoRow /\ batch.run = a.lease.run /\ Progress(batch) = Progress(a.lease)
    BY <1>1, <1>2 DEF Based, Progress
  <1>4. \A i \in Items : effects[a.lease.run][i] = IF i <= Progress(a.lease) THEN 1 ELSE 0
    BY <1>3 DEF IInv, ProgressExact
  <1>5. /\ DOMAIN a.writes \subseteq 1..Progress(a.lease) /\ Progress(a.lease) <= N
        /\ \A i \in Items : effects[a.lease.run][i] =
              IF i <= Progress(a.lease) /\ i \notin DOMAIN a.writes THEN 1 ELSE 0
    BY <1>2 DEF Wrote
  <1>6. DOMAIN a.writes = {}
    <2> SUFFICES ASSUME NEW i \in DOMAIN a.writes PROVE FALSE
      OBVIOUS
    <2>1. i \in Items /\ i <= Progress(a.lease)
      BY <1>2, <1>5, BatchAssumption DEF Items
    <2> QED BY <1>4, <1>5, <2>1
  <1>7. effects \in [Runs -> [Items -> Nat]]
    BY <1>2 DEF TypeOK
  <1>8. Reached(w)
    BY <1>4, <1>6, <1>7 DEF Reached
  <1>9. Told([kind |-> "envelope_unconfirmed"], a.lease)
    BY DEF Told
  <1>10. work'[w] = Idle /\ OthersWork(w) /\ OthersAnswer(w) /\ answer'[w] = [kind |-> "envelope_unconfirmed"]
    BY <1>2, AnswerFacts
  <1> QED BY <1>2, <1>8, <1>9, <1>10 DEF Committing

\* The steps.
LEMMA Steps ==
  ASSUME IInv, [Next]_vars
  PROVE  \/ UNCHANGED vars
         \/ Tick
         \/ PurgeBatch
         \/ \E i \in Items : PurgeItem(i)
         \/ \E w \in Workers : Resting(w)
         \/ \E w \in Workers : \E L : Issuing(w, L)
         \/ \E w \in Workers : \E b : Working(w, b)
         \/ \E w \in Workers : Committing(w)
  <1>1. TypeOK
    BY DEF IInv
  <1>2. ASSUME NEW w \in Workers, NEW reply, Answer(w, reply), reply.kind \notin {"committed", "replay"},
               UNCHANGED <<batch, items, clock, tokens, effects>>
        PROVE  Resting(w)
    <2>1. Told(reply, batch)
      BY <1>2 DEF Told
    <2> QED BY <1>1, <1>2, <2>1, RestingFacts
  <1>3. ASSUME NEW w \in Workers, RolledBack(w), UNCHANGED <<clock, tokens>> PROVE Resting(w)
    BY <1>2, <1>3 DEF RolledBack
  <1>4. ASSUME NEW w \in Workers, Step(w)
        PROVE  \/ Resting(w) \/ (\E L : Issuing(w, L)) \/ (\E b : Working(w, b)) \/ Committing(w)
    <2>1. CASE \E asked \in Requests : Execute(w, asked)
      BY <1>1, <2>1, ExecuteFacts
    <2>2. CASE Begin(w)
      BY <2>2, BeginFacts
    <2>3. CASE Sample(w)
      BY <2>3, SampleFacts
    <2>4. CASE Open(w)
      <3>1. CASE Active(work[w].lease, work[w].now) /\ UNCHANGED <<batch, items, answer, effects>>
                 /\ Move(w, [work[w] EXCEPT !.stage = Purpose(work[w]), !.tx = TRUE,
                                            !.lease = RenewedAt(@, work[w].now)])
        BY <2>4, <3>1, OpenFacts
      <3>2. CASE RolledBack(w)
        BY <1>3, <2>4, <3>2 DEF Open
      <3>3. CASE Answer(w, [kind |-> "envelope_unconfirmed"]) /\ UNCHANGED <<batch, items, effects>>
        BY <1>2, <2>4, <3>3 DEF Open
      <3> QED BY <2>4, <3>1, <3>2, <3>3 DEF Open
    <2>5. CASE Prove(w)
      BY <1>3, <2>5, ProveFacts DEF Prove
    <2>6. CASE Reserve(w)
      <3>1. ASSUME NEW kind \in {"uncertain", "conflict"}, Answer(w, [kind |-> kind]),
                   UNCHANGED <<batch, items, clock, tokens, effects>>
            PROVE  Resting(w)
        BY <1>2, <3>1
      <3> QED BY <2>6, <3>1, ReserveFacts
    <2>7. CASE Apply(w)
      BY <1>3, <2>7, ApplyFacts DEF Apply
    <2>8. CASE Record(w)
      BY <1>3, <2>8, RecordFacts DEF Record
    <2>9. CASE Close(w)
      BY <1>3, <2>9, CloseFacts DEF Close
    <2>10. CASE Finish(w)
      <3>1. CASE /\ Move(w, [work[w] EXCEPT !.stage = "committing",
                        !.lease = [@ EXCEPT !.state = "completed",
                                            !.retention_expires_at = clock + RetentionTtl]])
                 /\ UNCHANGED <<batch, items, answer, effects>>
        BY <2>10, <3>1, FinishFacts
      <3>2. CASE RolledBack(w)
        BY <1>3, <2>10, <3>2 DEF Finish
      <3>3. CASE /\ ~AllOrNothing(w) /\ batch' = work[w].lease
                 /\ Answer(w, [kind |-> "envelope_unconfirmed"]) /\ UNCHANGED <<items, effects>>
        <4>1. At(w, "finishing") /\ UNCHANGED <<clock, tokens>>
          BY <2>10 DEF Finish
        <4> QED BY <3>3, <4>1, UnfinishedFacts
      <3> QED BY <2>10, <3>1, <3>2, <3>3 DEF Finish
    <2>11. CASE Commit(w) \/ CommitLost(w)
      BY <2>11, CommitFacts
    <2>12. CASE Crash(w)
      BY <1>2, <2>12 DEF Crash, NoAnswer
    <2> QED BY <1>4, <2>1, <2>2, <2>3, <2>4, <2>5, <2>6, <2>7, <2>8, <2>9, <2>10, <2>11, <2>12 DEF Step
  <1> QED BY <1>4 DEF Next

----------------------------------------------------------------------------
\* A step preserves each part of the invariant.

\* Every step keeps the types,
LEMMA TypeStep ==
  ASSUME IInv, [Next]_vars
  PROVE  TypeOK'
  <1>1. TypeOK /\ clock \in Nat /\ tokens \in Nat /\ MaxTokens \in Nat
    BY BatchAssumption DEF IInv, TypeOK
  <1> DEFINE Typed(v) == work'[v] = Idle \/ Beginning(work[v])' \/ Leasing(work[v])'
  <1>2. ASSUME NEW v \in Workers, work'[v] = work[v], clock' \in Nat, clock <= clock',
               tokens' \in Nat, tokens <= tokens'
        PROVE  Typed(v)
    <2>1. CASE work[v] = Idle
      BY <1>2, <2>1
    <2>2. CASE Beginning(work[v])
      <3>1. 0..clock \subseteq 0..clock'
        BY <1>1, <1>2
      <3> QED BY <1>2, <2>2, <3>1 DEF Beginning
    <2>3. CASE Leasing(work[v])
      <3>1. /\ work[v].lease.token \in Nat /\ work[v].lease.run \in Nat
            /\ work[v].lease.token <= tokens /\ work[v].lease.run <= tokens
        BY <2>3, RowFacts DEF Leasing
      <3>2. work[v].lease.token <= tokens' /\ work[v].lease.run <= tokens'
        BY <1>1, <1>2, <3>1
      <3> QED BY <1>2, <2>3, <3>2 DEF Leasing
    <2> QED BY <1>1, <2>1, <2>2, <2>3 DEF TypeOK
  <1> HIDE DEF Typed
  <1>3. ASSUME \A v \in Workers : Typed(v), DOMAIN work' = Workers, DOMAIN answer' = Workers,
               batch' \in Rows \cup {NoRow}, DOMAIN items' \subseteq Items,
               \A i \in DOMAIN items' : items'[i].expires_at \in Nat,
               clock' \in Nat, tokens' \in 0..MaxTokens, effects' \in [Runs -> [Items -> Nat]]
        PROVE  TypeOK'
    BY <1>3 DEF TypeOK, Typed
  <1>4. CASE UNCHANGED vars
    BY <1>1, <1>2, <1>3, <1>4 DEF TypeOK, vars
  <1>5. CASE Tick
    <2>1. clock' \in Nat /\ clock <= clock' /\ UNCHANGED <<batch, items, tokens, work, answer, effects>>
      BY <1>1, <1>5 DEF Tick
    <2> QED BY <1>1, <1>2, <1>3, <2>1 DEF TypeOK
  <1>6. CASE PurgeBatch
    BY <1>1, <1>2, <1>3, <1>6 DEF TypeOK, PurgeBatch
  <1>7. ASSUME NEW i \in Items, PurgeItem(i) PROVE TypeOK'
    <2>1. /\ UNCHANGED <<batch, clock, tokens, work, answer, effects>>
          /\ DOMAIN items' \subseteq DOMAIN items /\ \A j \in DOMAIN items' : items'[j] = items[j]
      BY <1>7 DEF PurgeItem
    <2> QED BY <1>1, <1>2, <1>3, <2>1 DEF TypeOK
  <1>8. ASSUME NEW w \in Workers, Resting(w) PROVE TypeOK'
    <2>1. OthersWork(w) /\ OthersAnswer(w) /\ UNCHANGED <<batch, items, clock, tokens, effects>>
          /\ (work'[w] = Idle \/ Beginning(work'[w]))
      BY <1>8 DEF Resting
    <2>2. Typed(w)
      BY <2>1 DEF Typed, Beginning
    <2>3. \A v \in Workers : Typed(v)
      BY <1>1, <1>2, <2>1, <2>2 DEF OthersWork
    <2> QED BY <1>1, <1>3, <2>1, <2>3 DEF TypeOK, OthersWork, OthersAnswer
  <1>9. ASSUME NEW w \in Workers, NEW L, Issuing(w, L) PROVE TypeOK'
    <2>1. /\ OthersWork(w) /\ tokens' = tokens + 1 /\ tokens + 1 \in Runs
          /\ UNCHANGED <<items, clock, answer, effects>> /\ L \in Rows /\ L.token = tokens + 1
          /\ batch' = L \/ batch' = batch
      BY <1>9 DEF Issuing
    <2>2. tokens' \in 0..MaxTokens /\ tokens <= tokens' /\ tokens' \in Nat
      BY <1>1, <2>1 DEF Runs
    <2>3. L.run <= tokens + 1
      <3>1. CASE L.run = tokens + 1
        BY <1>1, <3>1
      <3>2. CASE batch \in Rows /\ L.run = batch.run
        <4>1. batch.run <= tokens /\ batch.run \in Nat
          BY <3>2, RowFacts DEF IInv, RowCoherent
        <4> QED BY <1>1, <3>2, <4>1
      <3> QED BY <1>9, <3>1, <3>2 DEF Issuing
    <2>4. Typed(w)
      <3> DEFINE b == work'[w]
      <3>1. /\ DOMAIN b = {"stage", "tx", "request", "lease", "now", "unproven", "reserved", "writes"}
            /\ b.request = L.request /\ b.lease = L /\ b.now = 0 /\ DOMAIN b.writes = {}
            /\ b.tx = Atomic(b) /\ b.stage = (IF Atomic(b) THEN "reserving" ELSE "leased")
        BY <1>9 DEF Issuing
      <3>2. b.tx = (b.stage \notin {"leased", "opening"}) /\ b.stage \in {"reserving", "leased"}
        BY <3>1 DEF Atomic
      <3>3. L.token <= tokens'
        BY <2>1, <2>2
      <3>4. L.run <= tokens'
        BY <2>1, <2>3
      <3>5. Leasing(work[w])'
        BY <2>1, <3>1, <3>2, <3>3, <3>4 DEF Leasing
      <3> QED BY <3>5 DEF Typed
    <2>5. \A v \in Workers : Typed(v)
      BY <1>1, <1>2, <2>1, <2>2, <2>4 DEF OthersWork
    <2> QED BY <1>1, <1>3, <2>1, <2>2, <2>5 DEF TypeOK, OthersWork
  <1>10. ASSUME NEW w \in Workers, NEW b, Working(w, b) PROVE TypeOK'
    <2>1. /\ OthersWork(w) /\ work'[w] = b /\ Leasing(b)
          /\ UNCHANGED <<batch, items, clock, tokens, answer, effects>>
      BY <1>10 DEF Working
    <2>2. Typed(w)
      BY <2>1 DEF Typed, Leasing
    <2>3. \A v \in Workers : Typed(v)
      BY <1>1, <1>2, <2>1, <2>2 DEF OthersWork
    <2> QED BY <1>1, <1>3, <2>1, <2>3 DEF TypeOK, OthersWork
  <1>11. ASSUME NEW w \in Workers, Committing(w) PROVE TypeOK'
    <2> DEFINE a == work[w]
    <2>1. /\ OthersWork(w) /\ OthersAnswer(w) /\ UNCHANGED <<clock, tokens>> /\ Leasing(a)
          /\ Wrote(a) /\ Reached(w) /\ (work'[w] = Idle \/ Leasing(work'[w]))
      BY <1>11 DEF Committing
    <2>2. Typed(w)
      BY <2>1 DEF Typed, Leasing
    <2>3. \A v \in Workers : Typed(v)
      BY <1>1, <1>2, <2>1, <2>2 DEF OthersWork
    <2>4. a.lease \in Rows /\ \A i \in DOMAIN a.writes : a.writes[i].expires_at \in Nat
      BY <2>1 DEF Leasing
    <2>5. DOMAIN a.writes \subseteq Items
      BY <2>1, <2>4, RowFacts, BatchAssumption DEF Wrote, Items
    <2>6. DOMAIN items' \subseteq Items /\ \A i \in DOMAIN items' : items'[i].expires_at \in Nat
      BY <1>1, <2>1, <2>4, <2>5 DEF Reached, TypeOK
    <2> QED BY <1>1, <1>3, <2>1, <2>3, <2>4, <2>6 DEF TypeOK, OthersWork, OthersAnswer, Reached
  <1> QED BY <1>4, <1>5, <1>6, <1>7, <1>8, <1>9, <1>10, <1>11, Steps

\* The tables and the history change when a lease is issued, and when a transaction commits.
LEMMA TableStep ==
  ASSUME IInv, [Next]_vars
  PROVE  \/ UNCHANGED <<batch, effects>>
         \/ PurgeBatch
         \/ \E w \in Workers : \E L : Issuing(w, L)
         \/ \E w \in Workers : Committing(w)
  BY Steps DEF vars, Tick, PurgeItem, Resting, Working

\* the progress of the rows,
LEMMA ProgressStep ==
  ASSUME IInv, [Next]_vars
  PROVE  ProgressExact'
  <1>1. ProgressExact /\ TypeOK /\ N \in Nat
    BY BatchAssumption DEF IInv
  <1>2. CASE UNCHANGED <<batch, effects>>
    BY <1>1, <1>2 DEF ProgressExact
  <1>3. CASE PurgeBatch
    BY <1>1, <1>3 DEF ProgressExact, PurgeBatch
  <1>4. ASSUME NEW w \in Workers, NEW L, Issuing(w, L) PROVE ProgressExact'
    <2>1. CASE batch' = batch
      BY <1>1, <1>4, <2>1 DEF ProgressExact, Issuing
    <2>2. CASE batch' # batch
      <3>1. /\ batch' = L /\ effects' = effects /\ L \in Rows /\ tokens + 1 \in Runs
            /\ ~Atomic(work'[w]) /\ work'[w].request = L.request
        BY <1>4, <2>2 DEF Issuing
      <3>2. L.request.policy # "all_or_nothing"
        BY <3>1 DEF Atomic
      <3>3. CASE L.run = tokens + 1 /\ L.receipts = << >>
        <4>1. Progress(L) = 0
          BY <3>3 DEF Progress
        <4>2. \A i \in Items : effects[L.run][i] = 0
          <5>1. tokens + 1 > tokens
            BY <1>1 DEF TypeOK
          <5> QED BY <3>1, <3>3, <5>1 DEF IInv, ItemsCovered
        <4>3. \A i \in Items : ~(i <= 0)
          BY DEF Items
        <4>4. 1..0 = {}
          OBVIOUS
        <4> QED BY <1>1, <3>1, <3>2, <4>1, <4>2, <4>3, <4>4 DEF ProgressExact
      <3>4. CASE batch \in Rows /\ L.run = batch.run /\ L.receipts = batch.receipts
        <4>1. batch # NoRow /\ Progress(L) = Progress(batch)
          BY <3>4, RowFacts DEF Progress
        <4> QED BY <1>1, <3>1, <3>2, <3>4, <4>1 DEF ProgressExact
      <3> QED BY <1>4, <3>3, <3>4 DEF Issuing
    <2> QED BY <2>1, <2>2
  <1>5. ASSUME NEW w \in Workers, Committing(w) PROVE ProgressExact'
    <2> DEFINE a == work[w]
               L == a.lease
    <2>1. /\ Leasing(a) /\ Wrote(a) /\ Reached(w) /\ (Atomic(a) => L.state = "completed")
      BY <1>5 DEF Committing
    <2>2. /\ L \in Rows /\ L.request = a.request
      BY <2>1 DEF Leasing
    <2>3. /\ batch' = L /\ \A r \in Runs : r # L.run => effects'[r] = effects[r]
          /\ \A i \in Items : effects'[L.run][i] = IF i <= Progress(L) THEN 1 ELSE 0
      BY <2>1 DEF Reached
    <2>4. L.request.policy = "all_or_nothing" => Progress(L) = N
      BY <2>1, <2>2 DEF Atomic, Wrote
    <2>5. \A i \in 1..Progress(L) : L.receipts[i] = [item |-> i, run |-> L.run]
      BY <2>1 DEF Wrote
    <2> HIDE DEF L
    <2>6. \A r \in Runs, i \in Items : effects'[r][i] <= 1
      BY <1>1, <2>3 DEF ProgressExact
    <2> QED BY <2>3, <2>4, <2>5, <2>6 DEF ProgressExact
  <1> QED BY <1>2, <1>3, <1>4, <1>5, TableStep

\* What has taken effect stays so.
LEMMA EffectsGrow ==
  ASSUME IInv, [Next]_vars, NEW r \in Runs, NEW i \in Items, effects[r][i] = 1
  PROVE  effects'[r][i] = 1
  <1>1. ASSUME NEW w \in Workers, Committing(w) PROVE effects'[r][i] = 1
    <2> DEFINE L == work[w].lease
    <2>1. /\ Wrote(work[w]) /\ \A q \in Runs : q # L.run => effects'[q] = effects[q]
          /\ \A j \in Items : effects'[L.run][j] = IF j <= Progress(L) THEN 1 ELSE 0
      BY <1>1 DEF Committing, Reached
    <2>2. CASE r = L.run
      <3>1. i <= Progress(L)
        BY <2>1, <2>2 DEF Wrote
      <3> QED BY <2>1, <2>2, <3>1
    <2>3. CASE r # L.run
      BY <2>1, <2>3
    <2> QED BY <2>2, <2>3
  <1> QED BY <1>1, TableStep DEF PurgeBatch, Issuing

\* A row that is completed has every receipt, of its run.
Whole(receipts, r) == Len(receipts) = N /\ \A i \in Items : receipts[i] = [item |-> i, run |-> r]

\* and the truth of the answers.
LEMMA AnswersStep ==
  ASSUME IInv, [Next]_vars
  PROVE  AnswersTrue'
  <1>1. AnswersTrue /\ TypeOK /\ ProgressExact /\ RowCoherent
    BY DEF IInv
  <1> DEFINE Honest(v) == answer'[v].kind \in {"committed", "replay"} =>
                /\ Len(answer'[v].receipts) = N
                /\ \E r \in Runs : \A i \in Items :
                    answer'[v].receipts[i] = [item |-> i, run |-> r] /\ effects'[r][i] = 1
  <1> SUFFICES ASSUME NEW v \in Workers PROVE Honest(v)
    BY DEF AnswersTrue
  <1>2. CASE answer'[v] = answer[v]
    BY <1>1, <1>2, EffectsGrow DEF AnswersTrue
  <1>3. ASSUME NEW row \in Rows, row.state = "completed" => Whole(row.receipts, row.run),
               \A i \in Items : row.state = "completed" => effects'[row.run][i] = 1,
               Told(answer'[v], row)
        PROVE  Honest(v)
    BY <1>3, RowFacts DEF Told, Whole
  <1> HIDE DEF Honest
  <1>4. ASSUME NEW w \in Workers, Resting(w), v = w PROVE Honest(v)
    <2>1. Told(answer'[v], batch) /\ effects' = effects
      BY <1>4 DEF Resting
    <2>2. CASE batch \in Rows /\ batch.state = "completed"
      <3>1. Progress(batch) = N /\ batch # NoRow
        BY <1>1, <2>2, RowFacts DEF RowCoherent
      <3>2. \A i \in Items : effects'[batch.run][i] = 1
        BY <1>1, <2>1, <3>1 DEF ProgressExact, Items
      <3>3. Whole(batch.receipts, batch.run)
        BY <1>1, <3>1 DEF ProgressExact, Whole, Items, Progress
      <3> QED BY <1>3, <2>1, <2>2, <3>2, <3>3
    <2>3. CASE ~(batch \in Rows /\ batch.state = "completed")
      BY <2>1, <2>3 DEF Told, Honest
    <2> QED BY <2>2, <2>3
  <1>5. ASSUME NEW w \in Workers, Committing(w), v = w, answer'[v] # answer[v] PROVE Honest(v)
    <2> DEFINE L == work[w].lease
    <2>1. Told(answer'[v], L) /\ L \in Rows /\ Wrote(work[w]) /\ Reached(w)
      BY <1>5 DEF Committing, Leasing
    <2>2. L.state = "completed" => Whole(L.receipts, L.run)
      BY <2>1 DEF Wrote, Whole, Progress, Items
    <2>3. \A i \in Items : L.state = "completed" => effects'[L.run][i] = 1
      BY <2>1 DEF Reached, Wrote, Items
    <2> HIDE DEF L
    <2> QED BY <1>3, <2>1, <2>2, <2>3
  <1>6. \/ answer'[v] = answer[v]
        \/ \E w \in Workers : (Resting(w) \/ Committing(w)) /\ v = w
    BY Steps DEF vars, Tick, PurgeBatch, PurgeItem, Resting, Issuing, Working, Committing, OthersAnswer
  <1> QED BY <1>2, <1>4, <1>5, <1>6

\* Between transactions: leased or opening.
Waiting(v) == work[v].stage \in {"leased", "opening"}

\* Who waits between two transactions.
LEMMA WaitingFacts ==
  ASSUME TypeOK, NEW v \in Workers
  PROVE  /\ Waiting(v) <=> HasLease(work[v]) /\ ~work[v].tx
         /\ HasLease(work[v]) => work[v].lease \in Rows
  <1>1. CASE Leasing(work[v])
    BY <1>1 DEF Leasing, Waiting, HasLease
  <1>2. CASE ~Leasing(work[v])
    BY <1>2, WorkFacts DEF Waiting, HasLease
  <1> QED BY <1>1, <1>2

\* A new token ends the leases before it.
LEMMA LeaseExclusiveStep ==
  ASSUME IInv, [Next]_vars
  PROVE  LeaseExclusive'
  <1>1. TypeOK /\ LeaseExclusive /\ clock \in Nat
    BY DEF IInv, TypeOK
  <1> DEFINE Mine(v) ==
        LET L == work'[v].lease IN
        L.lease_expires_at > clock' =>
            /\ batch'.state \in {"processing", "partially_committed"}
            /\ batch'.token = L.token
            /\ batch'.lease_expires_at > clock'
            /\ batch'.lease_expires_at = L.lease_expires_at
            /\ batch'.receipts = L.receipts
  <1> SUFFICES ASSUME NEW v \in Workers, Waiting(v)' PROVE Mine(v)
    BY DEF LeaseExclusive, Waiting, Active
  \* A lease that is not over is its row's.
  <1>2. ASSUME Waiting(v), work[v].lease.lease_expires_at > clock
        PROVE  /\ batch.state \in {"processing", "partially_committed"} /\ batch \in Rows
               /\ batch.token = work[v].lease.token
               /\ batch.lease_expires_at > clock
               /\ batch.lease_expires_at = work[v].lease.lease_expires_at
               /\ batch.receipts = work[v].lease.receipts
    BY <1>1, <1>2, IdleFacts DEF LeaseExclusive, Waiting, Active, TypeOK
  <1>3. ASSUME Waiting(v), work'[v].lease = work[v].lease, clock' = clock \/ clock' = clock + 1,
               work[v].lease.lease_expires_at > clock => batch' = batch
        PROVE  Mine(v)
    <2>1. work[v].lease.lease_expires_at \in Nat
      BY <1>1, <1>3, WaitingFacts, RowFacts
    <2>2. work[v].lease.lease_expires_at > clock' => work[v].lease.lease_expires_at > clock
      BY <1>1, <1>3, <2>1
    <2> QED BY <1>2, <1>3, <2>2
  <1> HIDE DEF Mine
  <1>4. CASE UNCHANGED vars
    BY <1>3, <1>4 DEF vars, Waiting
  <1>5. CASE Tick
    BY <1>3, <1>5 DEF Tick, Waiting
  <1>6. CASE PurgeBatch
    <2>1. Waiting(v) /\ work' = work /\ clock' = clock /\ batch.state = "completed"
      BY <1>6 DEF PurgeBatch, Waiting
    <2> QED BY <1>2, <1>3, <2>1
  <1>7. ASSUME NEW i \in Items, PurgeItem(i) PROVE Mine(v)
    BY <1>3, <1>7 DEF PurgeItem, Waiting
  <1>8. ASSUME NEW w \in Workers, Resting(w) PROVE Mine(v)
    <2>1. v # w
      BY <1>8, IdleFacts DEF Resting, Beginning, Waiting
    <2> QED BY <1>3, <1>8, <2>1 DEF Resting, OthersWork, Waiting
  <1>9. ASSUME NEW w \in Workers, NEW L, Issuing(w, L) PROVE Mine(v)
    <2>1. CASE v = w
      <3>1. work'[v].lease = L /\ batch' = L /\ L \in Rows /\ L.token = tokens + 1 /\ clock' = clock
            /\ L.state \in {"processing", "partially_committed"}
        BY <1>9, <2>1 DEF Issuing, Waiting
      <3> QED BY <3>1 DEF Mine
    <2>2. CASE v # w
      <3>1. Waiting(v) /\ work'[v].lease = work[v].lease /\ clock' = clock
        BY <1>9, <2>2 DEF Issuing, OthersWork, Waiting
      <3>2. ~(work[v].lease.lease_expires_at > clock)
        <4> SUFFICES ASSUME work[v].lease.lease_expires_at > clock PROVE FALSE
          OBVIOUS
        <4>1. /\ batch.state \in {"processing", "partially_committed"} /\ batch \in Rows
              /\ batch.lease_expires_at > clock /\ batch.lease_expires_at \in Nat /\ batch # NoRow
          BY <1>2, <3>1, RowFacts
        <4>2. batch.lease_expires_at <= clock
          BY <1>9, <4>1 DEF Issuing
        <4> QED BY <1>1, <4>1, <4>2
      <3> QED BY <1>3, <3>1, <3>2
    <2> QED BY <2>1, <2>2
  <1>10. ASSUME NEW w \in Workers, NEW b, Working(w, b) PROVE Mine(v)
    <2>1. CASE v = w
      <3>1. ~b.tx
        BY <1>10, <2>1 DEF Working, Waiting, Leasing
      <3>2. Waiting(v) /\ work'[v].lease = work[v].lease /\ UNCHANGED <<clock, batch>>
        BY <1>10, <2>1, <3>1 DEF Working, Waiting, Leasing
      <3> QED BY <1>3, <3>2
    <2>2. CASE v # w
      BY <1>3, <1>10, <2>2 DEF Working, OthersWork, Waiting
    <2> QED BY <2>1, <2>2
  <1>11. ASSUME NEW w \in Workers, Committing(w) PROVE Mine(v)
    <2> DEFINE a == work[w]
    <2>1. /\ Leasing(a) /\ a.tx /\ Wrote(a) /\ Based(a) /\ batch' = a.lease /\ clock' = clock
          /\ OthersWork(w)
      BY <1>11 DEF Committing, Reached
    <2>2. CASE v = w
      <3>1. a.lease.state # "completed" /\ work'[v].lease = a.lease
        BY <1>11, <2>2, IdleFacts DEF Committing, Waiting
      <3>2. a.lease.state \in {"processing", "partially_committed"}
        BY <2>1, <3>1, RowFacts DEF Leasing
      <3> QED BY <2>1, <3>1, <3>2 DEF Mine
    <2>3. CASE v # w
      <3>1. Waiting(v) /\ work'[v].lease = work[v].lease
        BY <2>1, <2>3 DEF OthersWork, Waiting
      <3>2. ~(work[v].lease.lease_expires_at > clock)
        <4> SUFFICES ASSUME work[v].lease.lease_expires_at > clock PROVE FALSE
          OBVIOUS
        <4>1. /\ batch.state \in {"processing", "partially_committed"} /\ batch \in Rows
              /\ batch.token = work[v].lease.token /\ batch # NoRow
          BY <1>2, <3>1, RowFacts
        <4>2. CASE Atomic(a)
          BY <2>1, <4>1, <4>2 DEF Based
        <4>3. CASE ~Atomic(a)
          <5>1. batch.token = a.lease.token
            BY <2>1, <4>3 DEF Based
          <5>2. HasLease(work[v]) /\ HasLease(a)
            BY <1>1, <2>1, <3>1, WaitingFacts, WorkFacts
          <5> QED BY <2>3, <4>1, <5>1, <5>2 DEF IInv, LeasesCoherent
        <4> QED BY <4>2, <4>3
      <3> QED BY <1>3, <2>1, <3>1, <3>2
    <2> QED BY <2>2, <2>3
  <1> QED BY <1>4, <1>5, <1>6, <1>7, <1>8, <1>9, <1>10, <1>11, Steps

\* The row stays coherent,
LEMMA RowStep ==
  ASSUME IInv, [Next]_vars
  PROVE  RowCoherent'
  <1>1. TypeOK /\ RowCoherent /\ tokens \in Nat
    BY DEF IInv, TypeOK
  <1>2. ASSUME batch' = batch, tokens' \in Nat, tokens <= tokens',
               DOMAIN items' \subseteq DOMAIN items, \A i \in DOMAIN items' : items'[i] = items[i]
        PROVE  RowCoherent'
    <2> SUFFICES ASSUME batch # NoRow PROVE RowCoherent'
      BY <1>2 DEF RowCoherent
    <2>1. batch.token \in Nat /\ batch.run \in Nat
      BY <1>1, RowFacts DEF TypeOK
    <2>2. batch.token <= tokens' /\ batch.run <= tokens'
      BY <1>1, <1>2, <2>1 DEF RowCoherent
    <2> QED BY <1>1, <1>2, <2>2 DEF RowCoherent, Atomic
  <1>3. CASE UNCHANGED vars
    BY <1>1, <1>2, <1>3 DEF vars
  <1>4. CASE Tick
    BY <1>1, <1>2, <1>4 DEF Tick
  <1>5. CASE PurgeBatch
    BY <1>5 DEF PurgeBatch, RowCoherent
  <1>6. ASSUME NEW i \in Items, PurgeItem(i) PROVE RowCoherent'
    <2>1. /\ UNCHANGED <<batch, tokens>>
          /\ DOMAIN items' \subseteq DOMAIN items /\ \A j \in DOMAIN items' : items'[j] = items[j]
      BY <1>6 DEF PurgeItem
    <2> QED BY <1>1, <1>2, <2>1
  <1>7. ASSUME NEW w \in Workers, Resting(w) PROVE RowCoherent'
    BY <1>1, <1>2, <1>7 DEF Resting
  <1>8. ASSUME NEW w \in Workers, NEW L, Issuing(w, L) PROVE RowCoherent'
    <2>1. tokens' = tokens + 1 /\ items' = items
      BY <1>8 DEF Issuing
    <2>2. CASE batch' = batch
      BY <1>1, <1>2, <2>1, <2>2
    <2>3. CASE batch' # batch
      <3>1. /\ batch' = L /\ L \in Rows /\ L.token = tokens + 1 /\ ~Atomic(L)
            /\ L.state # "completed"
        BY <1>8, <2>3 DEF Issuing, Atomic
      <3>2. L.run <= tokens + 1 /\ Progress(L) <= N
        <4>1. CASE L.run = tokens + 1 /\ L.receipts = << >>
          BY <1>1, <4>1, BatchAssumption DEF Progress
        <4>2. CASE batch \in Rows /\ L.run = batch.run /\ L.receipts = batch.receipts
          <5>1. batch # NoRow /\ batch.run \in Nat
            BY <4>2, RowFacts
          <5> QED BY <1>1, <4>2, <5>1 DEF RowCoherent, Progress
        <4> QED BY <1>8, <4>1, <4>2 DEF Issuing
      <3>3. L.token <= tokens'
        BY <1>1, <2>1, <3>1
      <3> QED BY <2>1, <3>1, <3>2, <3>3 DEF RowCoherent, Atomic
    <2> QED BY <2>2, <2>3
  <1>9. ASSUME NEW w \in Workers, NEW b, Working(w, b) PROVE RowCoherent'
    BY <1>1, <1>2, <1>9 DEF Working
  <1>10. ASSUME NEW w \in Workers, Committing(w) PROVE RowCoherent'
    <2> DEFINE a == work[w]
               L == a.lease
    <2>1. /\ Leasing(a) /\ Wrote(a) /\ Reached(w) /\ (Atomic(a) => L.state = "completed")
          /\ tokens' = tokens
      BY <1>10 DEF Committing
    <2>2. L.token <= tokens /\ L.run <= tokens /\ L.request = a.request
      BY <2>1 DEF Leasing
    <2>3. /\ Progress(L) <= N
          /\ L.state = "completed" =>
                /\ Progress(L) = N
                /\ \A i \in DOMAIN a.writes : a.writes[i].expires_at <= L.retention_expires_at
                /\ \A i \in DOMAIN items : items[i].expires_at <= L.retention_expires_at
      BY <2>1 DEF Wrote
    <2>4. /\ batch' = L /\ DOMAIN items' = DOMAIN items \cup DOMAIN a.writes
          /\ \A i \in DOMAIN a.writes : items'[i] = a.writes[i]
          /\ \A i \in DOMAIN items \ DOMAIN a.writes : items'[i] = items[i]
      BY <2>1 DEF Reached
    <2>5. Atomic(L) => L.state = "completed"
      BY <2>1, <2>2 DEF Atomic
    <2> HIDE DEF L
    <2>6. L.state = "completed" => \A i \in DOMAIN items' : items'[i].expires_at <= L.retention_expires_at
      BY <2>3, <2>4
    <2> QED BY <2>1, <2>2, <2>3, <2>4, <2>5, <2>6 DEF RowCoherent, Atomic
  <1> QED BY <1>3, <1>4, <1>5, <1>6, <1>7, <1>8, <1>9, <1>10, Steps

\* covers its items,
LEMMA ItemsStep ==
  ASSUME IInv, [Next]_vars
  PROVE  ItemsCovered'
  <1>1. /\ TypeOK /\ ItemsCovered /\ RowCoherent /\ tokens \in Nat /\ clock \in Nat
        /\ RetentionTtl \in Nat
    BY BatchAssumption DEF IInv, TypeOK
  <1> DEFINE Covered(i) ==
                /\ items'[i].expires_at <= clock' + RetentionTtl
                /\ items'[i].expires_at > clock' => batch' # NoRow /\ i <= Progress(batch')
             Unused == \A r \in Runs, i \in Items : r > tokens' => effects'[r][i] = 0
  <1> SUFFICES (\A i \in DOMAIN items' : Covered(i)) /\ Unused
    BY DEF ItemsCovered
  <1>2. ASSUME NEW i \in DOMAIN items, items'[i] = items[i], clock' = clock \/ clock' = clock + 1,
               items[i].expires_at > clock => batch' = batch
        PROVE  Covered(i)
    <2>1. items[i].expires_at \in Nat
      BY <1>1 DEF TypeOK
    <2>2. items[i].expires_at <= clock + RetentionTtl
      BY <1>1 DEF ItemsCovered
    <2>3. items[i].expires_at <= clock' + RetentionTtl
      BY <1>1, <1>2, <2>1, <2>2
    <2>4. items[i].expires_at > clock' => items[i].expires_at > clock
      BY <1>1, <1>2, <2>1
    <2> QED BY <1>1, <1>2, <2>3, <2>4 DEF ItemsCovered
  <1>3. ASSUME effects' = effects, tokens' = tokens \/ tokens' = tokens + 1 PROVE Unused
    <2>1. \A r \in Runs : r > tokens' => r > tokens
      BY <1>1, <1>3 DEF Runs
    <2> QED BY <1>1, <1>3, <2>1 DEF ItemsCovered
  \* Rows of a batch that is over have expired.
  <1>4. ASSUME NEW i \in DOMAIN items,
               batch # NoRow => batch.state = "completed" /\ batch.retention_expires_at <= clock
        PROVE  ~(items[i].expires_at > clock)
    <2> SUFFICES ASSUME items[i].expires_at > clock PROVE FALSE
      OBVIOUS
    <2>1. batch # NoRow
      BY <1>1 DEF ItemsCovered
    <2>2. items[i].expires_at <= batch.retention_expires_at
      BY <1>1, <1>4, <2>1 DEF RowCoherent
    <2>3. batch.retention_expires_at \in Nat /\ items[i].expires_at \in Nat
      BY <1>1, <2>1, RowFacts DEF TypeOK
    <2> QED BY <1>1, <1>4, <2>1, <2>2, <2>3
  <1> HIDE DEF Covered
  <1>5. CASE UNCHANGED vars
    BY <1>2, <1>3, <1>5 DEF vars
  <1>6. CASE Tick
    BY <1>2, <1>3, <1>6 DEF Tick
  <1>7. CASE PurgeBatch
    <2>1. /\ UNCHANGED <<items, clock, tokens, effects>>
          /\ batch.state = "completed" /\ batch.retention_expires_at <= clock
      BY <1>7 DEF PurgeBatch
    <2>2. \A i \in DOMAIN items' : Covered(i)
      BY <1>2, <1>4, <2>1
    <2> QED BY <1>3, <2>1, <2>2
  <1>8. ASSUME NEW i \in Items, PurgeItem(i) PROVE (\A j \in DOMAIN items' : Covered(j)) /\ Unused
    <2>1. /\ UNCHANGED <<batch, clock, tokens, effects>>
          /\ DOMAIN items' \subseteq DOMAIN items /\ \A j \in DOMAIN items' : items'[j] = items[j]
      BY <1>8 DEF PurgeItem
    <2> QED BY <1>2, <1>3, <2>1
  <1>9. ASSUME NEW w \in Workers, Resting(w) PROVE (\A j \in DOMAIN items' : Covered(j)) /\ Unused
    BY <1>2, <1>3, <1>9 DEF Resting
  <1>10. ASSUME NEW w \in Workers, NEW b, Working(w, b) PROVE (\A j \in DOMAIN items' : Covered(j)) /\ Unused
    BY <1>2, <1>3, <1>10 DEF Working
  <1>11. ASSUME NEW w \in Workers, NEW L, Issuing(w, L) PROVE (\A j \in DOMAIN items' : Covered(j)) /\ Unused
    <2>1. UNCHANGED <<items, clock, effects>> /\ tokens' = tokens + 1 /\ (batch' = batch \/ batch' = L)
          /\ L \in Rows
      BY <1>11 DEF Issuing
    <2>2. CASE batch # NoRow => batch.state = "completed" /\ batch.retention_expires_at <= clock
      <3>1. \A i \in DOMAIN items' : Covered(i)
        BY <1>2, <1>4, <2>1, <2>2
      <3> QED BY <1>3, <2>1, <3>1
    <2>3. CASE batch \in Rows /\ L.receipts = batch.receipts
      <3>1. ASSUME NEW i \in DOMAIN items PROVE Covered(i)
        <4>1. CASE batch' = batch
          BY <1>2, <2>1, <4>1
        <4>2. CASE batch' = L
          <5>1. Progress(batch') = Progress(batch) /\ batch' # NoRow
            BY <2>1, <2>3, <4>2, RowFacts DEF Progress
          <5> QED BY <1>1, <2>1, <5>1 DEF Covered, ItemsCovered
        <4> QED BY <2>1, <4>1, <4>2
      <3> QED BY <1>3, <2>1, <3>1
    <2> QED BY <1>11, <2>2, <2>3 DEF Issuing
  <1>12. ASSUME NEW w \in Workers, Committing(w) PROVE (\A j \in DOMAIN items' : Covered(j)) /\ Unused
    <2> DEFINE a == work[w]
               L == a.lease
    <2>1. Leasing(a) /\ Wrote(a) /\ Based(a) /\ Reached(w) /\ UNCHANGED <<clock, tokens>>
      BY <1>12 DEF Committing
    <2>2. L \in Rows /\ L # NoRow /\ L.run <= tokens /\ L.run \in Nat /\ Progress(L) \in Nat
      BY <2>1, RowFacts DEF Leasing
    <2>3. /\ batch' = L /\ DOMAIN items' = DOMAIN items \cup DOMAIN a.writes
          /\ \A i \in DOMAIN a.writes : items'[i] = a.writes[i]
          /\ \A i \in DOMAIN items \ DOMAIN a.writes : items'[i] = items[i]
          /\ \A r \in Runs : r # L.run => effects'[r] = effects[r]
      BY <2>1 DEF Reached
    <2>4. /\ DOMAIN a.writes \subseteq 1..Progress(L)
          /\ \A i \in DOMAIN a.writes : a.writes[i].expires_at <= clock + RetentionTtl
      BY <2>1 DEF Wrote
    <2>5. ASSUME NEW i \in DOMAIN items, items[i].expires_at > clock PROVE i <= Progress(L)
      <3>1. CASE Atomic(a)
        BY <1>4, <2>1, <2>5, <3>1 DEF Based
      <3>2. CASE ~Atomic(a)
        <4>1. batch \in Rows /\ Progress(batch) <= Progress(L) /\ i <= Progress(batch)
          BY <1>1, <2>1, <2>5, <3>2 DEF Based, ItemsCovered, TypeOK
        <4>2. Progress(batch) \in Nat /\ i \in Nat
          BY <1>1, <4>1, RowFacts DEF TypeOK, Items
        <4> QED BY <2>2, <4>1, <4>2
      <3> QED BY <3>1, <3>2
    <2> HIDE DEF L
    <2>6. ASSUME NEW i \in DOMAIN items' PROVE Covered(i)
      <3>1. CASE i \in DOMAIN a.writes
        <4>1. i <= Progress(L)
          BY <2>2, <2>4, <3>1
        <4> QED BY <2>1, <2>2, <2>3, <2>4, <3>1, <4>1 DEF Covered
      <3>2. CASE i \notin DOMAIN a.writes
        <4>1. i \in DOMAIN items /\ items'[i] = items[i] /\ items[i].expires_at <= clock + RetentionTtl
          BY <1>1, <2>3, <3>2 DEF ItemsCovered
        <4> QED BY <2>1, <2>2, <2>3, <2>5, <4>1 DEF Covered
      <3> QED BY <3>1, <3>2
    <2>7. Unused
      <3>1. \A r \in Runs : r > tokens => r # L.run
        BY <1>1, <2>2 DEF Runs
      <3> QED BY <1>1, <2>1, <2>3, <3>1 DEF ItemsCovered
    <2> QED BY <2>6, <2>7
  <1> QED BY <1>5, <1>6, <1>7, <1>8, <1>9, <1>10, <1>11, <1>12, Steps

\* An open transaction is alone: what the others do leaves what it wrote, and what it is
\* based on, as they were.
LEMMA TransactionKept ==
  ASSUME IInv, NEW v \in Workers, work[v].tx, work'[v] = work[v],
         UNCHANGED <<batch, effects>>, clock' \in Nat, clock <= clock',
         DOMAIN items' \subseteq DOMAIN items, \A i \in DOMAIN items' : items'[i] = items[i]
  PROVE  Wrote(work[v])' /\ Reserves(work[v])' /\ Based(work[v])'
  <1> DEFINE a == work[v]
  <1>1. TypeOK /\ TransactionsExact /\ clock \in Nat /\ RetentionTtl \in Nat
    BY BatchAssumption DEF IInv, TypeOK
  <1>2. Leasing(a) /\ Wrote(a) /\ Reserves(a) /\ Based(a)
    BY <1>1, WorkFacts DEF TransactionsExact
  <1>3. \A i \in DOMAIN a.writes : a.writes[i].expires_at <= clock' + RetentionTtl
    <2>1. ASSUME NEW i \in DOMAIN a.writes PROVE a.writes[i].expires_at <= clock' + RetentionTtl
      <3>1. a.writes[i].expires_at \in Nat /\ a.writes[i].expires_at <= clock + RetentionTtl
        BY <1>2 DEF Leasing, Wrote
      <3> QED BY <1>1, <3>1
    <2> QED BY <2>1
  <1>4. Wrote(a)'
    BY <1>2, <1>3 DEF Wrote
  <1>5. Reserves(a)'
    BY <1>2 DEF Reserves, Atomic
  <1>6. batch # NoRow /\ batch.retention_expires_at <= clock => batch.retention_expires_at <= clock'
    <2> SUFFICES ASSUME batch # NoRow PROVE batch.retention_expires_at <= clock => batch.retention_expires_at <= clock'
      OBVIOUS
    <2>1. batch.retention_expires_at \in Nat
      BY <1>1, RowFacts DEF TypeOK
    <2> QED BY <1>1, <2>1
  <1>7. Based(a)'
    BY <1>2, <1>6 DEF Based, Atomic
  <1> QED BY <1>4, <1>5, <1>7

\* and open transactions stay what the lease has reached.
LEMMA TransactionsStep ==
  ASSUME IInv, [Next]_vars
  PROVE  TransactionsExact'
  <1>1. /\ TypeOK /\ TransactionsExact /\ ProgressExact /\ ItemsCovered /\ RowCoherent
        /\ clock \in Nat /\ tokens \in Nat /\ N \in Nat \ {0} /\ DOMAIN work = Workers
    BY BatchAssumption DEF IInv, TypeOK
  <1> DEFINE Alone(v) == \A u \in Workers \ {v} : ~work'[u].tx
             Exact(v) == Wrote(work[v])' /\ Reserves(work[v])' /\ Based(work[v])'
  <1> SUFFICES ASSUME NEW v \in Workers, work'[v].tx PROVE Alone(v) /\ Exact(v)
    BY DEF TransactionsExact
  \* The other workers of an open transaction, and of none.
  <1>2. ASSUME work[v].tx PROVE \A u \in Workers \ {v} : ~work[u].tx
    BY <1>1, <1>2 DEF TransactionsExact
  <1>3. ASSUME work' = work, UNCHANGED <<batch, effects>>, clock' \in Nat, clock <= clock',
               DOMAIN items' \subseteq DOMAIN items, \A i \in DOMAIN items' : items'[i] = items[i]
        PROVE  Alone(v) /\ Exact(v)
    <2>1. work[v].tx /\ work'[v] = work[v]
      BY <1>3
    <2>2. Exact(v)
      BY <1>3, <2>1, TransactionKept
    <2> QED BY <1>2, <1>3, <2>1, <2>2
  <1> HIDE DEF Exact
  <1>4. CASE UNCHANGED vars
    BY <1>1, <1>3, <1>4 DEF vars
  <1>5. CASE Tick
    BY <1>1, <1>3, <1>5 DEF Tick
  <1>6. CASE PurgeBatch
    BY <1>6 DEF PurgeBatch, Unlocked
  <1>7. ASSUME NEW i \in Items, PurgeItem(i) PROVE Alone(v) /\ Exact(v)
    <2>1. /\ UNCHANGED <<batch, clock, work, effects>>
          /\ DOMAIN items' \subseteq DOMAIN items /\ \A j \in DOMAIN items' : items'[j] = items[j]
      BY <1>7 DEF PurgeItem
    <2> QED BY <1>1, <1>3, <2>1
  <1>8. ASSUME NEW w \in Workers, Resting(w) PROVE Alone(v) /\ Exact(v)
    <2>1. ~work'[w].tx
      BY <1>8, IdleFacts DEF Resting, Beginning
    <2>2. /\ v # w /\ work'[v] = work[v] /\ work[v].tx
          /\ \A u \in Workers : u # w => work'[u] = work[u]
          /\ UNCHANGED <<batch, items, clock, effects>>
      BY <1>8, <2>1 DEF Resting, OthersWork
    <2>3. Exact(v)
      BY <1>1, <2>2, TransactionKept DEF Exact
    <2> QED BY <1>2, <2>1, <2>2, <2>3
  <1>9. ASSUME NEW w \in Workers, NEW L, Issuing(w, L) PROVE Alone(v) /\ Exact(v)
    <2> DEFINE b == work'[w]
    <2>1. /\ Unlocked /\ OthersWork(w) /\ UNCHANGED <<items, clock, effects>> /\ L \in Rows
          /\ b.tx = Atomic(b) /\ b.stage = (IF Atomic(b) THEN "reserving" ELSE "leased")
          /\ b.lease = L /\ b.request = L.request /\ DOMAIN b.writes = {} /\ DOMAIN b.reserved = {}
          /\ batch' = (IF Atomic(b) THEN batch ELSE L) /\ tokens + 1 \in Runs
      BY <1>9 DEF Issuing
    <2>2. v = w
      BY <2>1 DEF Unlocked, OthersWork
    <2>3. Atomic(b) /\ b.stage = "reserving" /\ batch' = batch
      BY <2>1, <2>2
    \* The batch is new: a row of ALL_OR_NOTHING is never resumed.
    <2>4. /\ L.run = tokens + 1 /\ L.receipts = << >> /\ L.state = "processing"
          /\ batch # NoRow => batch.state = "completed" /\ batch.retention_expires_at <= clock
      <3>1. CASE /\ batch \in Rows /\ batch.state \in {"processing", "partially_committed"}
                 /\ L.request = batch.request
        <4>1. Atomic(batch) /\ batch # NoRow
          BY <2>1, <2>3, <3>1, RowFacts DEF Atomic
        <4> QED BY <1>1, <3>1, <4>1 DEF RowCoherent
      <3> QED BY <1>9, <3>1 DEF Issuing
    <2>5. Progress(L) = 0
      BY <2>4 DEF Progress
    <2>6. \A i \in Items : effects[L.run][i] = 0 /\ ~(i <= 0)
      <3>1. tokens + 1 > tokens
        BY <1>1
      <3> QED BY <1>1, <2>1, <2>4, <3>1 DEF ItemsCovered, Items
    <2>7. Alone(v)
      BY <2>1, <2>2 DEF Unlocked, OthersWork
    <2>8. 1..0 = {} /\ 0 \in 0..(N - 1) /\ 0 < N
      BY <1>1
    <2>9. Wrote(work[v])'
      BY <1>1, <2>1, <2>2, <2>4, <2>5, <2>6, <2>8 DEF Wrote
    <2>10. Reserves(work[v])'
      <3>1. \E c \in 0..(N - 1) : DOMAIN b.reserved = 1..c
        BY <2>1, <2>8
      <3> QED BY <1>1, <2>1, <2>2, <2>3, <2>5, <2>8, <3>1 DEF Reserves, Atomic
    <2>11. Based(work[v])'
      BY <2>1, <2>2, <2>3, <2>4 DEF Based, Atomic
    <2> QED BY <2>7, <2>9, <2>10, <2>11 DEF Exact
  <1>10. ASSUME NEW w \in Workers, NEW b, Working(w, b) PROVE Alone(v) /\ Exact(v)
    <2>1. /\ work'[w] = b /\ OthersWork(w) /\ UNCHANGED <<batch, items, clock, effects>>
          /\ \/ b.tx /\ (work[w].tx \/ Unlocked) /\ Wrote(b) /\ Reserves(b) /\ Based(b)
             \/ ~work[w].tx /\ ~b.tx
      BY <1>10 DEF Working
    <2>2. CASE v = w
      <3>1. (work[w].tx \/ Unlocked) /\ Wrote(b) /\ Reserves(b) /\ Based(b)
        BY <2>1, <2>2
      <3>2. \A u \in Workers \ {v} : ~work[u].tx
        BY <1>2, <2>2, <3>1 DEF Unlocked
      <3>3. Alone(v)
        BY <2>1, <2>2, <3>2 DEF OthersWork
      <3>4. Wrote(work[v])'
        BY <2>1, <2>2, <3>1 DEF Wrote
      <3>5. Reserves(work[v])'
        BY <2>1, <2>2, <3>1 DEF Reserves, Atomic
      <3>6. Based(work[v])'
        BY <2>1, <2>2, <3>1 DEF Based, Atomic
      <3> QED BY <3>3, <3>4, <3>5, <3>6 DEF Exact
    <2>3. CASE v # w
      <3>1. work'[v] = work[v] /\ work[v].tx
        BY <2>1, <2>3 DEF OthersWork
      <3>2. ~work[w].tx /\ ~b.tx
        BY <1>2, <2>1, <2>3, <3>1 DEF Unlocked
      <3>3. Exact(v)
        BY <1>1, <2>1, <3>1, TransactionKept DEF Exact
      <3> QED BY <1>2, <2>1, <3>1, <3>2, <3>3 DEF OthersWork
    <2> QED BY <2>2, <2>3
  <1>11. ASSUME NEW w \in Workers, Committing(w) PROVE Alone(v) /\ Exact(v)
    <2>1. ~work'[w].tx /\ work[w].tx /\ OthersWork(w)
      BY <1>11, IdleFacts DEF Committing, Leasing
    <2>2. ~work'[v].tx
      BY <1>1, <2>1 DEF TransactionsExact, OthersWork
    <2> QED BY <2>2
  <1> QED BY <1>4, <1>5, <1>6, <1>7, <1>8, <1>9, <1>10, <1>11, Steps

\* A lease is kept, or it is the one that was issued.
LEMMA TokensStep ==
  ASSUME IInv, [Next]_vars, NEW v \in Workers, HasLease(work'[v])
  PROVE  \/ HasLease(work[v]) /\ work'[v].lease.token = work[v].lease.token
         \/ /\ work'[v].lease.token = tokens + 1
            /\ \A u \in Workers : u # v => work'[u] = work[u]
  <1>1. TypeOK
    BY DEF IInv
  <1>2. CASE work'[v] = work[v]
    BY <1>2
  <1>3. ASSUME NEW w \in Workers, Resting(w), v = w PROVE FALSE
    BY <1>3, IdleFacts DEF Resting, Beginning, HasLease
  <1>4. ASSUME NEW w \in Workers, NEW L, Issuing(w, L), v = w
        PROVE  work'[v].lease.token = tokens + 1 /\ \A u \in Workers : u # v => work'[u] = work[u]
    BY <1>4 DEF Issuing, OthersWork
  <1>5. ASSUME NEW w \in Workers, NEW b, Working(w, b), v = w
        PROVE  HasLease(work[v]) /\ work'[v].lease.token = work[v].lease.token
    BY <1>1, <1>5, WorkFacts DEF Working
  <1>6. ASSUME NEW w \in Workers, Committing(w), v = w
        PROVE  HasLease(work[v]) /\ work'[v].lease.token = work[v].lease.token
    BY <1>1, <1>6, IdleFacts, WorkFacts DEF Committing
  <1>7. \/ work'[v] = work[v]
        \/ \E w \in Workers : Resting(w) /\ v = w
        \/ \E w \in Workers : \E L : Issuing(w, L) /\ v = w
        \/ \E w \in Workers : \E b : Working(w, b) /\ v = w
        \/ \E w \in Workers : Committing(w) /\ v = w
    BY Steps DEF vars, Tick, PurgeBatch, PurgeItem, Resting, Issuing, Working, Committing, OthersWork
  <1> QED BY <1>2, <1>3, <1>4, <1>5, <1>6, <1>7

\* Tokens are issued once.
LEMMA LeasesStep ==
  ASSUME IInv, [Next]_vars
  PROVE  LeasesCoherent'
  <1>1. TypeOK /\ LeasesCoherent /\ RowCoherent /\ tokens \in Nat
    BY DEF IInv, TypeOK
  \* Tokens.
  <1>2. ASSUME NEW w \in Workers, HasLease(work[w])
        PROVE  work[w].lease.token \in Nat /\ work[w].lease.token <= tokens
    BY <1>1, <1>2, WorkFacts, RowFacts DEF Leasing
  <1>3. ASSUME NEW w \in Workers, NEW v \in Workers, w # v, HasLease(work'[w]), HasLease(work'[v])
        PROVE  work'[w].lease.token # work'[v].lease.token
    <2>1. CASE /\ HasLease(work[w]) /\ work'[w].lease.token = work[w].lease.token
               /\ HasLease(work[v]) /\ work'[v].lease.token = work[v].lease.token
      BY <1>1, <1>3, <2>1 DEF LeasesCoherent
    <2>2. CASE work'[w].lease.token = tokens + 1 /\ \A u \in Workers : u # w => work'[u] = work[u]
      <3>1. HasLease(work[v]) /\ work'[v].lease.token = work[v].lease.token
        BY <1>3, <2>2
      <3> QED BY <1>1, <1>2, <2>2, <3>1
    <2>3. CASE work'[v].lease.token = tokens + 1 /\ \A u \in Workers : u # v => work'[u] = work[u]
      <3>1. HasLease(work[w]) /\ work'[w].lease.token = work[w].lease.token
        BY <1>3, <2>3
      <3> QED BY <1>1, <1>2, <2>3, <3>1
    <2> QED BY <1>3, <2>1, <2>2, <2>3, TokensStep
  \* Between transactions.
  <1> DEFINE Coherent(b) ==
        /\ ~Atomic(b) /\ b.lease.state # "completed"
        /\ DOMAIN b.writes = {} /\ DOMAIN b.reserved = {}
        /\ batch' # NoRow /\ batch'.token = b.lease.token =>
            batch'.run = b.lease.run /\ batch'.request = b.lease.request
  <1>4. ASSUME \A v \in Workers : Waiting(v)' => Coherent(work'[v]) PROVE LeasesCoherent'
    <2>1. TypeOK'
      BY TypeStep
    <2>2. \A v \in Workers : HasLease(work'[v]) /\ ~work'[v].tx => Waiting(v)'
      <3> SUFFICES ASSUME NEW v \in Workers, HasLease(work'[v]), ~work'[v].tx PROVE Waiting(v)'
        OBVIOUS
      <3>1. work'[v] = Idle \/ Beginning(work[v])' \/ Leasing(work[v])'
        BY <2>1 DEF TypeOK
      <3>2. CASE Beginning(work[v])'
        BY <3>2 DEF Beginning, HasLease
      <3>3. CASE Leasing(work[v])'
        BY <3>3 DEF Leasing, Waiting
      <3> QED BY <3>1, <3>2, <3>3, IdleFacts
    <2> QED BY <1>3, <1>4, <2>2 DEF LeasesCoherent, HasLease, Atomic
  <1> SUFFICES ASSUME NEW v \in Workers, Waiting(v)' PROVE Coherent(work'[v])
    BY <1>4
  <1> DEFINE Same == /\ Waiting(v) /\ work'[v].lease = work[v].lease /\ work'[v].request = work[v].request
                     /\ work'[v].writes = work[v].writes /\ work'[v].reserved = work[v].reserved
  <1>5. ASSUME Same, batch' # NoRow /\ batch'.token = work[v].lease.token =>
                        batch' = batch \/ (batch' # NoRow /\ batch # NoRow /\ batch'.run = batch.run
                                           /\ batch'.request = batch.request /\ batch'.token = batch.token)
        PROVE  Coherent(work'[v])
    <2>1. HasLease(work[v]) /\ ~work[v].tx
      BY <1>1, <1>5, WaitingFacts
    <2>2. /\ ~Atomic(work[v]) /\ work[v].lease.state # "completed"
          /\ DOMAIN work[v].writes = {} /\ DOMAIN work[v].reserved = {}
          /\ batch # NoRow /\ batch.token = work[v].lease.token =>
              batch.run = work[v].lease.run /\ batch.request = work[v].lease.request
      BY <1>1, <2>1 DEF LeasesCoherent
    <2> QED BY <1>5, <2>2 DEF Atomic
  <1>6. CASE UNCHANGED <<batch, work>>
    BY <1>5, <1>6 DEF Waiting
  <1>7. CASE PurgeBatch
    BY <1>5, <1>7 DEF PurgeBatch, Waiting
  <1>8. ASSUME NEW w \in Workers, Resting(w) PROVE Coherent(work'[v])
    <2>1. v # w
      BY <1>8, IdleFacts DEF Resting, Beginning, Waiting
    <2> QED BY <1>5, <1>8, <2>1 DEF Resting, OthersWork, Waiting
  <1>9. ASSUME NEW w \in Workers, NEW L, Issuing(w, L) PROVE Coherent(work'[v])
    <2>1. CASE v = w
      <3> DEFINE b == work'[v]
      <3>1. /\ b.lease = L /\ b.request = L.request /\ DOMAIN b.writes = {} /\ DOMAIN b.reserved = {}
            /\ batch' = (IF Atomic(b) THEN batch ELSE L)
            /\ b.stage = (IF Atomic(b) THEN "reserving" ELSE "leased") /\ L.state # "completed"
        BY <1>9, <2>1 DEF Issuing
      <3>2. ~Atomic(b)
        BY <3>1 DEF Waiting
      <3> QED BY <3>1, <3>2
    <2>2. CASE v # w
      <3>1. Same
        BY <1>9, <2>2 DEF Issuing, OthersWork, Waiting
      <3>2. work[v].lease.token # tokens + 1
        BY <1>1, <1>2, <3>1, WaitingFacts
      <3>3. batch' = batch \/ batch'.token = tokens + 1
        BY <1>9 DEF Issuing
      <3> QED BY <1>5, <3>1, <3>2, <3>3
    <2> QED BY <2>1, <2>2
  <1>10. ASSUME NEW w \in Workers, NEW b, Working(w, b) PROVE Coherent(work'[v])
    <2>1. CASE v = w
      <3>1. ~b.tx
        BY <1>10, <2>1 DEF Working, Waiting, Leasing
      <3>2. Same /\ batch' = batch
        BY <1>10, <2>1, <3>1 DEF Working, Waiting, Leasing
      <3> QED BY <1>5, <3>2
    <2>2. CASE v # w
      BY <1>5, <1>10, <2>2 DEF Working, OthersWork, Waiting
    <2> QED BY <2>1, <2>2
  <1>11. ASSUME NEW w \in Workers, Committing(w) PROVE Coherent(work'[v])
    <2> DEFINE a == work[w]
    <2>1. /\ Leasing(a) /\ (Atomic(a) => a.lease.state = "completed") /\ batch' = a.lease
          /\ OthersWork(w)
      BY <1>11 DEF Committing, Reached
    <2>2. CASE v = w
      <3>1. /\ a.lease.state # "completed" /\ work'[v].lease = a.lease /\ work'[v].request = a.request
            /\ DOMAIN work'[v].writes = {} /\ DOMAIN work'[v].reserved = {}
        BY <1>11, <2>2, IdleFacts DEF Committing, Waiting
      <3> QED BY <2>1, <3>1 DEF Atomic
    <2>3. CASE v # w
      <3>1. Same
        BY <2>1, <2>3 DEF OthersWork, Waiting
      <3>2. HasLease(work[v]) /\ HasLease(a)
        BY <1>1, <2>1, <3>1, WaitingFacts, WorkFacts
      <3>3. a.lease.token # work[v].lease.token
        BY <1>1, <2>3, <3>2 DEF LeasesCoherent
      <3> QED BY <1>5, <2>1, <3>1, <3>3
    <2> QED BY <2>2, <2>3
  <1>12. \/ UNCHANGED <<batch, work>> \/ PurgeBatch \/ (\E w \in Workers : Resting(w))
         \/ (\E w \in Workers : \E L : Issuing(w, L)) \/ (\E w \in Workers : \E b : Working(w, b))
         \/ \E w \in Workers : Committing(w)
    BY Steps DEF vars, Tick, PurgeItem
  <1> QED BY <1>6, <1>7, <1>8, <1>9, <1>10, <1>11, <1>12

\* Nothing is written and nobody is at work at first.
LEMMA InvInit == Init => IInv
  <1> SUFFICES ASSUME Init PROVE IInv
    OBVIOUS
  <1>1. /\ batch = NoRow /\ DOMAIN items = {} /\ clock = 0 /\ tokens = 0
        /\ DOMAIN work = Workers /\ (\A w \in Workers : work[w] = Idle)
        /\ DOMAIN answer = Workers /\ (\A w \in Workers : answer[w] = NoAnswer)
        /\ effects = [r \in Runs |-> [i \in Items |-> 0]]
    BY DEF Init
  <1>2. \A r \in Runs, i \in Items : effects[r][i] = 0
    BY <1>1
  <1>3. TypeOK
    BY <1>1, BatchAssumption DEF TypeOK
  <1>4. ProgressExact
    BY <1>1, <1>2 DEF ProgressExact
  <1>5. AnswersTrue
    BY <1>1 DEF AnswersTrue, NoAnswer
  <1>6. LeaseExclusive
    BY <1>1, IdleFacts DEF LeaseExclusive
  <1>7. TransactionsExact
    BY <1>1, IdleFacts DEF TransactionsExact
  <1>8. LeasesCoherent
    BY <1>1, IdleFacts DEF LeasesCoherent
  <1>9. RowCoherent /\ ItemsCovered
    BY <1>1, <1>2 DEF RowCoherent, ItemsCovered
  <1> QED BY <1>3, <1>4, <1>5, <1>6, <1>7, <1>8, <1>9 DEF IInv

\* All conjuncts together.
LEMMA InvStep ==
  ASSUME IInv, [Next]_vars
  PROVE  IInv'
  BY TypeStep, ProgressStep, AnswersStep, LeaseExclusiveStep, TransactionsStep, LeasesStep,
     RowStep, ItemsStep DEF IInv

----------------------------------------------------------------------------
\* MutationBatchCoordinator over the Django stores, whatever callers execute one batch
\* identity, crash in it, or lose the result of a commit: every state is coherent.
THEOREM Invariance == Spec => []IInv
  <1>1. Init => IInv
    BY InvInit
  <1>2. IInv /\ [Next]_vars => IInv'
    BY InvStep
  <1> QED BY <1>1, <1>2, PTL DEF Spec

\* advance_batch() stores a receipt in the transaction that applies its item: the row's
\* prefix of receipts is exactly what took effect in its run, once each, and a batch of
\* ALL_OR_NOTHING is never seen half done.
THEOREM ProgressExactTheorem == Spec => []ProgressExact
  <1>1. IInv => ProgressExact
    BY DEF IInv
  <1> QED BY <1>1, Invariance, PTL

\* Whoever execute() answers BatchCommitted or BatchReplay holds the receipts of all items,
\* in order, of mutations that took effect in one run, even after the row was purged.
THEOREM AnswersTrueTheorem == Spec => []AnswersTrue
  <1>1. IInv => AnswersTrue
    BY DEF IInv
  <1> QED BY <1>1, Invariance, PTL

\* begin() resumes a batch only when its lease is over: a worker inside its lease finds the
\* row active, with its own token and progress.
THEOREM LeaseExclusiveTheorem == Spec => []LeaseExclusive
  <1>1. IInv => LeaseExclusive
    BY DEF IInv
  <1> QED BY <1>1, Invariance, PTL

----------------------------------------------------------------------------
\* The dependency graph.

\* Sets of datasets are finite.
LEMMA SomeDatasets ==
  ASSUME NEW S \in SUBSET Datasets
  PROVE  /\ IsFiniteSet(S) /\ Cardinality(S) \in Nat /\ Cardinality(S) <= MaxDataset
         /\ \A T \in SUBSET S : T # S => Cardinality(T) < Cardinality(S)
  <1>1. 1 \in Int /\ MaxDataset \in Int /\ MaxDataset >= 1
    BY DependenciesAssumption
  <1>2. IsFiniteSet(1..MaxDataset) /\ Cardinality(1..MaxDataset) = MaxDataset
    BY <1>1, FS_Interval
  <1>3. IsFiniteSet(S) /\ Cardinality(S) <= MaxDataset
    BY <1>2, FS_Subset DEF Datasets
  <1>4. Cardinality(S) \in Nat
    BY <1>3, FS_CardinalityType
  <1>5. ASSUME NEW T \in SUBSET S, T # S PROVE Cardinality(T) < Cardinality(S)
    <2>1. IsFiniteSet(T) /\ Cardinality(T) <= Cardinality(S) /\ Cardinality(T) # Cardinality(S)
      BY <1>3, <1>5, FS_Subset
    <2>2. Cardinality(T) \in Nat
      BY <2>1, FS_CardinalityType
    <2> QED BY <1>4, <2>1, <2>2
  <1> QED BY <1>3, <1>4, <1>5

\* sorted() has each dataset once, in the order of the names.
LEMMA SortedFacts ==
  ASSUME NEW S \in SUBSET Datasets
  PROVE  /\ Sorted(S) \in [1..Cardinality(S) -> S]
         /\ \A i, j \in 1..Cardinality(S) : i < j => Sorted(S)[i] < Sorted(S)[j]
         /\ \A x \in S : \E i \in 1..Cardinality(S) : Sorted(S)[i] = x
  <1> DEFINE c == Cardinality(S)
             Below(x) == {y \in S : y < x}
             rank == [x \in S |-> Cardinality(Below(x))]
  <1>1. IsFiniteSet(S) /\ c \in Nat /\ \A x \in S : x \in Int
    BY SomeDatasets DEF Datasets
  <1>2. ASSUME NEW x \in S PROVE rank[x] \in 0..(c - 1)
    <2>1. Below(x) \subseteq S /\ Below(x) # S /\ Below(x) \subseteq Datasets
      BY <1>1
    <2>2. Cardinality(Below(x)) < c /\ Cardinality(Below(x)) \in Nat
      BY <2>1, SomeDatasets
    <2> QED BY <1>1, <2>2
  <1>3. ASSUME NEW x \in S, NEW y \in S, x < y PROVE rank[x] < rank[y]
    <2>1. Below(x) \subseteq Below(y) /\ Below(x) # Below(y) /\ Below(y) \in SUBSET Datasets
      BY <1>1, <1>3
    <2>2. Cardinality(Below(x)) < Cardinality(Below(y))
      BY <2>1, SomeDatasets
    <2> QED BY <2>2
  <1>s. Sorted(S) = [i \in 1..c |-> CHOOSE x \in S : Cardinality(Below(x)) = i - 1]
    BY DEF Sorted
  <1>r. \A x \in S : rank[x] = Cardinality(Below(x))
    OBVIOUS
  <1>d. rank \in [S -> 0..(c - 1)]
    <2>1. rank = [x \in S |-> rank[x]]
      OBVIOUS
    <2> HIDE DEF rank
    <2> QED BY <1>2, <2>1
  <1> HIDE DEF rank, Below, c
  <1>4. ASSUME NEW x \in S, NEW y \in S, rank[x] = rank[y] PROVE x = y
    <2>1. rank[x] \in Int /\ rank[y] \in Int
      BY <1>1, <1>2
    <2> QED BY <1>1, <1>3, <1>4, <2>1
  <1>5. \A k \in 0..(c - 1) : \E x \in S : rank[x] = k
    <2>1. IsFiniteSet(0..(c - 1)) /\ Cardinality(0..(c - 1)) = c
      <3>1. 0 \in Int /\ c - 1 \in Int
        BY <1>1
      <3>2. /\ IsFiniteSet(0..(c - 1))
            /\ Cardinality(0..(c - 1)) = IF 0 > c - 1 THEN 0 ELSE (c - 1) - 0 + 1
        BY <3>1, FS_Interval
      <3> QED BY <1>1, <3>2
    <2>2. rank \in Injection(S, 0..(c - 1))
      BY <1>d, <1>4 DEF Injection, IsInjective
    <2>3. rank \in Surjection(S, 0..(c - 1))
      BY <1>1, <2>1, <2>2, FS_Injection DEF c
    <2> QED BY <2>3 DEF Surjection
  <1>6. ASSUME NEW i \in 1..c PROVE Sorted(S)[i] \in S /\ rank[Sorted(S)[i]] = i - 1
    <2>1. i - 1 \in 0..(c - 1)
      BY <1>1
    <2>2. \E x \in S : Cardinality(Below(x)) = i - 1
      BY <1>5, <1>r, <2>1
    <2>3. Sorted(S)[i] = CHOOSE x \in S : Cardinality(Below(x)) = i - 1
      BY <1>s
    <2> QED BY <1>r, <2>2, <2>3
  <1>7. Sorted(S) \in [1..c -> S]
    <2>1. Sorted(S) = [i \in 1..c |-> Sorted(S)[i]]
      BY <1>s
    <2> QED BY <1>6, <2>1
  <1>8. ASSUME NEW i \in 1..c, NEW j \in 1..c, i < j PROVE Sorted(S)[i] < Sorted(S)[j]
    <2> DEFINE x == Sorted(S)[i]
               y == Sorted(S)[j]
    <2>1. x \in S /\ y \in S /\ rank[x] = i - 1 /\ rank[y] = j - 1
      BY <1>6
    <2>2. rank[x] < rank[y] /\ rank[x] \in Int /\ rank[y] \in Int /\ i \in Int /\ j \in Int
      BY <1>1, <1>2, <1>8, <2>1
    <2>3. x \in Int /\ y \in Int
      BY <1>1, <2>1
    <2> HIDE DEF x, y
    <2>4. x < y
      BY <1>3, <2>1, <2>2, <2>3
    <2> QED BY <2>4 DEF x, y
  <1>9. ASSUME NEW x \in S PROVE \E i \in 1..c : Sorted(S)[i] = x
    <2>1. rank[x] + 1 \in 1..c /\ rank[x] \in Int
      BY <1>1, <1>2
    <2>2. Sorted(S)[rank[x] + 1] \in S /\ rank[Sorted(S)[rank[x] + 1]] = rank[x]
      BY <1>6, <2>1
    <2> QED BY <1>4, <2>1, <2>2
  <1> QED BY <1>7, <1>8, <1>9 DEF c

\* Chains of parents in terms of what is passed as a parameter.
ChainAbove(par, ask, n, d) ==
  \E chain \in [0..n -> ask] : chain[0] = d /\ \A i \in 1..n : chain[i] \in par[chain[i - 1]]

\* A dataset has an empty chain above it.
LEMMA NoneAbove ==
  ASSUME NEW par, NEW ask, NEW d \in ask
  PROVE  ChainAbove(par, ask, 0, d)
  <1> DEFINE chain == [i \in 0..0 |-> d]
  <1>1. chain \in [0..0 -> ask] /\ chain[0] = d /\ \A i \in 1..0 : chain[i] \in par[chain[i - 1]]
    OBVIOUS
  <1> QED BY <1>1 DEF ChainAbove

\* A chain may be cut short.
LEMMA ShorterAbove ==
  ASSUME NEW par, NEW ask, NEW n \in Nat, NEW m \in 0..n, NEW d, ChainAbove(par, ask, n, d)
  PROVE  ChainAbove(par, ask, m, d) /\ d \in ask
  <1>1. PICK chain \in [0..n -> ask] : chain[0] = d /\ \A i \in 1..n : chain[i] \in par[chain[i - 1]]
    BY DEF ChainAbove
  <1> DEFINE short == [i \in 0..m |-> chain[i]]
  <1>2. short \in [0..m -> ask] /\ short[0] = d
    BY <1>1
  <1>3. ASSUME NEW i \in 1..m PROVE short[i] \in par[short[i - 1]]
    <2>1. i \in 1..n /\ i \in 0..m /\ i - 1 \in 0..m
      OBVIOUS
    <2> QED BY <1>1, <2>1
  <1>4. d \in ask
    BY <1>1
  <1> HIDE DEF short
  <1> QED BY <1>2, <1>3, <1>4 DEF ChainAbove

\* One more dataset above d is a parent of d with a chain above it.
LEMMA LongerAbove ==
  ASSUME NEW par, NEW ask, NEW n \in Nat, NEW d
  PROVE  ChainAbove(par, ask, n + 1, d) <=> d \in ask /\ \E p \in par[d] \cap ask : ChainAbove(par, ask, n, p)
  <1>1. ASSUME ChainAbove(par, ask, n + 1, d)
        PROVE  d \in ask /\ \E p \in par[d] \cap ask : ChainAbove(par, ask, n, p)
    <2>1. PICK chain \in [0..(n + 1) -> ask] :
             chain[0] = d /\ \A i \in 1..(n + 1) : chain[i] \in par[chain[i - 1]]
      BY <1>1 DEF ChainAbove
    <2> DEFINE rest == [i \in 0..n |-> chain[i + 1]]
    <2>2. rest \in [0..n -> ask] /\ rest[0] = chain[1] /\ chain[1] \in par[d] \cap ask /\ d \in ask
      BY <2>1
    <2>3. ASSUME NEW i \in 1..n PROVE rest[i] \in par[rest[i - 1]]
      <3>1. i + 1 \in 1..(n + 1) /\ i \in 0..n /\ i - 1 \in 0..n /\ (i - 1) + 1 = i /\ (i + 1) - 1 = i
        OBVIOUS
      <3> QED BY <2>1, <3>1
    <2> HIDE DEF rest
    <2>4. ChainAbove(par, ask, n, chain[1])
      BY <2>2, <2>3 DEF ChainAbove
    <2> QED BY <2>2, <2>4
  <1>2. ASSUME d \in ask, NEW p \in par[d] \cap ask, ChainAbove(par, ask, n, p)
        PROVE  ChainAbove(par, ask, n + 1, d)
    <2>1. PICK chain \in [0..n -> ask] : chain[0] = p /\ \A i \in 1..n : chain[i] \in par[chain[i - 1]]
      BY <1>2 DEF ChainAbove
    <2> DEFINE longer == [i \in 0..(n + 1) |-> IF i = 0 THEN d ELSE chain[i - 1]]
    <2>2. longer \in [0..(n + 1) -> ask] /\ longer[0] = d
      BY <1>2
    <2>3. ASSUME NEW i \in 1..(n + 1) PROVE longer[i] \in par[longer[i - 1]]
      <3>1. CASE i = 1
        BY <1>2, <2>1, <3>1
      <3>2. CASE i # 1
        <4>1. i - 1 \in 1..n /\ i - 1 \in 0..(n + 1) /\ i \in 0..(n + 1) /\ i # 0 /\ i - 1 # 0
          BY <3>2
        <4> QED BY <2>1, <4>1
      <3> QED BY <3>1, <3>2
    <2> HIDE DEF longer
    <2> QED BY <2>2, <2>3 DEF ChainAbove
  <1> QED BY <1>1, <1>2

\* LayersSoFar and OutputSoFar likewise.
ComesBefore(par, ask, d, e) ==
  \/ \E n \in 1..MaxDataset : ChainAbove(par, ask, n, e) /\ ~ChainAbove(par, ask, n, d)
  \/ d < e /\ \A n \in 1..MaxDataset : ChainAbove(par, ask, n, d) <=> ChainAbove(par, ask, n, e)

WaitsIn(par, S) == \A d \in S : par[d] \cap S # {}

LeftAfter(par, ask, left, n) ==
  n \in 0..Cardinality(ask \ left) /\ left = {d \in ask : ChainAbove(par, ask, n, d)}

LayersOf(par, ask, map, left) ==
  /\ left \subseteq ask
  /\ map = [d \in left |-> par[d] \cap left]
  /\ \A S \in SUBSET ask : WaitsIn(par, S) => S \subseteq left
  /\ \E n \in 0..Cardinality(ask \ left) : LeftAfter(par, ask, left, n)

OutputOf(par, ask, out, left) ==
  /\ out \in [1..Cardinality(ask \ left) -> ask \ left]
  /\ \A d \in ask \ left : \E i \in DOMAIN out : out[i] = d
  /\ \A i, j \in DOMAIN out : i < j => ComesBefore(par, ask, out[i], out[j])
  /\ \A i, j \in DOMAIN out : out[i] \in par[out[j]] => i < j
  /\ \A i, j \in DOMAIN out : out[i] = out[j] => i = j
  /\ \A i \in DOMAIN out : par[out[i]] \cap left = {}

\* R is what is ready.
ReadyIn(par, left, R) == R = {d \in left : par[d] \cap left = {}} /\ R # {}

LayerCounts(ask, left, R) ==
  /\ Cardinality(ask \ (left \ R)) = Cardinality(ask \ left) + Cardinality(R)
  /\ Cardinality(ask \ left) \in Nat /\ Cardinality(R) \in Nat

\* What a layer leaves has longer chains above it, and what it takes has not.
LEMMA LayerLeaves ==
  ASSUME NEW par, NEW ask \in SUBSET Datasets, NEW left \in SUBSET ask, NEW n, LeftAfter(par, ask, left, n),
         NEW R, ReadyIn(par, left, R)
  PROVE  /\ LeftAfter(par, ask, left \ R, n + 1)
         /\ n \in Nat /\ n <= MaxDataset /\ (left # ask => n >= 1)
         /\ LayerCounts(ask, left, R)
  <1>1. /\ Cardinality(ask \ left) \in Nat /\ Cardinality(ask \ left) <= MaxDataset
        /\ Cardinality(R) \in Nat /\ Cardinality(R) # 0 /\ IsFiniteSet(ask \ left) /\ IsFiniteSet(R)
    <2>1. ask \ left \in SUBSET Datasets /\ R \in SUBSET Datasets /\ R # {}
      BY DEF ReadyIn
    <2>2. IsFiniteSet(R) /\ Cardinality(R) # 0
      BY <2>1, SomeDatasets, FS_EmptySet
    <2> QED BY <2>1, <2>2, SomeDatasets
  <1>2. n \in Nat /\ n <= Cardinality(ask \ left) /\ left = {d \in ask : ChainAbove(par, ask, n, d)}
    BY <1>1 DEF LeftAfter
  <1>3. n \in Nat /\ n <= MaxDataset /\ MaxDataset \in Nat
    BY <1>1, <1>2, DependenciesAssumption
  <1>4. left # ask => n # 0
    BY <1>2, NoneAbove
  <1>5. Cardinality(ask \ (left \ R)) = Cardinality(ask \ left) + Cardinality(R)
    <2> DEFINE A == ask \ left
    <2>1. A \cap R = {} /\ ask \ (left \ R) = A \cup R /\ IsFiniteSet(A) /\ Cardinality(A) \in Nat
      BY <1>1 DEF ReadyIn
    <2> HIDE DEF A
    <2>2. Cardinality(A \cup R) = Cardinality(A) + Cardinality(R) - Cardinality(A \cap R)
      BY <1>1, <2>1, FS_Union
    <2>3. Cardinality(A \cap R) = 0
      BY <2>1, FS_EmptySet, Zenon
    <2>4. Cardinality(A \cup R) = Cardinality(A) + Cardinality(R)
      BY <1>1, <2>1, <2>2, <2>3
    <2>5. Cardinality(ask \ (left \ R)) = Cardinality(A) + Cardinality(R)
      BY <2>1, <2>4, Zenon
    <2> QED BY <2>5 DEF A
  <1>6. n + 1 \in 0..Cardinality(ask \ (left \ R))
    BY <1>1, <1>2, <1>5
  <1>7. \A d \in ask : d \in left \ R <=> ChainAbove(par, ask, n + 1, d)
    <2>1. ASSUME NEW d \in ask, d \in left \ R PROVE ChainAbove(par, ask, n + 1, d)
      <3>1. PICK p \in par[d] \cap left : TRUE
        BY <2>1 DEF ReadyIn
      <3>2. p \in par[d] \cap ask /\ ChainAbove(par, ask, n, p)
        BY <1>2
      <3> QED BY <1>2, <3>2, LongerAbove
    <2>2. ASSUME NEW d \in ask, ChainAbove(par, ask, n + 1, d) PROVE d \in left \ R
      <3>1. PICK p \in par[d] \cap ask : ChainAbove(par, ask, n, p)
        BY <1>2, <2>2, LongerAbove
      <3>2. n + 1 \in Nat /\ n \in 0..(n + 1)
        BY <1>2
      <3>3. ChainAbove(par, ask, n, d)
        BY <2>2, <3>2, ShorterAbove
      <3>4. p \in left /\ d \in left
        BY <1>2, <3>1, <3>3
      <3> QED BY <3>1, <3>4 DEF ReadyIn
    <2> QED BY <2>1, <2>2
  <1>8. left \ R = {d \in ask : ChainAbove(par, ask, n + 1, d)}
    BY <1>7
  <1> QED BY <1>1, <1>3, <1>4, <1>5, <1>6, <1>8 DEF LeftAfter, LayerCounts

\* A layer comes after what is out, and its datasets come in the order of their names.
LEMMA LayerComesNext ==
  ASSUME NEW par, NEW ask \in SUBSET Datasets, NEW left \in SUBSET ask, NEW n, LeftAfter(par, ask, left, n),
         NEW R, ReadyIn(par, left, R)
  PROVE  /\ \A d \in ask \ left, e \in R : ComesBefore(par, ask, d, e)
         /\ \A d, e \in R : d < e => ComesBefore(par, ask, d, e)
  <1>1. /\ LeftAfter(par, ask, left \ R, n + 1) /\ n \in Nat /\ n <= MaxDataset
        /\ (left # ask => n >= 1) /\ MaxDataset \in Nat
    <2>1. MaxDataset \in Nat
      BY DependenciesAssumption
    <2> QED BY <2>1, LayerLeaves
  <1>2. \A d \in ask : d \in left <=> ChainAbove(par, ask, n, d)
    BY DEF LeftAfter
  <1>3. \A d \in ask : d \in left \ R <=> ChainAbove(par, ask, n + 1, d)
    BY <1>1 DEF LeftAfter
  <1>4. ASSUME NEW d \in ask \ left, NEW e \in R PROVE ComesBefore(par, ask, d, e)
    <2>1. n \in 1..MaxDataset /\ ChainAbove(par, ask, n, e) /\ ~ChainAbove(par, ask, n, d)
      BY <1>1, <1>2 DEF ReadyIn
    <2> QED BY <2>1 DEF ComesBefore
  <1>5. ASSUME NEW d \in R, NEW m \in 1..MaxDataset PROVE ChainAbove(par, ask, m, d) <=> m <= n
    <2>1. ChainAbove(par, ask, n, d) /\ ~ChainAbove(par, ask, n + 1, d) /\ d \in ask
      BY <1>2, <1>3 DEF ReadyIn
    <2>2. CASE m <= n
      <3>1. m \in 0..n
        BY <1>1, <2>2
      <3> QED BY <1>1, <2>1, <2>2, <3>1, ShorterAbove
    <2>3. CASE ~(m <= n)
      <3>1. n + 1 \in 0..m /\ m \in Nat
        BY <1>1, <2>3
      <3> QED BY <2>1, <2>3, <3>1, ShorterAbove
    <2> QED BY <2>2, <2>3
  <1>6. ASSUME NEW d \in R, NEW e \in R, d < e PROVE ComesBefore(par, ask, d, e)
    BY <1>5, <1>6 DEF ComesBefore
  <1> QED BY <1>4, <1>6

\* What is out, followed by what comes next.
LEMMA Followed ==
  ASSUME NEW A, NEW B, NEW k \in Nat, NEW c \in Nat, NEW f \in [1..k -> A], NEW g \in [1..c -> B]
  PROVE  /\ f \o g \in [1..(k + c) -> A \cup B]
         /\ \A i \in 1..k : (f \o g)[i] = f[i] /\ (f \o g)[i] \in A
         /\ \A i \in 1..(k + c) : i > k => i - k \in 1..c /\ (f \o g)[i] = g[i - k] /\ (f \o g)[i] \in B
  <1>1. f \in Seq(A \cup B) /\ g \in Seq(A \cup B) /\ Len(f) = k /\ Len(g) = c
    <2>1. f \in [1..k -> A \cup B] /\ g \in [1..c -> A \cup B]
      OBVIOUS
    <2>2. f \in Seq(A \cup B) /\ g \in Seq(A \cup B) /\ DOMAIN f = 1..k /\ DOMAIN g = 1..c
      BY <2>1
    <2> QED BY <2>2
  <1>2. f \o g \in Seq(A \cup B) /\ Len(f \o g) = k + c
    BY <1>1
  <1>3. \A i \in 1..(k + c) : (f \o g)[i] = IF i <= k THEN f[i] ELSE g[i - k]
    BY <1>1
  <1>4. f \o g \in [1..(k + c) -> A \cup B]
    <2>1. ASSUME NEW T, NEW h \in Seq(T), NEW m, Len(h) = m PROVE h \in [1..m -> T]
      BY <2>1
    <2> QED BY <1>2, <2>1
  <1>5. \A i \in 1..k : i \in 1..(k + c) /\ i <= k
    OBVIOUS
  <1>6. \A i \in 1..(k + c) : i > k => i - k \in 1..c /\ ~(i <= k)
    OBVIOUS
  <1>7. \A i \in 1..k : (f \o g)[i] = f[i] /\ f[i] \in A
    BY <1>3, <1>5
  <1>8. \A i \in 1..(k + c) : i > k => (f \o g)[i] = g[i - k] /\ g[i - k] \in B
    BY <1>3, <1>6
  <1> QED BY <1>4, <1>6, <1>7, <1>8

\* A layer keeps the order and leaves the next ones to do.
LEMMA LayerKeeps ==
  ASSUME NEW par, NEW ask \in SUBSET Datasets, NEW left, NEW map, NEW out,
         LayersOf(par, ask, map, left), OutputOf(par, ask, out, left), NEW R, ReadyIn(par, left, R)
  PROVE  /\ LayersOf(par, ask, [d \in left \ R |-> map[d] \ R], left \ R)
         /\ OutputOf(par, ask, out \o Sorted(R), left \ R)
  <1> DEFINE k == Cardinality(ask \ left)
             c == Cardinality(R)
             s == Sorted(R)
             out2 == out \o s
             left2 == left \ R
  <1>1. left \in SUBSET ask /\ R \in SUBSET left /\ R \in SUBSET Datasets /\ left2 \subseteq ask
    BY DEF LayersOf, ReadyIn
  <1>2. PICK n : LeftAfter(par, ask, left, n)
    BY DEF LayersOf
  <1>3. /\ LeftAfter(par, ask, left2, n + 1) /\ Cardinality(ask \ left2) = k + c
        /\ k \in Nat /\ c \in Nat
    <2>1. left \in SUBSET ask /\ ask \in SUBSET Datasets /\ ReadyIn(par, left, R)
      BY <1>1
    <2> HIDE DEF left2, k, c, s, out2
    <2>2. LeftAfter(par, ask, left \ R, n + 1) /\ LayerCounts(ask, left, R)
      BY <1>2, <2>1, LayerLeaves
    <2> QED BY <2>2 DEF left2, k, c, LayerCounts
  <1>4. /\ \A d \in ask \ left, e \in R : ComesBefore(par, ask, d, e)
        /\ \A d, e \in R : d < e => ComesBefore(par, ask, d, e)
    BY <1>1, <1>2, LayerComesNext
  <1>5. LayersOf(par, ask, [d \in left2 |-> map[d] \ R], left2)
    <2>1. [d \in left2 |-> map[d] \ R] = [d \in left2 |-> par[d] \cap left2]
      <3>1. \A d \in left2 : map[d] \ R = par[d] \cap left2
        BY <1>1 DEF LayersOf
      <3> QED BY <3>1
    <2>2. ASSUME NEW S \in SUBSET ask, WaitsIn(par, S) PROVE S \subseteq left2
      <3>1. S \subseteq left
        BY <2>2 DEF LayersOf
      <3>2. \A d \in S : d \notin R
        BY <2>2, <3>1 DEF WaitsIn, ReadyIn
      <3> QED BY <3>1, <3>2
    <2>3. n + 1 \in 0..Cardinality(ask \ left2)
      BY <1>3 DEF LeftAfter
    <2> HIDE DEF left2
    <2> QED BY <1>1, <1>3, <2>1, <2>2, <2>3 DEF LayersOf
  <1>6. /\ s \in [1..c -> R] /\ \A i, j \in 1..c : i < j => s[i] < s[j]
        /\ \A x \in R : \E i \in 1..c : s[i] = x
    BY <1>1, SortedFacts
  <1>7. /\ out \in [1..k -> ask \ left] /\ \A d \in ask \ left : \E i \in 1..k : out[i] = d
        /\ \A i, j \in 1..k : i < j => ComesBefore(par, ask, out[i], out[j])
        /\ \A i, j \in 1..k : out[i] \in par[out[j]] => i < j
        /\ \A i, j \in 1..k : out[i] = out[j] => i = j
        /\ \A i \in 1..k : par[out[i]] \cap left = {}
    BY DEF OutputOf
  <1> HIDE DEF k, c, s
  <1>8. /\ out2 \in [1..(k + c) -> (ask \ left) \cup R]
        /\ \A i \in 1..k : out2[i] = out[i] /\ out2[i] \in ask \ left
        /\ \A i \in 1..(k + c) : i > k => i - k \in 1..c /\ out2[i] = s[i - k] /\ out2[i] \in R
    <2> DEFINE A == ask \ left
    <2>1. out \in [1..k -> A]
      BY <1>7
    <2> HIDE DEF A, out2
    <2>2. /\ out \o s \in [1..(k + c) -> A \cup R]
          /\ \A i \in 1..k : (out \o s)[i] = out[i] /\ (out \o s)[i] \in A
          /\ \A i \in 1..(k + c) : i > k => i - k \in 1..c /\ (out \o s)[i] = s[i - k] /\ (out \o s)[i] \in R
      BY <1>3, <1>6, <2>1, Followed
    <2> QED BY <2>2 DEF A, out2
  <1> HIDE DEF out2
  <1>9. out2 \in [1..Cardinality(ask \ left2) -> ask \ left2] /\ DOMAIN out2 = 1..(k + c)
    <2>1. ask \ left2 = (ask \ left) \cup R
      BY <1>1
    <2> HIDE DEF left2
    <2> QED BY <1>3, <1>8, <2>1
  <1>10. ASSUME NEW i \in 1..(k + c)
         PROVE  /\ i \in Int /\ k \in Int
                /\ i <= k => i \in 1..k /\ out2[i] = out[i] /\ out2[i] \in ask \ left
                /\ ~(i <= k) => i - k \in 1..c /\ out2[i] = s[i - k] /\ out2[i] \in R
    <2>1. i \in Int /\ k \in Int /\ (i <= k => i \in 1..k) /\ (~(i <= k) => i > k)
      BY <1>3
    <2> QED BY <1>8, <2>1
  <1>11. ASSUME NEW d \in ask \ left2 PROVE \E i \in 1..(k + c) : out2[i] = d
    <2>1. CASE d \in R
      <3>1. PICK j \in 1..c : s[j] = d
        BY <1>6, <2>1
      <3>2. k + j \in 1..(k + c) /\ ~(k + j <= k) /\ (k + j) - k = j
        BY <1>3
      <3>3. out2[k + j] = d
        BY <1>10, <3>1, <3>2
      <3> QED BY <3>2, <3>3
    <2>2. CASE d \notin R
      <3>1. PICK i \in 1..k : out[i] = d
        BY <1>7, <2>2
      <3>2. i \in 1..(k + c)
        BY <1>3
      <3> QED BY <1>8, <3>1, <3>2
    <2> QED BY <2>1, <2>2
  <1>12. ASSUME NEW i \in 1..(k + c), NEW j \in 1..(k + c)
         PROVE  /\ i < j => ComesBefore(par, ask, out2[i], out2[j])
                /\ out2[i] \in par[out2[j]] => i < j
                /\ out2[i] = out2[j] => i = j
    <2>0. i \in Int /\ j \in Int /\ k \in Int
      BY <1>10
    <2>1. CASE i <= k /\ j <= k
      BY <1>7, <1>10, <2>1
    <2>2. CASE i <= k /\ ~(j <= k)
      <3>1. out2[i] \in ask \ left /\ out2[j] \in R /\ i < j
        BY <1>10, <2>0, <2>2
      <3> QED BY <1>1, <1>4, <3>1
    <2>3. CASE ~(i <= k) /\ j <= k
      <3>1. out2[i] \in R /\ out2[j] = out[j] /\ j \in 1..k /\ out2[j] \in ask \ left /\ ~(i < j)
        BY <1>10, <2>0, <2>3
      <3>2. out2[i] \notin par[out2[j]]
        BY <1>1, <1>7, <3>1
      <3> QED BY <1>1, <3>1, <3>2
    <2>4. CASE ~(i <= k) /\ ~(j <= k)
      <3> DEFINE a == i - k
                 b == j - k
      <3>1. /\ a \in 1..c /\ b \in 1..c /\ out2[i] = s[a] /\ out2[j] = s[b]
            /\ s[a] \in R /\ s[b] \in R /\ (i < j <=> a < b) /\ (i = j <=> a = b)
        BY <1>10, <2>0, <2>4
      <3>2. s[a] \notin par[s[b]]
        BY <1>1, <3>1 DEF ReadyIn
      <3>3. a \in Int /\ b \in Int /\ s[a] \in Int /\ s[b] \in Int /\ c \in Nat
        <4>1. \A x \in R : x \in Int
          BY <1>1 DEF Datasets
        <4> QED BY <1>3, <3>1, <4>1
      <3> HIDE DEF a, b
      <3>4. a < b => s[a] < s[b]
        BY <1>6, <3>1
      <3>5. b < a => s[b] < s[a]
        BY <1>6, <3>1
      <3>6. s[a] = s[b] => a = b
        BY <3>3, <3>4, <3>5
      <3> QED BY <1>4, <3>1, <3>2, <3>4, <3>6
    <2> QED BY <2>1, <2>2, <2>3, <2>4
  <1>13. ASSUME NEW i \in 1..(k + c) PROVE par[out2[i]] \cap left2 = {}
    <2>1. CASE i <= k
      BY <1>7, <1>10, <2>1
    <2>2. CASE ~(i <= k)
      BY <1>10, <2>2 DEF ReadyIn
    <2> QED BY <2>1, <2>2
  <1> HIDE DEF left2
  <1>14. OutputOf(par, ask, out2, left2)
    BY <1>9, <1>11, <1>12, <1>13 DEF OutputOf
  <1> QED BY <1>5, <1>14 DEF out2, left2, s

\* What the walk of a closure and the answer are to be.
ClosureOf(par, ask, req, sel, wait) ==
  /\ req.names \subseteq sel /\ sel \subseteq ask
  /\ wait \subseteq sel
  /\ IF req.kind = "closure" THEN \A d \in sel \ wait : par[d] \subseteq sel ELSE wait = {}

StuckOf(par, ask) == UNION {S \in SUBSET ask : WaitsIn(par, S)}

AnswerOf(par, ask, limit, kind, sel, out) ==
  kind \in {"ordered", "cycle", "limit"} =>
      /\ sel = ask
      /\ (kind = "limit") = (Cardinality(ask) > limit)
      /\ kind # "limit" => (kind = "cycle") = (StuckOf(par, ask) # {})
      /\ kind = "cycle" => out = Sorted(StuckOf(par, ask))
      /\ kind = "ordered" =>
            /\ Len(out) = Cardinality(ask)
            /\ {out[i] : i \in DOMAIN out} = ask
            /\ \A i, j \in DOMAIN out : i < j => ComesBefore(par, ask, out[i], out[j])
            /\ \A i, j \in DOMAIN out : out[i] \in par[out[j]] => i < j

GraphState ==
  /\ DependenciesTypeOK
  /\ phase = "start" => pending = << >> /\ output = << >>
  /\ phase = "closure" => ClosureOf(parents, Asked, request, selected, waiting) /\ output = << >>
  /\ phase = "order" =>
        /\ selected = Asked /\ Cardinality(Asked) <= request.limit
        /\ LayersOf(parents, Asked, pending, DOMAIN pending)
        /\ OutputOf(parents, Asked, output, DOMAIN pending)
  /\ AnswerOf(parents, Asked, request.limit, phase, selected, output)

\* GraphState is the invariant.
LEMMA GraphStateIsInvariant == DependenciesIInv <=> GraphState
  <1>1. \A n, d : Above(n, d) <=> ChainAbove(parents, Asked, n, d)
    BY DEF Above, ChainAbove
  <1>2. \A d, e : Precedes(d, e) <=> ComesBefore(parents, Asked, d, e)
    BY <1>1 DEF Precedes, ComesBefore
  <1>3. \A S : Waits(S) <=> WaitsIn(parents, S)
    BY DEF Waits, WaitsIn
  <1>4. Stuck = StuckOf(parents, Asked)
    BY DEF Stuck, StuckOf, Waits, WaitsIn
  <1>5. OrderExact <=> AnswerOf(parents, Asked, request.limit, phase, selected, output)
    BY <1>2, <1>4 DEF OrderExact, AnswerOf, Finished
  <1>6. ClosureSoFar <=> ClosureOf(parents, Asked, request, selected, waiting)
    BY DEF ClosureSoFar, ClosureOf
  <1>7. \A left : LayersSoFar(left) <=> LayersOf(parents, Asked, pending, left)
    <2> SUFFICES ASSUME NEW left PROVE LayersSoFar(left) <=> LayersOf(parents, Asked, pending, left)
      OBVIOUS
    <2>1. \A n : {d \in Asked : Above(n, d)} = {d \in Asked : ChainAbove(parents, Asked, n, d)}
      BY <1>1
    <2>2. (\E n \in 0..Cardinality(Asked \ left) : left = {d \in Asked : Above(n, d)}) <=>
          (\E n \in 0..Cardinality(Asked \ left) : LeftAfter(parents, Asked, left, n))
      BY <2>1 DEF LeftAfter
    <2> QED BY <1>3, <2>2 DEF LayersSoFar, LayersOf
  <1>8. \A left : OutputSoFar(left) <=> OutputOf(parents, Asked, output, left)
    BY <1>2 DEF OutputSoFar, OutputOf
  <1> QED BY <1>5, <1>6, <1>7, <1>8 DEF DependenciesIInv, GraphState

\* It is the invariant of the next state, too.
LEMMA GraphStateNext == DependenciesIInv' <=> GraphState'
  <1>1. DependenciesIInv <=> GraphState
    BY GraphStateIsInvariant
  <1> QED BY <1>1, PTL

\* The least closed set has what was asked for and is closed.
LEMMA AskedFacts ==
  ASSUME DependenciesTypeOK
  PROVE  /\ Asked \in SUBSET Datasets /\ request.names \subseteq Asked
         /\ request.kind = "closure" =>
               /\ \A d \in Asked : parents[d] \subseteq Asked
               /\ \A S \in SUBSET Datasets :
                     request.names \subseteq S /\ (\A d \in S : parents[d] \subseteq S) => Asked \subseteq S
         /\ request.kind # "closure" => Asked = request.names
  <1>1. /\ parents \in [Datasets -> SUBSET Datasets] /\ request.names \in SUBSET Datasets
    BY DEF DependenciesTypeOK
  <1>2. CASE request.kind = "closure"
    <2>1. \A d : d \in Asked <=> d \in Datasets /\ \A S \in ClosedSets : d \in S
      BY <1>2 DEF Asked
    <2>2. \A S : S \in ClosedSets <=> /\ S \in SUBSET Datasets /\ request.names \subseteq S
                                      /\ \A d \in S : parents[d] \subseteq S
      BY DEF ClosedSets
    <2>3. \A d \in Asked : parents[d] \subseteq Asked
      BY <1>1, <2>1, <2>2
    <2> QED BY <1>1, <1>2, <2>1, <2>2, <2>3
  <1>3. CASE request.kind # "closure"
    BY <1>1, <1>3 DEF Asked
  <1> QED BY <1>2, <1>3

\* Nobody changes the graph or the request.
LEMMA SameAsked ==
  ASSUME UNCHANGED <<parents, request>>
  PROVE  parents' = parents /\ request' = request /\ Asked' = Asked
  BY DEF Asked, ClosedSets

\* At first nothing is walked.
LEMMA DependenciesInitial == DependenciesInit => DependenciesIInv
  <1> SUFFICES ASSUME DependenciesInit PROVE GraphState
    BY GraphStateIsInvariant
  <1>1. DependenciesTypeOK /\ phase = "start" /\ pending = << >> /\ output = << >>
    BY DEF DependenciesInit, DependenciesTypeOK
  <1> QED BY <1>1 DEF GraphState, AnswerOf

\* closure() starts from what was asked for.
LEMMA AskKeeps ==
  ASSUME GraphState, Ask
  PROVE  GraphState'
  <1>1. /\ phase = "start" /\ phase' = "closure" /\ selected' = request.names
        /\ waiting' = (IF request.kind = "closure" THEN request.names ELSE {})
        /\ UNCHANGED <<parents, request>> /\ pending' = pending /\ output' = output
    BY DEF Ask
  <1>2. parents' = parents /\ request' = request /\ Asked' = Asked
    BY <1>1, SameAsked
  <1>3. DependenciesTypeOK /\ output' = << >>
    BY <1>1 DEF GraphState
  <1>4. DependenciesTypeOK'
    BY <1>1, <1>2, <1>3 DEF DependenciesTypeOK
  <1>5. request.names \subseteq Asked
    BY <1>3, AskedFacts
  <1>6. ClosureOf(parents, Asked, request, selected', waiting')
    BY <1>1, <1>5 DEF ClosureOf
  <1> QED BY <1>1, <1>2, <1>3, <1>4, <1>6 DEF GraphState, AnswerOf

\* closure() takes the parents that are new, and they belong to the least closed set.
LEMMA VisitKeeps ==
  ASSUME GraphState, NEW d \in waiting, Visit(d)
  PROVE  GraphState'
  <1>1. /\ phase = "closure" /\ phase' = "closure" /\ selected' = selected \cup parents[d]
        /\ waiting' = (waiting \ {d}) \cup (parents[d] \ selected)
        /\ UNCHANGED <<parents, request>> /\ output' = output
    BY DEF Visit
  <1>2. parents' = parents /\ request' = request /\ Asked' = Asked
    BY <1>1, SameAsked
  <1>3. DependenciesTypeOK /\ output' = << >> /\ ClosureOf(parents, Asked, request, selected, waiting)
    BY <1>1 DEF GraphState
  <1>4. /\ request.kind = "closure" /\ d \in selected /\ selected \subseteq Asked /\ waiting \subseteq selected
        /\ \A e \in selected \ waiting : parents[e] \subseteq selected
        /\ request.names \subseteq selected
    BY <1>3 DEF ClosureOf
  <1>5. parents[d] \subseteq Asked /\ Asked \subseteq Datasets
    BY <1>3, <1>4, AskedFacts
  <1>6. DependenciesTypeOK'
    BY <1>1, <1>2, <1>3, <1>4, <1>5 DEF DependenciesTypeOK
  <1>7. ClosureOf(parents, Asked, request, selected', waiting')
    <2>1. \A e \in selected' \ waiting' : e \in selected \ waiting \/ e = d
      BY <1>1
    <2>2. \A e \in selected' \ waiting' : parents[e] \subseteq selected'
      BY <1>1, <1>4, <2>1
    <2>3. request.names \subseteq selected' /\ selected' \subseteq Asked /\ waiting' \subseteq selected'
      BY <1>1, <1>4, <1>5
    <2> QED BY <1>4, <2>2, <2>3 DEF ClosureOf
  <1> QED BY <1>1, <1>2, <1>3, <1>6, <1>7 DEF GraphState, AnswerOf

\* When nothing waits, the closure is the least one; _order() starts with no layer out.
LEMMA StartOrderKeeps ==
  ASSUME GraphState, StartOrder
  PROVE  GraphState'
  <1>1. /\ phase = "closure" /\ waiting = {} /\ selected' = selected /\ output' = output
        /\ UNCHANGED <<parents, request>>
        /\ IF Cardinality(selected) > request.limit
           THEN phase' = "limit"
           ELSE phase' = "order" /\ pending' = [d \in selected |-> parents[d] \cap selected]
    BY DEF StartOrder
  <1>2. parents' = parents /\ request' = request /\ Asked' = Asked
    BY <1>1, SameAsked
  <1>3. DependenciesTypeOK /\ output = << >> /\ ClosureOf(parents, Asked, request, selected, waiting)
    BY <1>1 DEF GraphState
  <1>4. Asked \in SUBSET Datasets /\ selected = Asked
    <2>1. selected \in SUBSET Datasets /\ selected \subseteq Asked /\ request.names \subseteq selected
      BY <1>3 DEF DependenciesTypeOK, ClosureOf
    <2>2. CASE request.kind = "closure"
      <3>1. \A d \in selected : parents[d] \subseteq selected
        BY <1>1, <1>3, <2>2 DEF ClosureOf
      <3>2. Asked \subseteq selected
        BY <1>3, <2>1, <2>2, <3>1, AskedFacts
      <3> QED BY <2>1, <3>2
    <2>3. CASE request.kind # "closure"
      BY <1>3, <2>1, <2>3, AskedFacts
    <2> QED BY <2>2, <2>3
  <1>5. Cardinality(Asked) \in Nat /\ request.limit \in Nat
    BY <1>3, <1>4, SomeDatasets, DependenciesAssumption DEF DependenciesTypeOK
  <1>6. DependenciesTypeOK'
    BY <1>1, <1>2, <1>3 DEF DependenciesTypeOK
  <1>7. CASE Cardinality(selected) > request.limit
    BY <1>1, <1>2, <1>4, <1>6, <1>7 DEF GraphState, AnswerOf
  <1>8. CASE ~(Cardinality(selected) > request.limit)
    <2> DEFINE left == DOMAIN pending'
    <2>1. phase' = "order" /\ pending' = [d \in Asked |-> parents[d] \cap Asked] /\ left = Asked
      BY <1>1, <1>4, <1>8
    <2>2. Cardinality(Asked \ left) = 0 /\ Asked \ left = {}
      BY <2>1, FS_EmptySet, Zenon
    <2>3. LeftAfter(parents, Asked, left, 0)
      BY <2>1, <2>2, NoneAbove DEF LeftAfter
    <2>4. LayersOf(parents, Asked, pending', left)
      BY <2>1, <2>2, <2>3 DEF LayersOf
    <2>5. OutputOf(parents, Asked, output', left)
      <3>1. output' \in [1..0 -> Asked \ left] /\ DOMAIN output' = {}
        BY <1>1, <1>3
      <3> HIDE DEF left
      <3> QED BY <2>2, <3>1 DEF OutputOf
    <2>6. Cardinality(Asked) <= request.limit
      BY <1>4, <1>5, <1>8
    <2> HIDE DEF left
    <2>7. LayersOf(parents, Asked, pending', DOMAIN pending') /\ OutputOf(parents, Asked, output', DOMAIN pending')
      BY <2>4, <2>5 DEF left
    <2> QED BY <1>1, <1>2, <1>4, <1>6, <2>1, <2>6, <2>7 DEF GraphState, AnswerOf
  <1> QED BY <1>7, <1>8

\* _order() puts a layer out.
LEMMA LayerStepKeeps ==
  ASSUME GraphState, Layer
  PROVE  GraphState'
  <1> DEFINE left == DOMAIN pending
  <1>1. /\ phase = "order" /\ Ready # {} /\ phase' = "order" /\ selected' = selected
        /\ output' = output \o Sorted(Ready) /\ pending' = [d \in left \ Ready |-> pending[d] \ Ready]
        /\ UNCHANGED <<parents, request>>
    BY DEF Layer
  <1>2. parents' = parents /\ request' = request /\ Asked' = Asked
    BY <1>1, SameAsked
  <1>3. /\ DependenciesTypeOK /\ selected = Asked /\ Cardinality(Asked) <= request.limit
        /\ LayersOf(parents, Asked, pending, left) /\ OutputOf(parents, Asked, output, left)
    BY <1>1 DEF GraphState
  <1>4. Asked \in SUBSET Datasets
    BY <1>3, AskedFacts
  <1>5. ReadyIn(parents, left, Ready)
    <2>1. Ready = {d \in left : pending[d] = {}}
      BY DEF Ready
    <2>2. \A d \in left : pending[d] = parents[d] \cap left
      <3> HIDE DEF left
      <3> QED BY <1>3 DEF LayersOf
    <2> HIDE DEF left
    <2> QED BY <1>1, <2>1, <2>2 DEF ReadyIn
  <1> HIDE DEF left
  <1>6. /\ LayersOf(parents, Asked, [d \in left \ Ready |-> pending[d] \ Ready], left \ Ready)
        /\ OutputOf(parents, Asked, output \o Sorted(Ready), left \ Ready)
    BY <1>3, <1>4, <1>5, LayerKeeps
  <1>7. DOMAIN pending' = left \ Ready
    BY <1>1
  <1>8. LayersOf(parents, Asked, pending', DOMAIN pending') /\ OutputOf(parents, Asked, output', DOMAIN pending')
    BY <1>1, <1>6, <1>7
  <1>9. DependenciesTypeOK'
    BY <1>1, <1>2, <1>3 DEF DependenciesTypeOK
  <1> QED BY <1>1, <1>2, <1>3, <1>8, <1>9 DEF GraphState, AnswerOf

\* _order() stops: all is out, or what is left is all that waits for each other.
LEMMA StopKeeps ==
  ASSUME GraphState, Stop
  PROVE  GraphState'
  <1> DEFINE left == DOMAIN pending
  <1>1. /\ phase = "order" /\ Ready = {} /\ selected' = selected
        /\ phase' = (IF left = {} THEN "ordered" ELSE "cycle")
        /\ output' = (IF left = {} THEN output ELSE Sorted(left))
        /\ UNCHANGED <<parents, request>>
    BY DEF Stop
  <1>2. parents' = parents /\ request' = request /\ Asked' = Asked
    BY <1>1, SameAsked
  <1>3. /\ DependenciesTypeOK /\ selected = Asked /\ Cardinality(Asked) <= request.limit
        /\ LayersOf(parents, Asked, pending, left) /\ OutputOf(parents, Asked, output, left)
    BY <1>1 DEF GraphState
  <1>4. Cardinality(Asked) \in Nat /\ request.limit \in Nat /\ Asked \in SUBSET Datasets
    BY <1>3, AskedFacts, SomeDatasets, DependenciesAssumption DEF DependenciesTypeOK
  <1>5. DependenciesTypeOK'
    BY <1>1, <1>2, <1>3 DEF DependenciesTypeOK
  <1>6. \A d \in left : pending[d] # {}
    BY <1>1 DEF Ready
  <1> HIDE DEF left
  <1>7. StuckOf(parents, Asked) = left
    <2>1. left \subseteq Asked /\ WaitsIn(parents, left)
      BY <1>3, <1>6 DEF LayersOf, WaitsIn
    <2>2. \A S \in SUBSET Asked : WaitsIn(parents, S) => S \subseteq left
      BY <1>3 DEF LayersOf
    <2> QED BY <2>1, <2>2 DEF StuckOf
  <1>8. ~(Cardinality(Asked) > request.limit)
    BY <1>3, <1>4
  <1>9. CASE left # {}
    <2>1. phase' = "cycle" /\ output' = Sorted(left)
      BY <1>1, <1>9
    <2> QED BY <1>1, <1>2, <1>3, <1>5, <1>7, <1>8, <1>9, <2>1 DEF GraphState, AnswerOf
  <1>10. CASE left = {}
    <2>1. phase' = "ordered" /\ output' = output /\ Asked \ left = Asked
      BY <1>1, <1>10
    <2>2. /\ output \in [1..Cardinality(Asked) -> Asked]
          /\ \A d \in Asked : \E i \in DOMAIN output : output[i] = d
          /\ \A i, j \in DOMAIN output : i < j => ComesBefore(parents, Asked, output[i], output[j])
          /\ \A i, j \in DOMAIN output : output[i] \in parents[output[j]] => i < j
      BY <1>3, <2>1 DEF OutputOf
    <2>3. Len(output) = Cardinality(Asked) /\ {output[i] : i \in DOMAIN output} = Asked
      BY <1>4, <2>2
    <2>4. StuckOf(parents, Asked) = {}
      BY <1>7, <1>10
    <2> QED BY <1>1, <1>2, <1>3, <1>5, <1>8, <2>1, <2>2, <2>3, <2>4 DEF GraphState, AnswerOf
  <1> QED BY <1>9, <1>10

\* One case per action.
LEMMA DependenciesStep == DependenciesIInv /\ [DependenciesNext]_dependencyVars => DependenciesIInv'
  <1> SUFFICES ASSUME GraphState, [DependenciesNext]_dependencyVars PROVE GraphState'
    BY GraphStateIsInvariant, GraphStateNext
  <1>1. CASE UNCHANGED dependencyVars
    <2>1. /\ UNCHANGED <<parents, request>> /\ phase' = phase /\ selected' = selected /\ waiting' = waiting
          /\ pending' = pending /\ output' = output
      BY <1>1 DEF dependencyVars
    <2>2. parents' = parents /\ request' = request /\ Asked' = Asked
      BY <2>1, SameAsked
    <2> QED BY <2>1, <2>2 DEF GraphState, DependenciesTypeOK
  <1> QED BY <1>1, AskKeeps, VisitKeeps, StartOrderKeeps, LayerStepKeeps, StopKeeps DEF DependenciesNext

\* DatasetDependencyGraph answers rightly for every graph, request and limit: the datasets of a
\* closure are the least closed set whatever order it walks them in, the order is the one by layers
\* and names with every parent first, and a cycle is reported exactly when there is one, with all
\* that waits for it.
THEOREM OrderExactTheorem == DependenciesSpec => []OrderExact
  <1>1. DependenciesIInv => OrderExact
    BY DEF DependenciesIInv
  <1> QED BY <1>1, DependenciesInitial, DependenciesStep, PTL DEF DependenciesSpec
=============================================================================
