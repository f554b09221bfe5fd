---------------------------- MODULE StoresProofs -----------------------------
(***************************************************************************)
(* Proofs about Guards, Receipts, Requests, EventStore, Projections,       *)
(* Possession, Transports, Reservations and BatchStore, each over its      *)
(* component's own specification, for any actors, identities, streams,     *)
(* pages, ttls and bounds.                                                 *)
(*                                                                         *)
(* Guards: a write or a checkpoint that is about to be committed says      *)
(* nothing yet, so GuardsIInv adds that what is staged under a row's lock  *)
(* is current and covered (StagedCurrent, Pulled, ItemsFollow), and that   *)
(* a token is issued once and in order (TokensIssued).                     *)
(*                                                                         *)
(* Requests: RequestsIInv adds what a client that holds the key relies on  *)
(* (ClientCoherent): it was reserved after the retention of every effect   *)
(* so far, nobody was told that its attempt was rolled back, and the rows  *)
(* it added are new.  One client holds the key at a time (ClientsApart),   *)
(* and the record expires last of all effects (RecordLatest), so that a    *)
(* reservation which finds it expired comes after them all.  Every action  *)
(* is a Tick, a new attempt, a step that commits nothing (Moving) or a     *)
(* commit (Committing), and each of the four has one lemma.                *)
(*                                                                         *)
(* EventStore: LogIInv adds that the rows a transaction has staged are the *)
(* ones that come next in the log (StagedNext).  A page is then the next   *)
(* events without a gap, by counting: the numbers of the rows after a      *)
(* position are an interval, so the rank of a row is its distance          *)
(* (Numbers, Gapless).  RehydrationIInv adds that a writer's version is    *)
(* one that its stream has.  Projections: what a projector has in its      *)
(* hands is the reduction up to where it would write, and what its open    *)
(* transaction has checked stays so (Working, OpenWell).                   *)
(*                                                                         *)
(* Possession: a proof in use is seen until nobody can reserve it any more *)
(* (UsedSeen).  Transports: the property is inductive with its types.      *)
(*                                                                         *)
(* Reservations: the row of an identity backs the grant of it that runs    *)
(* (Backs, Coherent), in two readings at once: as the holder of the row    *)
(* sees it, and as it would be after the holder rolls back.  An action is  *)
(* a QuietStep, a WriteStep, a Settlement or an EndStep, with one lemma    *)
(* each; then one lemma per store.                                         *)
(*                                                                         *)
(* BatchStore: tokens tell callers and batches apart (TokensUnique), the   *)
(* rows keep the accepted receipts (RowsExact), and the index leads to the *)
(* executing rows (IndexExact).                                            *)
(***************************************************************************)
EXTENDS Requests, Guards, Possession, Transports, Reservations, BatchStore, Projections,
        FiniteSetTheorems, SequenceTheorems, TLAPS

----------------------------------------------------------------------------
\* Guarded writes and checkpoints.

\* The largest of the pulled items.
LEMMA LatestFacts ==
  ASSUME NEW items, NEW n \in items, items \subseteq 1..n
  PROVE  n \in Nat /\ Latest(items) = n
  <1>1. n \in Nat /\ \A j \in items : j \in Nat /\ j <= n
    OBVIOUS
  <1>2. \E i \in items : \A j \in items : j <= i
    BY <1>1
  <1>3. Latest(items) \in items /\ \A j \in items : j <= Latest(items)
    <2> DEFINE P(i) == i \in items /\ \A j \in items : j <= i
    <2>1. Latest(items) = CHOOSE i : P(i)
      BY DEF Latest
    <2>2. \E i : P(i)
      BY <1>2
    <2> HIDE DEF P
    <2>3. P(Latest(items))
      BY <2>1, <2>2
    <2> QED BY <2>3 DEF P
  <1>4. Latest(items) \in Nat /\ Latest(items) <= n /\ n <= Latest(items)
    BY <1>1, <1>3
  <1> QED BY <1>1, <1>4

\* A checkpoint that is set to the last item pulled has everything before it covered.
LEMMA PulledCovers ==
  ASSUME NEW items, items # {}, Pulled(items), NEW done, covered \cup items \subseteq done
  PROVE  Latest(items) \in Nat /\ 1..Latest(items) \subseteq done
  <1>1. PICK n \in items : items \subseteq 1..n /\ 1..n \subseteq covered \cup items
    BY DEF Pulled
  <1>2. n \in Nat /\ Latest(items) = n
    BY <1>1, LatestFacts
  <1> QED BY <1>1, <1>2

\* What is covered stays covered, and so pulled items stay pulled.
LEMMA PulledKept ==
  ASSUME NEW items, Pulled(items), covered \subseteq covered'
  PROVE  Pulled(items)'
  BY DEF Pulled

\* Every step keeps the types.
LEMMA GuardsTypeStep ==
  ASSUME GuardsIInv, [GuardsNext]_guardVars
  PROVE  GuardsTypeOK'
  <1>1. GuardsTypeOK /\ ItemsFollow /\ MaxToken \in Nat /\ Resting.knows = 0
        /\ DOMAIN Resting = {"pc", "knows", "prior", "items"}
    BY GuardsAssumption DEF GuardsIInv, Resting
  <1>2. ASSUME NEW a \in Actors, actor' = [actor EXCEPT ![a] = Resting], UNCHANGED <<clock, mark, writes>>
        PROVE  GuardsTypeOK'
    BY <1>1, <1>2 DEF GuardsTypeOK
  <1>3. ASSUME NEW a \in Actors, NEW pc, Move(a, pc), UNCHANGED <<clock, mark, writes>>
        PROVE  GuardsTypeOK'
    BY <1>1, <1>3 DEF GuardsTypeOK, Move
  <1>4. ASSUME actor' = actor, UNCHANGED <<mark, writes>>, clock' \in Nat PROVE GuardsTypeOK'
    BY <1>1, <1>4 DEF GuardsTypeOK
  <1>5. CASE UNCHANGED guardVars
    BY <1>1, <1>4, <1>5 DEF guardVars, GuardsTypeOK
  <1>6. CASE Tick /\ UNCHANGED <<guard, mark, lease, actor, writes, covered>>
    BY <1>1, <1>4, <1>6 DEF Tick, GuardsTypeOK
  <1>7. ASSUME NEW a \in Actors, GiveUp(a) PROVE GuardsTypeOK'
    BY <1>2, <1>7 DEF GiveUp
  <1>8. ASSUME NEW a \in Actors, NEW now, Acquire(a, now) PROVE GuardsTypeOK'
    BY <1>1, <1>8 DEF Acquire, GuardsTypeOK
  <1>9. ASSUME NEW a \in Actors, NEW now, Release(a, now) \/ RenewLease(a, now) PROVE GuardsTypeOK'
    BY <1>1, <1>2, <1>4, <1>9 DEF Release, RenewLease, GuardsTypeOK
  <1>10. ASSUME NEW a \in Actors, LockAuthority(a) PROVE GuardsTypeOK'
    BY <1>2, <1>3, <1>10 DEF LockAuthority
  <1>11. ASSUME NEW a \in Actors, CommitWrite(a) PROVE GuardsTypeOK'
    BY <1>1, <1>11 DEF CommitWrite, GuardsTypeOK
  <1>12. ASSUME NEW a \in Actors, NEW e \in 0..MaxToken, NEW g \in 1..MaxToken,
                CompareAndSetGeneration(a, e, g)
         PROVE  GuardsTypeOK'
    BY <1>1, <1>12 DEF CompareAndSetGeneration, Activated, GuardsTypeOK
  <1>13. ASSUME NEW a \in Actors, NEW e \in 1..MaxToken, LoadGeneration(a, e) PROVE GuardsTypeOK'
    BY <1>1, <1>13 DEF LoadGeneration, GuardsTypeOK
  <1>14. ASSUME NEW a \in Actors, NEW n, Pull(a, n) PROVE GuardsTypeOK'
    BY <1>1, <1>14 DEF Pull, GuardsTypeOK
  <1>15. ASSUME NEW a \in Actors, AtomicLoad(a) \/ DeferredLoad(a) PROVE GuardsTypeOK'
    BY <1>1, <1>15 DEF AtomicLoad, DeferredLoad, GuardsTypeOK
  <1>16. ASSUME NEW a \in Actors, AtomicAdvance(a) PROVE GuardsTypeOK'
    BY <1>2, <1>3, <1>16 DEF AtomicAdvance
  <1>17. ASSUME NEW a \in Actors, DeferredCommit(a) PROVE GuardsTypeOK'
    BY <1>3, <1>17 DEF DeferredCommit
  <1>18. ASSUME NEW a \in Actors, AtomicCommit(a) \/ DeferredAdvance(a) PROVE GuardsTypeOK'
    <2>1. actor' = [actor EXCEPT ![a] = Resting] /\ UNCHANGED <<clock, writes>>
      BY <1>18 DEF AtomicCommit, DeferredAdvance
    <2>2. mark' = mark \/ (actor[a].items # {} /\ mark' = Latest(actor[a].items))
      BY <1>18 DEF AtomicCommit, DeferredAdvance, Advanced
    <2>3. Pulled(actor[a].items)
      BY <1>1, <1>18 DEF AtomicCommit, DeferredAdvance, ItemsFollow, Checkpointed
    <2>4. mark' \in Nat
      BY <1>1, <2>2, <2>3, PulledCovers DEF GuardsTypeOK
    <2> QED BY <1>1, <2>1, <2>4 DEF GuardsTypeOK
  <1> QED BY <1>5, <1>6, <1>7, <1>8, <1>9, <1>10, <1>11, <1>12, <1>13, <1>14, <1>15, <1>16, <1>17,
             <1>18 DEF GuardsNext

\* Which steps change the row, and which append a write.
LEMMA GuardsFrame ==
  ASSUME [GuardsNext]_guardVars
  PROVE  /\ guard' = guard
         /\ \/ mark' = mark
            \/ \E a \in Actors, now \in 0..clock : Acquire(a, now)
            \/ \E a \in Actors, e \in 0..MaxToken, g \in 1..MaxToken : CompareAndSetGeneration(a, e, g)
            \/ \E a \in Actors : AtomicCommit(a) \/ DeferredAdvance(a)
         /\ \/ writes' = writes
            \/ \E a \in Actors : CommitWrite(a)
  BY DEF GuardsNext, guardVars, GiveUp, Acquire, RenewLease, Release, LockAuthority, CompareAndSetGeneration,
         LoadGeneration, CommitWrite, Pull, AtomicLoad, AtomicAdvance, AtomicCommit, DeferredLoad,
         DeferredCommit, DeferredAdvance

\* What is staged under the row's lock stays current.
LEMMA StagedStep ==
  ASSUME GuardsIInv, [GuardsNext]_guardVars
  PROVE  StagedCurrent'
  <1>1. GuardsTypeOK /\ StagedCurrent
    BY DEF GuardsIInv
  <1> SUFFICES ASSUME guard \in {"fenced", "generation"}, NEW b \in Actors, actor'[b].pc = "staged"
               PROVE  actor'[b].knows = mark'
    BY GuardsFrame DEF StagedCurrent
  <1>2. DOMAIN actor = Actors /\ Resting.pc = "rest"
        /\ \A a \in Actors : DOMAIN actor[a] = {"pc", "knows", "prior", "items"}
    BY <1>1 DEF GuardsTypeOK, Resting
  <1>3. ASSUME actor'[b] = actor[b], mark' = mark PROVE actor'[b].knows = mark'
    BY <1>1, <1>3 DEF StagedCurrent
  <1>4. ASSUME NEW a \in Actors, actor' = [actor EXCEPT ![a] = Resting], mark' = mark
        PROVE  actor'[b].knows = mark'
    BY <1>2, <1>3, <1>4
  <1>5. CASE UNCHANGED guardVars
    BY <1>3, <1>5 DEF guardVars
  <1>6. CASE Tick /\ UNCHANGED <<guard, mark, lease, actor, writes, covered>>
    BY <1>3, <1>6
  <1>7. ASSUME NEW a \in Actors, NEW now, GiveUp(a) \/ Release(a, now) \/ RenewLease(a, now)
        PROVE  actor'[b].knows = mark'
    BY <1>3, <1>4, <1>7 DEF GiveUp, Release, RenewLease
  \* The row changes hands only when nobody has it locked.
  <1>8. ASSUME NEW a \in Actors, NEW now, Acquire(a, now) PROVE actor'[b].knows = mark'
    <2>1. actor'[a].pc = "holds" /\ \A o \in Actors \ {a} : actor'[o] = actor[o]
      BY <1>2, <1>8 DEF Acquire, Resting
    <2>2. \A o \in Actors \ {a} : actor[o].pc # "staged"
      BY <1>8 DEF Acquire, RowFree
    <2> QED BY <2>1, <2>2
  <1>9. ASSUME NEW a \in Actors, LockAuthority(a) PROVE actor'[b].knows = mark'
    <2>1. mark' = mark /\ \A o \in Actors \ {a} : actor'[o] = actor[o]
      BY <1>2, <1>9 DEF LockAuthority, Move
    <2>2. CASE Authorized(a, clock)
      <3>1. actor'[a].knows = actor[a].knows /\ actor[a].knows = mark
        BY <1>2, <1>9, <2>2 DEF LockAuthority, Move, Authorized
      <3> QED BY <1>3, <2>1, <3>1
    <2>3. CASE ~Authorized(a, clock)
      BY <1>4, <1>9, <2>1, <2>3 DEF LockAuthority
    <2> QED BY <2>2, <2>3
  <1>10. ASSUME NEW a \in Actors, CommitWrite(a) PROVE actor'[b].knows = mark'
    <2>1. actor'[a].pc # "staged" /\ mark' = mark /\ \A o \in Actors \ {a} : actor'[o] = actor[o]
      BY <1>2, <1>10 DEF CommitWrite, Resting
    <2> QED BY <1>3, <2>1
  <1>11. ASSUME NEW a \in Actors, NEW e, NEW g, CompareAndSetGeneration(a, e, g)
         PROVE  actor'[b].knows = mark'
    BY <1>11 DEF CompareAndSetGeneration, RowFree
  <1>12. ASSUME NEW a \in Actors, NEW e, LoadGeneration(a, e) PROVE actor'[b].knows = mark'
    <2>1. actor'[a].knows = mark /\ mark' = mark /\ \A o \in Actors \ {a} : actor'[o] = actor[o]
      BY <1>2, <1>12 DEF LoadGeneration, Resting
    <2> QED BY <1>3, <2>1
  <1>13. ASSUME NEW a \in Actors, \/ \E n \in 0..MaxItem : Pull(a, n)
                                  \/ AtomicLoad(a) \/ AtomicAdvance(a) \/ AtomicCommit(a)
                                  \/ DeferredLoad(a) \/ DeferredCommit(a) \/ DeferredAdvance(a)
         PROVE  FALSE
    BY <1>13 DEF Pull, Checkpointed, AtomicLoad, AtomicAdvance, AtomicCommit, DeferredLoad,
                 DeferredCommit, DeferredAdvance
  <1> QED BY <1>5, <1>6, <1>7, <1>8, <1>9, <1>10, <1>11, <1>12, <1>13 DEF GuardsNext

\* Every step keeps the order of the writes and the tokens.
LEMMA WritesStep ==
  ASSUME GuardsIInv, [GuardsNext]_guardVars
  PROVE  WritesInOrder' /\ TokensIssued'
  <1>1. GuardsTypeOK /\ WritesInOrder /\ TokensIssued /\ StagedCurrent /\ guard' = guard
    BY GuardsFrame DEF GuardsIInv
  <1>2. writes \in Seq([allowed : Nat, mark : Nat]) /\ mark \in Nat
    BY <1>1 DEF GuardsTypeOK
  <1>3. \A i \in DOMAIN writes : writes[i] \in [allowed : Nat, mark : Nat] /\ writes[i].allowed \in Nat
    <2>1. \A i \in 1..Len(writes) : writes[i] \in [allowed : Nat, mark : Nat]
      BY <1>2, ElementOfSeq
    <2>2. DOMAIN writes = 1..Len(writes)
      BY <1>2
    <2> QED BY <2>1, <2>2
  <1>4. CASE writes' = writes
    <2>1. guard = "fenced" => mark' \in Nat /\ mark <= mark'
      BY <1>2, GuardsFrame DEF Acquire, CompareAndSetGeneration, AtomicCommit, DeferredAdvance
    <2>2. WritesInOrder'
      BY <1>1, <1>4 DEF WritesInOrder
    <2>3. TokensIssued'
      BY <1>1, <1>2, <1>3, <1>4, <2>1 DEF TokensIssued
    <2> QED BY <2>2, <2>3
  <1>5. ASSUME NEW a \in Actors, CommitWrite(a) PROVE WritesInOrder' /\ TokensIssued'
    <2> DEFINE new == [allowed |-> actor[a].knows, mark |-> mark]
               n == Len(writes)
    <2>1. writes' = Append(writes, new) /\ mark' = mark /\ actor[a].knows = mark
      BY <1>1, <1>5 DEF CommitWrite, StagedCurrent
    <2>2. new.allowed = mark /\ new.mark = mark /\ new \in [allowed : Nat, mark : Nat]
      BY <1>2, <2>1
    <2> HIDE DEF new
    <2>3. /\ n \in Nat /\ DOMAIN writes = 1..n /\ DOMAIN writes' = 1..(n + 1)
          /\ writes'[n + 1] = new /\ \A i \in 1..n : writes'[i] = writes[i]
      BY <1>2, <2>1, <2>2
    <2> HIDE DEF n
    <2>4. \A i \in 1..(n + 1) : i \in 1..n \/ i = n + 1
      BY <2>3
    <2>5. ASSUME guard = "fenced", NEW i \in 1..(n + 1), i > 1
          PROVE  writes'[i - 1].allowed <= writes'[i].allowed
      <3>1. i - 1 \in 1..n /\ writes'[i - 1] = writes[i - 1]
        BY <2>3, <2>5
      <3>2. CASE i \in 1..n
        BY <1>1, <2>3, <2>5, <3>1, <3>2 DEF WritesInOrder
      <3>3. CASE i = n + 1
        BY <1>1, <2>2, <2>3, <2>5, <3>1, <3>3 DEF TokensIssued
      <3> QED BY <2>4, <3>2, <3>3
    <2>6. \A i \in 1..(n + 1) : writes'[i].allowed = writes'[i].mark
      BY <1>1, <2>2, <2>3, <2>4 DEF WritesInOrder
    <2>7. WritesInOrder'
      BY <1>1, <2>3, <2>5, <2>6 DEF WritesInOrder
    <2>8. TokensIssued'
      BY <1>1, <1>2, <2>1, <2>2, <2>3, <2>4 DEF TokensIssued
    <2> QED BY <2>7, <2>8
  <1> QED BY <1>4, <1>5, GuardsFrame

\* Every step keeps the checkpoint covered and the pulled items next in line.
LEMMA CheckpointStep ==
  ASSUME GuardsIInv, [GuardsNext]_guardVars
  PROVE  ItemsFollow' /\ CheckpointCovered'
  <1>1. /\ GuardsTypeOK /\ ItemsFollow /\ CheckpointCovered /\ guard' = guard
        /\ DOMAIN actor = Actors /\ mark \in Nat /\ MaxItem \in Nat
        /\ \A a \in Actors : DOMAIN actor[a] = {"pc", "knows", "prior", "items"}
    BY GuardsFrame, GuardsAssumption DEF GuardsIInv, GuardsTypeOK
  <1>2. Resting.pc = "rest" /\ Resting.items = {} /\ DOMAIN Resting = {"pc", "knows", "prior", "items"}
    BY DEF Resting
  <1>3. CASE ~Checkpointed
    BY <1>1, <1>3 DEF Checkpointed, ItemsFollow, CheckpointCovered
  <1> SUFFICES ASSUME Checkpointed PROVE ItemsFollow' /\ CheckpointCovered'
    BY <1>3
  <1>4. guard \in {"atomic", "deferred", "memory"} /\ 1..mark \subseteq covered /\ Checkpointed'
    BY <1>1 DEF Checkpointed, CheckpointCovered
  <1> DEFINE Follow(b) == actor'[b].pc # "rest" =>
                /\ Pulled(actor[b].items)'
                /\ actor'[b].pc = "applied" => actor'[b].items \subseteq covered'
  <1>5. ASSUME \A b \in Actors : Follow(b), 1..mark' \subseteq covered' PROVE ItemsFollow' /\ CheckpointCovered'
    BY <1>4, <1>5 DEF ItemsFollow, CheckpointCovered, Pulled
  <1>6. ASSUME NEW b \in Actors, covered \subseteq covered', actor'[b].items = actor[b].items,
               actor[b].pc # "rest" \/ actor'[b].pc = "rest",
               actor'[b].pc = "applied" => actor[b].pc = "applied" \/ actor[b].items \subseteq covered'
        PROVE  Follow(b)
    BY <1>4, <1>6, <1>1, PulledKept DEF ItemsFollow, Pulled
  <1> HIDE DEF Follow
  <1>7. ASSUME NEW a \in Actors, actor' = [actor EXCEPT ![a] = Resting], covered \subseteq covered'
        PROVE  \A b \in Actors : Follow(b)
    <2>1. Follow(a)
      BY <1>1, <1>2, <1>7 DEF Follow
    <2>2. \A b \in Actors \ {a} : actor'[b] = actor[b]
      BY <1>1, <1>7
    <2> QED BY <1>6, <1>7, <2>1, <2>2
  <1>8. ASSUME NEW a \in Actors, actor[a].pc # "rest", actor'[a].items = actor[a].items,
               \A b \in Actors \ {a} : actor'[b] = actor[b],
               actor'[a].pc = "applied" => actor[a].items \subseteq covered',
               covered \subseteq covered'
        PROVE  \A b \in Actors : Follow(b)
    <2>1. Follow(a)
      BY <1>6, <1>8
    <2> QED BY <1>6, <1>8, <2>1
  <1>9. ASSUME actor' = actor, UNCHANGED <<mark, covered>> PROVE ItemsFollow' /\ CheckpointCovered'
    BY <1>4, <1>5, <1>6, <1>9
  <1>10. CASE UNCHANGED guardVars
    BY <1>9, <1>10 DEF guardVars
  <1>11. CASE Tick /\ UNCHANGED <<guard, mark, lease, actor, writes, covered>>
    BY <1>9, <1>11
  <1>12. ASSUME NEW a \in Actors, GiveUp(a) PROVE ItemsFollow' /\ CheckpointCovered'
    BY <1>4, <1>5, <1>7, <1>12 DEF GiveUp
  <1>13. ASSUME NEW a \in Actors, \/ \E now \in 0..clock : Acquire(a, now) \/ RenewLease(a, now) \/ Release(a, now)
                                  \/ LockAuthority(a) \/ CommitWrite(a)
                                  \/ \E e \in 0..MaxToken, g \in 1..MaxToken : CompareAndSetGeneration(a, e, g)
                                  \/ \E e \in 1..MaxToken : LoadGeneration(a, e)
         PROVE  FALSE
    BY <1>4, <1>13 DEF Acquire, RenewLease, Release, LockAuthority, CommitWrite, CompareAndSetGeneration, LoadGeneration
  <1>14. ASSUME NEW a \in Actors, NEW n \in 0..MaxItem, Pull(a, n) PROVE ItemsFollow' /\ CheckpointCovered'
    <2>1. actor'[a].pc = "pulled" /\ actor'[a].items = (mark + 1)..n /\ UNCHANGED <<mark, covered>>
      BY <1>1, <1>2, <1>14 DEF Pull
    <2>2. \A b \in Actors \ {a} : actor'[b] = actor[b]
      BY <1>1, <1>14 DEF Pull
    <2>3. n \in Nat
      BY <1>1
    <2>4. Pulled(actor[a].items)'
      <3> SUFFICES ASSUME (mark + 1)..n # {}
                   PROVE  /\ n \in (mark + 1)..n /\ (mark + 1)..n \subseteq 1..n
                          /\ 1..n \subseteq covered \cup (mark + 1)..n
        BY <2>1 DEF Pulled
      <3>1. \A j \in 1..n : j \in 1..mark \/ j \in (mark + 1)..n
        BY <1>1, <2>3
      <3> QED BY <1>1, <1>4, <2>3, <3>1
    <2>5. Follow(a)
      BY <2>1, <2>4 DEF Follow
    <2> QED BY <1>4, <1>5, <1>6, <2>1, <2>2, <2>5
  <1>15. ASSUME NEW a \in Actors, AtomicLoad(a) \/ DeferredLoad(a) PROVE ItemsFollow' /\ CheckpointCovered'
    <2>1. /\ actor'[a].items = actor[a].items /\ actor'[a].pc # "applied"
          /\ \A b \in Actors \ {a} : actor'[b] = actor[b]
      BY <1>1, <1>15 DEF AtomicLoad, DeferredLoad
    <2>2. actor[a].pc # "rest" /\ UNCHANGED <<mark, covered>>
      BY <1>15 DEF AtomicLoad, DeferredLoad
    <2> QED BY <1>4, <1>5, <1>8, <2>1, <2>2
  <1>16. ASSUME NEW a \in Actors, AtomicAdvance(a) PROVE ItemsFollow' /\ CheckpointCovered'
    <2>1. actor[a].pc # "rest" /\ UNCHANGED <<mark, covered>>
      BY <1>16 DEF AtomicAdvance
    <2>2. actor' = [actor EXCEPT ![a] = Resting] \/ Move(a, "staged")
      BY <1>16 DEF AtomicAdvance
    <2>3. \A b \in Actors : Follow(b)
      <3>1. CASE Move(a, "staged")
        <4>1. /\ actor'[a].items = actor[a].items /\ actor'[a].pc = "staged"
              /\ \A b \in Actors \ {a} : actor'[b] = actor[b]
          BY <1>1, <3>1 DEF Move
        <4> QED BY <1>8, <2>1, <4>1
      <3> QED BY <1>7, <2>1, <2>2, <3>1
    <2> QED BY <1>4, <1>5, <2>1, <2>3
  <1>17. ASSUME NEW a \in Actors, DeferredCommit(a) PROVE ItemsFollow' /\ CheckpointCovered'
    <2>1. actor[a].pc # "rest" /\ covered' = covered \cup actor[a].items /\ Move(a, "applied") /\ mark' = mark
      BY <1>17 DEF DeferredCommit
    <2>2. covered \subseteq covered' /\ actor[a].items \subseteq covered' /\ 1..mark' \subseteq covered'
      BY <1>4, <2>1
    <2>3. actor'[a].items = actor[a].items /\ \A b \in Actors \ {a} : actor'[b] = actor[b]
      BY <1>1, <2>1 DEF Move
    <2>4. \A b \in Actors : Follow(b)
      BY <1>8, <2>1, <2>2, <2>3
    <2> QED BY <1>5, <2>2, <2>4
  \* The state is committed with the checkpoint, or before it.
  <1>18. ASSUME NEW a \in Actors, AtomicCommit(a) \/ DeferredAdvance(a) PROVE ItemsFollow' /\ CheckpointCovered'
    <2>1. /\ actor' = [actor EXCEPT ![a] = Resting] /\ covered \subseteq covered'
          /\ mark' = mark \/ (actor[a].items # {} /\ mark' = Latest(actor[a].items))
      BY <1>18 DEF AtomicCommit, DeferredAdvance, Advanced
    <2>2. Pulled(actor[a].items) /\ actor[a].items \subseteq covered'
      BY <1>1, <1>4, <1>18 DEF AtomicCommit, DeferredAdvance, ItemsFollow
    <2>3. 1..mark' \subseteq covered'
      BY <1>4, <2>1, <2>2, PulledCovers
    <2> QED BY <1>5, <1>7, <2>1, <2>3
  <1> QED BY <1>10, <1>11, <1>12, <1>13, <1>14, <1>15, <1>16, <1>17, <1>18 DEF GuardsNext

\* The strengthened invariant of Guards holds.
LEMMA GuardsInductive == GuardsSpec => []GuardsIInv
  <1>1. GuardsInit => GuardsIInv
    <2> SUFFICES ASSUME GuardsInit PROVE GuardsIInv
      OBVIOUS
    <2>1. GuardsTypeOK
      BY DEF GuardsInit, GuardsTypeOK, Resting
    <2>2. StagedCurrent /\ ItemsFollow
      BY DEF GuardsInit, StagedCurrent, ItemsFollow, Resting
    <2>3. WritesInOrder /\ TokensIssued
      BY DEF GuardsInit, WritesInOrder, TokensIssued
    <2>4. CheckpointCovered
      BY DEF GuardsInit, CheckpointCovered
    <2> QED BY <2>1, <2>2, <2>3, <2>4 DEF GuardsIInv
  <1>2. GuardsIInv /\ [GuardsNext]_guardVars => GuardsIInv'
    BY GuardsTypeStep, StagedStep, WritesStep, CheckpointStep DEF GuardsIInv
  <1> QED BY <1>1, <1>2, PTL DEF GuardsSpec

\* DjangoFencedCommit.commit() and GenerationGuard.commit() hold the row from the decision to
\* the commit: every guarded write is committed under the token or generation that allowed it,
\* and writes under a lease come in the order of their tokens.
THEOREM WritesInOrderTheorem == GuardsSpec => []WritesInOrder
  <1>1. GuardsIInv => WritesInOrder
    BY DEF GuardsIInv
  <1> QED BY <1>1, GuardsInductive, PTL

\* The checkpoint coordinators advance to what they pulled, and that follows, without a gap,
\* what was covered then: no checkpoint is beyond what is durable.
THEOREM CheckpointCoveredTheorem == GuardsSpec => []CheckpointCovered
  <1>1. GuardsIInv => CheckpointCovered
    BY DEF GuardsIInv
  <1> QED BY <1>1, GuardsInductive, PTL

----------------------------------------------------------------------------
\* Receipts.

\* What may become of one receipt in one step.
Succeeds(old, new) ==
    IF new = NoReceipt THEN old.state \in Terminal \cup {"uncertain"}
    ELSE /\ old.state \notin Terminal
         /\ new.state \in Follows(old.state) \cup (IF old.state = "uncertain" THEN Terminal ELSE {})
         /\ new.created = old.created /\ new.updated >= old.updated

\* A target that is written follows what was read, and that is what is there.
LEMMA ReplaceFacts ==
  ASSUME ReceiptsTypeOK, NEW w \in Reconcilers, NEW target, Replace(w, target),
         Transitioned(reader[w].seen, target) \/ ValidReconciliation(reader[w].seen, target)
  PROVE  /\ ReceiptsTypeOK'
         /\ \A r \in ReceiptIds : receipts'[r] # receipts[r] => Succeeds(receipts[r], receipts'[r])
  <1> DEFINE basis == reader[w].seen
             q == reader[w].id
  <1>1. CASE receipts' = receipts
    BY <1>1 DEF ReceiptsTypeOK
  <1>2. CASE receipts' # receipts
    <2>1. /\ SameReceipt(receipts[q], basis)
          /\ receipts' = [receipts EXCEPT ![q].state = target.state, ![q].updated = target.updated,
                                          ![q].result = target.result]
      BY <1>2 DEF Replace
    <2>2. receipts[q].state = basis.state /\ receipts[q].updated = basis.updated
      BY <2>1 DEF SameReceipt
    <2>3. ReceiptsTypeOK' /\ \A r \in ReceiptIds : r # q => receipts'[r] = receipts[r]
      BY <2>1 DEF ReceiptsTypeOK
    <2> SUFFICES ASSUME q \in ReceiptIds
                 PROVE  \A r \in ReceiptIds : receipts'[r] # receipts[r] => Succeeds(receipts[r], receipts'[r])
      BY <2>3
    <2>4. /\ receipts'[q].state = target.state /\ receipts'[q].updated = target.updated
          /\ receipts'[q].created = receipts[q].created
      BY <2>1 DEF ReceiptsTypeOK
    <2> HIDE DEF q, basis
    <2>5. /\ target.updated >= basis.updated
          /\ \/ target.state \in Follows(basis.state)
             \/ basis.state = "uncertain" /\ target.state \in Terminal
      BY DEF Transitioned, ValidReconciliation, basis
    <2>6. basis.state \notin Terminal /\ target.state # "absent"
      BY <2>5 DEF Follows, Terminal
    <2>7. receipts'[q] # NoReceipt
      BY <2>4, <2>6 DEF NoReceipt
    <2>8. Succeeds(receipts[q], receipts'[q])
      BY <2>2, <2>4, <2>5, <2>6, <2>7 DEF Succeeds
    <2> QED BY <2>3, <2>8
  <1> QED BY <1>1, <1>2

\* Every step keeps the types of the receipts and moves a receipt forward only.
LEMMA ReceiptsStep ==
  ASSUME ReceiptsTypeOK, [ReceiptsNext]_receiptVars
  PROVE  /\ ReceiptsTypeOK'
         /\ \A r \in ReceiptIds : receipts[r] # NoReceipt /\ receipts'[r] # receipts[r] =>
                Succeeds(receipts[r], receipts'[r])
  <1>1. CASE UNCHANGED receipts
    BY <1>1 DEF ReceiptsTypeOK
  <1>2. ASSUME NEW q \in ReceiptIds, NEW state, AddReceipt(q, state)
        PROVE  /\ ReceiptsTypeOK'
               /\ \A r \in ReceiptIds : receipts[r] # NoReceipt => receipts'[r] = receipts[r]
    BY <1>2 DEF AddReceipt, ReceiptsTypeOK
  <1>3. ASSUME NEW q \in ReceiptIds, NEW include_uncertain \in BOOLEAN, PurgeReceipts(q, include_uncertain)
        PROVE  /\ ReceiptsTypeOK'
               /\ \A r \in ReceiptIds : receipts'[r] # receipts[r] => Succeeds(receipts[r], receipts'[r])
    <2>1. /\ receipts' = [receipts EXCEPT ![q] = NoReceipt]
          /\ receipts[q].state \in Terminal \cup {"uncertain"}
      BY <1>3 DEF PurgeReceipts, Prunable
    <2>2. ReceiptsTypeOK'
      BY <2>1 DEF ReceiptsTypeOK, NoReceipt
    <2>3. receipts'[q] = NoReceipt /\ \A r \in ReceiptIds : r # q => receipts'[r] = receipts[r]
      BY <2>1 DEF ReceiptsTypeOK
    <2> QED BY <2>1, <2>2, <2>3 DEF Succeeds
  <1>4. ASSUME NEW w \in Reconcilers, NEW target, TransitionReceipt(w, target) \/ ReconcileUncertain(w, target)
        PROVE  /\ ReceiptsTypeOK'
               /\ \A r \in ReceiptIds : receipts'[r] # receipts[r] => Succeeds(receipts[r], receipts'[r])
    BY <1>4, ReplaceFacts DEF TransitionReceipt, ReconcileUncertain
  <1>5. \/ UNCHANGED receipts
        \/ \E r \in ReceiptIds, state \in {"accepted", "uncertain"} : AddReceipt(r, state)
        \/ \E r \in ReceiptIds, include_uncertain \in BOOLEAN : PurgeReceipts(r, include_uncertain)
        \/ \E w \in Reconcilers : \E target : TransitionReceipt(w, target) \/ ReconcileUncertain(w, target)
    BY DEF ReceiptsNext, receiptVars, GetReceipt
  <1> QED BY <1>1, <1>2, <1>3, <1>4, <1>5

\* _cas() compares what was read with what is there: a receipt that is completed, rejected or
\* conflicted stays so until retention takes it, uncertainty ends in one of these only, and no
\* step takes a receipt, or its time, back.
THEOREM ReceiptFinalTheorem == ReceiptsSpec => ReceiptFinal
  <1>1. ReceiptsInit => ReceiptsTypeOK
    BY DEF ReceiptsInit, ReceiptsTypeOK, NoReceipt
  <1>2. ReceiptsTypeOK /\ [ReceiptsNext]_receiptVars => ReceiptsTypeOK'
    BY ReceiptsStep
  <1>3. ASSUME ReceiptsTypeOK, [ReceiptsNext]_receiptVars
        PROVE  [\A r \in ReceiptIds :
                  receipts[r] # NoReceipt /\ receipts'[r] # receipts[r] =>
                      IF receipts'[r] = NoReceipt
                      THEN receipts[r].state \in Terminal \cup {"uncertain"}
                      ELSE /\ receipts[r].state \notin Terminal
                           /\ receipts'[r].state \in Follows(receipts[r].state) \cup
                                 (IF receipts[r].state = "uncertain" THEN Terminal ELSE {})
                           /\ receipts'[r].created = receipts[r].created
                           /\ receipts'[r].updated >= receipts[r].updated]_receiptVars
    BY <1>3, ReceiptsStep DEF Succeeds
  <1> QED BY <1>1, <1>2, <1>3, PTL DEF ReceiptsSpec, ReceiptFinal

----------------------------------------------------------------------------
\* Requests.

\* The attempts are a sequence of records, numbered from 1.
LEMMA AttemptFacts ==
  ASSUME RequestsTypeOK
  PROVE  /\ DOMAIN attempts = 1..Len(attempts) /\ Len(attempts) \in Nat
         /\ \A n \in DOMAIN attempts :
              /\ n \in Nat /\ n # 0 /\ attempts[n] \in Attempts
              /\ attempts[n].reserved \in Nat /\ attempts[n].completed \in Nat
              /\ DOMAIN attempts[n] = {"fingerprint", "reserved", "completed"}
  <1>1. DOMAIN attempts = 1..Len(attempts) /\ Len(attempts) \in Nat
    BY DEF RequestsTypeOK
  <1>2. \A n \in 1..Len(attempts) : attempts[n] \in Attempts
    BY ElementOfSeq DEF RequestsTypeOK
  <1>3. \A x \in Attempts : /\ x.reserved \in Nat /\ x.completed \in Nat
                            /\ DOMAIN x = {"fingerprint", "reserved", "completed"}
    BY DEF Attempts
  <1> QED BY <1>1, <1>2, <1>3

\* The fields of a client that is away.
LEMMA AwayFacts ==
  DOMAIN Away = {"pc", "attempt", "receipt", "message", "created", "until"} /\ Away.pc = "idle"
  BY DEF Away

\* An answer that is so.
Truthful(x) ==
    /\ x.answer \in {"committed", "replay"} =>
        x.value \in effects /\ attempts[x.value].fingerprint = attempts[x.attempt].fingerprint
    /\ x.answer = "conflict" =>
        x.value \in effects /\ attempts[x.value].fingerprint # attempts[x.attempt].fingerprint
    /\ x.answer = "rolled back" => x.attempt \notin effects

OtherClients(c) == DOMAIN client' = Clients /\ \A d \in Clients : d # c => client'[d] = client[d]

\* The attempts are what they were, but for the time at which n is completed.
AttemptsKept(n) ==
    /\ attempts' \in Seq(Attempts) /\ DOMAIN attempts' = DOMAIN attempts
    /\ \A k \in DOMAIN attempts :
        /\ attempts'[k].fingerprint = attempts[k].fingerprint
        /\ attempts'[k].reserved = attempts[k].reserved
        /\ k # n => attempts'[k].completed = attempts[k].completed

\* A step of c in its request that commits nothing.
Moving(c) ==
    LET a == client[c]
        b == client'[c]
    IN
    /\ OtherClients(c) /\ UNCHANGED <<clock, record, effects, receipts, outbox>>
    /\ a.pc # "idle" /\ (b.pc # "idle" => b.attempt = a.attempt)
    /\ Holding(b.pc) => Holding(a.pc) \/ KeyFree(c)
    /\ ClientCoherent(client[c])'
    /\ AttemptsKept(a.attempt) /\ (attempts' = attempts \/ Undecided(a.pc))
    /\ \/ told' = told
       \/ \E x : told' = told \cup {x} /\ x.attempt = a.attempt /\ Truthful(x)

\* What Moving leaves to the others.
LEMMA MovingClients ==
  ASSUME RequestsIInv, NEW c \in Clients, Moving(c), NEW d \in Clients
  PROVE  ClientCoherent(client[d])'
  <1>1. /\ RequestsTypeOK /\ ClientCoherent(client[d]) /\ ClientCoherent(client[c]) /\ ClientsApart
    BY DEF RequestsIInv
  <1>2. CASE d = c
    BY <1>2 DEF Moving
  <1>3. CASE d # c
    <2> DEFINE b == client[d]
               n == client[c].attempt
    <2>1. client'[d] = b /\ AttemptsKept(n) /\ UNCHANGED <<effects, receipts, outbox>>
      BY <1>3 DEF Moving, OtherClients
    <2>2. b.pc # "idle" => b.attempt # n /\ b.attempt \in DOMAIN attempts
      BY <1>1, <1>3 DEF ClientsApart, Moving, ClientCoherent
    <2>3. attempts' = attempts \/ n \notin effects
      BY <1>1 DEF Moving, ClientCoherent
    <2>4. \A k \in effects : attempts'[k].completed = attempts[k].completed
      BY <1>1, <2>1, <2>3 DEF AttemptsKept, RequestsTypeOK
    <2>5. \A a \in told' : a.answer = "rolled back" /\ a.attempt = b.attempt => a \in told \/ b.pc = "idle"
      BY <2>2 DEF Moving
    <2>6. DOMAIN attempts' = DOMAIN attempts /\ \A k \in DOMAIN attempts : attempts'[k].reserved = attempts[k].reserved
      BY <2>1 DEF AttemptsKept
    <2>7. b.pc # "idle" => /\ attempts'[b.attempt].reserved = attempts[b.attempt].reserved
                           /\ attempts'[b.attempt].completed = attempts[b.attempt].completed
      BY <2>1, <2>2 DEF AttemptsKept
    <2>8. Holding(b.pc) =>
            \A k \in effects : attempts'[k].completed + ResultTtl <= attempts'[b.attempt].reserved
      BY <1>1, <2>4, <2>7 DEF ClientCoherent, Holding
    <2>9. Undecided(b.pc) => \A a \in told' : a.answer = "rolled back" => a.attempt # b.attempt
      BY <1>1, <2>5 DEF ClientCoherent, Undecided
    <2> QED BY <1>1, <2>1, <2>2, <2>6, <2>7, <2>8, <2>9 DEF ClientCoherent, Undecided, Holding
  <1> QED BY <1>2, <1>3

\* A step that commits nothing keeps the invariant.
LEMMA MovingKeeps ==
  ASSUME RequestsIInv, NEW c \in Clients, Moving(c)
  PROVE  RequestsIInv'
  <1> DEFINE n == client[c].attempt
  <1>1. /\ RequestsTypeOK /\ ClientCoherent(client[c]) /\ ClientsApart /\ RecordLatest /\ RowsOfEffects
        /\ RequestsExact
    BY DEF RequestsIInv
  <1>2. /\ OtherClients(c) /\ UNCHANGED <<clock, record, effects, receipts, outbox>> /\ AttemptsKept(n)
        /\ n \in DOMAIN attempts /\ (attempts' = attempts \/ n \notin effects)
    BY <1>1 DEF Moving, ClientCoherent
  <1>3. /\ DOMAIN attempts' = DOMAIN attempts /\ attempts' \in Seq(Attempts)
        /\ \A k \in DOMAIN attempts : /\ attempts'[k].fingerprint = attempts[k].fingerprint
                                      /\ attempts'[k].reserved = attempts[k].reserved
    BY <1>2 DEF AttemptsKept
  <1>4. \A k \in effects : k \in DOMAIN attempts /\ attempts'[k].completed = attempts[k].completed
    BY <1>1, <1>2 DEF AttemptsKept, RequestsTypeOK
  <1>5. RequestsTypeOK'
    <2>1. \A a \in told' : a.attempt \in DOMAIN attempts
      BY <1>1, <1>2 DEF Moving, RequestsTypeOK
    <2> QED BY <1>1, <1>2, <1>3, <2>1 DEF RequestsTypeOK, OtherClients
  <1>6. \A d \in Clients : ClientCoherent(client[d])'
    BY MovingClients
  <1>7. ClientsApart'
    <2> SUFFICES ASSUME NEW d \in Clients, d # c
                 PROVE  /\ ~(Holding(client'[c].pc) /\ Holding(client'[d].pc))
                        /\ client'[c].pc # "idle" /\ client'[d].pc # "idle" =>
                              client'[c].attempt # client'[d].attempt
      BY <1>1, <1>2 DEF ClientsApart, OtherClients
    <2>1. client'[d] = client[d]
      BY <1>2 DEF OtherClients
    <2>2. Holding(client'[c].pc) => Holding(client[c].pc) \/ KeyFree(c)
      BY DEF Moving
    <2>3. KeyFree(c) => ~Holding(client[d].pc)
      BY DEF KeyFree, Holding
    <2>4. client'[c].pc # "idle" => client[c].pc # "idle" /\ client'[c].attempt = client[c].attempt
      BY DEF Moving
    <2> QED BY <1>1, <2>1, <2>2, <2>3, <2>4 DEF ClientsApart
  <1>8. RecordLatest'
    BY <1>1, <1>2, <1>3, <1>4 DEF RecordLatest
  <1>9. RowsOfEffects'
    BY <1>1, <1>2 DEF RowsOfEffects
  <1>10. RequestsExact'
    <2>1. \A a \in told' : a \in told \/ (a.attempt = n /\ Truthful(a))
      BY DEF Moving
    <2>2. \A a \in told' : Truthful(a) /\ a.attempt \in DOMAIN attempts
      BY <1>1, <1>2, <2>1 DEF RequestsExact, Truthful, RequestsTypeOK
    <2>3. \A a \in told' : Truthful(a)'
      BY <1>2, <1>3, <1>4, <2>2 DEF Truthful
    <2>4. \A k \in DOMAIN attempts' :
            /\ k \in effects' <=> \E r \in ReceiptIds : receipts'[r].result = k
            /\ k \in effects' <=> \E m \in MessageIds : outbox'[m] = k
      BY <1>1, <1>2, <1>3 DEF RequestsExact
    <2>5. \A j, k \in effects' : j # k => \/ attempts'[j].completed + ResultTtl <= attempts'[k].reserved
                                          \/ attempts'[k].completed + ResultTtl <= attempts'[j].reserved
      BY <1>1, <1>2, <1>3, <1>4 DEF RequestsExact
    <2> QED BY <2>3, <2>4, <2>5 DEF RequestsExact, Truthful
  <1> QED BY <1>5, <1>6, <1>7, <1>8, <1>9, <1>10 DEF RequestsIInv

\* c is away again, and what it was told is so.
LEMMA LeavesMoving ==
  ASSUME RequestsIInv, NEW c \in Clients, client[c].pc # "idle",
         client' = [client EXCEPT ![c] = Away],
         UNCHANGED <<clock, record, effects, receipts, outbox, attempts>>,
         \/ told' = told
         \/ \E x : told' = told \cup {x} /\ x.attempt = client[c].attempt /\ Truthful(x)
  PROVE  Moving(c)
  <1>1. RequestsTypeOK
    BY DEF RequestsIInv
  <1>2. client'[c] = Away /\ OtherClients(c)
    BY <1>1 DEF RequestsTypeOK, OtherClients
  <1>3. ClientCoherent(client[c])' /\ ~Holding(Away.pc)
    BY <1>2, AwayFacts DEF ClientCoherent, Undecided, Holding
  <1>4. AttemptsKept(client[c].attempt)
    BY <1>1 DEF AttemptsKept, RequestsTypeOK
  <1> QED BY <1>2, <1>3, <1>4, AwayFacts DEF Moving

\* c goes on under its key; what it relies on is there.
LEMMA GoesMoving ==
  ASSUME RequestsIInv, NEW c \in Clients, NEW b, client[c].pc # "idle",
         client' = [client EXCEPT ![c] = b], b.attempt = client[c].attempt,
         Holding(b.pc) => Holding(client[c].pc) \/ KeyFree(c),
         ClientCoherent(b),
         UNCHANGED <<clock, record, effects, receipts, outbox, attempts>>,
         \/ told' = told
         \/ \E x : /\ told' = told \cup {x} /\ x.attempt = client[c].attempt /\ Truthful(x)
                   /\ x.answer # "rolled back"
  PROVE  Moving(c)
  <1>1. RequestsTypeOK
    BY DEF RequestsIInv
  <1>2. client'[c] = b /\ OtherClients(c)
    BY <1>1 DEF RequestsTypeOK, OtherClients
  <1>3. ClientCoherent(client[c])'
    <2>1. \A a \in told' : a.answer = "rolled back" => a \in told
      OBVIOUS
    <2>2. /\ effects' = effects /\ receipts' = receipts /\ outbox' = outbox /\ attempts' = attempts
          /\ client'[c] = b
      BY <1>2
    <2>3. Undecided(b.pc) => /\ b.attempt \notin effects
                             /\ \A a \in told' : a.answer = "rolled back" => a.attempt # b.attempt
      BY <2>1 DEF ClientCoherent
    <2>4. Holding(b.pc) =>
            \A n \in effects : attempts[n].completed + ResultTtl <= attempts[b.attempt].reserved
      BY DEF ClientCoherent
    <2>5. /\ DOMAIN b = {"pc", "attempt", "receipt", "message", "created", "until"}
          /\ b.pc # "idle" => b.attempt \in DOMAIN attempts
          /\ b.pc = "asked" => b.created = attempts[b.attempt].reserved
          /\ Holding(b.pc) /\ b.pc # "execute" => b.receipt \in ReceiptIds /\ b.message \in MessageIds
          /\ b.pc \in {"added", "commit", "doubt", "told", "deaf"} =>
                receipts[b.receipt] = NoReceipt /\ outbox[b.message] = 0
          /\ b.pc \in {"completed", "commit", "doubt", "told", "deaf"} =>
                attempts[b.attempt].reserved <= attempts[b.attempt].completed
      BY DEF ClientCoherent
    <2> QED BY ONLY <2>2, <2>3, <2>4, <2>5 DEF ClientCoherent
  <1>4. AttemptsKept(client[c].attempt)
    BY <1>1 DEF AttemptsKept, RequestsTypeOK
  <1> QED BY <1>2, <1>3, <1>4 DEF Moving

\* What a record that has not expired answers.
LEMMA DecisionTruthful ==
  ASSUME RequestsIInv, NEW n \in DOMAIN attempts, record.state # "absent"
  PROVE  LET answer == Decision(record, attempts[n].fingerprint) IN
         /\ answer \in {"conflict", "replay"}
         /\ Truthful([attempt |-> n, answer |-> answer, value |-> record.value])
  <1>1. record.value \in effects /\ record.fingerprint = attempts[record.value].fingerprint
    BY DEF RequestsIInv, RecordLatest
  <1> QED BY <1>1 DEF Decision, Truthful

\* A reservation, granted or answered from the record, is Moving.
LEMMA ReserveMoving ==
  ASSUME RequestsIInv, NEW c \in Clients, Reserve(c)
  PROVE  Moving(c)
  <1> DEFINE a == client[c]
             n == a.attempt
             now == a.created
             b == [a EXCEPT !.pc = "execute", !.until = now + ExecutionTtl]
  <1>1. /\ RequestsTypeOK /\ ClientCoherent(a) /\ RecordLatest /\ a.pc = "asked" /\ KeyFree(c)
        /\ UNCHANGED <<clock, record, effects, receipts, outbox, attempts>>
    BY DEF RequestsIInv, Reserve
  <1>2. /\ n \in DOMAIN attempts /\ now = attempts[n].reserved /\ now \in Nat /\ n \notin effects
        /\ \A x \in told : x.answer = "rolled back" => x.attempt # n
    BY <1>1, AttemptFacts DEF ClientCoherent, Undecided
  <1>3. CASE Expired(record, now)
    <2>1. client' = [client EXCEPT ![c] = b] /\ told' = told
      BY <1>1, <1>3 DEF Reserve, RequestsTypeOK
    <2>2. DOMAIN b = DOMAIN a /\ b.pc = "execute" /\ b.attempt = n
      BY <1>1 DEF ClientCoherent
    <2> HIDE DEF b
    <2>3. \A k \in effects : attempts[k].completed + ResultTtl <= now
      <3> SUFFICES ASSUME NEW k \in effects PROVE attempts[k].completed + ResultTtl <= now
        OBVIOUS
      <3>1. record.state # "absent"
        BY <1>1 DEF RecordLatest
      <3>2. record.until <= now /\ record.until \in Nat /\ attempts[k].completed + ResultTtl <= record.until
        BY <1>1, <1>3, <3>1 DEF Expired, RecordLatest
      <3>3. attempts[k].completed \in Nat /\ ResultTtl \in Nat
        BY <1>1, AttemptFacts, RequestsAssumption DEF RequestsTypeOK
      <3>4. now \in Nat
        BY <1>2
      <3> HIDE DEF now
      <3> QED BY <3>2, <3>3, <3>4
    <2>4. ClientCoherent(b)
      BY <1>1, <1>2, <2>2, <2>3 DEF ClientCoherent, Undecided, Holding
    <2> QED BY <1>1, <2>1, <2>2, <2>4, GoesMoving
  <1>4. CASE ~Expired(record, now)
    <2> DEFINE x == [attempt |-> n, answer |-> Decision(record, attempts[n].fingerprint), value |-> record.value]
    <2>1. client' = [client EXCEPT ![c] = Away] /\ told' = told \cup {x}
      BY <1>4 DEF Reserve, Tell
    <2>2. Truthful(x) /\ x.attempt = n
      BY <1>2, <1>4, DecisionTruthful DEF Expired
    <2> HIDE DEF x
    <2> QED BY <1>1, <2>1, <2>2, LeavesMoving
  <1> QED BY <1>3, <1>4

\* A rolled back attempt has no effect: it is undecided, and c gives it up.
LEMMA RolledBackMoving ==
  ASSUME RequestsIInv, NEW c \in Clients, Undecided(client[c].pc), RolledBack(c),
         UNCHANGED <<clock, record, effects, receipts, outbox, attempts>>
  PROVE  Moving(c)
  <1> DEFINE x == [attempt |-> client[c].attempt, answer |-> "rolled back", value |-> 0]
  <1>1. client[c].attempt \notin effects /\ client[c].pc # "idle"
    BY DEF RequestsIInv, ClientCoherent, Undecided
  <1>2. client' = [client EXCEPT ![c] = Away] /\ told' = told \cup {x}
    BY DEF RolledBack, Tell
  <1>3. Truthful(x) /\ x.attempt = client[c].attempt
    BY <1>1 DEF Truthful
  <1> HIDE DEF x
  <1> QED BY <1>1, <1>2, <1>3, LeavesMoving

\* A handler that fails is Moving.
LEMMA FailsMoving ==
  ASSUME RequestsIInv, NEW c \in Clients, Fails(c)
  PROVE  Moving(c)
  <1>1. /\ client[c].pc # "idle" /\ client' = [client EXCEPT ![c] = Away]
        /\ UNCHANGED <<clock, record, effects, receipts, outbox, attempts, told>>
    BY DEF Fails
  <1> QED BY <1>1, LeavesMoving

\* An effect that is applied in the open transaction is Moving.
LEMMA MutateMoving ==
  ASSUME RequestsIInv, NEW c \in Clients, NEW r \in ReceiptIds, NEW m \in MessageIds, Mutate(c, r, m)
  PROVE  Moving(c)
  <1> DEFINE a == client[c]
             b == [a EXCEPT !.pc = "mutated", !.receipt = r, !.message = m, !.created = clock]
  <1>1. /\ RequestsTypeOK /\ ClientCoherent(a) /\ a.pc = "execute"
        /\ UNCHANGED <<clock, record, effects, receipts, outbox, attempts, told>>
    BY DEF RequestsIInv, Mutate
  <1>2. client' = [client EXCEPT ![c] = b]
    BY <1>1 DEF Mutate, RequestsTypeOK
  <1>3. DOMAIN b = DOMAIN a /\ b.pc = "mutated" /\ b.attempt = a.attempt /\ b.receipt = r /\ b.message = m
    BY <1>1 DEF ClientCoherent
  <1> HIDE DEF b
  <1>4. ClientCoherent(b)
    BY <1>1, <1>3 DEF ClientCoherent, Undecided, Holding
  <1>5. Holding(a.pc)
    BY <1>1 DEF Holding
  <1> QED BY <1>1, <1>2, <1>3, <1>4, <1>5, GoesMoving

\* Rows added to the open transaction are Moving.
LEMMA AddRowsMoving ==
  ASSUME RequestsIInv, NEW c \in Clients, AddRows(c)
  PROVE  Moving(c)
  <1> DEFINE a == client[c]
             pc == IF backend = "django" THEN "added" ELSE "commit"
             b == [a EXCEPT !.pc = pc]
  <1>1. /\ RequestsTypeOK /\ ClientCoherent(a) /\ a.pc = (IF backend = "django" THEN "mutated" ELSE "completed")
        /\ UNCHANGED <<clock, record, effects, receipts, outbox, attempts>>
    BY DEF RequestsIInv, AddRows
  <1>2. CASE receipts[a.receipt] = NoReceipt /\ outbox[a.message] = 0
    <2>1. client' = [client EXCEPT ![c] = b] /\ told' = told
      BY <1>1, <1>2 DEF AddRows, RequestsTypeOK
    <2>2. DOMAIN b = DOMAIN a /\ b.pc = pc /\ b.attempt = a.attempt /\ b.receipt = a.receipt /\ b.message = a.message
      BY <1>1 DEF ClientCoherent
    <2> HIDE DEF b
    <2>3. ClientCoherent(b)
      BY <1>1, <1>2, <2>2 DEF ClientCoherent, Undecided, Holding
    <2>4. Holding(a.pc) /\ a.pc # "idle"
      BY <1>1 DEF Holding
    <2> QED BY <1>1, <2>1, <2>2, <2>3, <2>4, GoesMoving
  <1>3. CASE ~(receipts[a.receipt] = NoReceipt /\ outbox[a.message] = 0)
    <2>1. RolledBack(c) /\ Undecided(a.pc)
      BY <1>1, <1>3 DEF AddRows, Undecided
    <2> QED BY <1>1, <2>1, RolledBackMoving
  <1> QED BY <1>2, <1>3

\* The completion of the record in the open transaction is Moving.
LEMMA CompleteMoving ==
  ASSUME RequestsIInv, NEW c \in Clients, Complete(c)
  PROVE  Moving(c)
  <1> DEFINE a == client[c]
             n == a.attempt
             pc == IF backend = "django" THEN "commit" ELSE "completed"
             b == [a EXCEPT !.pc = pc]
             done == [attempts[n] EXCEPT !.completed = clock]
  <1>1. /\ RequestsTypeOK /\ ClientCoherent(a) /\ a.pc = (IF backend = "django" THEN "added" ELSE "mutated")
        /\ UNCHANGED <<clock, record, effects, receipts, outbox>>
    BY DEF RequestsIInv, Complete
  <1>2. CASE a.until > clock
    <2>1. /\ client' = [client EXCEPT ![c] = b] /\ told' = told
          /\ attempts' = [attempts EXCEPT ![n] = done]
      BY <1>1, <1>2 DEF Complete, RequestsTypeOK
    <2>2. DOMAIN b = DOMAIN a /\ b.pc = pc /\ b.attempt = n /\ b.receipt = a.receipt /\ b.message = a.message
      BY <1>1 DEF ClientCoherent
    <2>3. /\ n \in DOMAIN attempts /\ n \notin effects /\ attempts \in Seq(Attempts)
          /\ attempts[n].reserved <= clock /\ clock \in Nat
      BY <1>1 DEF ClientCoherent, RequestsTypeOK, Undecided
    <2>4. /\ done \in Attempts /\ done.fingerprint = attempts[n].fingerprint
          /\ done.reserved = attempts[n].reserved /\ done.completed = clock
      BY <1>1, <2>3, AttemptFacts DEF Attempts
    <2> HIDE DEF b, done
    <2>5. AttemptsKept(n)
      BY <2>1, <2>3, <2>4 DEF AttemptsKept
    <2>6. client'[c] = b /\ OtherClients(c)
      BY <1>1, <2>1 DEF RequestsTypeOK, OtherClients
    <2>7. \A k \in effects : attempts'[k].completed = attempts[k].completed
      BY <1>1, <2>3, <2>5 DEF AttemptsKept, RequestsTypeOK
    <2>8. attempts'[n].reserved = attempts[n].reserved /\ attempts'[n].completed = clock /\ n \in DOMAIN attempts'
      BY <2>1, <2>3, <2>4
    <2>9. ClientCoherent(client[c])'
      <3>1. \A k \in effects : attempts'[k].completed + ResultTtl <= attempts'[n].reserved
        BY <1>1, <2>7, <2>8 DEF ClientCoherent, Holding
      <3>2. \A x \in told : x.answer = "rolled back" => x.attempt # n
        BY <1>1 DEF ClientCoherent, Undecided
      <3>3. a.receipt \in ReceiptIds /\ a.message \in MessageIds
        BY <1>1 DEF ClientCoherent, Holding
      <3>4. b.pc = "commit" => receipts[a.receipt] = NoReceipt /\ outbox[a.message] = 0
        BY <1>1, <2>2 DEF ClientCoherent
      <3>5. DOMAIN b = {"pc", "attempt", "receipt", "message", "created", "until"} /\ b.pc \in {"commit", "completed"}
        BY <1>1, <2>2 DEF ClientCoherent
      <3>6. /\ effects' = effects /\ receipts' = receipts /\ outbox' = outbox /\ told' = told
            /\ client'[c] = b /\ b.attempt = n /\ b.receipt = a.receipt /\ b.message = a.message
        BY <1>1, <2>1, <2>2, <2>6
      <3>7. b.pc # "asked" /\ b.pc # "idle"
        BY <3>5
      <3>8. attempts'[n].reserved <= attempts'[n].completed /\ n \in DOMAIN attempts' /\ n \notin effects
        BY <2>3, <2>8
      <3>9. b.pc \in {"added", "commit", "doubt", "told", "deaf"} => b.pc = "commit"
        BY <3>5
      <3> HIDE DEF a, n
      <3> QED BY ONLY <3>1, <3>2, <3>3, <3>4, <3>5, <3>6, <3>7, <3>8, <3>9 DEF ClientCoherent
    <2>10. Holding(a.pc) /\ Undecided(a.pc) /\ a.pc # "idle"
      BY <1>1 DEF Holding, Undecided
    <2> QED BY <1>1, <2>1, <2>2, <2>5, <2>6, <2>9, <2>10 DEF Moving
  <1>3. CASE ~(a.until > clock)
    <2>1. RolledBack(c) /\ Undecided(a.pc) /\ attempts' = attempts
      BY <1>1, <1>3 DEF Complete, Undecided
    <2> QED BY <1>1, <2>1, RolledBackMoving
  <1> QED BY <1>2, <1>3

\* A commit that raises leaves the answer open, and is Moving.
LEMMA CommitRaisesMoving ==
  ASSUME RequestsIInv, NEW c \in Clients, CommitRaises(c)
  PROVE  Moving(c)
  <1> DEFINE a == client[c]
             pc == IF backend = "sqlalchemy" THEN "doubt" ELSE "deaf"
             b == [a EXCEPT !.pc = pc]
  <1>1. /\ RequestsTypeOK /\ ClientCoherent(a) /\ a.pc = "commit"
        /\ UNCHANGED <<clock, record, effects, receipts, outbox, attempts, told>>
    BY DEF RequestsIInv, CommitRaises
  <1>2. client' = [client EXCEPT ![c] = b]
    BY <1>1 DEF CommitRaises, Goes, RequestsTypeOK
  <1>3. DOMAIN b = DOMAIN a /\ b.pc = pc /\ b.attempt = a.attempt /\ b.receipt = a.receipt /\ b.message = a.message
    BY <1>1 DEF ClientCoherent
  <1> HIDE DEF b
  <1>4. ClientCoherent(b) /\ Holding(a.pc)
    BY <1>1, <1>3 DEF ClientCoherent, Undecided, Holding
  <1> QED BY <1>1, <1>2, <1>3, <1>4, GoesMoving

\* The decision is known to nobody, or to a client that reconciles.
LEMMA DecidedFacts ==
  ASSUME RequestsIInv, NEW c \in Clients, client[c].pc # "idle", Decided(c)
  PROVE  /\ OtherClients(c)
         /\ DOMAIN client'[c] = {"pc", "attempt", "receipt", "message", "created", "until"}
         /\ \/ client'[c].pc = "idle"
            \/ client'[c].pc = "reconcile" /\ client'[c].attempt = client[c].attempt
  <1> DEFINE b == IF client[c].pc = "doubt"
                  THEN [Away EXCEPT !.pc = "reconcile", !.attempt = client[c].attempt] ELSE Away
  <1>1. DOMAIN client = Clients /\ client' = [client EXCEPT ![c] = b]
    BY DEF RequestsIInv, RequestsTypeOK, Decided
  <1>2. /\ DOMAIN b = {"pc", "attempt", "receipt", "message", "created", "until"}
        /\ \/ b.pc = "idle"
           \/ b.pc = "reconcile" /\ b.attempt = client[c].attempt
    BY DEF Away
  <1> HIDE DEF b
  <1>3. client'[c] = b /\ OtherClients(c)
    BY <1>1 DEF OtherClients
  <1> QED BY <1>2, <1>3

\* A database that aborts after its commit raised is Moving.
LEMMA AbortsMoving ==
  ASSUME RequestsIInv, NEW c \in Clients, DatabaseAborts(c)
  PROVE  Moving(c)
  <1>1. /\ RequestsTypeOK /\ ClientCoherent(client[c]) /\ client[c].pc \in {"doubt", "told", "deaf"} /\ Decided(c)
        /\ UNCHANGED <<clock, record, effects, receipts, outbox, attempts, told>>
    BY DEF RequestsIInv, DatabaseAborts
  <1>2. /\ OtherClients(c)
        /\ DOMAIN client'[c] = {"pc", "attempt", "receipt", "message", "created", "until"}
        /\ \/ client'[c].pc = "idle"
           \/ client'[c].pc = "reconcile" /\ client'[c].attempt = client[c].attempt
    BY <1>1, DecidedFacts
  <1>3. ClientCoherent(client[c])'
    BY <1>1, <1>2 DEF ClientCoherent, Undecided, Holding
  <1>4. AttemptsKept(client[c].attempt)
    BY <1>1 DEF AttemptsKept, RequestsTypeOK
  <1> QED BY <1>1, <1>2, <1>3, <1>4 DEF Moving, Holding

\* A client that asks what became of a commit that raised is Moving.
LEMMA ReconcileMoving ==
  ASSUME RequestsIInv, NEW c \in Clients, Reconcile(c)
  PROVE  Moving(c)
  <1> DEFINE a == client[c]
             n == a.attempt
             b == [a EXCEPT !.pc = "told"]
  <1>1. /\ RequestsTypeOK /\ ClientCoherent(a) /\ a.pc \in {"doubt", "reconcile"}
        /\ UNCHANGED <<clock, record, effects, receipts, outbox, attempts>>
    BY DEF RequestsIInv, Reconcile
  <1>2. n \in DOMAIN attempts
    BY <1>1 DEF ClientCoherent
  <1>3. PICK x : told' = told \cup {x} /\ x.attempt = n /\ Truthful(x) /\ x.answer # "rolled back"
    <2>1. CASE Tell(c, "uncertain", 0)
      <3> DEFINE y == [attempt |-> n, answer |-> "uncertain", value |-> 0]
      <3>1. told' = told \cup {y} /\ y.attempt = n /\ Truthful(y) /\ y.answer # "rolled back"
        BY <2>1 DEF Tell, Truthful
      <3> HIDE DEF y
      <3> QED BY <3>1
    <2>2. CASE ~Expired(record, clock) /\ Tell(c, Decision(record, attempts[n].fingerprint), record.value)
      <3> DEFINE y == [attempt |-> n, answer |-> Decision(record, attempts[n].fingerprint), value |-> record.value]
      <3>1. told' = told \cup {y}
        BY <2>2 DEF Tell
      <3>2. y.attempt = n /\ Truthful(y) /\ y.answer # "rolled back"
        BY <1>2, <2>2, DecisionTruthful DEF Expired
      <3> HIDE DEF y
      <3> QED BY <3>1, <3>2
    <2> QED BY <2>1, <2>2 DEF Reconcile
  <1>4. CASE a.pc = "doubt"
    <2>1. client' = [client EXCEPT ![c] = b]
      BY <1>1, <1>4 DEF Reconcile, RequestsTypeOK
    <2>2. DOMAIN b = DOMAIN a /\ b.pc = "told" /\ b.attempt = n /\ b.receipt = a.receipt /\ b.message = a.message
      BY <1>1 DEF ClientCoherent
    <2> HIDE DEF b
    <2>3. ClientCoherent(b) /\ Holding(a.pc)
      BY <1>1, <1>4, <2>2 DEF ClientCoherent, Undecided, Holding
    <2> QED BY <1>1, <1>3, <1>4, <2>1, <2>2, <2>3, GoesMoving
  <1>5. CASE a.pc = "reconcile"
    BY <1>1, <1>3, <1>5, LeavesMoving DEF Reconcile
  <1> QED BY <1>1, <1>4, <1>5

----------------------------------------------------------------------------
\* Time passes.
LEMMA TickKeeps ==
  ASSUME RequestsIInv, Tick,
         UNCHANGED <<backend, record, effects, receipts, outbox, client, reader, attempts, told>>
  PROVE  RequestsIInv'
  <1>1. /\ RequestsTypeOK /\ ClientsApart /\ RecordLatest /\ RowsOfEffects /\ RequestsExact
        /\ \A c \in Clients : ClientCoherent(client[c])
    BY DEF RequestsIInv
  <1>2. clock' \in Nat /\ \A n \in DOMAIN attempts : attempts[n].reserved <= clock'
    BY <1>1, AttemptFacts DEF Tick, RequestsTypeOK
  <1>3. RequestsTypeOK'
    BY <1>1, <1>2 DEF RequestsTypeOK
  <1>4. \A c \in Clients : ClientCoherent(client[c])'
    BY <1>1 DEF ClientCoherent
  <1>5. ClientsApart' /\ RecordLatest' /\ RowsOfEffects' /\ RequestsExact'
    BY <1>1 DEF ClientsApart, RecordLatest, RowsOfEffects, RequestsExact
  <1> QED BY <1>3, <1>4, <1>5 DEF RequestsIInv

\* A new attempt is one nothing speaks of yet.
LEMMA ExecuteFacts ==
  ASSUME RequestsTypeOK, NEW c \in Clients, NEW f \in Fingerprints, Execute(c, f)
  PROVE  LET n == Len(attempts) + 1
             b == client'[c]
         IN
         /\ attempts' \in Seq(Attempts) /\ DOMAIN attempts' = DOMAIN attempts \cup {n} /\ n \notin DOMAIN attempts
         /\ \A k \in DOMAIN attempts : attempts'[k] = attempts[k]
         /\ attempts'[n].reserved = clock
         /\ OtherClients(c) /\ client[c].pc = "idle"
         /\ DOMAIN b = {"pc", "attempt", "receipt", "message", "created", "until"}
         /\ b.pc = "asked" /\ b.attempt = n /\ b.created = clock
         /\ UNCHANGED <<clock, record, effects, receipts, outbox, told>>
  <1> DEFINE n == Len(attempts) + 1
             e == [fingerprint |-> f, reserved |-> clock, completed |-> 0]
             b == [Away EXCEPT !.pc = "asked", !.attempt = n, !.created = clock]
  <1>1. /\ attempts' = Append(attempts, e) /\ client' = [client EXCEPT ![c] = b] /\ client[c].pc = "idle"
        /\ UNCHANGED <<clock, record, effects, receipts, outbox, told>>
    BY DEF Execute
  <1>2. e \in Attempts /\ e.reserved = clock
    BY DEF Attempts, RequestsTypeOK
  <1>3. /\ DOMAIN b = {"pc", "attempt", "receipt", "message", "created", "until"}
        /\ b.pc = "asked" /\ b.attempt = n /\ b.created = clock
    BY DEF Away
  <1> HIDE DEF e, b
  <1>4. client'[c] = b /\ OtherClients(c)
    BY <1>1 DEF RequestsTypeOK, OtherClients
  <1>5. /\ attempts \in Seq(Attempts) /\ Len(attempts) \in Nat /\ DOMAIN attempts = 1..Len(attempts)
    BY AttemptFacts DEF RequestsTypeOK
  <1>6. /\ attempts' \in Seq(Attempts) /\ DOMAIN attempts' = 1..n /\ attempts'[n] = e
        /\ \A k \in 1..Len(attempts) : attempts'[k] = attempts[k]
    BY <1>1, <1>2, <1>5
  <1>7. 1..n = 1..Len(attempts) \cup {n} /\ n \notin 1..Len(attempts)
    BY <1>5
  <1> QED BY <1>1, <1>2, <1>3, <1>4, <1>5, <1>6, <1>7

\* A client begins a new attempt.
LEMMA ExecuteKeeps ==
  ASSUME RequestsIInv, NEW c \in Clients, NEW f \in Fingerprints, Execute(c, f)
  PROVE  RequestsIInv'
  <1> DEFINE n == Len(attempts) + 1
  <1>1. /\ RequestsTypeOK /\ ClientsApart /\ RecordLatest /\ RowsOfEffects /\ RequestsExact
        /\ \A d \in Clients : ClientCoherent(client[d])
    BY DEF RequestsIInv
  <1>2. /\ attempts' \in Seq(Attempts) /\ DOMAIN attempts' = DOMAIN attempts \cup {n} /\ n \notin DOMAIN attempts
        /\ \A k \in DOMAIN attempts : attempts'[k] = attempts[k]
        /\ attempts'[n].reserved = clock
        /\ OtherClients(c) /\ client[c].pc = "idle"
        /\ DOMAIN client'[c] = {"pc", "attempt", "receipt", "message", "created", "until"}
        /\ client'[c].pc = "asked" /\ client'[c].attempt = n /\ client'[c].created = clock
        /\ UNCHANGED <<clock, record, effects, receipts, outbox, told>>
    BY <1>1, ExecuteFacts
  <1>3. /\ \A k \in effects : k \in DOMAIN attempts /\ k # n /\ attempts'[k] = attempts[k]
        /\ \A a \in told : a.attempt \in DOMAIN attempts /\ a.attempt # n /\ attempts'[a.attempt] = attempts[a.attempt]
    BY <1>1, <1>2 DEF RequestsTypeOK
  <1>4. n # 0
    BY <1>1, AttemptFacts
  <1> HIDE DEF n
  <1>5. RequestsTypeOK'
    <2>1. clock \in Nat /\ \A k \in DOMAIN attempts' : attempts'[k].reserved <= clock
      BY <1>1, <1>2 DEF RequestsTypeOK
    <2> QED BY <1>1, <1>2, <1>3, <2>1 DEF RequestsTypeOK, OtherClients
  <1>6. ASSUME NEW d \in Clients PROVE ClientCoherent(client[d])'
    <2>1. CASE d = c
      BY <1>2, <1>3, <2>1 DEF ClientCoherent, Undecided, Holding
    <2>2. CASE d # c
      <3> DEFINE b == client[d]
      <3>1. ClientCoherent(b) /\ client'[d] = b /\ b = client[d]
        BY <1>1, <1>2, <2>2 DEF OtherClients
      <3> HIDE DEF b
      <3>2. b.pc # "idle" => b.attempt \in DOMAIN attempts /\ attempts'[b.attempt] = attempts[b.attempt]
        BY <1>2, <3>1 DEF ClientCoherent
      <3>3. Holding(b.pc) =>
              \A k \in effects : attempts'[k].completed + ResultTtl <= attempts'[b.attempt].reserved
        BY <1>3, <3>1, <3>2 DEF ClientCoherent, Holding
      <3> QED BY <1>2, <3>1, <3>2, <3>3 DEF ClientCoherent, Undecided
    <2> QED BY <2>1, <2>2
  <1>7. ClientsApart'
    <2>1. \A d \in Clients : d # c => client'[d] = client[d] /\ (client[d].pc # "idle" => client[d].attempt # n)
      BY <1>1, <1>2 DEF OtherClients, ClientCoherent
    <2>2. ~Holding(client'[c].pc)
      BY <1>2 DEF Holding
    <2> QED BY <1>1, <1>2, <2>1, <2>2 DEF ClientsApart
  <1>8. RecordLatest'
    BY <1>1, <1>2, <1>3 DEF RecordLatest
  <1>9. RowsOfEffects'
    BY <1>1, <1>2 DEF RowsOfEffects
  <1>10. RequestsExact'
    <2>1. \A k \in DOMAIN attempts' :
            /\ k \in effects <=> \E r \in ReceiptIds : receipts[r].result = k
            /\ k \in effects <=> \E m \in MessageIds : outbox[m] = k
      <3>1. /\ n \notin effects
            /\ \A r \in ReceiptIds : receipts[r].result # n
            /\ \A m \in MessageIds : outbox[m] # n
        BY <1>1, <1>3, <1>4 DEF RowsOfEffects
      <3> QED BY <1>1, <1>2, <3>1 DEF RequestsExact
    <2>2. \A j, k \in effects : j # k => \/ attempts'[j].completed + ResultTtl <= attempts'[k].reserved
                                         \/ attempts'[k].completed + ResultTtl <= attempts'[j].reserved
      BY <1>1, <1>3 DEF RequestsExact
    <2>3. \A a \in told : Truthful(a)
      BY <1>1 DEF RequestsExact, Truthful
    <2>4. \A a \in told : Truthful(a)'
      BY <1>2, <1>3, <2>3 DEF Truthful
    <2> QED BY <1>2, <2>1, <2>2, <2>4 DEF RequestsExact, Truthful
  <1> QED BY <1>5, <1>6, <1>7, <1>8, <1>9, <1>10 DEF RequestsIInv

----------------------------------------------------------------------------
\* The database commits what c has staged.
Committing(c) ==
    /\ client[c].pc \in {"commit", "doubt", "told", "deaf"}
    /\ Committed(c) /\ OtherClients(c)
    /\ DOMAIN client'[c] = {"pc", "attempt", "receipt", "message", "created", "until"}
    /\ client'[c].pc = "idle" \/ (client'[c].pc = "reconcile" /\ client'[c].attempt = client[c].attempt)
    /\ \A a \in told' : a \in told \/ a = [attempt |-> client[c].attempt, answer |-> "committed",
                                           value |-> client[c].attempt]

\* Both ways of committing are Committing.
LEMMA CommitsCommitting ==
  ASSUME RequestsIInv, NEW c \in Clients, Commits(c) \/ DatabaseCommits(c)
  PROVE  Committing(c)
  <1>1. CASE Commits(c)
    <2>1. DOMAIN client = Clients
      BY DEF RequestsIInv, RequestsTypeOK
    <2>2. client'[c] = Away /\ OtherClients(c)
      BY <1>1, <2>1 DEF Commits, OtherClients
    <2> QED BY <1>1, <2>2, AwayFacts DEF Commits, Committing, Tell
  <1>2. CASE DatabaseCommits(c)
    <2>1. client[c].pc \in {"doubt", "told", "deaf"} /\ Decided(c) /\ Committed(c) /\ told' = told
      BY <1>2 DEF DatabaseCommits
    <2>2. /\ OtherClients(c)
          /\ DOMAIN client'[c] = {"pc", "attempt", "receipt", "message", "created", "until"}
          /\ \/ client'[c].pc = "idle"
             \/ client'[c].pc = "reconcile" /\ client'[c].attempt = client[c].attempt
      BY <2>1, DecidedFacts
    <2> QED BY <2>1, <2>2 DEF Committing
  <1> QED BY <1>1, <1>2

\* What is committed comes after the retention of every earlier effect, and its rows are new.
LEMMA CommittingFacts ==
  ASSUME RequestsIInv, NEW c \in Clients, Committing(c)
  PROVE  LET n == client[c].attempt
             r == client[c].receipt
             m == client[c].message
         IN
         /\ n \in DOMAIN attempts /\ n \notin effects /\ n \in Nat /\ n # 0 /\ effects' = effects \cup {n}
         /\ UNCHANGED <<clock, attempts>> /\ ResultTtl \in Nat
         /\ \A k \in effects : attempts[k].completed + ResultTtl <= attempts[n].reserved
         /\ \A a \in told : a.answer = "rolled back" => a.attempt # n
         /\ attempts[n].reserved <= attempts[n].completed
         /\ record' = [state |-> "completed", fingerprint |-> attempts[n].fingerprint, value |-> n,
                       until |-> attempts[n].completed + ResultTtl]
         /\ r \in ReceiptIds /\ receipts[r].result = 0 /\ receipts'[r].result = n
         /\ DOMAIN receipts' = ReceiptIds /\ \A i \in ReceiptIds : i # r => receipts'[i] = receipts[i]
         /\ m \in MessageIds /\ outbox[m] = 0 /\ outbox'[m] = n
         /\ DOMAIN outbox' = MessageIds /\ \A i \in MessageIds : i # m => outbox'[i] = outbox[i]
         /\ \A d \in Clients : d # c => ~Holding(client[d].pc) /\ (client[d].pc # "idle" => client[d].attempt # n)
  <1> DEFINE b == client[c]
             n == b.attempt
             row == [state |-> "completed", created |-> b.created, updated |-> attempts[n].completed, result |-> n]
  <1>1. /\ RequestsTypeOK /\ ClientsApart /\ ClientCoherent(b) /\ Committed(c)
        /\ b.pc \in {"commit", "doubt", "told", "deaf"}
    BY DEF RequestsIInv, Committing
  <1>2. Holding(b.pc) /\ Undecided(b.pc) /\ b.pc # "idle" /\ b.pc # "execute"
    BY <1>1 DEF Holding, Undecided
  <1>3. /\ n \in DOMAIN attempts /\ n \notin effects
        /\ b.receipt \in ReceiptIds /\ b.message \in MessageIds
        /\ receipts[b.receipt] = NoReceipt /\ outbox[b.message] = 0
        /\ attempts[n].reserved <= attempts[n].completed
    BY <1>1, <1>2 DEF ClientCoherent
  <1>4. /\ \A k \in effects : attempts[k].completed + ResultTtl <= attempts[n].reserved
        /\ \A a \in told : a.answer = "rolled back" => a.attempt # n
    BY <1>1, <1>2 DEF ClientCoherent
  <1>5. n \in Nat /\ n # 0 /\ ResultTtl \in Nat
    BY <1>1, <1>3, AttemptFacts, RequestsAssumption
  <1>6. /\ effects' = effects \cup {n} /\ UNCHANGED <<clock, attempts>>
        /\ record' = [state |-> "completed", fingerprint |-> attempts[n].fingerprint, value |-> n,
                      until |-> attempts[n].completed + ResultTtl]
        /\ receipts' = [receipts EXCEPT ![b.receipt] = row]
        /\ outbox' = [outbox EXCEPT ![b.message] = n]
    BY <1>1 DEF Committed
  <1>7. row.result = n /\ NoReceipt.result = 0
    BY DEF NoReceipt
  <1> HIDE DEF row
  <1>8. /\ receipts'[b.receipt] = row /\ DOMAIN receipts' = ReceiptIds
        /\ \A i \in ReceiptIds : i # b.receipt => receipts'[i] = receipts[i]
        /\ outbox'[b.message] = n /\ DOMAIN outbox' = MessageIds
        /\ \A i \in MessageIds : i # b.message => outbox'[i] = outbox[i]
    BY <1>1, <1>3, <1>6 DEF RequestsTypeOK
  <1>9. \A d \in Clients : d # c => ~Holding(client[d].pc) /\ (client[d].pc # "idle" => client[d].attempt # n)
    BY <1>1, <1>2 DEF ClientsApart
  <1> QED BY <1>3, <1>4, <1>5, <1>6, <1>7, <1>8, <1>9

\* A commit keeps the invariant.
LEMMA CommittingKeeps ==
  ASSUME RequestsIInv, NEW c \in Clients, Committing(c)
  PROVE  RequestsIInv'
  <1> DEFINE n == client[c].attempt
             r == client[c].receipt
             m == client[c].message
  <1>1. /\ RequestsTypeOK /\ ClientsApart /\ RecordLatest /\ RowsOfEffects /\ RequestsExact
        /\ \A d \in Clients : ClientCoherent(client[d])
    BY DEF RequestsIInv
  <1>2. /\ n \in DOMAIN attempts /\ n \notin effects /\ n \in Nat /\ n # 0 /\ effects' = effects \cup {n}
        /\ clock' = clock /\ attempts' = attempts /\ ResultTtl \in Nat
        /\ \A k \in effects : attempts[k].completed + ResultTtl <= attempts[n].reserved
        /\ \A a \in told : a.answer = "rolled back" => a.attempt # n
        /\ attempts[n].reserved <= attempts[n].completed
        /\ record' = [state |-> "completed", fingerprint |-> attempts[n].fingerprint, value |-> n,
                      until |-> attempts[n].completed + ResultTtl]
    BY CommittingFacts
  <1>3. /\ r \in ReceiptIds /\ receipts[r].result = 0 /\ receipts'[r].result = n
        /\ DOMAIN receipts' = ReceiptIds /\ \A i \in ReceiptIds : i # r => receipts'[i] = receipts[i]
        /\ m \in MessageIds /\ outbox[m] = 0 /\ outbox'[m] = n
        /\ DOMAIN outbox' = MessageIds /\ \A i \in MessageIds : i # m => outbox'[i] = outbox[i]
    BY CommittingFacts
  <1>4. \A d \in Clients : d # c => ~Holding(client[d].pc) /\ (client[d].pc # "idle" => client[d].attempt # n)
    BY CommittingFacts
  <1>5. /\ OtherClients(c) /\ DOMAIN client'[c] = {"pc", "attempt", "receipt", "message", "created", "until"}
        /\ client'[c].pc = "idle" \/ (client'[c].pc = "reconcile" /\ client'[c].attempt = n)
        /\ \A a \in told' : a \in told \/ (a.attempt = n /\ a.answer = "committed" /\ a.value = n)
    BY DEF Committing
  <1>6. \A k \in DOMAIN attempts : k # 0 /\ attempts[k].reserved \in Nat /\ attempts[k].completed \in Nat
    BY <1>1, AttemptFacts
  <1> HIDE DEF n, r, m
  <1>7. RequestsTypeOK'
    BY <1>1, <1>2, <1>3, <1>5 DEF RequestsTypeOK, OtherClients
  <1>8. ASSUME NEW d \in Clients PROVE ClientCoherent(client[d])'
    <2>1. CASE d = c
      BY <1>2, <1>5, <2>1 DEF ClientCoherent, Undecided, Holding
    <2>2. CASE d # c
      <3> DEFINE b == client[d]
      <3>1. /\ ClientCoherent(b) /\ client'[d] = b /\ ~Holding(b.pc) /\ (b.pc # "idle" => b.attempt # n)
        BY <1>1, <1>4, <1>5, <2>2 DEF OtherClients
      <3> HIDE DEF b
      <3>2. Undecided(b.pc) => /\ b.attempt \notin effects'
                               /\ \A a \in told' : a.answer = "rolled back" => a.attempt # b.attempt
        BY <1>2, <1>5, <3>1 DEF ClientCoherent, Undecided
      <3>3. b.pc \in {"idle", "asked", "reconcile"}
        BY <3>1 DEF Holding
      <3> QED BY <1>2, <3>1, <3>2, <3>3 DEF ClientCoherent
    <2> QED BY <2>1, <2>2
  <1>9. ClientsApart'
    <2>1. \A d \in Clients : d # c => client'[d] = client[d]
      BY <1>5 DEF OtherClients
    <2>2. ~Holding(client'[c].pc)
      BY <1>5 DEF Holding
    <2> QED BY <1>1, <1>4, <1>5, <2>1, <2>2 DEF ClientsApart
  <1>10. RecordLatest'
    <2>1. /\ record'.state = "completed" /\ record'.value = n /\ record'.fingerprint = attempts[n].fingerprint
          /\ record'.until = attempts[n].completed + ResultTtl
      BY <1>2
    <2>2. /\ attempts[n].completed \in Nat /\ attempts[n].reserved \in Nat /\ ResultTtl \in Nat
          /\ attempts[n].reserved <= attempts[n].completed
      BY <1>2, <1>6
    <2>3. attempts[n].completed + ResultTtl \in Nat
      BY ONLY <2>2
    <2>4. ASSUME NEW k \in effects
          PROVE  attempts[k].completed + ResultTtl <= attempts[n].completed + ResultTtl
      <3>1. attempts[k].completed \in Nat /\ attempts[k].completed + ResultTtl <= attempts[n].reserved
        BY <1>1, <1>2, <1>6 DEF RequestsTypeOK
      <3> QED BY ONLY <2>2, <3>1
    <2>5. /\ effects' = effects \cup {n} /\ attempts' = attempts
      BY <1>2
    <2>6. attempts[n].completed + ResultTtl <= attempts[n].completed + ResultTtl
      BY ONLY <2>3
    <2>7. \A k \in effects' : attempts'[k].completed + ResultTtl <= record'.until
      BY ONLY <2>1, <2>4, <2>5, <2>6
    <2> QED BY ONLY <2>1, <2>3, <2>5, <2>7 DEF RecordLatest
  <1>11. RowsOfEffects'
    BY <1>1, <1>2, <1>3 DEF RowsOfEffects
  <1>12. RequestsExact'
    <2>1. ASSUME NEW k \in DOMAIN attempts
          PROVE  /\ k \in effects' <=> \E i \in ReceiptIds : receipts'[i].result = k
                 /\ k \in effects' <=> \E i \in MessageIds : outbox'[i] = k
      <3>1. CASE k = n
        BY <1>2, <1>3, <3>1
      <3>2. CASE k # n
        <4>1. /\ k \in effects <=> \E i \in ReceiptIds : receipts[i].result = k
              /\ k \in effects <=> \E i \in MessageIds : outbox[i] = k
          BY <1>1 DEF RequestsExact
        <4>2. k # 0
          BY <1>6
        <4> QED BY <1>2, <1>3, <3>2, <4>1, <4>2
      <3> QED BY <3>1, <3>2
    <2>2. \A j, k \in effects' : j # k => \/ attempts[j].completed + ResultTtl <= attempts[k].reserved
                                          \/ attempts[k].completed + ResultTtl <= attempts[j].reserved
      BY <1>1, <1>2 DEF RequestsExact
    <2>3. \A a \in told : Truthful(a)
      BY <1>1 DEF RequestsExact, Truthful
    <2>4. \A a \in told' : Truthful(a)'
      <3>1. \A a \in told : Truthful(a)'
        BY <1>2, <2>3 DEF Truthful
      <3> QED BY <1>2, <1>5, <3>1 DEF Truthful
    <2> QED BY <1>2, <2>1, <2>2, <2>4 DEF RequestsExact, Truthful
  <1> QED BY <1>7, <1>8, <1>9, <1>10, <1>11, <1>12 DEF RequestsIInv

\* The invariant holds at first.
LEMMA RequestsInitial == RequestsInit => RequestsIInv
  <1> SUFFICES ASSUME RequestsInit PROVE RequestsIInv
    OBVIOUS
  <1>1. /\ clock = 0 /\ receipts = [r \in ReceiptIds |-> NoReceipt] /\ record = NoRecord /\ effects = {}
        /\ outbox = [m \in MessageIds |-> 0] /\ client = [c \in Clients |-> Away] /\ attempts = << >> /\ told = {}
    BY DEF RequestsInit, ReceiptsInit
  <1>2. \A c \in Clients : client[c] = Away
    BY <1>1
  <1>3. RequestsTypeOK
    BY <1>1 DEF RequestsTypeOK
  <1>4. \A c \in Clients : ClientCoherent(client[c])
    BY <1>2, AwayFacts DEF ClientCoherent, Undecided, Holding
  <1>5. ClientsApart
    BY <1>2, AwayFacts DEF ClientsApart, Holding
  <1>6. RecordLatest
    BY <1>1 DEF RecordLatest, NoRecord
  <1>7. RowsOfEffects
    BY <1>1 DEF RowsOfEffects, NoReceipt
  <1>8. RequestsExact
    BY <1>1 DEF RequestsExact
  <1> QED BY <1>3, <1>4, <1>5, <1>6, <1>7, <1>8 DEF RequestsIInv

\* Every step keeps the invariant.
LEMMA RequestsInductive == RequestsIInv /\ [RequestsNext]_reqVars => RequestsIInv'
  <1> SUFFICES ASSUME RequestsIInv, [RequestsNext]_reqVars PROVE RequestsIInv'
    OBVIOUS
  <1>1. CASE UNCHANGED reqVars
    <2>1. RequestsTypeOK' /\ ClientsApart' /\ RecordLatest' /\ RowsOfEffects'
      BY <1>1 DEF reqVars, RequestsIInv, RequestsTypeOK, ClientsApart, RecordLatest, RowsOfEffects
    <2>2. \A c \in Clients : ClientCoherent(client[c])'
      BY <1>1 DEF reqVars, RequestsIInv, ClientCoherent
    <2>3. RequestsExact'
      BY <1>1 DEF reqVars, RequestsIInv, RequestsExact
    <2> QED BY <2>1, <2>2, <2>3 DEF RequestsIInv
  <1>2. CASE Tick /\ UNCHANGED <<backend, record, effects, receipts, outbox, client, reader, attempts, told>>
    BY <1>2, TickKeeps
  <1>3. ASSUME NEW c \in Clients, \E f \in Fingerprints : Execute(c, f) PROVE RequestsIInv'
    BY <1>3, ExecuteKeeps
  <1>4. ASSUME NEW c \in Clients, Commits(c) \/ DatabaseCommits(c) PROVE RequestsIInv'
    BY <1>4, CommitsCommitting, CommittingKeeps
  <1>5. ASSUME NEW c \in Clients,
               \/ \E r \in ReceiptIds, m \in MessageIds : Mutate(c, r, m)
               \/ Reserve(c) \/ AddRows(c) \/ Complete(c) \/ Fails(c) \/ CommitRaises(c)
               \/ DatabaseAborts(c) \/ Reconcile(c)
        PROVE  RequestsIInv'
    <2>1. Moving(c)
      BY <1>5, MutateMoving, ReserveMoving, AddRowsMoving, CompleteMoving, FailsMoving, CommitRaisesMoving,
         AbortsMoving, ReconcileMoving
    <2> QED BY <2>1, MovingKeeps
  <1> QED BY <1>1, <1>2, <1>3, <1>4, <1>5 DEF RequestsNext

\* The record, the effect, the receipt and the outbox row of a request are written together or
\* not at all, by DjangoTransactionalOperation and by SQLAlchemyIdempotentRequest: receipts and
\* outbox rows are those of the effects, one key has one effect within the retention of its
\* result, and every answer is so, also the ones given while a commit is in doubt.
THEOREM RequestsExactTheorem == RequestsSpec => []RequestsExact
  <1>1. RequestsIInv => RequestsExact
    BY DEF RequestsIInv
  <1> QED BY <1>1, RequestsInitial, RequestsInductive, PTL DEF RequestsSpec

----------------------------------------------------------------------------
\* The event store.

\* A batch is a sequence of different identities.
LEMMA BatchFacts ==
  ASSUME NEW ids \in Batches
  PROVE  /\ Len(ids) \in Nat /\ Len(ids) >= 1 /\ DOMAIN ids = 1..Len(ids)
         /\ \A i \in 1..Len(ids) : ids[i] \in EventIds
         /\ \A i, j \in 1..Len(ids) : ids[i] = ids[j] => i = j
  <1>1. PICK n \in 1..MaxBatch : ids \in [1..n -> EventIds] /\ \A i, j \in 1..n : ids[i] = ids[j] => i = j
    BY DEF Batches
  <1>2. n \in Nat /\ n >= 1
    BY <1>1, EventStoreAssumption
  <1>3. ids \in Seq(EventIds)
    BY <1>1, <1>2, SeqDef
  <1>4. Len(ids) \in Nat /\ DOMAIN ids = 1..Len(ids)
    BY <1>3, LenProperties
  <1>5. n = Len(ids)
    BY <1>1, <1>2, <1>4
  <1> QED BY <1>1, <1>2, <1>4, <1>5

\* One row for each identity, numbered on from `actual` versions and `last` positions.
NumberedOn(added, s, actual, last, ids) ==
    LET n == Len(ids) IN
    /\ n \in Nat /\ n >= 1 /\ added # << >> /\ DOMAIN added = 1..n /\ Len(added) = n
    /\ \A i \in 1..n : /\ added[i] \in StoredEvents /\ added[i].stream = s /\ added[i].event_id = ids[i]
                       /\ added[i].stream_version = actual + i /\ added[i].global_position = last + i
    /\ IsFiniteSet(ToSet(added)) /\ Cardinality(ToSet(added)) = n
    /\ \A x : x \in ToSet(added) <=> \E i \in 1..n : x = added[i]

\* The rows of an append have the next versions and positions, one each.
LEMMA NumberedFacts ==
  ASSUME NEW s \in Streams, NEW actual \in Nat, NEW last \in Nat, NEW ids \in Batches
  PROVE  NumberedOn(Numbered(s, actual, last, ids), s, actual, last, ids)
  <1> DEFINE added == Numbered(s, actual, last, ids)
             n == Len(ids)
  <1>1. /\ n \in Nat /\ n >= 1 /\ DOMAIN ids = 1..n /\ \A i \in 1..n : ids[i] \in EventIds
    BY BatchFacts
  <1>2. DOMAIN added = 1..n
    BY <1>1 DEF Numbered
  <1>3. ASSUME NEW i \in 1..n
        PROVE  /\ added[i] \in StoredEvents /\ added[i].stream = s /\ added[i].event_id = ids[i]
               /\ added[i].stream_version = actual + i /\ added[i].global_position = last + i
    <2>1. added[i] = [stream |-> s, stream_version |-> actual + i, global_position |-> last + i, event_id |-> ids[i]]
      BY <1>1 DEF Numbered
    <2>2. actual + i \in Nat /\ last + i \in Nat /\ ids[i] \in EventIds
      BY <1>1
    <2> HIDE DEF added
    <2> QED BY <2>1, <2>2 DEF StoredEvents
  <1>4. added \in [1..n -> StoredEvents]
    <2>1. added = [i \in 1..n |-> added[i]]
      BY <1>1 DEF Numbered
    <2> HIDE DEF added
    <2> QED BY <1>3, <2>1
  <1> HIDE DEF added, n
  <1>5. Len(added) = n /\ added # << >>
    <2>1. added \in Seq(StoredEvents)
      BY <1>1, <1>4, SeqDef
    <2>2. Len(added) \in Nat /\ DOMAIN added = 1..Len(added)
      BY <2>1, LenProperties
    <2>3. Len(added) = n
      BY <1>1, <1>2, <2>2
    <2>4. 1 \in DOMAIN added
      BY <1>1, <1>2
    <2> QED BY <2>3, <2>4
  <1>6. \A x : x \in ToSet(added) <=> \E i \in 1..n : x = added[i]
    BY <1>2 DEF ToSet
  <1>7. \A i, j \in 1..n : added[i] = added[j] => i = j
    <2> SUFFICES ASSUME NEW i \in 1..n, NEW j \in 1..n, added[i] = added[j] PROVE i = j
      OBVIOUS
    <2>1. last + i = last + j
      BY <1>3
    <2> QED BY <1>1, <2>1
  <1>8. added \in Bijection(1..n, ToSet(added))
    BY <1>4, <1>6, <1>7 DEF Bijection, Injection, Surjection, IsInjective
  <1>9. ExistsBijection(1..n, ToSet(added))
    BY <1>8 DEF ExistsBijection
  <1>10. IsFiniteSet(ToSet(added)) /\ Cardinality(ToSet(added)) = n
    BY <1>1, <1>9, FS_CountingElements, FS_NatBijection
  <1>11. NumberedOn(added, s, actual, last, ids)
    BY <1>1, <1>2, <1>3, <1>5, <1>6, <1>10 DEF NumberedOn, n
  <1> QED BY <1>11 DEF added

OfStream(es, s) == {e \in es : e.stream = s}

\* What the exact log says of each event, and of each stream.
LEMMA LogFacts ==
  ASSUME LogTypeOK, LogExact
  PROVE  /\ \A e \in events : /\ e \in StoredEvents /\ e.global_position \in 1..position /\ e.stream \in Streams
                              /\ e.stream_version \in 1..StreamVersion(e.stream)
         /\ \A p \in 1..position : \E e \in events : e.global_position = p
         /\ \A s : /\ StreamVersion(s) = Cardinality(OfStream(events, s))
                   /\ IsFiniteSet(OfStream(events, s)) /\ StreamVersion(s) \in Nat
         /\ \A s \in Streams : \A v : v \in 1..StreamVersion(s) <=> \E e \in OfStream(events, s) : e.stream_version = v
  <1>1. \A e \in events : e \in StoredEvents /\ e.stream \in Streams
    BY DEF LogTypeOK, StoredEvents
  <1>2. \A s : StreamVersion(s) = Cardinality(OfStream(events, s)) /\ IsFiniteSet(OfStream(events, s))
               /\ StreamVersion(s) \in Nat
    <2> TAKE s
    <2>1. OfStream(events, s) \subseteq events /\ StreamVersion(s) = Cardinality(OfStream(events, s))
      BY DEF OfStream, StreamVersion
    <2> QED BY <2>1, FS_Subset, FS_CardinalityType DEF LogTypeOK
  <1>3. \A s \in Streams : \A v : v \in 1..StreamVersion(s) <=> \E e \in OfStream(events, s) : e.stream_version = v
    <2> TAKE s \in Streams
    <2>1. {e.stream_version : e \in OfStream(events, s)} = 1..StreamVersion(s)
      BY DEF LogExact, OfStream
    <2> QED BY <2>1
  <1>4. \A e \in events : e.stream_version \in 1..StreamVersion(e.stream)
    BY <1>1, <1>3 DEF OfStream
  <1>5. /\ \A e \in events : e.global_position \in 1..position
        /\ \A p \in 1..position : \E e \in events : e.global_position = p
    <2>1. {e.global_position : e \in events} = 1..position
      BY DEF LogExact
    <2> QED BY <2>1
  <1> QED BY <1>1, <1>2, <1>3, <1>4, <1>5

\* Rows that are numbered on from what is committed keep the log exact.
LEMMA Appended ==
  ASSUME LogTypeOK, LogExact, NEW s \in Streams, NEW ids \in Batches, Unseen(ids),
         events' = events \cup ToSet(Numbered(s, StreamVersion(s), position, ids)),
         position' = position + Len(ids)
  PROVE  events' \subseteq StoredEvents /\ IsFiniteSet(events') /\ position' \in Nat /\ LogExact'
  <1> DEFINE v == StreamVersion(s)
             added == Numbered(s, v, position, ids)
             n == Len(ids)
             new == ToSet(added)
  <1>1. position \in Nat /\ v \in Nat /\ events \subseteq StoredEvents /\ IsFiniteSet(events)
    BY LogFacts DEF LogTypeOK
  <1>2. events' = events \cup new /\ position' = position + n
    OBVIOUS
  <1> HIDE DEF v
  <1>3. /\ n \in Nat /\ n >= 1
        /\ \A i \in 1..n : /\ added[i] \in StoredEvents /\ added[i].stream = s /\ added[i].event_id = ids[i]
                           /\ added[i].stream_version = v + i /\ added[i].global_position = position + i
        /\ IsFiniteSet(new) /\ Cardinality(new) = n
        /\ \A x : x \in new <=> \E i \in 1..n : x = added[i]
    <2>1. NumberedOn(added, s, v, position, ids)
      BY <1>1, NumberedFacts
    <2> HIDE DEF added
    <2> QED BY <2>1 DEF NumberedOn
  <1>4. /\ DOMAIN ids = 1..n /\ (\A i, j \in 1..n : ids[i] = ids[j] => i = j)
        /\ \A e \in events, i \in 1..n : e.event_id # ids[i]
    BY BatchFacts DEF Unseen
  <1> HIDE DEF added, n, new
  <1>5. events' \subseteq StoredEvents /\ IsFiniteSet(events') /\ position' \in Nat
    <2>1. IsFiniteSet(events \cup new)
      BY <1>1, <1>3, FS_Union
    <2>2. new \subseteq StoredEvents
      BY <1>3
    <2>3. position + n \in Nat
      BY <1>1, <1>3
    <2> QED BY <1>1, <1>2, <2>1, <2>2, <2>3
  <1>6. events \cap new = {}
    <2> SUFFICES ASSUME NEW e \in events, e \in new PROVE FALSE
      OBVIOUS
    <2>1. PICK i \in 1..n : e = added[i]
      BY <1>3
    <2>2. e.global_position = position + i /\ e.global_position \in 1..position
      BY <1>3, <2>1, LogFacts
    <2> QED BY <1>1, <1>3, <2>2
  <1>7. Cardinality(events') = position'
    <2>1. Cardinality(events) = position
      BY DEF LogExact
    <2>2. Cardinality(events \cup new) = Cardinality(events) + Cardinality(new) - Cardinality({})
      <3>1. Cardinality(events \cup new) = Cardinality(events) + Cardinality(new) - Cardinality(events \cap new)
        BY <1>1, <1>3, FS_Union
      <3> QED BY <1>6, <3>1
    <2>3. Cardinality({}) = 0
      BY FS_EmptySet
    <2>4. Cardinality(new) = n /\ n \in Nat
      BY <1>3
    <2>5. Cardinality(events \cup new) = position + n
      BY ONLY <1>1, <2>1, <2>2, <2>3, <2>4
    <2> QED BY <1>2, <2>5
  <1>8. {e.global_position : e \in events'} = 1..position'
    <2>1. ASSUME NEW e \in events' PROVE e.global_position \in 1..position'
      <3>1. CASE e \in events
        <4>1. e.global_position \in 1..position
          BY <3>1, LogFacts
        <4> QED BY <1>1, <1>3, <1>2, <4>1
      <3>2. CASE e \in new
        <4>1. PICK i \in 1..n : e.global_position = position + i
          BY <1>3, <3>2
        <4> QED BY <1>1, <1>3, <1>2, <4>1
      <3> QED BY <1>2, <3>1, <3>2
    <2>2. ASSUME NEW p \in 1..position' PROVE \E e \in events' : e.global_position = p
      <3>1. CASE p \in 1..position
        BY <1>2, <3>1, LogFacts
      <3>2. CASE p \notin 1..position
        <4>1. p - position \in 1..n /\ p = position + (p - position)
          BY <1>1, <1>3, <1>2, <3>2
        <4>2. added[p - position] \in new /\ added[p - position].global_position = p
          BY <1>3, <4>1
        <4> QED BY <1>2, <4>2
      <3> QED BY <3>1, <3>2
    <2> QED BY <2>1, <2>2
  <1>9. \A q \in Streams : /\ q # s => OfStream(events', q) = OfStream(events, q) /\ StreamVersion(q)' = StreamVersion(q)
                           /\ q = s => OfStream(events', q) = OfStream(events, q) \cup new /\ StreamVersion(q)' = v + n
    <2> TAKE q \in Streams
    <2>1. \A e \in new : e.stream = s
      BY <1>3
    <2>2. StreamVersion(q)' = Cardinality(OfStream(events', q)) /\ StreamVersion(q) = Cardinality(OfStream(events, q))
      BY DEF StreamVersion, OfStream
    <2>3. CASE q # s
      <3>1. OfStream(events', q) = OfStream(events, q)
        BY <1>2, <2>1, <2>3 DEF OfStream
      <3> QED BY <2>2, <2>3, <3>1
    <2>4. CASE q = s
      <3>1. OfStream(events', q) = OfStream(events, q) \cup new /\ OfStream(events, q) \cap new = {}
        BY <1>2, <1>6, <2>1, <2>4 DEF OfStream
      <3>2. IsFiniteSet(OfStream(events, q)) /\ Cardinality(OfStream(events, q)) = v
        BY <2>4, LogFacts DEF v
      <3>3. Cardinality(OfStream(events, q) \cup new) = Cardinality(OfStream(events, q)) + Cardinality(new) - Cardinality({})
        BY <1>3, <3>1, <3>2, FS_Union
      <3>4. Cardinality({}) = 0
        BY FS_EmptySet
      <3>5. Cardinality(new) = n /\ n \in Nat
        BY <1>3
      <3>6. Cardinality(OfStream(events, q) \cup new) = v + n
        BY ONLY <1>1, <3>2, <3>3, <3>4, <3>5
      <3> QED BY <2>2, <2>4, <3>1, <3>6
    <2> QED BY <2>3, <2>4
  <1>10. ASSUME NEW q \in Streams
         PROVE  {e.stream_version : e \in OfStream(events', q)} = 1..StreamVersion(q)'
    <2>1. CASE q # s
      <3>1. {e.stream_version : e \in OfStream(events, q)} = 1..StreamVersion(q)
        BY DEF LogExact, OfStream
      <3> QED BY <1>9, <2>1, <3>1
    <2>2. CASE q = s
      <3>1. ASSUME NEW e \in OfStream(events', q) PROVE e.stream_version \in 1..(v + n)
        <4>1. CASE e \in OfStream(events, q)
          <5>1. e.stream_version \in 1..v
            BY <2>2, <4>1, LogFacts DEF v
          <5> QED BY <1>1, <1>3, <5>1
        <4>2. CASE e \in new
          <5>1. PICK i \in 1..n : e.stream_version = v + i
            BY <1>3, <4>2
          <5> QED BY <1>1, <1>3, <5>1
        <4> QED BY <1>9, <2>2, <4>1, <4>2
      <3>2. ASSUME NEW p \in 1..(v + n) PROVE \E e \in OfStream(events', q) : e.stream_version = p
        <4>1. CASE p \in 1..v
          <5>1. \E e \in OfStream(events, q) : e.stream_version = p
            BY <2>2, <4>1, LogFacts DEF v
          <5> QED BY <1>9, <2>2, <5>1
        <4>2. CASE p \notin 1..v
          <5>1. p - v \in 1..n /\ p = v + (p - v)
            BY <1>1, <1>3, <4>2
          <5>2. added[p - v] \in new /\ added[p - v].stream_version = p
            BY <1>3, <5>1
          <5> QED BY <1>9, <2>2, <5>2
        <4> QED BY <4>1, <4>2
      <3> QED BY <1>9, <2>2, <3>1, <3>2
    <2> QED BY <2>1, <2>2
  <1>11. ASSUME NEW e \in events', NEW f \in events'
         PROVE  /\ e.stream = f.stream /\ e.global_position < f.global_position
                      => e.stream_version < f.stream_version
                /\ e.event_id = f.event_id => e = f
    <2>1. CASE e \in events /\ f \in events
      BY <2>1 DEF LogExact
    <2>2. CASE e \in events /\ f \in new
      <3>1. PICK j \in 1..n : f = added[j]
        BY <1>3, <2>2
      <3>2. f.stream = s /\ f.event_id = ids[j] /\ f.stream_version = v + j
        BY <1>3, <3>1
      <3>3. e.stream = s => e.stream_version \in 1..v
        BY <2>2, LogFacts DEF v
      <3>4. e.event_id # f.event_id
        BY <1>4, <2>2, <3>2
      <3> QED BY <1>1, <1>3, <3>2, <3>3, <3>4
    <2>3. CASE e \in new /\ f \in events
      <3>1. PICK i \in 1..n : e = added[i]
        BY <1>3, <2>3
      <3>2. e.event_id = ids[i] /\ e.global_position = position + i
        BY <1>3, <3>1
      <3>3. f.global_position \in 1..position
        BY <2>3, LogFacts
      <3>4. e.event_id # f.event_id
        BY <1>4, <2>3, <3>2
      <3> QED BY <1>1, <1>3, <3>2, <3>3, <3>4
    <2>4. CASE e \in new /\ f \in new
      <3>1. PICK i \in 1..n, j \in 1..n : e = added[i] /\ f = added[j]
        BY <1>3, <2>4
      <3>2. /\ e.event_id = ids[i] /\ e.global_position = position + i /\ e.stream_version = v + i
            /\ f.event_id = ids[j] /\ f.global_position = position + j /\ f.stream_version = v + j
        BY <1>3, <3>1
      <3>3. e.event_id = f.event_id => e = f
        BY <1>4, <3>1, <3>2
      <3>4. position + i < position + j => v + i < v + j
        BY <1>1, <1>3
      <3> QED BY <3>2, <3>3, <3>4
    <2> QED BY <1>2, <2>1, <2>2, <2>3, <2>4
  <1>12. LogExact'
    BY <1>7, <1>8, <1>10, <1>11 DEF LogExact, OfStream
  <1> QED BY <1>5, <1>12

\* A writer that may read on, or whose transaction holds the log's row.
WriterFits(w, b) ==
    /\ \/ b = Idle
       \/ /\ DOMAIN b = {"stage", "stream", "basis", "version", "state", "staged"}
          /\ b.stage \in {"loaded", "open"} /\ b.stream \in Streams
    /\ b.stage = "loaded" => b.staged = << >>
    /\ b.stage = "open" =>
        /\ store = "sqlalchemy" /\ LogFree(w)
        /\ \/ b.staged = << >>
           \/ \E ids \in Batches : /\ Unseen(ids)
                                   /\ b.staged = Numbered(b.stream, StreamVersion(b.stream), position, ids)

\* A writer moves and the log stays.
LEMMA WriterMoves ==
  ASSUME LogIInv, NEW w \in Writers, NEW b, writer' = [writer EXCEPT ![w] = b], WriterFits(w, b),
         UNCHANGED <<store, events, position>>
  PROVE  LogIInv'
  <1>1. LogTypeOK /\ WritersCoherent /\ LogExact /\ DOMAIN writer = Writers
    BY DEF LogIInv, LogTypeOK
  <1>2. DOMAIN writer' = Writers /\ writer'[w] = b /\ \A o \in Writers : o # w => writer'[o] = writer[o]
    BY <1>1
  <1>3. LogTypeOK'
    BY <1>1, <1>2 DEF LogTypeOK, WriterFits
  <1>4. LogExact'
    BY <1>1 DEF LogExact, StreamVersion
  <1>5. ASSUME NEW o \in Writers
        PROVE  /\ writer'[o].stage = "loaded" => writer'[o].staged = << >>
               /\ writer'[o].stage = "open" => StagedNext(o)'
    <2>1. CASE o = w
      <3>1. LogFree(w) => LogFree(w)'
        BY <1>2 DEF LogFree
      <3> QED BY <1>2, <2>1, <3>1 DEF WriterFits, StagedNext, Unseen, StreamVersion
    <2>2. CASE o # w
      <3>1. writer'[o] = writer[o]
        BY <1>2, <2>2
      <3>2. writer[o].stage = "open" => StagedNext(o) /\ b.stage # "open"
        BY <1>1, <2>2 DEF WritersCoherent, WriterFits, LogFree
      <3>3. writer[o].stage = "open" => LogFree(o)'
        BY <1>2, <3>2 DEF StagedNext, LogFree
      <3> QED BY <1>1, <3>1, <3>2, <3>3 DEF WritersCoherent, StagedNext, Unseen, StreamVersion
    <2> QED BY <2>1, <2>2
  <1>6. WritersCoherent'
    BY <1>5 DEF WritersCoherent
  <1> QED BY <1>3, <1>4, <1>6 DEF LogIInv

\* A writer may always be idle.
LEMMA IdleFits ==
  \A w : WriterFits(w, Idle)
  BY DEF WriterFits, Idle

\* An append becomes visible, and no transaction is open when it has.
LEMMA AppendKeeps ==
  ASSUME LogIInv, NEW w \in Writers, writer' = [writer EXCEPT ![w] = Idle], store' = store,
         \A o \in Writers \ {w} : writer[o].stage # "open",
         NEW ids \in Batches, Unseen(ids), writer[w] # Idle,
         events' = events \cup ToSet(Numbered(writer[w].stream, StreamVersion(writer[w].stream), position, ids)),
         position' = position + Len(ids)
  PROVE  LogIInv'
  <1>1. LogTypeOK /\ WritersCoherent /\ LogExact /\ DOMAIN writer = Writers /\ writer[w].stream \in Streams
    BY DEF LogIInv, LogTypeOK
  <1>2. events' \subseteq StoredEvents /\ IsFiniteSet(events') /\ position' \in Nat /\ LogExact'
    BY <1>1, Appended
  <1>3. DOMAIN writer' = Writers /\ writer'[w] = Idle /\ \A o \in Writers : o # w => writer'[o] = writer[o]
    BY <1>1
  <1>4. LogTypeOK'
    BY <1>1, <1>2, <1>3 DEF LogTypeOK
  <1>5. WritersCoherent'
    <2>1. Idle.stage = "idle"
      BY DEF Idle
    <2>2. \A o \in Writers : writer'[o].stage # "open"
      BY <1>3, <2>1
    <2> QED BY <1>1, <1>3, <2>1, <2>2 DEF WritersCoherent
  <1> QED BY <1>2, <1>4, <1>5 DEF LogIInv

\* The append of InMemoryEventStore.
LEMMA AppendInMemoryKeeps ==
  ASSUME LogIInv, NEW w \in Writers, NEW ids \in Batches, AppendInMemory(w, ids)
  PROVE  LogIInv'
  <1>1. /\ store = "memory" /\ writer[w].stage = "loaded" /\ Unseen(ids) /\ store' = store
        /\ events' = events \cup ToSet(Numbered(writer[w].stream, StreamVersion(writer[w].stream),
                                                Cardinality(events), ids))
        /\ position' = position + Len(ids) /\ writer' = [writer EXCEPT ![w] = Idle]
    BY DEF AppendInMemory
  <1>2. Cardinality(events) = position
    BY DEF LogIInv, LogExact
  <1>3. \A o \in Writers \ {w} : writer[o].stage # "open"
    BY <1>1 DEF LogIInv, WritersCoherent, StagedNext
  <1>4. writer[w] # Idle
    BY <1>1 DEF Idle
  <1> QED BY <1>1, <1>2, <1>3, <1>4, AppendKeeps

\* The commit of a transaction that staged an append.
LEMMA CommitWriterKeeps ==
  ASSUME LogIInv, NEW w \in Writers, CommitWriter(w)
  PROVE  LogIInv'
  <1> DEFINE b == writer[w]
             added == b.staged
  <1>1. /\ b.stage = "open" /\ StagedNext(w) /\ b.stream \in Streams /\ b # Idle
        /\ writer' = [writer EXCEPT ![w] = Idle] /\ store' = store /\ LogTypeOK /\ LogExact
    BY DEF LogIInv, LogTypeOK, WritersCoherent, CommitWriter, Idle
  <1>2. CASE added # << >>
    <2>1. PICK ids \in Batches : Unseen(ids) /\ added = Numbered(b.stream, StreamVersion(b.stream), position, ids)
      BY <1>1, <1>2 DEF StagedNext
    <2>2. NumberedOn(added, b.stream, StreamVersion(b.stream), position, ids)
      <3>1. StreamVersion(b.stream) \in Nat /\ position \in Nat
        BY <1>1, LogFacts DEF LogTypeOK
      <3> QED BY <1>1, <2>1, <3>1, NumberedFacts
    <2>3. events' = events \cup ToSet(added) /\ position' = added[Len(added)].global_position
      BY <1>2 DEF CommitWriter, Last
    <2> HIDE DEF added
    <2>4. position' = position + Len(ids)
      BY <2>2, <2>3 DEF NumberedOn
    <2>5. \A o \in Writers \ {w} : writer[o].stage # "open"
      BY <1>1 DEF StagedNext, LogFree
    <2> QED BY <1>1, <2>1, <2>3, <2>4, <2>5, AppendKeeps
  <1>3. CASE added = << >>
    <2>1. UNCHANGED <<events, position>>
      BY <1>3 DEF CommitWriter
    <2> QED BY <1>1, <2>1, IdleFits, WriterMoves
  <1> QED BY <1>2, <1>3

\* Loading a snapshot and reading a page change no log.
LEMMA ReadersKeep ==
  ASSUME LogIInv, NEW w \in Writers,
         (\E s \in Streams : LoadSnapshot(w, s)) \/ ReadStream(w)
  PROVE  LogIInv'
  <1>1. LogTypeOK /\ WritersCoherent
    BY DEF LogIInv
  <1>2. ASSUME NEW s \in Streams, LoadSnapshot(w, s) PROVE LogIInv'
    <2> DEFINE b == View("loaded", s, snapshots[s].version, snapshots[s].version, snapshots[s].state, << >>)
    <2>1. writer' = [writer EXCEPT ![w] = b] /\ UNCHANGED <<store, events, position>>
      BY <1>2 DEF LoadSnapshot
    <2>2. WriterFits(w, b)
      BY DEF WriterFits, View
    <2> HIDE DEF b
    <2> QED BY <2>1, <2>2, WriterMoves
  <1>3. CASE ReadStream(w)
    <2> DEFINE a == writer[w]
               page == ReadStreamPage(a.stream, a.version)
               b == [a EXCEPT !.version = page[Len(page)].stream_version, !.state = @ \o EventIdsOf(page)]
    <2>1. a.stage = "loaded" /\ UNCHANGED <<store, events, position>>
      BY <1>3 DEF ReadStream
    <2>2. /\ DOMAIN a = {"stage", "stream", "basis", "version", "state", "staged"}
          /\ a.stream \in Streams /\ a.staged = << >>
      BY <1>1, <2>1 DEF LogTypeOK, WritersCoherent, Idle
    <2>3. writer' = [writer EXCEPT ![w] = b]
      BY <1>1, <1>3 DEF ReadStream, LogTypeOK
    <2>4. DOMAIN b = DOMAIN a /\ b.stage = "loaded" /\ b.stream = a.stream /\ b.staged = << >>
      BY <2>1, <2>2
    <2> HIDE DEF b
    <2>5. WriterFits(w, b)
      BY <2>2, <2>4 DEF WriterFits
    <2> QED BY <2>1, <2>3, <2>5, WriterMoves
  <1> QED BY <1>2, <1>3

\* A transaction that takes the log's row finds no other one open.
LEMMA OpeningKeeps ==
  ASSUME LogIInv, NEW w \in Writers,
         (\E ids \in Batches : AppendInTransaction(w, ids)) \/ SaveSnapshotInTransaction(w)
  PROVE  LogIInv'
  <1> DEFINE a == writer[w]
  <1>1. LogTypeOK /\ WritersCoherent /\ a.stage = "loaded" /\ store = "sqlalchemy" /\ LogFree(w)
        /\ UNCHANGED <<store, events, position>>
    BY DEF LogIInv, AppendInTransaction, SaveSnapshotInTransaction
  <1>2. /\ DOMAIN a = {"stage", "stream", "basis", "version", "state", "staged"}
        /\ a.stream \in Streams /\ a.staged = << >> /\ DOMAIN writer = Writers
    BY <1>1 DEF LogTypeOK, WritersCoherent, Idle
  <1>3. ASSUME NEW ids \in Batches, AppendInTransaction(w, ids) PROVE LogIInv'
    <2> DEFINE added == Numbered(a.stream, StreamVersion(a.stream), position, ids)
               b == [a EXCEPT !.stage = "open", !.staged = added]
    <2>1. writer' = [writer EXCEPT ![w] = b] /\ Unseen(ids)
      BY <1>2, <1>3 DEF AppendInTransaction
    <2>2. DOMAIN b = DOMAIN a /\ b.stage = "open" /\ b.stream = a.stream /\ b.staged = added
      BY <1>2
    <2> HIDE DEF b
    <2>3. WriterFits(w, b)
      BY <1>1, <1>2, <2>1, <2>2 DEF WriterFits
    <2> QED BY <1>1, <2>1, <2>3, WriterMoves
  <1>4. CASE SaveSnapshotInTransaction(w)
    <2> DEFINE b == [a EXCEPT !.stage = "open"]
    <2>1. writer' = [writer EXCEPT ![w] = b]
      BY <1>2, <1>4 DEF SaveSnapshotInTransaction
    <2>2. DOMAIN b = DOMAIN a /\ b.stage = "open" /\ b.stream = a.stream /\ b.staged = << >>
      BY <1>2
    <2> HIDE DEF b
    <2>3. WriterFits(w, b)
      BY <1>1, <1>2, <2>2 DEF WriterFits
    <2> QED BY <1>1, <2>1, <2>3, WriterMoves
  <1> QED BY <1>3, <1>4

\* An empty log is well formed.
LEMMA LogInitial == EventStoreInit => LogIInv
  <1> SUFFICES ASSUME EventStoreInit PROVE LogIInv
    OBVIOUS
  <1>1. IsFiniteSet({}) /\ Cardinality({}) = 0
    BY FS_EmptySet
  <1>2. \A s : StreamVersion(s) = 0
    <2>1. \A s : {e \in events : e.stream = s} = {}
      BY DEF EventStoreInit
    <2> QED BY <1>1, <2>1 DEF StreamVersion
  <1>3. LogExact
    BY <1>1, <1>2 DEF EventStoreInit, LogExact
  <1>4. LogTypeOK /\ WritersCoherent
    BY <1>1 DEF EventStoreInit, LogTypeOK, WritersCoherent, Idle
  <1> QED BY <1>3, <1>4 DEF LogIInv

\* A step of others leaves the log as it is.
LEMMA LogUnchanged ==
  ASSUME LogIInv, UNCHANGED logVars
  PROVE  LogIInv'
  <1>1. UNCHANGED <<store, events, position, writer>>
    BY DEF logVars
  <1>2. \A s : StreamVersion(s)' = StreamVersion(s)
    BY <1>1 DEF StreamVersion
  <1>3. LogTypeOK'
    BY <1>1 DEF LogIInv, LogTypeOK
  <1>4. LogExact'
    BY <1>1, <1>2 DEF LogIInv, LogExact
  <1>5. WritersCoherent'
    BY <1>1, <1>2 DEF LogIInv, WritersCoherent, StagedNext, LogFree, Unseen
  <1> QED BY <1>3, <1>4, <1>5 DEF LogIInv

\* A step of a writer keeps the log.
LEMMA LogStep ==
  ASSUME LogIInv, EventStoreNext
  PROVE  LogIInv'
  <1>1. ASSUME NEW w \in Writers, StartAgain(w) \/ SaveSnapshotInMemory(w) \/ RollbackWriter(w) PROVE LogIInv'
    <2>1. writer' = [writer EXCEPT ![w] = Idle] /\ UNCHANGED <<store, events, position>>
      BY <1>1 DEF StartAgain, SaveSnapshotInMemory, RollbackWriter
    <2> QED BY <2>1, IdleFits, WriterMoves
  <1> QED BY <1>1, ReadersKeep, OpeningKeeps, AppendInMemoryKeeps, CommitWriterKeeps DEF EventStoreNext

\* The log has no gap and shows no event out of order, whoever is late to commit: a position is
\* given out under the log's row only, by InMemoryEventStore and by SQLAlchemyEventStore, for any
\* writers, streams, batches and capacity.
THEOREM LogExactTheorem == EventStoreSpec => []LogExact
  <1>1. EventStoreInit => LogIInv
    BY LogInitial
  <1>2. LogIInv /\ [EventStoreNext]_logVars => LogIInv'
    BY LogStep, LogUnchanged
  <1>3. LogIInv => LogExact
    BY DEF LogIInv
  <1> QED BY <1>1, <1>2, <1>3, PTL DEF EventStoreSpec

----------------------------------------------------------------------------
\* Pages.

\* The members of S have the numbers a + 1, ..., b.
Numbers(f, S, a, b) ==
  /\ a \in Nat /\ b \in Nat /\ a <= b /\ f \in [S -> (a + 1)..b]
  /\ \A x, y \in S : f[x] = f[y] => x = y
  /\ \A k \in (a + 1)..b : \E x \in S : f[x] = k

\* So many numbers, so many members.
LEMMA Counted ==
  ASSUME NEW f, NEW S, NEW a, NEW b, Numbers(f, S, a, b)
  PROVE  IsFiniteSet(S) /\ Cardinality(S) = b - a
  <1>0. a \in Nat /\ b \in Nat /\ a <= b
    BY DEF Numbers
  <1>1. f \in Injection(S, (a + 1)..b) /\ f \in Surjection(S, (a + 1)..b)
    BY DEF Injection, Surjection, IsInjective, Numbers
  <1>2. IsFiniteSet((a + 1)..b) /\ Cardinality((a + 1)..b) = b - a
    <2>1. a + 1 \in Int /\ b \in Int
      BY <1>0
    <2>2. IsFiniteSet((a + 1)..b) /\ Cardinality((a + 1)..b) = IF a + 1 > b THEN 0 ELSE b - (a + 1) + 1
      BY <2>1, FS_Interval
    <2> QED BY <1>0, <2>2
  <1> QED BY <1>1, <1>2, FS_Injection

\* The length of a page of n rows.
PageLength(n) == IF n < PageSize THEN n ELSE PageSize

\* The rows are numbered one after the other.
Gapless(place, after, n) ==
  /\ place \in [DOMAIN place -> (after + 1)..(after + n)]
  /\ \A x, y \in DOMAIN place : place[x] = place[y] => x = y
  /\ \A k \in (after + 1)..(after + n) : \E x \in DOMAIN place : place[x] = k

\* Then the page has the ones that follow, each once and in order.
LEMMA PageFacts ==
  ASSUME NEW place, NEW after \in Nat, NEW n \in Nat, Gapless(place, after, n)
  PROVE  /\ DOMAIN FirstPage(place) = 1..PageLength(n) /\ PageLength(n) \in 0..n
         /\ n # 0 => PageLength(n) # 0
         /\ FirstPage(place) = [i \in 1..PageLength(n) |-> FirstPage(place)[i]]
         /\ \A i \in 1..PageLength(n) :
               FirstPage(place)[i] \in DOMAIN place /\ place[FirstPage(place)[i]] = after + i
  <1> DEFINE earlier(e) == {x \in DOMAIN place : place[x] < place[e]}
             first == {e \in DOMAIN place : Cardinality(earlier(e)) < PageSize}
             m == PageLength(n)
  <1>0. /\ \A x \in DOMAIN place : place[x] \in (after + 1)..(after + n)
        /\ \A x, y \in DOMAIN place : place[x] = place[y] => x = y
        /\ \A k \in (after + 1)..(after + n) : \E x \in DOMAIN place : place[x] = k
    BY DEF Gapless
  <1>1. PageSize \in Nat \ {0} /\ m \in Nat /\ m <= n /\ m <= PageSize /\ (n # 0 => m # 0)
    BY EventStoreAssumption DEF PageLength
  <1>2. ASSUME NEW e \in DOMAIN place PROVE Cardinality(earlier(e)) = place[e] - (after + 1)
    <2> DEFINE S == earlier(e)
               b == place[e] - 1
               f == [x \in S |-> place[x]]
    <2>1. place[e] \in Nat /\ after + 1 <= place[e] /\ place[e] <= after + n
      BY <1>0
    <2>2. b \in Nat /\ after <= b
      BY <2>1
    <2>3. f \in [S -> (after + 1)..b]
      <3>1. \A x \in S : place[x] \in (after + 1)..b
        BY <1>0, <2>1
      <3> QED BY <3>1
    <2>4. \A x, y \in S : f[x] = f[y] => x = y
      BY <1>0
    <2>5. \A k \in (after + 1)..b : \E x \in S : f[x] = k
      <3> TAKE k \in (after + 1)..b
      <3>1. k \in (after + 1)..(after + n) /\ k < place[e]
        BY <2>1
      <3>2. PICK x \in DOMAIN place : place[x] = k
        BY <1>0, <3>1
      <3>3. x \in S
        BY <3>1, <3>2
      <3> QED BY <3>2, <3>3
    <2> HIDE DEF f, S, b
    <2>6. Numbers(f, S, after, b)
      BY <2>2, <2>3, <2>4, <2>5 DEF Numbers
    <2>7. Cardinality(S) = b - after
      BY <2>6, Counted
    <2> QED BY <2>1, <2>7 DEF S, b
  <1> DEFINE g == [x \in first |-> place[x]]
  <1>3. \A e : e \in first <=> e \in DOMAIN place /\ place[e] \in (after + 1)..(after + m)
    <2>1. \A e \in DOMAIN place : place[e] \in Nat /\ after + 1 <= place[e] /\ place[e] <= after + n
      BY <1>0
    <2>2. ASSUME NEW e \in DOMAIN place
          PROVE  place[e] - (after + 1) < PageSize <=> place[e] \in (after + 1)..(after + m)
      BY <1>1, <2>1 DEF PageLength
    <2> QED BY <1>2, <2>2
  <1>4. Cardinality(first) = m
    <2> HIDE DEF first, m
    <2>1. g \in [first -> (after + 1)..(after + m)] /\ after + m \in Nat /\ after <= after + m
      BY <1>1, <1>3
    <2>2. \A x, y \in first : g[x] = g[y] => x = y
      BY <1>0, <1>3
    <2>3. \A k \in (after + 1)..(after + m) : \E x \in first : g[x] = k
      <3> TAKE k \in (after + 1)..(after + m)
      <3>1. k \in (after + 1)..(after + n)
        BY <1>1
      <3>2. PICK x \in DOMAIN place : place[x] = k
        BY <1>0, <3>1
      <3> QED BY <1>3, <3>2
    <2> HIDE DEF g
    <2>4. Numbers(g, first, after, after + m)
      BY <2>1, <2>2, <2>3 DEF Numbers
    <2>5. Cardinality(first) = (after + m) - after
      BY <2>4, Counted
    <2> QED BY <1>1, <2>5
  <1> DEFINE pick(i) == CHOOSE e \in first : Cardinality(earlier(e)) = i - 1
  <1>5. FirstPage(place) = [i \in 1..m |-> pick(i)]
    BY <1>4 DEF FirstPage
  <1>6. ASSUME NEW i \in 1..m PROVE pick(i) \in DOMAIN place /\ place[pick(i)] = after + i
    <2>1. after + i \in (after + 1)..(after + m) /\ after + i \in (after + 1)..(after + n)
      BY <1>1
    <2>2. PICK x \in DOMAIN place : place[x] = after + i
      BY <1>0, <2>1
    <2>3. x \in first /\ Cardinality(earlier(x)) = i - 1
      BY <1>2, <1>3, <2>1, <2>2
    <2> DEFINE e == pick(i)
    <2>4. e \in first /\ Cardinality(earlier(e)) = i - 1
      BY <2>3
    <2> HIDE DEF e
    <2>5. e \in DOMAIN place /\ place[e] \in Nat
      BY <1>0, <2>4
    <2>6. place[e] - (after + 1) = i - 1
      BY <1>2, <2>4, <2>5
    <2>7. place[e] = after + i
      BY <2>5, <2>6
    <2> QED BY <2>5, <2>7 DEF e
  <1> HIDE DEF pick, m
  <1>7. DOMAIN FirstPage(place) = 1..m /\ \A i \in 1..m : FirstPage(place)[i] = pick(i)
    BY <1>5
  <1>8. FirstPage(place) = [i \in 1..m |-> FirstPage(place)[i]]
    BY <1>5
  <1>9. m \in 0..n
    BY <1>1
  <1> QED BY <1>1, <1>6, <1>7, <1>8, <1>9 DEF m

----------------------------------------------------------------------------
\* What the log has at a position, and a stream at a version.

EventAt(es, n) == CHOOSE e \in es : e.global_position = n

StreamEvent(es, s, n) == CHOOSE e \in es : e.stream = s /\ e.stream_version = n

\* Positions 1, ..., n are each of one event, and so are versions 1, ..., n of a stream.
Placed(es, n) ==
  /\ n \in Nat
  /\ \A e, f \in es : e.global_position = f.global_position => e = f
  /\ \A e \in es : e.global_position \in 1..n
  /\ \A k \in 1..n : \E e \in es : e.global_position = k

Versioned(es, s, n) ==
  /\ n \in Nat
  /\ \A e, f \in es : e.stream = s /\ f.stream = s /\ e.stream_version = f.stream_version => e = f
  /\ \A e \in es : e.stream = s => e.stream_version \in 1..n
  /\ \A k \in 1..n : \E e \in es : e.stream = s /\ e.stream_version = k

\* The event at a position is in the log, and no other is there.
LEMMA AtFacts ==
  ASSUME NEW es, NEW n, Placed(es, n), NEW k \in 1..n
  PROVE  EventAt(es, k) \in es /\ EventAt(es, k).global_position = k /\ \A e \in es : e.global_position = k => e = EventAt(es, k)
  <1>1. \E e \in es : e.global_position = k
    BY DEF Placed
  <1>2. EventAt(es, k) \in es /\ EventAt(es, k).global_position = k
    BY <1>1 DEF EventAt
  <1> QED BY <1>2 DEF Placed

\* The same of a version of a stream.
LEMMA OfFacts ==
  ASSUME NEW es, NEW s, NEW n, Versioned(es, s, n), NEW k \in 1..n
  PROVE  /\ StreamEvent(es, s, k) \in es /\ StreamEvent(es, s, k).stream = s /\ StreamEvent(es, s, k).stream_version = k
         /\ \A e \in es : e.stream = s /\ e.stream_version = k => e = StreamEvent(es, s, k)
  <1>1. \E e \in es : e.stream = s /\ e.stream_version = k
    BY DEF Versioned
  <1>2. StreamEvent(es, s, k) \in es /\ StreamEvent(es, s, k).stream = s /\ StreamEvent(es, s, k).stream_version = k
    BY <1>1 DEF StreamEvent
  <1> QED BY <1>2 DEF Versioned

\* The exact log is so: as many events as positions cannot share one.
LEMMA LogPlaced ==
  ASSUME LogIInv
  PROVE  Placed(events, position) /\ \A s \in Streams : Versioned(events, s, StreamVersion(s))
  <1>1. /\ \A e \in events : /\ e \in StoredEvents /\ e.global_position \in 1..position /\ e.stream \in Streams
                             /\ e.stream_version \in 1..StreamVersion(e.stream)
        /\ \A k \in 1..position : \E e \in events : e.global_position = k
        /\ \A s : /\ StreamVersion(s) = Cardinality(OfStream(events, s))
                  /\ IsFiniteSet(OfStream(events, s)) /\ StreamVersion(s) \in Nat
        /\ \A s \in Streams : \A v : v \in 1..StreamVersion(s) <=> \E e \in OfStream(events, s) : e.stream_version = v
    BY LogFacts DEF LogIInv
  <1>2. IsFiniteSet(events) /\ position \in Nat /\ Cardinality(events) = position
    BY DEF LogIInv, LogTypeOK, LogExact
  <1>3. \A n \in Nat : Cardinality(1..n) = n
    <2> TAKE n \in Nat
    <2>1. Cardinality(1..n) = IF 1 > n THEN 0 ELSE n - 1 + 1
      BY FS_Interval
    <2> QED BY <2>1
  <1>4. \A e, f \in events : e.global_position = f.global_position => e = f
    <2> DEFINE g == [e \in events |-> e.global_position]
    <2>1. g \in Surjection(events, 1..position)
      BY <1>1 DEF Surjection
    <2>2. Cardinality(events) = Cardinality(1..position)
      BY <1>2, <1>3
    <2>3. g \in Injection(events, 1..position)
      BY <1>2, <2>1, <2>2, FS_SurjSameCardinalityImpliesInj
    <2> QED BY <2>3 DEF Injection, IsInjective
  <1>5. ASSUME NEW s \in Streams PROVE Versioned(events, s, StreamVersion(s))
    <2> DEFINE T == OfStream(events, s)
               g == [e \in T |-> e.stream_version]
               n == StreamVersion(s)
    <2>1. \A e \in T : e \in events /\ e.stream = s
      BY DEF OfStream
    <2>2. g \in Surjection(T, 1..n)
      <3>1. \A e \in T : e.stream_version \in 1..n
        BY <1>1, <2>1
      <3>2. \A k \in 1..n : \E e \in T : e.stream_version = k
        BY <1>1
      <3> HIDE DEF T, n
      <3> QED BY <3>1, <3>2 DEF Surjection
    <2>3. IsFiniteSet(T) /\ Cardinality(T) = n /\ n \in Nat
      BY <1>1
    <2>4. g \in Injection(T, 1..n)
      <3>1. Cardinality(T) = Cardinality(1..n)
        BY <1>3, <2>3
      <3> HIDE DEF g, T, n
      <3> QED BY <2>2, <2>3, <3>1, FS_SurjSameCardinalityImpliesInj
    <2>5. \A e, f \in T : e.stream_version = f.stream_version => e = f
      BY <2>4 DEF Injection, IsInjective
    <2> QED BY <1>1, <2>1, <2>3, <2>5 DEF Versioned, OfStream
  <1> QED BY <1>1, <1>2, <1>4, <1>5 DEF Placed

\* The pages that readers get.
LEMMA ReadAllFacts ==
  ASSUME LogIInv, NEW after \in 0..position
  PROVE  ReadAllPage(after) = [i \in 1..PageLength(position - after) |-> EventAt(events, after + i)]
  <1> DEFINE added == {e \in events : e.global_position > after}
             place == [e \in added |-> e.global_position]
             n == position - after
             m == PageLength(n)
  <1>1. Placed(events, position) /\ position \in Nat
    BY LogPlaced DEF Placed
  <1>2. after \in Nat /\ n \in Nat /\ after + n = position
    BY <1>1
  <1>3. Gapless(place, after, n)
    <2>1. \A e \in added : e.global_position \in (after + 1)..position
      BY <1>1, <1>2 DEF Placed
    <2>2. \A k \in (after + 1)..position : \E e \in added : e.global_position = k
      <3> TAKE k \in (after + 1)..position
      <3>1. k \in 1..position /\ k > after
        BY <1>2
      <3> QED BY <1>1, <3>1 DEF Placed
    <2>3. DOMAIN place = added
      OBVIOUS
    <2>4. \A x, y \in added : x.global_position = y.global_position => x = y
      BY <1>1 DEF Placed
    <2> HIDE DEF added, n
    <2> QED BY <1>2, <2>1, <2>2, <2>3, <2>4 DEF Gapless
  <1>4. ReadAllPage(after) = FirstPage(place) /\ DOMAIN place = added
    BY DEF ReadAllPage
  <1> HIDE DEF place, n
  <1>5. /\ m \in 0..n /\ FirstPage(place) = [i \in 1..m |-> FirstPage(place)[i]]
        /\ \A i \in 1..m : FirstPage(place)[i] \in DOMAIN place /\ place[FirstPage(place)[i]] = after + i
    BY <1>2, <1>3, PageFacts
  <1>6. ASSUME NEW i \in 1..m PROVE FirstPage(place)[i] = EventAt(events, after + i)
    <2> DEFINE e == FirstPage(place)[i]
    <2>1. e \in added /\ place[e] = after + i
      BY <1>4, <1>5
    <2>2. e \in events /\ e.global_position = after + i
      BY <2>1 DEF place
    <2>3. after + i \in 1..position
      BY <1>2, <1>5
    <2> HIDE DEF e
    <2>4. e = EventAt(events, after + i)
      BY <1>1, <2>2, <2>3, AtFacts
    <2> QED BY <2>4 DEF e
  <1>7. FirstPage(place) = [i \in 1..m |-> EventAt(events, after + i)]
    <2> HIDE DEF m
    <2> QED BY <1>5, <1>6
  <1> QED BY <1>4, <1>7 DEF m, n

\* A page of a stream holds the versions that follow `after`, without a gap.
LEMMA ReadStreamFacts ==
  ASSUME LogIInv, NEW s \in Streams, NEW after \in 0..StreamVersion(s)
  PROVE  ReadStreamPage(s, after) = [i \in 1..PageLength(StreamVersion(s) - after) |-> StreamEvent(events, s, after + i)]
  <1> DEFINE added == {e \in events : e.stream = s /\ e.stream_version > after}
             place == [e \in added |-> e.stream_version]
             size == StreamVersion(s)
             n == size - after
             m == PageLength(n)
  <1>1. Versioned(events, s, size) /\ size \in Nat
    BY LogPlaced DEF Versioned
  <1>2. after \in Nat /\ n \in Nat /\ after + n = size
    BY <1>1
  <1>4. ReadStreamPage(s, after) = FirstPage(place) /\ DOMAIN place = added
    BY DEF ReadStreamPage
  <1> HIDE DEF size
  <1>3. Gapless(place, after, n)
    <2>1. \A e \in added : e.stream_version \in (after + 1)..size
      BY <1>1, <1>2 DEF Versioned
    <2>2. \A k \in (after + 1)..size : \E e \in added : e.stream_version = k
      <3> TAKE k \in (after + 1)..size
      <3>1. k \in 1..size /\ k > after
        BY <1>2
      <3> QED BY <1>1, <3>1 DEF Versioned
    <2>3. DOMAIN place = added
      OBVIOUS
    <2>4. \A x, y \in added : x.stream_version = y.stream_version => x = y
      BY <1>1 DEF Versioned
    <2> HIDE DEF added, n
    <2> QED BY <1>2, <2>1, <2>2, <2>3, <2>4 DEF Gapless
  <1> HIDE DEF place, n
  <1>5. /\ m \in 0..n /\ FirstPage(place) = [i \in 1..m |-> FirstPage(place)[i]]
        /\ \A i \in 1..m : FirstPage(place)[i] \in DOMAIN place /\ place[FirstPage(place)[i]] = after + i
    BY <1>2, <1>3, PageFacts
  <1>6. ASSUME NEW i \in 1..m PROVE FirstPage(place)[i] = StreamEvent(events, s, after + i)
    <2> DEFINE e == FirstPage(place)[i]
    <2>1. e \in added /\ place[e] = after + i
      BY <1>4, <1>5
    <2>2. e \in events /\ e.stream = s /\ e.stream_version = after + i
      BY <2>1 DEF place
    <2>3. after + i \in 1..size
      BY <1>2, <1>5
    <2> HIDE DEF e
    <2>4. e = StreamEvent(events, s, after + i)
      BY <1>1, <2>2, <2>3, OfFacts
    <2> QED BY <2>4 DEF e
  <1>7. FirstPage(place) = [i \in 1..m |-> StreamEvent(events, s, after + i)]
    <2> HIDE DEF m
    <2> QED BY <1>5, <1>6
  <1> QED BY <1>4, <1>7 DEF m, n, size

----------------------------------------------------------------------------
\* Rehydration.

\* LogPlaced for the next state.
LEMMA LogPlacedNext ==
  LogIInv' => Placed(events', position') /\ \A s \in Streams : Versioned(events', s, StreamVersion(s)')
  <1>1. LogIInv => (Placed(events, position) /\ \A s \in Streams : Versioned(events, s, StreamVersion(s)))
    BY LogPlaced
  <1>2. LogIInv' => (Placed(events, position) /\ \A s \in Streams : Versioned(events, s, StreamVersion(s)))'
    BY <1>1, PTL
  <1> QED BY <1>2

\* A writer never takes an event out of the log.
LEMMA EventsGrow ==
  ASSUME EventStoreNext
  PROVE  events \subseteq events'
  BY DEF EventStoreNext, LoadSnapshot, ReadStream, AppendInMemory, AppendInTransaction, StartAgain,
         SaveSnapshotInMemory, SaveSnapshotInTransaction, CommitWriter, RollbackWriter

\* The first a members of a sequence and the k after them.
LEMMA Joined ==
  ASSUME NEW T, NEW a \in Nat, NEW k \in Nat, NEW f \in [1..(a + k) -> T]
  PROVE  [i \in 1..a |-> f[i]] \o [i \in 1..k |-> f[a + i]] = f
  <1> DEFINE x == [i \in 1..a |-> f[i]]
             y == [i \in 1..k |-> f[a + i]]
  <1>1. \A i \in 1..a : i \in 1..(a + k)
    OBVIOUS
  <1>2. \A i \in 1..k : a + i \in 1..(a + k)
    OBVIOUS
  <1>3. x \in [1..a -> T] /\ y \in [1..k -> T]
    BY <1>1, <1>2
  <1>4. x \in Seq(T) /\ Len(x) = a /\ y \in Seq(T) /\ Len(y) = k
    BY <1>3
  <1>5. f \in Seq(T) /\ Len(f) = a + k
    OBVIOUS
  <1>6. \A i \in 1..a : x[i] = f[i]
    OBVIOUS
  <1>7. \A i \in 1..k : y[i] = f[a + i]
    OBVIOUS
  <1> HIDE DEF x, y
  <1>8. x \o y \in Seq(T) /\ Len(x \o y) = a + k
    BY <1>4
  <1>9. \A i \in 1..(a + k) : (x \o y)[i] = f[i]
    <2> TAKE i \in 1..(a + k)
    <2>1. CASE i <= a
      BY <2>1, <1>4, <1>6
    <2>2. CASE i > a
      <3> DEFINE j == i - a
      <3>1. j \in 1..k /\ a + j = i
        BY <2>2
      <3>2. (x \o y)[i] = y[j]
        BY <2>2, <1>4
      <3> HIDE DEF j
      <3>3. y[j] = f[a + j]
        BY <1>7, <3>1
      <3> QED BY <3>1, <3>2, <3>3
    <2>3. i <= a \/ i > a
      BY ONLY a \in Nat, k \in Nat, i \in 1..(a + k)
    <2> QED BY <2>1, <2>2, <2>3
  <1>10. x \o y = f
    BY <1>5, <1>8, <1>9, SeqEqual
  <1> QED BY <1>10 DEF x, y

IdsOf(es, s, n) == [i \in 1..n |-> StreamEvent(es, s, i).event_id]

\* What is known of a stream is its first v events, of n.
Known(es, n, s, v, ids) == v \in 0..n /\ ids = IdsOf(es, s, v)

\* It stays so when the stream grows.
LEMMA KnownKept ==
  ASSUME NEW es, NEW fs, NEW s, NEW n, NEW m, NEW v, NEW ids, es \subseteq fs,
         Versioned(es, s, n), Versioned(fs, s, m), Known(es, n, s, v, ids)
  PROVE  Known(fs, m, s, v, ids)
  <1>0. n \in Nat /\ m \in Nat /\ v \in Nat /\ v <= n
    BY DEF Versioned, Known
  <1>1. ASSUME NEW i \in 1..n PROVE StreamEvent(fs, s, i) = StreamEvent(es, s, i) /\ i \in 1..m
    <2>1. StreamEvent(es, s, i) \in es /\ StreamEvent(es, s, i).stream = s /\ StreamEvent(es, s, i).stream_version = i
      BY OfFacts
    <2>2. StreamEvent(es, s, i) \in fs
      BY <2>1
    <2>3. i \in 1..m
      BY <2>1, <2>2 DEF Versioned
    <2> QED BY <2>1, <2>2, <2>3, OfFacts
  <1>2. n <= m
    <2>1. CASE n = 0
      BY <1>0, <2>1
    <2>2. CASE n # 0
      <3>1. n \in 1..n
        BY <1>0, <2>2
      <3> QED BY <1>0, <1>1, <3>1
    <2> QED BY <2>1, <2>2
  <1>3. IdsOf(fs, s, v) = IdsOf(es, s, v)
    <2>1. \A i \in 1..v : i \in 1..n
      BY <1>0
    <2> QED BY <1>1, <2>1 DEF IdsOf
  <1> QED BY <1>0, <1>2, <1>3 DEF Known

\* A page adds the events that come next.
LEMMA KnownMore ==
  ASSUME NEW es, NEW s, NEW n, Versioned(es, s, n), NEW v, NEW ids, Known(es, n, s, v, ids),
         NEW k \in Nat, v + k <= n
  PROVE  Known(es, n, s, v + k, ids \o [i \in 1..k |-> StreamEvent(es, s, v + i).event_id])
  <1>0. n \in Nat /\ v \in Nat /\ v <= n /\ v + k \in 0..n
    BY DEF Versioned, Known
  <1> DEFINE f == IdsOf(es, s, v + k)
             T == {f[i] : i \in 1..(v + k)}
  <1>1. f \in [1..(v + k) -> T] /\ \A i \in 1..(v + k) : f[i] = StreamEvent(es, s, i).event_id
    BY DEF IdsOf
  <1>2. [i \in 1..v |-> f[i]] = IdsOf(es, s, v)
    <2>1. \A i \in 1..v : i \in 1..(v + k)
      BY <1>0
    <2> HIDE DEF f
    <2> QED BY <1>1, <2>1 DEF IdsOf
  <1>3. [i \in 1..k |-> f[v + i]] = [i \in 1..k |-> StreamEvent(es, s, v + i).event_id]
    <2>1. \A i \in 1..k : v + i \in 1..(v + k)
      BY <1>0
    <2> HIDE DEF f
    <2> QED BY <1>1, <2>1
  <1> HIDE DEF f, T
  <1>4. [i \in 1..v |-> f[i]] \o [i \in 1..k |-> f[v + i]] = f
    BY <1>0, <1>1, Joined
  <1> QED BY <1>0, <1>2, <1>3, <1>4 DEF Known, f

\* The strengthened property, as what writers and snapshots know.
AllKnown(es, sizes, sn, wr) ==
  /\ DOMAIN sn = Streams /\ \A s \in Streams : Known(es, sizes[s], s, sn[s].version, sn[s].state)
  /\ \A w \in Writers : wr[w].stage # "idle" =>
        Known(es, sizes[wr[w].stream], wr[w].stream, wr[w].version, wr[w].state)

Sizes == [s \in Streams |-> StreamVersion(s)]

\* A writer that has loaded or opened a stream has one.
LEMMA WriterStreams ==
  ASSUME LogIInv, NEW w \in Writers, writer[w].stage # "idle"
  PROVE  /\ writer[w].stream \in Streams /\ writer[w].stage \in {"loaded", "open"}
         /\ DOMAIN writer[w] = {"stage", "stream", "basis", "version", "state", "staged"}
  BY DEF LogIInv, LogTypeOK, Idle

\* RehydrationIInv in terms of what is passed as a parameter.
LEMMA RehydrationKnown == RehydrationIInv <=> LogIInv /\ AllKnown(events, Sizes, snapshots, writer)
  <1> SUFFICES ASSUME LogIInv PROVE RehydrationIInv <=> AllKnown(events, Sizes, snapshots, writer)
    BY DEF RehydrationIInv
  <1>1. \A s, n : StreamIds(s, n) = IdsOf(events, s, n)
    BY DEF StreamIds, IdsOf, StreamEvent
  <1>2. \A s \in Streams : StreamVersion(s) \in Nat /\ Sizes[s] = StreamVersion(s)
    BY LogPlaced DEF Versioned, Sizes
  <1>3. \A w \in Writers : writer[w].stage # "idle" => writer[w].stream \in Streams
    BY WriterStreams
  <1> QED BY <1>1, <1>2, <1>3 DEF RehydrationIInv, SnapshotsTypeOK, RehydrationExact, AllKnown, Known

\* A writer moves, and what it knows - or saves - it knows of the log so far.
LEMMA KnowingMoves ==
  ASSUME RehydrationIInv, LogIInv', events \subseteq events', NEW w \in Writers, NEW b,
         writer' = [writer EXCEPT ![w] = b],
         b.stage = "idle" \/ (b.stream \in Streams /\ Known(events, StreamVersion(b.stream), b.stream, b.version, b.state)),
         \/ snapshots' = snapshots
         \/ writer[w].stage # "idle" /\ snapshots' = [snapshots EXCEPT ![writer[w].stream] = SnapshotTaken(w)]
  PROVE  RehydrationIInv'
  <1>1. LogIInv /\ AllKnown(events, Sizes, snapshots, writer)
    BY RehydrationKnown
  <1>2. \A s \in Streams : Versioned(events, s, StreamVersion(s)) /\ Versioned(events', s, StreamVersion(s)')
    BY <1>1, LogPlaced, LogPlacedNext
  <1>3. \A s \in Streams : Sizes[s] = StreamVersion(s) /\ Sizes'[s] = StreamVersion(s)'
    BY DEF Sizes
  <1>4. \A s \in Streams : \A v, ids : Known(events, StreamVersion(s), s, v, ids) => Known(events', Sizes'[s], s, v, ids)
    BY <1>2, <1>3, KnownKept
  <1>5. DOMAIN writer = Writers
    BY <1>1 DEF LogIInv, LogTypeOK
  <1>6. ASSUME NEW o \in Writers, writer'[o].stage # "idle"
        PROVE  Known(events', Sizes'[writer'[o].stream], writer'[o].stream, writer'[o].version, writer'[o].state)
    <2>1. CASE o = w
      <3>1. writer'[o] = b
        BY <2>1, <1>5
      <3> QED BY <1>4, <1>6, <3>1
    <2>2. CASE o # w
      <3>1. writer'[o] = writer[o]
        BY <2>2, <1>5
      <3>2. writer[o].stream \in Streams
        BY <1>1, <1>6, <3>1, WriterStreams
      <3>3. Known(events, StreamVersion(writer[o].stream), writer[o].stream, writer[o].version, writer[o].state)
        BY <1>1, <1>3, <1>6, <3>1, <3>2 DEF AllKnown
      <3> QED BY <1>4, <3>1, <3>2, <3>3
    <2> QED BY <2>1, <2>2
  <1>7. DOMAIN snapshots = Streams /\ \A s \in Streams : Known(events, StreamVersion(s), s, snapshots[s].version, snapshots[s].state)
    BY <1>1, <1>3 DEF AllKnown
  <1>8. DOMAIN snapshots' = Streams
        /\ \A s \in Streams : Known(events, StreamVersion(s), s, snapshots'[s].version, snapshots'[s].state)
    <2>1. CASE snapshots' = snapshots
      BY <1>7, <2>1
    <2>2. CASE writer[w].stage # "idle" /\ snapshots' = [snapshots EXCEPT ![writer[w].stream] = SnapshotTaken(w)]
      <3> DEFINE taken == SnapshotTaken(w)
                 t == writer[w].stream
      <3>1. t \in Streams
        BY <1>1, <2>2, WriterStreams
      <3>2. Known(events, StreamVersion(t), t, writer[w].version, writer[w].state)
        BY <1>1, <1>3, <2>2, <3>1 DEF AllKnown
      <3>3. taken.version = writer[w].version /\ taken.state = writer[w].state
        BY DEF SnapshotTaken
      <3> HIDE DEF taken, t
      <3>4. snapshots' = [snapshots EXCEPT ![t] = taken]
        BY <2>2 DEF taken, t
      <3>5. DOMAIN snapshots' = Streams /\ snapshots'[t] = taken /\ \A s \in Streams \ {t} : snapshots'[s] = snapshots[s]
        BY <1>7, <3>1, <3>4
      <3> QED BY <1>7, <3>2, <3>3, <3>5
    <2> QED BY <2>1, <2>2
  <1>9. AllKnown(events', Sizes', snapshots', writer')
    BY <1>4, <1>6, <1>8 DEF AllKnown
  <1>10. (RehydrationIInv <=> LogIInv /\ AllKnown(events, Sizes, snapshots, writer))'
    BY RehydrationKnown, PTL
  <1> QED BY <1>9, <1>10

\* A page of read_stream() adds to the state what it adds to the version.
LEMMA ReadStreamKnows ==
  ASSUME RehydrationIInv, LogIInv', NEW w \in Writers, ReadStream(w)
  PROVE  RehydrationIInv'
  <1> DEFINE a == writer[w]
             s == a.stream
             size == StreamVersion(s)
             page == ReadStreamPage(s, a.version)
             m == PageLength(size - a.version)
             one == [a EXCEPT !.version = page[Len(page)].stream_version]
             b == [one EXCEPT !.state = a.state \o EventIdsOf(page)]
  <1>1. LogIInv /\ AllKnown(events, Sizes, snapshots, writer) /\ DOMAIN writer = Writers
    BY RehydrationKnown DEF LogIInv, LogTypeOK
  <1>2. a.stage = "loaded" /\ page # << >> /\ UNCHANGED <<store, events, position, snapshots>>
    BY DEF ReadStream
  <1>3. /\ s \in Streams /\ DOMAIN a = {"stage", "stream", "basis", "version", "state", "staged"}
        /\ Known(events, size, s, a.version, a.state) /\ Versioned(events, s, size)
    <2>1. s \in Streams /\ DOMAIN a = {"stage", "stream", "basis", "version", "state", "staged"}
      BY <1>1, <1>2, WriterStreams
    <2>2. Sizes[s] = size
      BY <2>1 DEF Sizes
    <2> QED BY <1>1, <1>2, <2>1, <2>2, LogPlaced DEF AllKnown
  <1>4. writer' = [writer EXCEPT ![w] = b]
    BY <1>1, <1>3 DEF ReadStream
  <1>5. size \in Nat /\ a.version \in 0..size
    BY <1>3 DEF Known, Versioned
  <1>6. page = [i \in 1..m |-> StreamEvent(events, s, a.version + i)]
    BY <1>1, <1>3, <1>5, ReadStreamFacts
  <1>7. m \in Nat /\ a.version + m <= size
    BY <1>5, EventStoreAssumption DEF PageLength
  <1>8. Len(page) = m /\ m # 0 /\ EventIdsOf(page) = [i \in 1..m |-> StreamEvent(events, s, a.version + i).event_id]
    <2> HIDE DEF page, m
    <2>1. Len(page) = m
      BY <1>6, <1>7
    <2>2. m # 0
      BY <1>2, <1>6
    <2> QED BY <1>6, <2>1, <2>2 DEF EventIdsOf
  <1>9. page[m].stream_version = a.version + m
    <2>1. m \in 1..m /\ a.version + m \in 1..size
      BY <1>5, <1>7, <1>8
    <2>2. StreamEvent(events, s, a.version + m).stream_version = a.version + m
      BY <1>3, <2>1, OfFacts
    <2> HIDE DEF page, m
    <2> QED BY <1>6, <2>1, <2>2
  <1> HIDE DEF page, m
  <1>10. /\ b.stage = "loaded" /\ b.stream = s /\ b.version = a.version + m
         /\ b.state = a.state \o [i \in 1..m |-> StreamEvent(events, s, a.version + i).event_id]
    <2> HIDE DEF a, s
    <2>1. one.stage = a.stage /\ one.stream = a.stream /\ one.version = a.version + m /\ "state" \in DOMAIN one
      BY <1>3, <1>8, <1>9
    <2> HIDE DEF one
    <2>2. b.stage = one.stage /\ b.stream = one.stream /\ b.version = one.version /\ b.state = a.state \o EventIdsOf(page)
      BY <2>1
    <2> QED BY <1>2, <1>8, <2>1, <2>2 DEF s
  <1> HIDE DEF a, b, s, size
  <1>11. Known(events, size, s, b.version, b.state)
    BY <1>3, <1>7, <1>10, KnownMore
  <1> QED BY <1>2, <1>3, <1>4, <1>10, <1>11, KnowingMoves DEF size

\* What a writer has loaded stays when only its stage and what it staged change.
LEMMA OpeningKnows ==
  ASSUME RehydrationIInv, LogIInv', NEW w \in Writers, writer[w].stage = "loaded", NEW b,
         writer' = [writer EXCEPT ![w] = b], b.stream = writer[w].stream, b.version = writer[w].version,
         b.state = writer[w].state, UNCHANGED <<events, snapshots>>
  PROVE  RehydrationIInv'
  <1>1. LogIInv /\ AllKnown(events, Sizes, snapshots, writer)
    BY RehydrationKnown
  <1>2. b.stream \in Streams
    BY <1>1, WriterStreams
  <1>3. Known(events, StreamVersion(b.stream), b.stream, b.version, b.state)
    BY <1>1, <1>2 DEF AllKnown, Sizes
  <1> QED BY <1>2, <1>3, KnowingMoves

\* What a writer knows of its stream it still knows after any step of any of them.
LEMMA RehydrationStep ==
  ASSUME RehydrationIInv, EventStoreNext
  PROVE  RehydrationIInv'
  <1>1. LogIInv /\ AllKnown(events, Sizes, snapshots, writer) /\ DOMAIN writer = Writers
    BY RehydrationKnown DEF LogIInv, LogTypeOK
  <1>2. LogIInv' /\ events \subseteq events'
    BY <1>1, LogStep, EventsGrow
  <1>3. Idle.stage = "idle"
    BY DEF Idle
  <1>4. ASSUME NEW w \in Writers, NEW s \in Streams, LoadSnapshot(w, s) PROVE RehydrationIInv'
    <2> DEFINE b == View("loaded", s, snapshots[s].version, snapshots[s].version, snapshots[s].state, << >>)
    <2>1. writer' = [writer EXCEPT ![w] = b] /\ snapshots' = snapshots
      BY <1>4 DEF LoadSnapshot
    <2>2. b.stream = s /\ b.version = snapshots[s].version /\ b.state = snapshots[s].state
      BY DEF View
    <2>3. Known(events, StreamVersion(s), s, snapshots[s].version, snapshots[s].state)
      BY <1>1 DEF AllKnown, Sizes
    <2> HIDE DEF b
    <2> QED BY <1>2, <2>1, <2>2, <2>3, KnowingMoves
  <1>5. ASSUME NEW w \in Writers, ReadStream(w) PROVE RehydrationIInv'
    BY <1>2, <1>5, ReadStreamKnows
  <1>6. ASSUME NEW w \in Writers, NEW ids \in Batches, AppendInMemory(w, ids) PROVE RehydrationIInv'
    <2>1. writer' = [writer EXCEPT ![w] = Idle] /\ snapshots' = snapshots
      BY <1>6 DEF AppendInMemory
    <2> QED BY <1>2, <1>3, <2>1, KnowingMoves
  <1>7. ASSUME NEW w \in Writers, NEW ids \in Batches, AppendInTransaction(w, ids) PROVE RehydrationIInv'
    <2> DEFINE a == writer[w]
               added == Numbered(a.stream, StreamVersion(a.stream), position, ids)
               b == [a EXCEPT !.stage = "open", !.staged = added]
    <2>1. a.stage = "loaded" /\ UNCHANGED <<events, snapshots>>
      BY <1>7 DEF AppendInTransaction
    <2>2. DOMAIN a = {"stage", "stream", "basis", "version", "state", "staged"}
      BY <1>1, <2>1, WriterStreams
    <2>3. writer' = [writer EXCEPT ![w] = b]
      BY <1>1, <1>7, <2>2 DEF AppendInTransaction
    <2>4. b.stream = a.stream /\ b.version = a.version /\ b.state = a.state
      <3> HIDE DEF a, added
      <3> QED BY <2>2
    <2> HIDE DEF b
    <2> QED BY <1>2, <2>1, <2>3, <2>4, OpeningKnows
  <1>8. ASSUME NEW w \in Writers, SaveSnapshotInTransaction(w) PROVE RehydrationIInv'
    <2> DEFINE a == writer[w]
               b == [a EXCEPT !.stage = "open"]
    <2>1. a.stage = "loaded" /\ UNCHANGED <<events, snapshots>>
      BY <1>8 DEF SaveSnapshotInTransaction
    <2>2. DOMAIN a = {"stage", "stream", "basis", "version", "state", "staged"}
      BY <1>1, <2>1, WriterStreams
    <2>3. writer' = [writer EXCEPT ![w] = b]
      BY <1>1, <1>8, <2>2 DEF SaveSnapshotInTransaction
    <2>4. b.stream = a.stream /\ b.version = a.version /\ b.state = a.state
      <3> HIDE DEF a
      <3> QED BY <2>2
    <2> HIDE DEF b
    <2> QED BY <1>2, <2>1, <2>3, <2>4, OpeningKnows
  <1>9. ASSUME NEW w \in Writers, StartAgain(w) \/ SaveSnapshotInMemory(w) \/ RollbackWriter(w) \/ CommitWriter(w)
        PROVE  RehydrationIInv'
    <2>1. writer[w].stage \in {"loaded", "open"} /\ writer' = [writer EXCEPT ![w] = Idle]
      BY <1>9 DEF StartAgain, SaveSnapshotInMemory, RollbackWriter, CommitWriter
    <2>2. \/ snapshots' = snapshots
          \/ snapshots' = [snapshots EXCEPT ![writer[w].stream] = SnapshotTaken(w)]
      BY <1>9 DEF StartAgain, SaveSnapshotInMemory, RollbackWriter, CommitWriter
    <2> QED BY <1>2, <1>3, <2>1, <2>2, KnowingMoves
  <1> QED BY <1>4, <1>5, <1>6, <1>7, <1>8, <1>9 DEF EventStoreNext

\* A snapshot is never ahead of its stream, and what a writer rehydrates from it and the pages after
\* it is the first events of the stream, none missed or seen twice, for any writers, streams,
\* page sizes and batches of InMemoryEventStore and SQLAlchemyEventStore.
THEOREM RehydrationExactTheorem == EventStoreSpec => []RehydrationExact
  <1>1. EventStoreInit => RehydrationIInv
    <2> SUFFICES ASSUME EventStoreInit PROVE RehydrationIInv
      OBVIOUS
    <2>1. LogIInv
      BY LogInitial
    <2>2. \A s \in Streams : StreamVersion(s) \in Nat
      BY <2>1, LogPlaced DEF Versioned
    <2>3. \A w \in Writers : writer[w].stage = "idle"
      BY DEF EventStoreInit, Idle
    <2>4. \A s \in Streams : snapshots[s].version = 0 /\ snapshots[s].state = << >>
      BY DEF EventStoreInit, NoSnapshot
    <2>5. \A s : StreamIds(s, 0) = << >>
      BY DEF StreamIds
    <2>6. SnapshotsTypeOK
      BY <2>3, <2>4 DEF EventStoreInit, SnapshotsTypeOK
    <2> QED BY <2>1, <2>2, <2>3, <2>4, <2>5, <2>6 DEF RehydrationIInv, RehydrationExact
  <1>2. RehydrationIInv /\ [EventStoreNext]_logVars => RehydrationIInv'
    <2> SUFFICES ASSUME RehydrationIInv, [EventStoreNext]_logVars PROVE RehydrationIInv'
      OBVIOUS
    <2>1. CASE UNCHANGED logVars
      <3>1. LogIInv'
        BY <2>1, LogUnchanged DEF RehydrationIInv
      <3>2. UNCHANGED <<store, events, position, snapshots, writer>>
        BY <2>1 DEF logVars
      <3> QED BY <3>1, <3>2 DEF RehydrationIInv, SnapshotsTypeOK, RehydrationExact, StreamIds, StreamVersion
    <2> QED BY <2>1, RehydrationStep
  <1>3. RehydrationIInv => RehydrationExact
    BY DEF RehydrationIInv
  <1> QED BY <1>1, <1>2, <1>3, PTL DEF EventStoreSpec

----------------------------------------------------------------------------
\* Projections: what a page adds to a reduction.

FoldOf(es, v, n) == [i \in 1..n |-> <<v, EventAt(es, i).event_id>>]

\* The state is the reduction by version v of the first k events, of n.
Reduced(es, n, v, k, state) == k \in 0..n /\ state = FoldOf(es, v, k)

\* Fold is FoldOf of the log,
LEMMA FoldIsFoldOf == \A v, n : Fold(v, n) = FoldOf(events, v, n)
  BY DEF Fold, FoldOf, EventAt

\* and of the next log.
LEMMA FoldNext == (\A v, n : Fold(v, n) = FoldOf(events, v, n))'
  BY FoldIsFoldOf, PTL

\* A reduction of the first k events is one in every longer log.
LEMMA ReducedKept ==
  ASSUME NEW es, NEW fs, NEW n, NEW m, NEW v, NEW k, NEW state, es \subseteq fs,
         Placed(es, n), Placed(fs, m), Reduced(es, n, v, k, state)
  PROVE  Reduced(fs, m, v, k, state) /\ n <= m
  <1>0. n \in Nat /\ m \in Nat /\ k \in Nat /\ k <= n
    BY DEF Placed, Reduced
  <1>1. ASSUME NEW i \in 1..n PROVE EventAt(fs, i) = EventAt(es, i) /\ i \in 1..m
    <2>1. EventAt(es, i) \in es /\ EventAt(es, i).global_position = i
      BY AtFacts
    <2>2. EventAt(es, i) \in fs
      BY <2>1
    <2>3. i \in 1..m
      BY <2>1, <2>2 DEF Placed
    <2> QED BY <2>1, <2>2, <2>3, AtFacts
  <1>2. n <= m
    <2>1. CASE n = 0
      BY <1>0, <2>1
    <2>2. CASE n # 0
      <3>1. n \in 1..n
        BY <1>0, <2>2
      <3> QED BY <1>0, <1>1, <3>1
    <2> QED BY <2>1, <2>2
  <1>3. FoldOf(fs, v, k) = FoldOf(es, v, k)
    <2>1. \A i \in 1..k : i \in 1..n
      BY <1>0
    <2> QED BY <1>1, <2>1 DEF FoldOf
  <1> QED BY <1>0, <1>2, <1>3 DEF Reduced

\* Reducing the next k events gives the reduction of all of them.
LEMMA ReducedMore ==
  ASSUME NEW es, NEW n, Placed(es, n), NEW v, NEW a, NEW state, Reduced(es, n, v, a, state),
         NEW k \in Nat, a + k <= n
  PROVE  Reduced(es, n, v, a + k, state \o [i \in 1..k |-> <<v, EventAt(es, a + i).event_id>>])
  <1>0. n \in Nat /\ a \in Nat /\ a <= n /\ a + k \in 0..n
    BY DEF Placed, Reduced
  <1> DEFINE f == FoldOf(es, v, a + k)
             T == {f[i] : i \in 1..(a + k)}
  <1>1. f \in [1..(a + k) -> T] /\ \A i \in 1..(a + k) : f[i] = <<v, EventAt(es, i).event_id>>
    BY DEF FoldOf
  <1>2. [i \in 1..a |-> f[i]] = FoldOf(es, v, a)
    <2>1. \A i \in 1..a : i \in 1..(a + k)
      BY <1>0
    <2> HIDE DEF f
    <2> QED BY <1>1, <2>1 DEF FoldOf
  <1>3. [i \in 1..k |-> f[a + i]] = [i \in 1..k |-> <<v, EventAt(es, a + i).event_id>>]
    <2>1. \A i \in 1..k : a + i \in 1..(a + k)
      BY <1>0
    <2> HIDE DEF f
    <2> QED BY <1>1, <2>1
  <1> HIDE DEF f, T
  <1>4. [i \in 1..a |-> f[i]] \o [i \in 1..k |-> f[a + i]] = f
    BY <1>0, <1>1, Joined
  <1> QED BY <1>0, <1>2, <1>3, <1>4 DEF Reduced, f

\* A reduction is a state.
LEMMA ReducedType ==
  ASSUME LogIInv, NEW v \in Versions, NEW k, NEW state, Reduced(events, position, v, k, state)
  PROVE  state \in States /\ k \in Nat
  <1>1. Placed(events, position) /\ position \in Nat
    BY LogPlaced DEF Placed
  <1>2. k \in Nat /\ k <= position
    BY <1>1 DEF Reduced
  <1>3. \A e \in events : e.event_id \in EventIds
    BY DEF LogIInv, LogTypeOK, StoredEvents
  <1>4. \A i \in 1..k : EventAt(events, i) \in events
    <2> TAKE i \in 1..k
    <2>1. i \in 1..position
      BY <1>1, <1>2
    <2> QED BY <1>1, <2>1, AtFacts
  <1>5. FoldOf(events, v, k) \in [1..k -> Versions \X EventIds]
    BY <1>3, <1>4 DEF FoldOf
  <1> QED BY <1>2, <1>5 DEF Reduced, States

\* A page that a projector reads, whole or up to a watermark, has the events that come next.
LEMMA PageOfFacts ==
  ASSUME LogIInv, NEW run, NEW from \in 0..position
  PROVE  \E k \in Nat : from + k <= position /\ PageOf(run, from) = [i \in 1..k |-> EventAt(events, from + i)]
  <1> DEFINE page == ReadAllPage(from)
             m == PageLength(position - from)
             within == {i \in DOMAIN page :
                            run # NoRun => page[i].global_position <= rebuilds[run].through_position}
             k == Cardinality(within)
  <1>1. position \in Nat /\ from \in Nat /\ m \in Nat /\ from + m <= position
    BY LogPlaced, EventStoreAssumption DEF Placed, PageLength
  <1>2. page = [i \in 1..m |-> EventAt(events, from + i)]
    BY ReadAllFacts
  <1>3. PageOf(run, from) = SubSeq(page, 1, k)
    BY DEF PageOf
  <1> HIDE DEF page, m
  <1>4. within \subseteq 1..m
    BY <1>2
  <1>5. IsFiniteSet(1..m) /\ Cardinality(1..m) = m
    <2>1. IsFiniteSet(1..m) /\ Cardinality(1..m) = IF 1 > m THEN 0 ELSE m - 1 + 1
      BY <1>1, FS_Interval
    <2> QED BY <1>1, <2>1
  <1> HIDE DEF within
  <1>6. k \in Nat /\ k <= m
    BY <1>4, <1>5, FS_Subset, FS_CardinalityType
  <1> HIDE DEF k
  <1>7. SubSeq(page, 1, k) = [i \in 1..k |-> page[i]]
    <2> DEFINE T == {page[i] : i \in 1..m}
    <2>1. page \in [1..m -> T]
      BY <1>2
    <2> HIDE DEF T
    <2>2. page \in Seq(T) /\ Len(page) = m
      BY <1>1, <2>1
    <2>3. SubSeq(page, 1, k) = [i \in 1..(k - 1 + 1) |-> page[i + 1 - 1]]
      BY <1>1, <1>6, <2>2
    <2>4. k - 1 + 1 = k /\ \A i \in 1..k : i + 1 - 1 = i
      BY <1>6
    <2> QED BY <2>3, <2>4
  <1>8. [i \in 1..k |-> page[i]] = [i \in 1..k |-> EventAt(events, from + i)]
    <2>1. \A i \in 1..k : i \in 1..m
      BY <1>1, <1>6
    <2> QED BY <1>2, <2>1
  <1> QED BY <1>1, <1>3, <1>6, <1>7, <1>8

----------------------------------------------------------------------------
\* Projectors and rebuilds.

\* No run is taken away, and what was fixed when it began stays.
RunsKept ==
  \A r \in Runs : rebuilds[r].status # "absent" =>
      /\ rebuilds'[r].status # "absent"
      /\ rebuilds'[r].projection_version = rebuilds[r].projection_version
      /\ rebuilds'[r].through_position = rebuilds[r].through_position

\* The log is the same, or longer.
LogGrows == LogIInv' /\ events \subseteq events' /\ store' = store

\* The parts of the invariant that every step needs.
LEMMA ProjectionFacts ==
  ASSUME ProjectionsIInv
  PROVE  /\ LogIInv /\ Placed(events, position) /\ position \in Nat
         /\ Reduced(events, position, projection.version, projection.checkpoint, projection.state)
         /\ projection.version \in Nat /\ projection.checkpoint \in Nat
         /\ projection.version = 0 => projection = NoProjection
         /\ \A r \in Runs : rebuilds[r] = NoRebuild \/ rebuilds[r] \in RebuildRuns
         /\ \A r \in Runs : rebuilds[r].status # "absent" =>
               /\ rebuilds[r] \in RebuildRuns /\ rebuilds[r].projection_version \in Versions
               /\ Reduced(events, position, rebuilds[r].projection_version, rebuilds[r].next_position, rebuilds[r].state)
         /\ DOMAIN rebuilds = Runs /\ DOMAIN worker = Projectors
         /\ \A p \in Projectors : worker[p] = Idle \/ Working(p)
  <1>1. LogIInv /\ Placed(events, position) /\ position \in Nat
    BY LogPlaced DEF ProjectionsIInv, Placed
  <1>2. /\ projection.version \in Nat /\ projection.checkpoint \in Nat
        /\ (projection.version = 0 => projection = NoProjection)
    <2>1. CASE projection = NoProjection
      BY <2>1 DEF NoProjection
    <2>2. CASE projection \in ProjectionStates
      <3>1. projection.version \in Versions /\ projection.checkpoint \in Nat
        BY <2>2 DEF ProjectionStates
      <3> QED BY <3>1, ProjectionsAssumption
    <2> QED BY <2>1, <2>2 DEF ProjectionsIInv, ProjectionsTypeOK
  <1>3. /\ \A r \in Runs : rebuilds[r] = NoRebuild \/ rebuilds[r] \in RebuildRuns
        /\ DOMAIN rebuilds = Runs /\ DOMAIN worker = Projectors
    BY DEF ProjectionsIInv, ProjectionsTypeOK
  <1>4. ASSUME NEW r \in Runs, rebuilds[r].status # "absent"
        PROVE  /\ rebuilds[r] \in RebuildRuns /\ rebuilds[r].projection_version \in Versions
               /\ rebuilds[r].next_position \in Nat
    BY <1>3, <1>4 DEF NoRebuild, RebuildRuns
  <1>5. /\ projection.checkpoint <= position
        /\ projection.state = Fold(projection.version, projection.checkpoint)
        /\ \A r \in Runs : rebuilds[r].status # "absent" =>
              /\ rebuilds[r].next_position <= position
              /\ rebuilds[r].state = Fold(rebuilds[r].projection_version, rebuilds[r].next_position)
    BY DEF ProjectionsIInv, ProjectionExact
  <1>6. \A p \in Projectors : worker[p] = Idle \/ Working(p)
    BY DEF ProjectionsIInv, WorkCoherent
  <1>7. Reduced(events, position, projection.version, projection.checkpoint, projection.state)
    BY <1>1, <1>2, <1>5, FoldIsFoldOf DEF Reduced
  <1>8. \A r \in Runs : rebuilds[r].status # "absent" =>
            Reduced(events, position, rebuilds[r].projection_version, rebuilds[r].next_position, rebuilds[r].state)
    BY <1>1, <1>4, <1>5, FoldIsFoldOf DEF Reduced
  <1> QED BY <1>1, <1>2, <1>3, <1>4, <1>6, <1>7, <1>8

\* What is at hand of a projector that works, in one piece.
LEMMA WorkingFacts ==
  ASSUME ProjectionsIInv, NEW p \in Projectors, worker[p].stage # "idle"
  PROVE  /\ DOMAIN worker[p] = WorkFields /\ worker[p].stage \in {"loaded", "read", "open"}
         /\ worker[p].version \in Versions /\ worker[p].version \in Nat /\ worker[p].from \in 0..position
         /\ NextPosition(p) \in worker[p].from..position
         /\ Reduced(events, position, worker[p].version, NextPosition(p), worker[p].state)
         /\ worker[p].run # NoRun =>
               /\ worker[p].run \in Runs /\ rebuilds[worker[p].run].status # "absent"
               /\ rebuilds[worker[p].run].projection_version = worker[p].version
         /\ worker[p].stage = "loaded" => worker[p].page = << >> /\ NextPosition(p) = worker[p].from
         /\ worker[p].stage = "open" => OpenWell(p)
         /\ Working(p)
  <1>1. LogIInv /\ position \in Nat /\ Working(p)
    BY ProjectionFacts DEF Idle
  <1>2. worker[p].stage = "loaded" =>
            /\ worker[p].page = << >> /\ NextPosition(p) = worker[p].from
            /\ worker[p].state = Fold(worker[p].version, NextPosition(p))
    BY <1>1 DEF Working, LoadedWell, NextPosition
  <1>3. NextPosition(p) \in worker[p].from..position /\ worker[p].state = Fold(worker[p].version, NextPosition(p))
    BY <1>1, <1>2 DEF Working, ReadWell
  <1>4. worker[p].version \in Versions /\ worker[p].version \in Nat /\ worker[p].from \in 0..position
    BY <1>1, ProjectionsAssumption DEF Working
  <1>5. Reduced(events, position, worker[p].version, NextPosition(p), worker[p].state)
    BY <1>1, <1>3, <1>4, FoldIsFoldOf DEF Reduced
  <1> QED BY <1>1, <1>2, <1>3, <1>4, <1>5 DEF Working

\* The work of one that does not move means the same.
LEMMA SameWork ==
  ASSUME ProjectionsIInv, RunsKept, NEW p \in Projectors, worker'[p] = worker[p]
  PROVE  /\ NextPosition(p)' = NextPosition(p)
         /\ LocksProjection(p)' <=> LocksProjection(p)
         /\ worker[p].stage # "idle" /\ worker[p].run # NoRun => (Completes(p)' <=> Completes(p))
  <1>1. NextPosition(p)' = NextPosition(p)
    BY DEF NextPosition
  <1>2. ASSUME worker[p].stage # "idle", worker[p].run # NoRun PROVE Completes(p)' <=> Completes(p)
    <2>1. worker[p].run \in Runs /\ rebuilds[worker[p].run].status # "absent"
      BY <1>2, WorkingFacts
    <2>2. rebuilds'[worker[p].run].through_position = rebuilds[worker[p].run].through_position
      BY <2>1 DEF RunsKept
    <2> QED BY <1>1, <2>2 DEF Completes
  <1>3. LocksProjection(p)' <=> LocksProjection(p)
    BY <1>2 DEF LocksProjection
  <1> QED BY <1>1, <1>2, <1>3

\* So it stays as good as it was while the log grows.
LEMMA WorkKept ==
  ASSUME ProjectionsIInv, LogGrows, RunsKept, NEW p \in Projectors, worker'[p] = worker[p],
         worker[p].stage # "idle", worker[p].stage = "open" => OpenWell(p)'
  PROVE  Working(p)'
  <1>1. LogIInv /\ Placed(events, position) /\ Placed(events', position')
    BY ProjectionFacts, LogPlacedNext DEF LogGrows
  <1>2. /\ DOMAIN worker[p] = WorkFields /\ worker[p].stage \in {"loaded", "read", "open"}
        /\ worker[p].version \in Versions /\ worker[p].from \in 0..position
        /\ NextPosition(p) \in worker[p].from..position
        /\ Reduced(events, position, worker[p].version, NextPosition(p), worker[p].state)
        /\ worker[p].stage = "loaded" => worker[p].page = << >> /\ NextPosition(p) = worker[p].from
    BY WorkingFacts
  <1>3. /\ Reduced(events', position', worker[p].version, NextPosition(p), worker[p].state)
        /\ position <= position' /\ position \in Nat /\ position' \in Nat
    BY <1>1, <1>2, ReducedKept DEF LogGrows, Placed
  <1>4. NextPosition(p)' = NextPosition(p)
    BY SameWork
  <1>5. worker[p].run # NoRun =>
            /\ worker[p].run \in Runs /\ rebuilds'[worker[p].run].status # "absent"
            /\ rebuilds'[worker[p].run].projection_version = worker[p].version
    BY WorkingFacts DEF RunsKept
  <1>6. \A v, k : Fold(v, k)' = FoldOf(events', v, k)
    BY FoldNext
  <1>7. Fold(worker[p].version, NextPosition(p))' = FoldOf(events', worker[p].version, NextPosition(p))
    BY <1>4, <1>6
  <1>8. worker'[p].from \in 0..position' /\ NextPosition(p)' \in worker'[p].from..position'
    BY <1>2, <1>3, <1>4
  <1>9. worker'[p].state = Fold(worker[p].version, NextPosition(p))'
    BY <1>3, <1>7 DEF Reduced
  <1>10. CASE worker[p].stage = "loaded"
    <2>1. LoadedWell(p)'
      BY <1>2, <1>4, <1>9, <1>10, <1>6 DEF LoadedWell
    <2> QED BY <1>2, <1>5, <1>8, <1>10, <2>1 DEF Working
  <1>11. CASE worker[p].stage \in {"read", "open"}
    <2>1. ReadWell(p)'
      BY <1>8, <1>9 DEF ReadWell
    <2> QED BY <1>2, <1>5, <1>8, <1>11, <2>1 DEF Working
  <1> QED BY <1>2, <1>10, <1>11

\* What an open transaction has checked is so while others leave its rows alone.
LEMMA OpenKept ==
  ASSUME ProjectionsIInv, LogGrows, RunsKept, NEW p \in Projectors, worker'[p] = worker[p],
         worker[p].stage = "open", LocksProjection(p) => projection' = projection,
         worker[p].run # NoRun => rebuilds'[worker[p].run] = rebuilds[worker[p].run],
         \A o \in Projectors \ {p} :
            /\ LocksProjection(p) => ~LocksProjection(o)'
            /\ worker[p].run # NoRun => ~(worker'[o].stage = "open" /\ worker'[o].run = worker[p].run)
  PROVE  OpenWell(p)'
  <1>1. OpenWell(p) /\ worker[p].stage # "idle"
    BY WorkingFacts
  <1>2. /\ NextPosition(p)' = NextPosition(p) /\ (LocksProjection(p)' <=> LocksProjection(p))
        /\ worker[p].run # NoRun => (Completes(p)' <=> Completes(p))
    BY <1>1, SameWork
  <1>3. store' = "sqlalchemy"
    BY <1>1 DEF OpenWell, LogGrows
  <1>4. worker[p].run = NoRun => Current(p)'
    BY <1>1 DEF OpenWell, Current, LocksProjection
  <1>5. worker[p].run # NoRun => Progresses(p)' /\ (Completes(p)' => Supersedes(p)')
    BY <1>1, <1>2 DEF OpenWell, Progresses, Supersedes, LocksProjection
  <1>6. LocksProjection(p)' => ProjectionFree(p)'
    BY <1>2 DEF ProjectionFree
  <1>7. worker'[p].run # NoRun => RunFree(p, worker[p].run)'
    BY DEF RunFree
  <1> QED BY <1>3, <1>4, <1>5, <1>6, <1>7 DEF OpenWell, RunFree

\* The projection and the runs stay reductions while the log grows.
LEMMA ExactKept ==
  ASSUME ProjectionsIInv, LogGrows,
         \/ projection' = projection
         \/ Reduced(events, position, projection'.version, projection'.checkpoint, projection'.state),
         \A r \in Runs : rebuilds'[r].status # "absent" =>
            \/ rebuilds'[r] = rebuilds[r]
            \/ Reduced(events, position, rebuilds'[r].projection_version, rebuilds'[r].next_position, rebuilds'[r].state)
  PROVE  ProjectionExact'
  <1>1. Placed(events, position) /\ Placed(events', position') /\ events \subseteq events'
    BY ProjectionFacts, LogPlacedNext DEF LogGrows
  <1>2. \A v, k, st : Reduced(events, position, v, k, st) => Reduced(events', position', v, k, st)
    BY <1>1, ReducedKept
  <1>3. \A v, k : Fold(v, k)' = FoldOf(events', v, k)
    BY FoldNext
  <1>4. \A v, k, st : Reduced(events, position, v, k, st) => k <= position' /\ st = FoldOf(events', v, k)
    BY <1>1, <1>2 DEF Reduced, Placed
  <1>5. Reduced(events, position, projection'.version, projection'.checkpoint, projection'.state)
    BY ProjectionFacts
  <1>6. ASSUME NEW r \in Runs, rebuilds'[r].status # "absent"
        PROVE  Reduced(events, position, rebuilds'[r].projection_version, rebuilds'[r].next_position, rebuilds'[r].state)
    BY <1>6, ProjectionFacts
  <1>7. projection'.checkpoint <= position' /\ projection'.state = Fold(projection.version, projection.checkpoint)'
    BY <1>3, <1>4, <1>5
  <1>8. ASSUME NEW r \in Runs, rebuilds'[r].status # "absent"
        PROVE  /\ rebuilds'[r].next_position <= position'
               /\ rebuilds'[r].state = Fold(rebuilds[r].projection_version, rebuilds[r].next_position)'
    <2>1. Reduced(events, position, rebuilds'[r].projection_version, rebuilds'[r].next_position, rebuilds'[r].state)
      BY <1>6, <1>8
    <2>2. /\ rebuilds'[r].next_position <= position'
          /\ rebuilds'[r].state = FoldOf(events', rebuilds'[r].projection_version, rebuilds'[r].next_position)
      BY <1>4, <2>1
    <2> QED BY <1>3, <2>2
  <1> QED BY <1>7, <1>8 DEF ProjectionExact

\* A step of a writer: no projector moves.
LEMMA WriterStepKeeps ==
  ASSUME ProjectionsIInv, EventStoreNext, UNCHANGED projectionVars
  PROVE  ProjectionsIInv' /\ Forward
  <1>1. projection' = projection /\ rebuilds' = rebuilds /\ worker' = worker
    BY DEF projectionVars
  <1>2. store' = store
    BY DEF EventStoreNext, LoadSnapshot, ReadStream, AppendInMemory, AppendInTransaction, StartAgain,
           SaveSnapshotInMemory, SaveSnapshotInTransaction, CommitWriter, RollbackWriter
  <1>3. LogGrows
    BY <1>2, ProjectionFacts, LogStep, EventsGrow DEF LogGrows
  <1>4. RunsKept
    BY <1>1 DEF RunsKept
  <1>5. ProjectionsTypeOK'
    BY <1>1 DEF ProjectionsIInv, ProjectionsTypeOK
  <1>6. ProjectionExact'
    BY <1>1, <1>3, ExactKept
  <1>7. ASSUME NEW p \in Projectors, worker[p].stage = "open" PROVE OpenWell(p)'
    <2>1. \A o \in Projectors : LocksProjection(o)' <=> LocksProjection(o)
      BY <1>1, <1>4, SameWork
    <2>2. OpenWell(p)
      BY <1>7, WorkingFacts
    <2>3. \A o \in Projectors \ {p} :
              /\ LocksProjection(p) => ~LocksProjection(o)'
              /\ worker[p].run # NoRun => ~(worker'[o].stage = "open" /\ worker'[o].run = worker[p].run)
      BY <1>1, <2>1, <2>2 DEF OpenWell, ProjectionFree, RunFree
    <2> QED BY <1>1, <1>3, <1>4, <1>7, <2>3, OpenKept
  <1>8. ASSUME NEW p \in Projectors PROVE worker'[p] = Idle \/ Working(p)'
    <2>1. CASE worker[p] = Idle
      BY <1>1, <2>1
    <2>2. CASE worker[p] # Idle
      <3>1. worker[p].stage # "idle"
        BY <2>2, ProjectionFacts DEF Working
      <3> QED BY <1>1, <1>3, <1>4, <1>7, <3>1, WorkKept
    <2> QED BY <2>1, <2>2
  <1>9. Forward
    BY <1>1, ProjectionFacts DEF Forward
  <1> QED BY <1>3, <1>5, <1>6, <1>8, <1>9 DEF ProjectionsIInv, WorkCoherent, LogGrows

\* begin_rebuild(): a run that nobody works at.
LEMMA BeginRebuildKeeps ==
  ASSUME ProjectionsIInv, NEW r \in Runs, NEW v \in Versions, NEW through \in 0..MaxThrough, BeginRebuild(r, v, through)
  PROVE  ProjectionsIInv' /\ Forward
  <1> DEFINE run == [projection_version |-> v, through_position |-> through, next_position |-> 0,
                     state |-> << >>, status |-> "running"]
  <1>1. /\ rebuilds[r] = NoRebuild /\ rebuilds' = [rebuilds EXCEPT ![r] = run]
        /\ UNCHANGED <<logVars, projection, worker>>
    BY DEF BeginRebuild
  <1>2. run \in RebuildRuns /\ run.status = "running" /\ run.state = << >> /\ run.next_position = 0
    BY ProjectionsAssumption DEF RebuildRuns, States
  <1>3. rebuilds[r].status = "absent"
    BY <1>1 DEF NoRebuild
  <1> HIDE DEF run
  <1>4. /\ DOMAIN rebuilds' = Runs /\ rebuilds'[r] = run /\ \A s \in Runs \ {r} : rebuilds'[s] = rebuilds[s]
    BY <1>1, ProjectionFacts
  <1>5. LogGrows
    <2>1. LogIInv'
      BY <1>1, ProjectionFacts, LogUnchanged
    <2> QED BY <1>1, <2>1 DEF logVars, LogGrows
  <1>6. RunsKept
    BY <1>3, <1>4 DEF RunsKept
  <1>7. ProjectionsTypeOK'
    <2>1. rebuilds' \in [Runs -> RebuildRuns \cup {NoRebuild}]
      BY <1>1, <1>2 DEF ProjectionsIInv, ProjectionsTypeOK
    <2> QED BY <1>1, <2>1 DEF ProjectionsIInv, ProjectionsTypeOK
  <1>8. Reduced(events, position, run.projection_version, run.next_position, run.state)
    <2>1. \A x : FoldOf(events, x, 0) = << >>
      BY DEF FoldOf
    <2> QED BY <1>2, <2>1, ProjectionFacts DEF Reduced
  <1>9. ProjectionExact'
    BY <1>1, <1>4, <1>5, <1>8, ExactKept
  <1>10. ASSUME NEW p \in Projectors, worker[p].stage = "open" PROVE OpenWell(p)'
    <2>1. \A o \in Projectors : LocksProjection(o)' <=> LocksProjection(o)
      BY <1>1, <1>6, SameWork
    <2>2. OpenWell(p) /\ (worker[p].run # NoRun => worker[p].run \in Runs \ {r})
      BY <1>3, <1>10, WorkingFacts
    <2>3. \A o \in Projectors \ {p} :
              /\ LocksProjection(p) => ~LocksProjection(o)'
              /\ worker[p].run # NoRun => ~(worker'[o].stage = "open" /\ worker'[o].run = worker[p].run)
      BY <1>1, <2>1, <2>2 DEF OpenWell, ProjectionFree, RunFree
    <2> QED BY <1>1, <1>4, <1>5, <1>6, <1>10, <2>2, <2>3, OpenKept
  <1>11. ASSUME NEW p \in Projectors PROVE worker'[p] = Idle \/ Working(p)'
    <2>1. CASE worker[p] = Idle
      BY <1>1, <2>1
    <2>2. CASE worker[p] # Idle
      <3>1. worker[p].stage # "idle"
        BY <2>2, ProjectionFacts DEF Working
      <3> QED BY <1>1, <1>5, <1>6, <1>10, <3>1, WorkKept
    <2> QED BY <2>1, <2>2
  <1>12. Forward
    BY <1>1, ProjectionFacts DEF Forward
  <1> QED BY <1>5, <1>7, <1>9, <1>11, <1>12 DEF ProjectionsIInv, WorkCoherent, LogGrows

\* A projector moves, and nothing is written.
LEMMA WorkerMoves ==
  ASSUME ProjectionsIInv, NEW p \in Projectors, NEW b, worker' = [worker EXCEPT ![p] = b],
         UNCHANGED <<logVars, projection, rebuilds>>, b = Idle \/ Working(p)',
         b.stage = "open" => \A o \in Projectors \ {p} :
            /\ LocksProjection(o) => ~LocksProjection(p)'
            /\ ~(worker[o].stage = "open" /\ worker[o].run # NoRun /\ worker[o].run = b.run)
  PROVE  ProjectionsIInv' /\ Forward
  <1>1. projection' = projection /\ rebuilds' = rebuilds
    OBVIOUS
  <1>2. worker'[p] = b /\ \A o \in Projectors \ {p} : worker'[o] = worker[o]
    BY ProjectionFacts
  <1>3. LogGrows
    <2>1. LogIInv'
      BY ProjectionFacts, LogUnchanged
    <2> QED BY <2>1 DEF logVars, LogGrows
  <1>4. RunsKept
    BY DEF RunsKept
  <1>5. ProjectionsTypeOK'
    BY <1>1 DEF ProjectionsIInv, ProjectionsTypeOK
  <1>6. ProjectionExact'
    BY <1>1, <1>3, ExactKept
  <1>7. ASSUME NEW q \in Projectors \ {p}, worker[q].stage = "open" PROVE OpenWell(q)'
    <2>1. \A o \in Projectors \ {p} : LocksProjection(o)' <=> LocksProjection(o)
      BY <1>2, <1>4, SameWork
    <2>2. OpenWell(q)
      BY <1>7, WorkingFacts
    <2>3. LocksProjection(q) => ~LocksProjection(p)'
      <3>1. CASE b.stage = "open"
        BY <3>1
      <3>2. CASE b.stage # "open"
        BY <1>2, <3>2 DEF LocksProjection
      <3> QED BY <3>1, <3>2
    <2>4. worker[q].run # NoRun => ~(b.stage = "open" /\ b.run = worker[q].run)
      BY <1>7
    <2>5. \A o \in Projectors \ {q} :
              /\ LocksProjection(q) => ~LocksProjection(o)'
              /\ worker[q].run # NoRun => ~(worker'[o].stage = "open" /\ worker'[o].run = worker[q].run)
      BY <1>2, <2>1, <2>2, <2>3, <2>4 DEF OpenWell, ProjectionFree, RunFree
    <2> QED BY <1>1, <1>2, <1>3, <1>4, <1>7, <2>5, OpenKept
  <1>8. ASSUME NEW q \in Projectors PROVE worker'[q] = Idle \/ Working(q)'
    <2>1. CASE q = p
      BY <1>2, <2>1
    <2>2. CASE q # p /\ worker[q] = Idle
      BY <1>2, <2>2
    <2>3. CASE q # p /\ worker[q] # Idle
      <3>1. worker[q].stage # "idle"
        BY <2>3, ProjectionFacts DEF Working
      <3> QED BY <1>2, <1>3, <1>4, <1>7, <2>3, <3>1, WorkKept
    <2> QED BY <2>1, <2>2, <2>3
  <1>9. Forward
    BY <1>1, ProjectionFacts DEF Forward
  <1> QED BY <1>3, <1>5, <1>6, <1>8, <1>9 DEF ProjectionsIInv, WorkCoherent, LogGrows

\* The fields of a piece of work.
LEMMA WorkOf ==
  ASSUME NEW stage, NEW run, NEW version, NEW from, NEW state, NEW page
  PROVE  /\ DOMAIN Work(stage, run, version, from, state, page) = WorkFields
         /\ Work(stage, run, version, from, state, page).stage = stage
         /\ Work(stage, run, version, from, state, page).run = run
         /\ Work(stage, run, version, from, state, page).version = version
         /\ Work(stage, run, version, from, state, page).from = from
         /\ Work(stage, run, version, from, state, page).state = state
         /\ Work(stage, run, version, from, state, page).page = page
  BY DEF Work, WorkFields

\* What new work must be to be good.
NewWork(b, n) ==
  /\ DOMAIN b = WorkFields /\ b.version \in Versions /\ b.from \in 0..position
  /\ n = (IF b.page = << >> THEN b.from ELSE Last(b.page).global_position)
  /\ n \in b.from..position /\ Reduced(events, position, b.version, n, b.state)
  /\ b.run # NoRun => /\ b.run \in Runs /\ rebuilds[b.run].status # "absent"
                      /\ rebuilds[b.run].projection_version = b.version

\* New work that is good leaves the projector well at work.
LEMMA NewWorking ==
  ASSUME ProjectionsIInv, NEW p \in Projectors, NEW b, NEW n, worker' = [worker EXCEPT ![p] = b],
         UNCHANGED <<logVars, projection, rebuilds>>, NewWork(b, n),
         (b.stage = "loaded" /\ b.page = << >>) \/ b.stage = "read" \/ (b.stage = "open" /\ OpenWell(p)')
  PROVE  Working(p)' /\ NextPosition(p)' = n
  <1>1. worker'[p] = b
    BY ProjectionFacts
  <1>2. events' = events /\ position' = position /\ store' = store /\ rebuilds' = rebuilds
    BY DEF logVars
  <1>3. NextPosition(p)' = n
    BY <1>1 DEF NextPosition, NewWork
  <1>4. \A v, k : Fold(v, k)' = FoldOf(events', v, k)
    BY FoldNext
  <1>5. b.state = Fold(worker[p].version, NextPosition(p))'
    BY <1>1, <1>2, <1>3, <1>4 DEF NewWork, Reduced
  <1>6. NextPosition(p)' \in b.from..position
    BY <1>3 DEF NewWork
  <1>7. CASE b.stage = "loaded" /\ b.page = << >>
    <2>1. NextPosition(p)' = b.from
      BY <1>3, <1>7 DEF NewWork
    <2>2. b.state = Fold(worker[p].version, worker[p].from)'
      BY <1>1, <1>2, <1>4, <1>7, <2>1, <1>5
    <2>3. LoadedWell(p)'
      BY <1>1, <1>7, <2>2 DEF LoadedWell
    <2> QED BY <1>1, <1>2, <1>3, <1>7, <2>3 DEF Working, NewWork
  <1>8. CASE b.stage = "read" \/ (b.stage = "open" /\ OpenWell(p)')
    <2>1. ReadWell(p)'
      BY <1>1, <1>2, <1>5, <1>6 DEF ReadWell
    <2> QED BY <1>1, <1>2, <1>3, <1>8, <2>1 DEF Working, NewWork
  <1> QED BY <1>7, <1>8

\* Giving up forgets the work.
LEMMA ReturnsKeeps ==
  ASSUME ProjectionsIInv, NEW p \in Projectors, Returns(p), UNCHANGED <<logVars, projection, rebuilds>>
  PROVE  ProjectionsIInv' /\ Forward
  <1>1. Idle.stage # "open" /\ worker' = [worker EXCEPT ![p] = Idle]
    BY DEF Idle, Returns
  <1> QED BY <1>1, WorkerMoves

\* A projector loads the live projection and its checkpoint together.
LEMMA LoadKeeps ==
  ASSUME ProjectionsIInv, NEW p \in Projectors, NEW v \in Versions, Load(p, v)
  PROVE  ProjectionsIInv' /\ Forward
  <1> DEFINE b == Work("loaded", NoRun, v, projection.checkpoint, projection.state, << >>)
  <1>1. /\ projection.version \in {0, v} /\ worker' = [worker EXCEPT ![p] = b]
        /\ UNCHANGED <<logVars, projection, rebuilds>>
    BY DEF Load
  <1>2. /\ DOMAIN b = WorkFields /\ b.stage = "loaded" /\ b.run = NoRun /\ b.version = v
        /\ b.from = projection.checkpoint /\ b.state = projection.state /\ b.page = << >>
    BY WorkOf
  <1> HIDE DEF b
  <1>3. position \in Nat /\ Reduced(events, position, projection.version, projection.checkpoint, projection.state)
    BY ProjectionFacts
  <1>4. Reduced(events, position, v, projection.checkpoint, projection.state)
    <2>1. CASE projection.version = v
      BY <1>3, <2>1
    <2>2. CASE projection.version = 0
      <3>1. projection.checkpoint = 0 /\ projection.state = << >>
        BY <2>2, ProjectionFacts DEF NoProjection
      <3>2. FoldOf(events, v, 0) = << >>
        BY DEF FoldOf
      <3> QED BY <1>3, <3>1, <3>2 DEF Reduced
    <2> QED BY <1>1, <2>1, <2>2
  <1>5. projection.checkpoint \in 0..position
    BY <1>3 DEF Reduced
  <1>6. NewWork(b, projection.checkpoint)
    BY <1>2, <1>3, <1>4, <1>5 DEF NewWork
  <1>7. Working(p)'
    BY <1>1, <1>2, <1>6, NewWorking
  <1> QED BY <1>1, <1>2, <1>7, WorkerMoves

\* A projector loads the run of a rebuild.
LEMMA LoadRebuildKeeps ==
  ASSUME ProjectionsIInv, NEW p \in Projectors, NEW r \in Runs, LoadRebuild(p, r)
  PROVE  ProjectionsIInv' /\ Forward
  <1> DEFINE run == rebuilds[r]
             b == Work("loaded", r, run.projection_version, run.next_position, run.state, << >>)
  <1>1. /\ run.status = "running" /\ worker' = [worker EXCEPT ![p] = b]
        /\ UNCHANGED <<logVars, projection, rebuilds>>
    BY DEF LoadRebuild
  <1>2. /\ DOMAIN b = WorkFields /\ b.stage = "loaded" /\ b.run = r /\ b.version = run.projection_version
        /\ b.from = run.next_position /\ b.state = run.state /\ b.page = << >>
    BY WorkOf
  <1> HIDE DEF b
  <1>3. /\ position \in Nat /\ run.projection_version \in Versions
        /\ Reduced(events, position, run.projection_version, run.next_position, run.state)
    BY <1>1, ProjectionFacts
  <1>4. run.next_position \in 0..position
    BY <1>3 DEF Reduced
  <1>5. NewWork(b, run.next_position)
    BY <1>1, <1>2, <1>3, <1>4 DEF NewWork
  <1>6. Working(p)'
    BY <1>1, <1>2, <1>5, NewWorking
  <1> QED BY <1>1, <1>2, <1>6, WorkerMoves

\* A projector reads the page that follows and reduces it.
LEMMA ReadAllKeeps ==
  ASSUME ProjectionsIInv, NEW p \in Projectors, ReadAll(p)
  PROVE  ProjectionsIInv' /\ Forward
  <1> DEFINE a == worker[p]
             page == PageOf(a.run, a.from)
             one == [a EXCEPT !.stage = "read"]
             two == [one EXCEPT !.page = page]
             b == [two EXCEPT !.state = Reduce(a.state, a.version, page)]
  <1>1. a.stage = "loaded" /\ UNCHANGED <<logVars, projection, rebuilds>>
    BY DEF ReadAll
  <1>2. CASE Returns(p)
    BY <1>1, <1>2, ReturnsKeeps
  <1>3. CASE ~Returns(p)
    <2>1. /\ DOMAIN a = WorkFields /\ a.version \in Versions /\ a.from \in 0..position
          /\ Reduced(events, position, a.version, NextPosition(p), a.state)
          /\ a.run # NoRun => /\ a.run \in Runs /\ rebuilds[a.run].status # "absent"
                              /\ rebuilds[a.run].projection_version = a.version
          /\ NextPosition(p) = a.from
      BY <1>1, WorkingFacts
    <2>2. DOMAIN worker = Projectors /\ LogIInv /\ Placed(events, position) /\ position \in Nat
      BY ProjectionFacts
    <2>3. worker' = [worker EXCEPT ![p] = b]
      BY <1>3, <2>1, <2>2 DEF ReadAll, WorkFields
    <2>4. PICK k \in Nat : a.from + k <= position /\ page = [i \in 1..k |-> EventAt(events, a.from + i)]
      BY <2>1, <2>2, PageOfFacts
    <2> DEFINE n == a.from + k
    <2> HIDE DEF page
    <2>5. /\ DOMAIN b = WorkFields /\ b.stage = "read" /\ b.page = page /\ b.version = a.version /\ b.from = a.from
          /\ b.run = a.run /\ b.state = Reduce(a.state, a.version, page)
      <3> HIDE DEF a
      <3>1. /\ DOMAIN one = WorkFields /\ one.stage = "read" /\ one.version = a.version /\ one.from = a.from
            /\ one.run = a.run
        BY <2>1 DEF WorkFields
      <3> HIDE DEF one
      <3>2. /\ DOMAIN two = WorkFields /\ two.stage = one.stage /\ two.version = one.version /\ two.from = one.from
            /\ two.run = one.run /\ two.page = page
        BY <3>1 DEF WorkFields
      <3> HIDE DEF two
      <3>3. /\ DOMAIN b = WorkFields /\ b.stage = two.stage /\ b.version = two.version /\ b.from = two.from
            /\ b.run = two.run /\ b.page = two.page /\ b.state = Reduce(a.state, a.version, page)
        BY <3>2 DEF WorkFields
      <3> QED BY <3>1, <3>2, <3>3
    <2> HIDE DEF b
    <2>6. Reduce(a.state, a.version, page) = a.state \o [i \in 1..k |-> <<a.version, EventAt(events, a.from + i).event_id>>]
      <3>1. DOMAIN page = 1..k /\ \A i \in 1..k : page[i] = EventAt(events, a.from + i)
        BY <2>4
      <3>2. [i \in DOMAIN page |-> <<a.version, page[i].event_id>>] = [i \in 1..k |-> <<a.version, EventAt(events, a.from + i).event_id>>]
        BY <3>1
      <3> QED BY <3>2 DEF Reduce
    <2>7. Reduced(events, position, a.version, n, b.state)
      <3> DEFINE more == [i \in 1..k |-> <<a.version, EventAt(events, a.from + i).event_id>>]
      <3>1. b.state = a.state \o more
        BY <2>5, <2>6
      <3>2. Reduced(events, position, a.version, a.from, a.state) /\ a.from + k <= position
        BY <2>1, <2>4
      <3> HIDE DEF a
      <3>3. Reduced(events, position, a.version, a.from + k, a.state \o more)
        BY <2>2, <3>2, ReducedMore
      <3> QED BY <3>1, <3>3
    <2>8. n = (IF b.page = << >> THEN b.from ELSE Last(b.page).global_position)
      <3>1. CASE k = 0
        BY <2>1, <2>2, <2>4, <2>5, <3>1
      <3>2. CASE k # 0
        <4>1. k \in 1..k /\ n \in 1..position
          BY <2>1, <2>2, <2>4, <3>2
        <4>2. Len(page) = k /\ page # << >>
          BY <2>4, <4>1
        <4>3. EventAt(events, n).global_position = n
          BY <2>2, <4>1, AtFacts
        <4>4. page[k] = EventAt(events, n)
          BY <2>4, <4>1
        <4> QED BY <2>5, <4>2, <4>3, <4>4 DEF Last
      <3> QED BY <3>1, <3>2
    <2>9. n \in a.from..position
      BY <2>1, <2>2, <2>4
    <2>10. NewWork(b, n)
      <3> HIDE DEF n, a
      <3> QED BY <2>1, <2>5, <2>7, <2>8, <2>9 DEF NewWork
    <2> HIDE DEF n, a
    <2>11. Working(p)'
      BY <1>1, <2>3, <2>5, <2>10, NewWorking
    <2> QED BY <1>1, <2>3, <2>5, <2>11, WorkerMoves
  <1> QED BY <1>2, <1>3

\* A transaction begins: what it has checked, nobody else has locked.
LEMMA BecomesOpen ==
  ASSUME ProjectionsIInv, NEW p \in Projectors, worker[p].stage = "read", Becomes(p, "open"), store = "sqlalchemy",
         UNCHANGED <<logVars, projection, rebuilds>>,
         worker[p].run = NoRun => Current(p),
         worker[p].run # NoRun => Progresses(p) /\ (Completes(p) => Supersedes(p)) /\ RunFree(p, worker[p].run),
         worker[p].run = NoRun \/ Completes(p) => ProjectionFree(p)
  PROVE  ProjectionsIInv' /\ Forward
  <1> DEFINE a == worker[p]
             b == [a EXCEPT !.stage = "open"]
  <1>1. /\ DOMAIN a = WorkFields /\ a.version \in Versions /\ a.from \in 0..position
        /\ NextPosition(p) \in a.from..position
        /\ Reduced(events, position, a.version, NextPosition(p), a.state)
        /\ a.run # NoRun => /\ a.run \in Runs /\ rebuilds[a.run].status # "absent"
                            /\ rebuilds[a.run].projection_version = a.version
    BY WorkingFacts
  <1>2. worker' = [worker EXCEPT ![p] = b]
    BY <1>1, ProjectionFacts DEF Becomes, WorkFields
  <1>3. /\ DOMAIN b = WorkFields /\ b.stage = "open" /\ b.page = a.page /\ b.version = a.version /\ b.from = a.from
        /\ b.run = a.run /\ b.state = a.state
    <2> HIDE DEF a
    <2> QED BY <1>1 DEF WorkFields
  <1> HIDE DEF b
  <1>4. worker'[p] = b /\ \A o \in Projectors \ {p} : worker'[o] = worker[o]
    BY <1>2, ProjectionFacts
  <1>5. NewWork(b, NextPosition(p))
    BY <1>1, <1>3 DEF NewWork, NextPosition
  <1>6. NextPosition(p)' = NextPosition(p)
    BY <1>3, <1>4 DEF NextPosition
  <1>7. (Completes(p)' <=> Completes(p)) /\ (Progresses(p)' <=> Progresses(p)) /\ (Supersedes(p)' <=> Supersedes(p))
        /\ (Current(p)' <=> Current(p))
    BY <1>3, <1>4, <1>6 DEF Completes, Progresses, Supersedes, Current
  <1>8. LocksProjection(p)' => ProjectionFree(p)
    BY <1>3, <1>4, <1>7 DEF LocksProjection
  <1>9. RunsKept
    BY DEF RunsKept
  <1>10. \A o \in Projectors \ {p} : LocksProjection(o)' <=> LocksProjection(o)
    BY <1>4, <1>9, SameWork
  <1>11. OpenWell(p)'
    <2>1. store' = "sqlalchemy"
      BY DEF logVars
    <2>2. LocksProjection(p)' => ProjectionFree(p)'
      BY <1>8, <1>10 DEF ProjectionFree
    <2>3. a.run # NoRun => RunFree(p, worker[p].run)'
      BY <1>3, <1>4 DEF RunFree
    <2> QED BY <1>3, <1>4, <1>7, <2>1, <2>2, <2>3 DEF OpenWell
  <1>12. Working(p)'
    BY <1>2, <1>3, <1>5, <1>11, NewWorking
  <1>13. \A o \in Projectors \ {p} :
            /\ LocksProjection(o) => ~LocksProjection(p)'
            /\ ~(worker[o].stage = "open" /\ worker[o].run # NoRun /\ worker[o].run = b.run)
    BY <1>3, <1>8 DEF ProjectionFree, RunFree
  <1> QED BY <1>2, <1>12, <1>13, WorkerMoves

\* What a run is after a page of it.
LEMMA RunAdvancedFacts ==
  ASSUME ProjectionsIInv, NEW p \in Projectors, worker[p].stage # "idle", worker[p].run # NoRun
  PROVE  \E c \in RebuildRuns :
            /\ RunAdvanced(p) = [rebuilds EXCEPT ![worker[p].run] = c]
            /\ c.next_position = NextPosition(p) /\ c.state = worker[p].state
            /\ c.status = (IF Completes(p) THEN "completed" ELSE "running")
            /\ c.projection_version = worker[p].version
            /\ c.through_position = rebuilds[worker[p].run].through_position
  <1> DEFINE r == worker[p].run
             x == rebuilds[r]
             status == IF Completes(p) THEN "completed" ELSE "running"
             one == [x EXCEPT !.next_position = NextPosition(p)]
             two == [one EXCEPT !.state = worker[p].state]
             c == [two EXCEPT !.status = status]
  <1>1. /\ r \in Runs /\ x \in RebuildRuns /\ x.projection_version = worker[p].version
        /\ LogIInv /\ DOMAIN rebuilds = Runs /\ position \in Nat
    BY ProjectionFacts, WorkingFacts
  <1>2. worker[p].state \in States /\ NextPosition(p) \in Nat
    BY <1>1, WorkingFacts, ReducedType
  <1>3. DOMAIN x = {"projection_version", "through_position", "next_position", "state", "status"}
    BY <1>1 DEF RebuildRuns
  <1>4. RunAdvanced(p) = [rebuilds EXCEPT ![r] = c]
    BY <1>1, <1>3 DEF RunAdvanced
  <1>5. status \in {"running", "completed"}
    OBVIOUS
  <1> HIDE DEF status, x, r
  <1>6. /\ one \in RebuildRuns /\ one.next_position = NextPosition(p)
        /\ one.projection_version = x.projection_version /\ one.through_position = x.through_position
    BY <1>1, <1>2 DEF RebuildRuns
  <1> HIDE DEF one
  <1>7. /\ two \in RebuildRuns /\ two.next_position = one.next_position /\ two.state = worker[p].state
        /\ two.projection_version = one.projection_version /\ two.through_position = one.through_position
    BY <1>2, <1>6 DEF RebuildRuns
  <1> HIDE DEF two
  <1>8. /\ c \in RebuildRuns /\ c.next_position = two.next_position /\ c.state = two.state /\ c.status = status
        /\ c.projection_version = two.projection_version /\ c.through_position = two.through_position
    BY <1>5, <1>7 DEF RebuildRuns
  <1> HIDE DEF c
  <1> c \in RebuildRuns
    BY <1>8
  <1> WITNESS c \in RebuildRuns
  <1> QED BY <1>1, <1>4, <1>6, <1>7, <1>8 DEF r, x, status

\* A projector writes what it has, the projection, the run or both, and returns.
LEMMA WorkerWrites ==
  ASSUME ProjectionsIInv, NEW p \in Projectors, worker[p].stage # "idle", Returns(p), UNCHANGED logVars,
         store = "memory" \/ worker[p].stage = "open",
         projection' = IF worker[p].run = NoRun \/ Completes(p) THEN Projected(p) ELSE projection,
         rebuilds' = IF worker[p].run # NoRun THEN RunAdvanced(p) ELSE rebuilds,
         worker[p].run = NoRun => Current(p),
         worker[p].run # NoRun => Progresses(p) /\ (Completes(p) => Supersedes(p))
  PROVE  ProjectionsIInv' /\ Forward
  <1> DEFINE a == worker[p]
  <1>1. /\ a.version \in Versions /\ a.version \in Nat /\ a.from \in 0..position
        /\ NextPosition(p) \in a.from..position
        /\ Reduced(events, position, a.version, NextPosition(p), a.state)
        /\ a.run # NoRun => /\ a.run \in Runs /\ rebuilds[a.run].status # "absent"
                            /\ rebuilds[a.run].projection_version = a.version
    BY WorkingFacts
  <1>2. position \in Nat /\ LogIInv /\ DOMAIN rebuilds = Runs /\ DOMAIN worker = Projectors
    BY ProjectionFacts
  <1>3. worker'[p] = Idle /\ \A o \in Projectors \ {p} : worker'[o] = worker[o]
    BY <1>2 DEF Returns
  <1>4. Idle.stage = "idle"
    BY DEF Idle
  <1>5. LogGrows
    <2>1. LogIInv'
      BY <1>2, LogUnchanged
    <2> QED BY <2>1 DEF logVars, LogGrows
  <1>6. /\ \A r \in Runs : a.run # r => rebuilds'[r] = rebuilds[r]
        /\ a.run # NoRun =>
              /\ rebuilds'[a.run].status = (IF Completes(p) THEN "completed" ELSE "running")
              /\ rebuilds'[a.run].projection_version = a.version
              /\ rebuilds'[a.run].through_position = rebuilds[a.run].through_position
              /\ Reduced(events, position, rebuilds'[a.run].projection_version, rebuilds'[a.run].next_position,
                         rebuilds'[a.run].state)
        /\ rebuilds' \in [Runs -> RebuildRuns \cup {NoRebuild}]
    <2>1. CASE a.run = NoRun
      BY <2>1 DEF ProjectionsIInv, ProjectionsTypeOK
    <2>2. CASE a.run # NoRun
      <3>1. PICK c \in RebuildRuns :
                /\ RunAdvanced(p) = [rebuilds EXCEPT ![a.run] = c]
                /\ c.next_position = NextPosition(p) /\ c.state = a.state
                /\ c.status = (IF Completes(p) THEN "completed" ELSE "running")
                /\ c.projection_version = a.version /\ c.through_position = rebuilds[a.run].through_position
        BY <2>2, RunAdvancedFacts
      <3>2. rebuilds' = [rebuilds EXCEPT ![a.run] = c] /\ a.run \in Runs
        BY <1>1, <2>2, <3>1
      <3>3. rebuilds'[a.run] = c /\ \A r \in Runs : a.run # r => rebuilds'[r] = rebuilds[r]
        BY <1>2, <3>2
      <3>4. rebuilds' \in [Runs -> RebuildRuns \cup {NoRebuild}]
        BY <3>2 DEF ProjectionsIInv, ProjectionsTypeOK
      <3> QED BY <1>1, <3>1, <3>3, <3>4
    <2> QED BY <2>1, <2>2
  <1>7. RunsKept
    <2> SUFFICES ASSUME NEW r \in Runs, rebuilds[r].status # "absent"
                 PROVE  /\ rebuilds'[r].status # "absent"
                        /\ rebuilds'[r].projection_version = rebuilds[r].projection_version
                        /\ rebuilds'[r].through_position = rebuilds[r].through_position
      BY DEF RunsKept
    <2>1. CASE a.run = r
      <3>1. a.run # NoRun
        BY <2>1, ProjectionsAssumption
      <3> QED BY <1>1, <1>6, <2>1, <3>1
    <2>2. CASE a.run # r
      BY <1>6, <2>2
    <2> QED BY <2>1, <2>2
  <1>8. /\ a.run = NoRun \/ Completes(p) =>
              /\ projection' \in ProjectionStates /\ projection'.version = a.version
              /\ projection'.checkpoint = NextPosition(p) /\ projection'.state = a.state
        /\ ~(a.run = NoRun \/ Completes(p)) => projection' = projection
    <2>1. a.state \in States /\ NextPosition(p) \in Nat
      BY <1>1, <1>2, ReducedType
    <2>2. /\ Projected(p) \in ProjectionStates /\ Projected(p).version = a.version
          /\ Projected(p).checkpoint = NextPosition(p) /\ Projected(p).state = a.state
      BY <1>1, <2>1 DEF Projected, ProjectionStates
    <2> QED BY <2>2
  <1>9. ProjectionsTypeOK'
    BY <1>2, <1>6, <1>8 DEF ProjectionsIInv, ProjectionsTypeOK, Returns
  <1>10. ProjectionExact'
    <2>1. \/ projection' = projection
          \/ Reduced(events, position, projection'.version, projection'.checkpoint, projection'.state)
      BY <1>1, <1>8
    <2>2. \A r \in Runs : rebuilds'[r].status # "absent" =>
              \/ rebuilds'[r] = rebuilds[r]
              \/ Reduced(events, position, rebuilds'[r].projection_version, rebuilds'[r].next_position, rebuilds'[r].state)
      <3> TAKE r \in Runs
      <3>1. r # NoRun
        BY ProjectionsAssumption
      <3> QED BY <1>6, <3>1
    <2> QED BY <1>5, <2>1, <2>2, ExactKept
  <1>11. ASSUME NEW q \in Projectors \ {p}, worker[q].stage = "open" PROVE OpenWell(q)'
    <2>1. OpenWell(q) /\ store = "sqlalchemy" /\ (worker[q].run # NoRun => worker[q].run \in Runs)
      BY <1>11, WorkingFacts DEF OpenWell
    <2>2. worker[p].stage = "open"
      BY <2>1
    <2>3. LocksProjection(q) => projection' = projection
      <3>1. LocksProjection(q) => ~LocksProjection(p)
        BY <2>1 DEF OpenWell, ProjectionFree
      <3> QED BY <1>8, <2>2, <3>1 DEF LocksProjection
    <2>4. worker[q].run # NoRun => rebuilds'[worker[q].run] = rebuilds[worker[q].run]
      <3>1. worker[q].run # NoRun => a.run # worker[q].run
        BY <2>1, <2>2 DEF OpenWell, RunFree
      <3> QED BY <1>6, <2>1, <3>1
    <2>5. \A o \in Projectors \ {p} : LocksProjection(o)' <=> LocksProjection(o)
      BY <1>3, <1>7, SameWork
    <2>6. ~LocksProjection(p)'
      BY <1>3, <1>4 DEF LocksProjection
    <2>7. \A o \in Projectors \ {q} :
              /\ LocksProjection(q) => ~LocksProjection(o)'
              /\ worker[q].run # NoRun => ~(worker'[o].stage = "open" /\ worker'[o].run = worker[q].run)
      BY <1>3, <1>4, <2>1, <2>5, <2>6 DEF OpenWell, ProjectionFree, RunFree
    <2> QED BY <1>3, <1>5, <1>7, <1>11, <2>3, <2>4, <2>7, OpenKept
  <1>12. ASSUME NEW q \in Projectors PROVE worker'[q] = Idle \/ Working(q)'
    <2>1. CASE q = p
      BY <1>3, <2>1
    <2>2. CASE q # p /\ worker[q] = Idle
      BY <1>3, <2>2
    <2>3. CASE q # p /\ worker[q] # Idle
      <3>1. worker[q].stage # "idle"
        BY <2>3, ProjectionFacts DEF Working
      <3> QED BY <1>3, <1>5, <1>7, <1>11, <2>3, <3>1, WorkKept
    <2> QED BY <2>1, <2>2, <2>3
  <1>13. Forward
    <2>1. projection.version \in Nat /\ projection.checkpoint \in Nat
      BY ProjectionFacts
    <2>2. CASE a.run = NoRun
      <3>1. projection.checkpoint = a.from /\ projection.version \in {0, a.version}
        BY <2>2 DEF Current
      <3>2. projection'.version = a.version /\ projection'.checkpoint = NextPosition(p)
        BY <1>8, <2>2
      <3>3. projection'.checkpoint >= projection.checkpoint /\ projection'.version >= projection.version
        BY <1>1, <1>2, <2>1, <3>1, <3>2
      <3> QED BY <3>1, <3>2, <3>3 DEF Forward
    <2>3. CASE a.run # NoRun /\ Completes(p)
      <3>1. projection.checkpoint <= NextPosition(p) /\ projection.version <= a.version /\ rebuilds[a.run].status = "running"
        BY <2>3 DEF Supersedes, Progresses
      <3>2. projection'.version = a.version /\ projection'.checkpoint = NextPosition(p)
        BY <1>8, <2>3
      <3>3. projection'.checkpoint >= projection.checkpoint /\ projection'.version >= projection.version
        BY <1>1, <1>2, <2>1, <3>1, <3>2
      <3>4. /\ a.run \in Runs /\ rebuilds'[a.run].status = "completed"
            /\ rebuilds'[a.run].projection_version = projection'.version
        BY <1>1, <1>6, <2>3, <3>2
      <3> QED BY <3>1, <3>3, <3>4 DEF Forward
    <2>4. CASE a.run # NoRun /\ ~Completes(p)
      BY <1>8, <2>1, <2>4 DEF Forward
    <2> QED BY <2>2, <2>3, <2>4
  <1> QED BY <1>5, <1>9, <1>10, <1>12, <1>13 DEF ProjectionsIInv, WorkCoherent, LogGrows

\* Every step of project_once(), resume_rebuild() and their transactions.
LEMMA ProjectorStepKeeps ==
  ASSUME ProjectionsIInv, NEW p \in Projectors, Project(p) \/ CommitProjector(p) \/ RollbackProjector(p)
  PROVE  ProjectionsIInv' /\ Forward
  <1>1. CASE ReadAll(p)
    BY <1>1, ReadAllKeeps
  <1>2. CASE Apply(p)
    <2>1. CASE Current(p)
      BY <1>2, <2>1, WorkerWrites DEF Apply
    <2>2. CASE ~Current(p)
      BY <1>2, <2>2, ReturnsKeeps DEF Apply
    <2> QED BY <2>1, <2>2
  <1>3. CASE ApplyInTransaction(p)
    <2>1. CASE Current(p) /\ PageAuthoritative(p)
      <3>1. ~Completes(p) \/ worker[p].run = NoRun
        BY <1>3 DEF ApplyInTransaction
      <3> QED BY <1>3, <2>1, <3>1, BecomesOpen DEF ApplyInTransaction
    <2>2. CASE ~(Current(p) /\ PageAuthoritative(p))
      BY <1>3, <2>2, ReturnsKeeps DEF ApplyInTransaction
    <2> QED BY <2>1, <2>2
  <1>4. CASE AdvanceRebuild(p)
    <2>1. CASE Progresses(p) /\ (Completes(p) => Supersedes(p))
      BY <1>4, <2>1, WorkerWrites DEF AdvanceRebuild
    <2>2. CASE ~(Progresses(p) /\ (Completes(p) => Supersedes(p)))
      BY <1>4, <2>2, ReturnsKeeps DEF AdvanceRebuild
    <2> QED BY <2>1, <2>2
  <1>5. CASE AdvanceRebuildInTransaction(p)
    <2>1. CASE Progresses(p) /\ PageAuthoritative(p) /\ (Completes(p) => Supersedes(p))
      BY <1>5, <2>1, BecomesOpen DEF AdvanceRebuildInTransaction
    <2>2. CASE ~(Progresses(p) /\ PageAuthoritative(p) /\ (Completes(p) => Supersedes(p)))
      BY <1>5, <2>2, ReturnsKeeps DEF AdvanceRebuildInTransaction
    <2> QED BY <2>1, <2>2
  <1>6. CASE CommitProjector(p)
    <2>1. worker[p].stage = "open" /\ OpenWell(p)
      BY <1>6, WorkingFacts DEF CommitProjector
    <2> QED BY <1>6, <2>1, WorkerWrites DEF CommitProjector, OpenWell, LocksProjection
  <1>7. CASE RollbackProjector(p)
    BY <1>7, ReturnsKeeps DEF RollbackProjector
  <1> QED BY <1>1, <1>2, <1>3, <1>4, <1>5, <1>6, <1>7 DEF Project

\* No projection, no rebuild and nobody at work.
LEMMA ProjectionsInitial == Init => ProjectionsIInv
  <1> SUFFICES ASSUME Init PROVE ProjectionsIInv
    OBVIOUS
  <1>1. LogIInv /\ position = 0
    BY LogInitial DEF Init, EventStoreInit
  <1>2. ProjectionsTypeOK
    BY DEF Init, ProjectionsInit, ProjectionsTypeOK
  <1>3. WorkCoherent
    BY DEF Init, ProjectionsInit, WorkCoherent
  <1>4. \A r \in Runs : rebuilds[r].status = "absent"
    BY DEF Init, ProjectionsInit, NoRebuild
  <1>5. projection.checkpoint = 0 /\ projection.state = << >> /\ \A v : Fold(v, 0) = << >>
    BY DEF Init, ProjectionsInit, NoProjection, Fold
  <1> QED BY <1>1, <1>2, <1>3, <1>4, <1>5 DEF ProjectionsIInv, ProjectionExact

\* One case per action of the projectors; the writers keep it by WriterStepKeeps.
LEMMA ProjectionsStep == ProjectionsIInv /\ [Next]_vars => ProjectionsIInv' /\ [Forward]_vars
  <1> SUFFICES ASSUME ProjectionsIInv, [Next]_vars PROVE ProjectionsIInv' /\ [Forward]_vars
    OBVIOUS
  <1>1. CASE UNCHANGED vars
    <2>1. UNCHANGED <<store, events, position, snapshots, writer, projection, rebuilds, worker>>
      BY <1>1 DEF vars
    <2>2. LogIInv'
      BY <2>1, LogUnchanged DEF ProjectionsIInv, logVars
    <2>3. ProjectionsTypeOK' /\ ProjectionExact'
      BY <2>1 DEF ProjectionsIInv, ProjectionsTypeOK, ProjectionExact, Fold
    <2>4. WorkCoherent'
      BY <2>1 DEF ProjectionsIInv, WorkCoherent, Working, LoadedWell, ReadWell, OpenWell, NextPosition, Fold, Current,
                  Progresses, Completes, Supersedes, LocksProjection, ProjectionFree, RunFree
    <2> QED BY <1>1, <2>2, <2>3, <2>4 DEF ProjectionsIInv
  <1> QED BY <1>1, WriterStepKeeps, BeginRebuildKeeps, LoadKeeps, LoadRebuildKeeps, ProjectorStepKeeps DEF Next

\* The live projection and every rebuild is the reduction of exactly the events up to its position,
\* for any projectors, writers, reducer versions, runs and pages of ProjectionRuntime over the memory
\* and the SQL stores: no event is skipped or counted twice.
THEOREM ProjectionExactTheorem == Spec => []ProjectionExact
  <1>1. Init => ProjectionsIInv
    BY ProjectionsInitial
  <1>2. ProjectionsIInv /\ [Next]_vars => ProjectionsIInv'
    BY ProjectionsStep
  <1>3. ProjectionsIInv => ProjectionExact
    BY DEF ProjectionsIInv
  <1> QED BY <1>1, <1>2, <1>3, PTL DEF Spec

\* Neither project_once() nor the last page of a rebuild takes the live projection back, and its
\* version changes only when a rebuild of the newer one completes.
THEOREM NeverBackTheorem == Spec => NeverBack
  <1>1. Init => ProjectionsIInv
    BY ProjectionsInitial
  <1>2. ProjectionsIInv /\ [Next]_vars => ProjectionsIInv' /\ [Forward]_vars
    BY ProjectionsStep
  <1> QED BY <1>1, <1>2, PTL DEF Spec, NeverBack

\* Projectors and rebuilds read the log and never write it: with them the event store is still the
\* one that EventStoreSpec specifies, so what is proved of it holds of the whole.
THEOREM ProjectionsImplementLog == Spec => EventStoreSpec
  <1>1. Init => EventStoreInit
    BY DEF Init
  <1>2. [Next]_vars => [EventStoreNext]_logVars
    <2> SUFFICES ASSUME [Next]_vars PROVE EventStoreNext \/ UNCHANGED logVars
      OBVIOUS
    <2>1. CASE UNCHANGED vars
      BY <2>1 DEF vars, logVars
    <2>2. ASSUME NEW p \in Projectors, Project(p) \/ CommitProjector(p) \/ RollbackProjector(p)
          PROVE  UNCHANGED logVars
      BY <2>2 DEF Project, ReadAll, Apply, ApplyInTransaction, AdvanceRebuild, AdvanceRebuildInTransaction,
                  CommitProjector, RollbackProjector
    <2> QED BY <2>1, <2>2 DEF Next, BeginRebuild, Load, LoadRebuild
  <1> QED BY <1>1, <1>2, PTL DEF Spec, EventStoreSpec
----------------------------------------------------------------------------
\* Possession proofs.

\* What the constants and the parts of a proof are.
LEMMA ProofFacts ==
  /\ MaxAge \in Nat /\ ReplayTtl \in Nat /\ ClockSkew \in Nat /\ MaxPause \in Nat
  /\ ReplayTtl > MaxAge + 2 * ClockSkew + MaxPause
  /\ \A p \in Proofs : p.issued_at \in Int /\ p.id \in ProofIds /\ p.flaw \in Flaws
  BY PossessionAssumption DEF Proofs

\* Time passes, and no thread pauses for longer than MaxPause.
LEMMA TickPausedKeeps ==
  ASSUME PossessionIInv, TickPaused
  PROVE  PossessionIInv'
  <1>1. /\ clock \in Nat /\ clock' = clock + 1 /\ UNCHANGED <<verifier, seen, thread, used, reused>>
        /\ \A t \in Threads : thread[t] # NoProof => clock - thread[t].read < MaxPause
    BY DEF PossessionIInv, TickPaused, Tick
  <1>2. ThreadsCoherent'
    <2> SUFFICES ASSUME NEW t \in Threads, thread[t] # NoProof
                 PROVE  /\ thread[t].read <= clock + 1 /\ clock + 1 - thread[t].read <= MaxPause
      BY <1>1 DEF PossessionIInv, ThreadsCoherent, InWindow
    <2>1. thread[t].read \in Nat /\ thread[t].read <= clock /\ clock - thread[t].read < MaxPause
      BY <1>1 DEF PossessionIInv, ThreadsCoherent
    <2> QED BY <1>1, <2>1, ProofFacts
  <1>3. UsedSeen'
    <2> SUFFICES ASSUME NEW p \in used, clock > LastReserve(p) PROVE clock + 1 > LastReserve(p)
      BY <1>1 DEF PossessionIInv, UsedSeen, LastReserve
    <2>1. LastReserve(p) \in Int
      BY ProofFacts DEF LastReserve, PossessionIInv
    <2> QED BY <1>1, <2>1
  <1> QED BY <1>1, <1>2, <1>3 DEF PossessionIInv, ProofOnce

\* A check is made in the window.
LEMMA CheckKeeps ==
  ASSUME PossessionIInv, NEW t \in Threads, NEW p \in Proofs, CheckDPoP(t, p) \/ CheckSignature(t, p)
  PROVE  PossessionIInv'
  <1> DEFINE new == [pc |-> "checked", proof |-> p, read |-> clock]
  <1>1. /\ thread' = [thread EXCEPT ![t] = new] /\ UNCHANGED <<clock, seen, used, reused>>
        /\ InWindow(p, clock) /\ p.flaw \in {"none", "digest"}
    BY ProofFacts DEF CheckDPoP, CheckSignature, CompactProof, SignedProof, BoundToRequest, DigestMatches,
                      BackendVerifies, PolicyHolds, Flaws
  <1>2. new.pc = "checked" /\ new.proof = p /\ new.read = clock
    OBVIOUS
  <1> HIDE DEF new
  <1>3. clock \in Nat /\ clock <= clock /\ clock - clock <= MaxPause
    BY ProofFacts DEF PossessionIInv
  <1>4. ThreadsCoherent'
    <2> SUFFICES ASSUME NEW u \in Threads
                 PROVE  \/ thread'[u] = NoProof
                        \/ /\ thread'[u].pc = "checked" /\ thread'[u].proof \in Proofs
                           /\ thread'[u].proof.flaw \in {"none", "digest"}
                           /\ thread'[u].read \in Nat /\ thread'[u].read <= clock
                           /\ clock - thread'[u].read <= MaxPause
                           /\ InWindow(thread'[u].proof, thread'[u].read)
      BY <1>1 DEF ThreadsCoherent, InWindow
    <2>1. CASE u = t
      BY <1>1, <1>2, <1>3, <2>1 DEF PossessionIInv
    <2>2. CASE u # t
      BY <1>1, <2>2 DEF PossessionIInv, ThreadsCoherent
    <2> QED BY <2>1, <2>2
  <1>5. UsedSeen'
    BY <1>1 DEF PossessionIInv, UsedSeen, LastReserve
  <1> QED BY <1>1, <1>4, <1>5 DEF PossessionIInv, ProofOnce

\* A purge drops what has expired, which nobody may come to reserve any more.
LEMMA PurgeSeenKeeps ==
  ASSUME PossessionIInv, NEW cutoff \in 0..clock, PurgeSeen(cutoff)
  PROVE  PossessionIInv'
  <1>1. /\ UNCHANGED <<clock, verifier, thread, used, reused>> /\ clock \in Nat
        /\ cutoff \in Int /\ cutoff <= clock
        /\ \A i \in DOMAIN seen' : i \in DOMAIN seen /\ seen'[i] = seen[i]
        /\ \A i \in DOMAIN seen : seen[i] > cutoff => i \in DOMAIN seen'
    BY DEF PossessionIInv, PurgeSeen
  <1>2. ThreadsCoherent'
    BY <1>1 DEF PossessionIInv, ThreadsCoherent, InWindow
  <1>3. UsedSeen'
    <2> SUFFICES ASSUME NEW p \in used
                 PROVE  clock > LastReserve(p) \/ (p.id \in DOMAIN seen' /\ seen'[p.id] > LastReserve(p))
      BY <1>1 DEF UsedSeen, LastReserve
    <2>1. LastReserve(p) \in Int
      BY ProofFacts DEF LastReserve, PossessionIInv
    <2>2. clock > LastReserve(p) \/ (p.id \in DOMAIN seen /\ seen[p.id] > LastReserve(p) /\ seen[p.id] \in Int)
      BY DEF PossessionIInv, UsedSeen
    <2> QED BY <1>1, <2>1, <2>2
  <1>4. ProofOnce'
    BY <1>1 DEF PossessionIInv, ProofOnce
  <1> QED BY <1>1, <1>2, <1>3, <1>4 DEF PossessionIInv

\* An identity that is reserved is new to the store, and its proof was not used before: a used
\* one is still seen.
LEMMA ReserveProofKeeps ==
  ASSUME PossessionIInv, NEW t \in Threads, ReserveProof(t)
  PROVE  PossessionIInv'
  <1> DEFINE p == thread[t].proof
             now == ReserveAt(t)
             live == {i \in DOMAIN seen : seen[i] > now}
             free == p.id \notin live /\ Cardinality(live) < ProofCapacity
  <1>1. /\ thread[t].pc = "checked" /\ clock' = clock /\ verifier' = verifier
        /\ seen' = [i \in live \cup (IF free THEN {p.id} ELSE {}) |-> IF i \in live THEN seen[i] ELSE now + ReplayTtl]
        /\ used' = IF free THEN used \cup {p} ELSE used
        /\ reused' = IF free /\ p \in used THEN reused \cup {p} ELSE reused
        /\ thread' = [thread EXCEPT ![t] = NoProof]
    BY DEF ReserveProof
  <1>2. clock \in Nat /\ DOMAIN thread = Threads /\ used \subseteq Proofs /\ ProofOnce /\ UsedSeen /\ ThreadsCoherent
        /\ \A i \in DOMAIN seen : seen[i] \in Int
    BY DEF PossessionIInv
  <1>3. /\ p \in Proofs /\ p.flaw \in {"none", "digest"} /\ InWindow(p, thread[t].read)
        /\ thread[t].read \in Nat /\ thread[t].read <= clock /\ clock - thread[t].read <= MaxPause
    <2>1. thread[t] # NoProof
      BY <1>1 DEF NoProof
    <2> QED BY <1>2, <2>1 DEF ThreadsCoherent
  <1>4. now \in Nat /\ thread[t].read <= now /\ now <= clock
    BY <1>2, <1>3 DEF ReserveAt
  <1>5. p.issued_at \in Int /\ LastReserve(p) \in Int /\ clock <= LastReserve(p) /\ now + ReplayTtl > LastReserve(p)
    BY <1>2, <1>3, <1>4, ProofFacts DEF LastReserve, InWindow
  <1> HIDE DEF p, now
  <1>6. p \in used => p.id \in live
    BY <1>2, <1>4, <1>5 DEF UsedSeen
  <1>7. reused' = {}
    BY <1>1, <1>2, <1>6 DEF ProofOnce
  <1>8. /\ live \subseteq DOMAIN seen /\ \A i \in live : i \in DOMAIN seen' /\ seen'[i] = seen[i]
        /\ free => p.id \in DOMAIN seen' /\ seen'[p.id] = now + ReplayTtl
        /\ \A i \in DOMAIN seen' : i \in live \/ (free /\ i = p.id)
        /\ \A i \in DOMAIN seen : i \notin live => ~(seen[i] > now)
    BY <1>1
  <1> HIDE DEF live, free
  <1>9. \A i \in DOMAIN seen' : seen'[i] \in Int
    <2>1. now + ReplayTtl \in Int
      BY <1>4, ProofFacts
    <2> QED BY <1>2, <1>8, <2>1
  <1>10. ThreadsCoherent'
    <2> SUFFICES ASSUME NEW u \in Threads, thread'[u] # NoProof
                 PROVE  thread'[u] = thread[u]
      BY <1>1, <1>2 DEF ThreadsCoherent, InWindow
    <2> QED BY <1>1, <1>2
  <1>11. UsedSeen'
    <2> SUFFICES ASSUME NEW q \in used'
                 PROVE  clock > LastReserve(q) \/ (q.id \in DOMAIN seen' /\ seen'[q.id] > LastReserve(q))
      BY <1>1 DEF UsedSeen, LastReserve
    <2>1. CASE q \in used
      <3>1. LastReserve(q) \in Int
        BY <1>2, <2>1, ProofFacts DEF LastReserve
      <3>2. clock > LastReserve(q) \/ (q.id \in DOMAIN seen /\ seen[q.id] > LastReserve(q) /\ seen[q.id] \in Int)
        BY <1>2, <2>1 DEF UsedSeen
      <3>3. CASE q.id \in DOMAIN seen /\ seen[q.id] > LastReserve(q) /\ q.id \notin live
        BY <1>2, <1>4, <1>8, <3>1, <3>3
      <3> QED BY <1>8, <3>2, <3>3
    <2>2. CASE q = p /\ free
      BY <1>5, <1>8, <2>2
    <2> QED BY <1>1, <2>1, <2>2
  <1>12. \A i \in DOMAIN seen' : \E q \in used' : q.id = i /\ q.flaw \in {"none", "digest"}
    <2> SUFFICES ASSUME NEW i \in DOMAIN seen' PROVE \E q \in used' : q.id = i /\ q.flaw \in {"none", "digest"}
      OBVIOUS
    <2>1. used \subseteq used' /\ (free => p \in used')
      BY <1>1
    <2>2. CASE i \in live
      BY <1>2, <1>8, <2>1, <2>2 DEF ProofOnce
    <2>3. CASE free /\ i = p.id
      BY <1>3, <2>1, <2>3 DEF p
    <2> QED BY <1>8, <2>2, <2>3
  <1>13. used' \subseteq Proofs /\ DOMAIN thread' = Threads
    BY <1>1, <1>2, <1>3 DEF p
  <1> QED BY <1>1, <1>2, <1>7, <1>9, <1>10, <1>11, <1>12, <1>13 DEF PossessionIInv, ProofOnce

\* A proof is accepted once whatever threads verify it at whatever pace, by DPoPVerifier and by
\* HttpMessageSignatureVerifier, because the replay store sees its identity until nobody can
\* come to reserve it again; and a rejected proof takes nothing from the store.
THEOREM ProofOnceTheorem == PossessionSpec => []ProofOnce
  <1>1. PossessionInit => PossessionIInv
    BY DEF PossessionInit, PossessionIInv, ThreadsCoherent, UsedSeen, ProofOnce
  <1>2. PossessionIInv /\ [PossessionNext]_possessionVars => PossessionIInv'
    <2> SUFFICES ASSUME PossessionIInv, [PossessionNext]_possessionVars PROVE PossessionIInv'
      OBVIOUS
    <2>1. CASE UNCHANGED possessionVars
      BY <2>1 DEF possessionVars, PossessionIInv, ThreadsCoherent, UsedSeen, ProofOnce, LastReserve, InWindow
    <2> QED BY <2>1, TickPausedKeeps, CheckKeeps, ReserveProofKeeps, PurgeSeenKeeps DEF PossessionNext
  <1>3. PossessionIInv => ProofOnce
    BY DEF PossessionIInv
  <1> QED BY <1>1, <1>2, <1>3, PTL DEF PossessionSpec

----------------------------------------------------------------------------
\* Transports.

\* What was answered is so.
Answered(a) == (a.answer = "confirmed" => a.stored) /\ (a.answer = "retryable" => a.heard)

\* An SQS delivery that is settled has been deleted at the broker.
SettledThere(d) ==
    /\ DOMAIN d = {"message", "receipt", "settled", "landed"}
    /\ transport = "aws" => (d.settled => d.landed \cap {"ack", "terminate"} # {})

InLane(calls, lane) == {sent \in calls : Lane(sent.op) = lane}

PermitsExact == \A lane \in {"bus", "queue"} : permits[lane] + Cardinality(InLane(running, lane)) = MaxConcurrency

\* TransportsIInv by its parts.
LEMMA TransportParts ==
  TransportsIInv <=> /\ TransportsTypeOK /\ (\A a \in answers : Answered(a))
                     /\ (\A t \in Tasks : SettledThere(delivery[t]))
                     /\ (transport = "aws" => PermitsExact)
  BY DEF TransportsIInv, TransportsTypeOK, TransportExact, Answered, SettledThere, InLane, PermitsExact

\* What a step may do to the calls: nothing, one more, or one less; the permits follow.
Calling ==
    \/ UNCHANGED <<running, made, permits>>
    \/ \E new : /\ new.id = made + 1 /\ new.task \in Tasks
                /\ running' = running \cup {new} /\ made' = made + 1
                /\ \/ permits' = [permits EXCEPT ![Lane(new.op)] = @ - 1]
                   \/ transport # "aws" /\ permits' = permits
    \/ \E sent \in running : Leave(sent) /\ made' = made

\* A call that begins takes one permit and a fresh identity, and one that ends returns one.
LEMMA CallingKeeps ==
  ASSUME TransportsTypeOK, transport' = transport, transport = "aws" => PermitsExact, Calling
  PROVE  /\ made' \in Nat /\ IsFiniteSet(running)' /\ permits' \in [{"bus", "queue"} -> Int]
         /\ \A sent \in running' : sent.id \in 1..made' /\ sent.task \in Tasks
         /\ transport = "aws" => PermitsExact'
  <1>1. /\ made \in Nat /\ IsFiniteSet(running) /\ permits \in [{"bus", "queue"} -> Int]
        /\ \A sent \in running : sent.id \in 1..made /\ sent.task \in Tasks
        /\ MaxConcurrency \in Nat
    BY TransportsAssumption DEF TransportsTypeOK
  <1>2. \A op : Lane(op) \in {"bus", "queue"}
    BY DEF Lane
  <1>3. \A lane : IsFiniteSet(InLane(running, lane)) /\ Cardinality(InLane(running, lane)) \in Nat
    <2> TAKE lane
    <2>1. InLane(running, lane) \subseteq running
      BY DEF InLane
    <2> QED BY <1>1, <2>1, FS_Subset, FS_CardinalityType
  <1>4. CASE UNCHANGED <<running, made, permits>>
    BY <1>1, <1>4 DEF PermitsExact
  <1>5. ASSUME NEW new, new.id = made + 1, new.task \in Tasks, running' = running \cup {new}, made' = made + 1,
               \/ permits' = [permits EXCEPT ![Lane(new.op)] = @ - 1]
               \/ transport # "aws" /\ permits' = permits
        PROVE  /\ made' \in Nat /\ IsFiniteSet(running)' /\ permits' \in [{"bus", "queue"} -> Int]
               /\ \A sent \in running' : sent.id \in 1..made' /\ sent.task \in Tasks
               /\ transport = "aws" => PermitsExact'
    <2>1. new \notin running
      BY <1>1, <1>5
    <2>2. made' \in Nat /\ \A sent \in running' : sent.id \in 1..made' /\ sent.task \in Tasks
      BY <1>1, <1>5
    <2>3. IsFiniteSet(running')
      BY <1>1, <1>5, FS_AddElement
    <2>4. permits' \in [{"bus", "queue"} -> Int]
      BY <1>1, <1>2, <1>5
    <2>5. ASSUME transport = "aws", NEW lane \in {"bus", "queue"}
          PROVE  permits'[lane] + Cardinality(InLane(running', lane)) = MaxConcurrency
      <3>1. permits[lane] + Cardinality(InLane(running, lane)) = MaxConcurrency /\ permits[lane] \in Int
        BY <1>1, <2>5 DEF PermitsExact
      <3>2. CASE Lane(new.op) = lane
        <4>1. InLane(running', lane) = InLane(running, lane) \cup {new} /\ new \notin InLane(running, lane)
          BY <1>5, <2>1, <3>2 DEF InLane
        <4>2. Cardinality(InLane(running', lane)) = Cardinality(InLane(running, lane)) + 1
          BY <1>3, <4>1, FS_AddElement
        <4>3. permits'[lane] = permits[lane] - 1
          BY <1>1, <1>5, <2>5, <3>2
        <4>4. Cardinality(InLane(running, lane)) \in Nat
          BY <1>3
        <4> QED BY <1>1, <3>1, <4>2, <4>3, <4>4
      <3>3. CASE Lane(new.op) # lane
        <4>1. InLane(running', lane) = InLane(running, lane)
          BY <1>5, <3>3 DEF InLane
        <4>2. permits'[lane] = permits[lane]
          BY <1>1, <1>5, <2>5, <3>3
        <4> QED BY <3>1, <4>1, <4>2
      <3> QED BY <3>2, <3>3
    <2> QED BY <2>2, <2>3, <2>4, <2>5 DEF PermitsExact
  <1>6. ASSUME NEW sent \in running, Leave(sent), made' = made
        PROVE  /\ made' \in Nat /\ IsFiniteSet(running)' /\ permits' \in [{"bus", "queue"} -> Int]
               /\ \A other \in running' : other.id \in 1..made' /\ other.task \in Tasks
               /\ transport = "aws" => PermitsExact'
    <2>1. /\ running' = running \ {sent}
          /\ permits' = IF transport = "aws" THEN [permits EXCEPT ![Lane(sent.op)] = @ + 1] ELSE permits
      BY <1>6 DEF Leave
    <2>2. IsFiniteSet(running')
      BY <1>1, <2>1, FS_RemoveElement
    <2>3. permits' \in [{"bus", "queue"} -> Int]
      BY <1>1, <1>2, <2>1
    <2>4. ASSUME transport = "aws", NEW lane \in {"bus", "queue"}
          PROVE  permits'[lane] + Cardinality(InLane(running', lane)) = MaxConcurrency
      <3>1. permits[lane] + Cardinality(InLane(running, lane)) = MaxConcurrency /\ permits[lane] \in Int
        BY <1>1, <2>4 DEF PermitsExact
      <3>2. CASE Lane(sent.op) = lane
        <4>1. InLane(running', lane) = InLane(running, lane) \ {sent} /\ sent \in InLane(running, lane)
          BY <1>6, <2>1, <3>2 DEF InLane
        <4>2. Cardinality(InLane(running', lane)) = Cardinality(InLane(running, lane)) - 1
          BY <1>3, <4>1, FS_RemoveElement
        <4>3. permits'[lane] = permits[lane] + 1
          BY <1>1, <2>1, <2>4, <3>2
        <4>4. Cardinality(InLane(running, lane)) \in Nat
          BY <1>3
        <4> QED BY <1>1, <3>1, <4>2, <4>3, <4>4
      <3>3. CASE Lane(sent.op) # lane
        <4>1. InLane(running', lane) = InLane(running, lane)
          BY <2>1, <3>3 DEF InLane
        <4>2. permits'[lane] = permits[lane]
          BY <1>1, <2>1, <2>4, <3>3
        <4> QED BY <3>1, <4>1, <4>2
      <3> QED BY <3>2, <3>3
    <2> QED BY <1>1, <1>6, <2>1, <2>2, <2>3, <2>4 DEF PermitsExact
  <1> QED BY <1>4, <1>5, <1>6 DEF Calling

\* Submitting a call, with the permit it was given.
LEMMA SubmitCalling ==
  ASSUME TransportsTypeOK, NEW t \in Tasks, NEW op, Submit(t, op),
         \/ permits' = [permits EXCEPT ![Lane(op)] = @ - 1]
         \/ transport # "aws" /\ permits' = permits
  PROVE  Calling
  <1> DEFINE new == [id |-> made + 1, op |-> op, task |-> t, of |-> delivery[t]]
  <1>1. new.id = made + 1 /\ new.task = t /\ new.op = op
    OBVIOUS
  <1>2. running' = running \cup {new} /\ made' = made + 1
    BY DEF Submit, Submitted
  <1> HIDE DEF new
  <1> QED BY <1>1, <1>2 DEF Calling

\* An operation that starts waits for a permit, or is at the broker at once.
LEMMA StartCalling ==
  ASSUME TransportsTypeOK, NEW t \in Tasks, NEW op, Start(t, op)
  PROVE  Calling /\ UNCHANGED <<transport, delivery, answers>>
  <1>1. CASE transport = "aws"
    BY <1>1 DEF Start, Calling
  <1>2. CASE transport # "aws"
    BY <1>2, SubmitCalling DEF Start
  <1> QED BY <1>1, <1>2 DEF Start

\* The answers a step adds are so: a refusal, or what the publisher makes of an ending.
LEMMA EndingAnswered ==
  ASSUME TransportsTypeOK, NEW ending \in Endings
  PROVE  Answered(Answer(ending))
  <1> DEFINE heard == ending.heard
             stored == ending.stored
             answer == Classified(ending.kind)
             a == [answer |-> answer, heard |-> heard, stored |-> stored]
  <1>1. \/ ending.kind = "acknowledged" /\ stored = TRUE
        \/ ending.kind \in {"anonymous", "unnamed", "internal", "throttled", "no_responders", "refused"} /\ heard = TRUE
        \/ ending.kind \in {"timeout", "connection", "unknown"}
        \/ ending.kind = "unavailable" /\ (transport = "aws" => heard = TRUE)
    <2>1. CASE ending \in {[kind |-> "acknowledged", heard |-> TRUE, stored |-> TRUE]}
      BY <2>1
    <2>2. CASE ending \in [kind : {"anonymous", "unnamed", "internal"}, heard : {TRUE}, stored : BOOLEAN]
      BY <2>2
    <2>3. CASE ending \in [kind : {"throttled", "no_responders", "refused"}, heard : {TRUE}, stored : {FALSE}]
      BY <2>3
    <2>4. CASE ending \in [kind : {"timeout", "connection", "unknown"}, heard : {FALSE}, stored : BOOLEAN]
      BY <2>4
    <2>5. CASE ending \in [kind : {"unavailable"}, heard : {transport = "aws"}, stored : BOOLEAN]
      BY <2>5
    <2> QED BY <2>1, <2>2, <2>3, <2>4, <2>5 DEF Endings
  <1>2. /\ answer = "confirmed" => ending.kind = "acknowledged"
        /\ ending.kind = "acknowledged" => answer = "confirmed"
        /\ ending.kind \in {"timeout", "connection"} => answer = "uncertain"
        /\ ending.kind = "unknown" => answer = "rejected"
        /\ ending.kind = "unavailable" => answer = IF transport = "aws" THEN "retryable" ELSE "uncertain"
    BY DEF Classified, ClassifiedAws, ClassifiedNats
  <1>3. a.answer = answer /\ a.heard = heard /\ a.stored = stored
    OBVIOUS
  <1>4. a = Answer(ending)
    BY DEF Answer
  <1> HIDE DEF answer, heard, stored, a
  <1>5. Answered(a)
    BY <1>1, <1>2, <1>3 DEF Answered
  <1> QED BY <1>4, <1>5

\* Every answer is so.
LEMMA AnswersKept ==
  ASSUME TransportsTypeOK, \A a \in answers : Answered(a), [TransportsNext]_transportVars
  PROVE  \A a \in answers' : Answered(a)
  <1>1. Answered(NeverSent)
    BY DEF Answered, NeverSent
  <1>2. ASSUME NEW sent, NEW ending \in Endings, PublishEnds(sent, ending) PROVE \A a \in answers' : Answered(a)
    BY <1>2, EndingAnswered DEF PublishEnds
  <1>3. CASE answers' = answers
    BY <1>3
  <1>4. ASSUME NEW t, CallRefused(t) \/ PublishRefused(t) PROVE \A a \in answers' : Answered(a)
    BY <1>1, <1>4 DEF CallRefused, PublishRefused
  <1> QED BY <1>2, <1>3, <1>4 DEF TransportsNext, transportVars, Call, Cancel, Publish, Receive, Ack, Terminate,
       Retry, Drop, Handle, ReceiveEnds, ReceiveFails, SettleEnds, Redeliver, Start

\* What a step makes of the deliveries.
LEMMA DeliveriesKept ==
  ASSUME TransportsTypeOK, \A t \in Tasks : SettledThere(delivery[t]), [TransportsNext]_transportVars
  PROVE  DOMAIN delivery' = Tasks /\ \A t \in Tasks : SettledThere(delivery'[t])
  <1>1. DOMAIN delivery = Tasks /\ \A sent \in running : sent.task \in Tasks
    BY DEF TransportsTypeOK
  <1>2. DOMAIN NoDelivery = {"message", "receipt", "settled", "landed"} /\ NoDelivery.settled = FALSE
    BY DEF NoDelivery
  <1>3. CASE delivery' = delivery
    BY <1>1, <1>3
  <1>4. ASSUME NEW t \in Tasks, NEW d, delivery' = [delivery EXCEPT ![t] = d], SettledThere(d)
        PROVE  DOMAIN delivery' = Tasks /\ \A u \in Tasks : SettledThere(delivery'[u])
    BY <1>1, <1>4
  <1>5. ASSUME NEW m, NEW receipt
        PROVE  SettledThere([NoDelivery EXCEPT !.message = m, !.receipt = receipt])
    BY <1>2 DEF SettledThere
  <1>6. ASSUME NEW t \in Tasks, NEW m, Handle(t, m)
        PROVE  DOMAIN delivery' = Tasks /\ \A u \in Tasks : SettledThere(delivery'[u])
    BY <1>4, <1>5, <1>6 DEF Handle
  <1>7. ASSUME NEW t \in Tasks, Drop(t)
        PROVE  DOMAIN delivery' = Tasks /\ \A u \in Tasks : SettledThere(delivery'[u])
    <2>1. SettledThere(NoDelivery)
      BY <1>2 DEF SettledThere
    <2> QED BY <1>4, <1>7, <2>1 DEF Drop
  <1>8. ASSUME NEW sent \in running, NEW m, ReceiveEnds(sent, m)
        PROVE  DOMAIN delivery' = Tasks /\ \A u \in Tasks : SettledThere(delivery'[u])
    BY <1>1, <1>3, <1>4, <1>5, <1>8 DEF ReceiveEnds
  <1>9. ASSUME NEW sent \in running, NEW ok \in BOOLEAN, SettleEnds(sent, ok)
        PROVE  DOMAIN delivery' = Tasks /\ \A u \in Tasks : SettledThere(delivery'[u])
    <2> DEFINE t == sent.task
               d == delivery[t]
    <2>1. PICK landed \in (IF ok /\ transport = "aws" THEN {TRUE} ELSE BOOLEAN) :
            delivery' = [delivery EXCEPT ![t] = AfterCall(d, sent, landed, ok)]
      BY <1>9 DEF SettleEnds
    <2> DEFINE e == [d EXCEPT !.landed = IF landed THEN @ \cup {sent.op} ELSE @,
                              !.settled = @ \/ (ok /\ StillAwaited(sent) /\ SettledBy(sent.op))]
    <2>2. /\ DOMAIN d = {"message", "receipt", "settled", "landed"}
          /\ transport = "aws" => (d.settled => d.landed \cap {"ack", "terminate"} # {})
      BY <1>1 DEF SettledThere
    <2>3. /\ DOMAIN e = DOMAIN d
          /\ e.landed = IF landed THEN d.landed \cup {sent.op} ELSE d.landed
          /\ e.settled => d.settled \/ (ok /\ SettledBy(sent.op))
      BY <2>2
    <2>4. transport = "aws" /\ SettledBy(sent.op) => sent.op \in {"ack", "terminate"}
      BY DEF SettledBy
    <2>5. AfterCall(d, sent, landed, ok) \in {d, e}
      BY DEF AfterCall
    <2> HIDE DEF e
    <2>6. SettledThere(d) /\ SettledThere(e)
      BY <2>1, <2>2, <2>3, <2>4 DEF SettledThere
    <2> QED BY <1>1, <1>4, <2>1, <2>5, <2>6
  <1> QED BY <1>3, <1>6, <1>7, <1>8, <1>9 DEF TransportsNext, transportVars, Call, Cancel, Publish, Receive, Ack,
       Terminate, CallRefused, PublishRefused, PublishEnds, Retry, ReceiveFails, Redeliver, Start

\* What each action does to the calls and the permits.
LEMMA TransportsCalling ==
  ASSUME TransportsTypeOK, [TransportsNext]_transportVars
  PROVE  Calling /\ transport' = transport
  <1>1. ASSUME NEW t \in Tasks, Call(t) PROVE Calling /\ transport' = transport
    <2>1. Submit(t, task[t].op) /\ permits' = [permits EXCEPT ![Lane(task[t].op)] = @ - 1] /\ transport' = transport
      BY <1>1 DEF Call
    <2> QED BY <2>1, SubmitCalling
  <1>2. ASSUME NEW t \in Tasks, Publish(t) \/ Receive(t) \/ Ack(t) \/ Terminate(t) \/ Retry(t)
        PROVE  Calling /\ transport' = transport
    BY <1>2, StartCalling DEF Publish, Receive, Ack, Terminate, Retry
  <1>3. ASSUME NEW sent \in running, Leave(sent), made' = made, transport' = transport
        PROVE  Calling /\ transport' = transport
    BY <1>3 DEF Calling
  <1>4. ASSUME UNCHANGED <<running, made, permits, transport>> PROVE Calling /\ transport' = transport
    BY <1>4 DEF Calling
  <1> QED BY <1>1, <1>2, <1>3, <1>4 DEF TransportsNext, transportVars, CallRefused, Cancel, PublishRefused, Drop,
       Handle, PublishEnds, ReceiveEnds, ReceiveFails, SettleEnds, Redeliver

\* A confirmed publication is stored and a retryable one was answered by its bus, an SQS delivery
\* that refuses further settlements has been deleted, and a permit comes back once, also after a
\* cancellation: for EventBridge and SQS, JetStream and FastStream, and any tasks, messages and
\* concurrency.
THEOREM TransportExactTheorem == TransportsSpec => []TransportExact
  <1>1. TransportsInit => TransportsIInv
    <2> SUFFICES ASSUME TransportsInit PROVE TransportsIInv
      OBVIOUS
    <2>1. DOMAIN NoDelivery = {"message", "receipt", "settled", "landed"} /\ NoDelivery.settled = FALSE
      BY DEF NoDelivery
    <2>2. TransportsTypeOK
      BY <2>1, TransportsAssumption, FS_EmptySet DEF TransportsInit, TransportsTypeOK
    <2>3. \A t \in Tasks : SettledThere(delivery[t])
      BY <2>1 DEF TransportsInit, SettledThere
    <2>4. PermitsExact
      <3>1. \A lane : InLane(running, lane) = {}
        BY DEF TransportsInit, InLane
      <3>2. \A lane \in {"bus", "queue"} : permits[lane] = MaxConcurrency /\ MaxConcurrency \in Nat
        BY TransportsAssumption DEF TransportsInit
      <3>3. Cardinality({}) = 0
        BY FS_EmptySet
      <3> QED BY <3>1, <3>2, <3>3 DEF PermitsExact
    <2> QED BY <2>2, <2>3, <2>4, TransportParts DEF TransportsInit
  <1>2. TransportsIInv /\ [TransportsNext]_transportVars => TransportsIInv'
    <2> SUFFICES ASSUME TransportsIInv, [TransportsNext]_transportVars PROVE TransportsIInv'
      OBVIOUS
    <2>1. /\ TransportsTypeOK /\ (\A a \in answers : Answered(a))
          /\ (\A t \in Tasks : SettledThere(delivery[t]))
          /\ (transport = "aws" => PermitsExact)
      BY TransportParts
    <2>2. Calling /\ transport' = transport
      BY <2>1, TransportsCalling
    <2>3. /\ made' \in Nat /\ IsFiniteSet(running)' /\ permits' \in [{"bus", "queue"} -> Int]
          /\ \A sent \in running' : sent.id \in 1..made' /\ sent.task \in Tasks
          /\ transport = "aws" => PermitsExact'
      BY <2>1, <2>2, CallingKeeps
    <2>4. \A a \in answers' : Answered(a)
      BY <2>1, AnswersKept
    <2>5. DOMAIN delivery' = Tasks /\ \A t \in Tasks : SettledThere(delivery'[t])
      BY <2>1, DeliveriesKept
    <2>6. \A t \in Tasks : SettledThere(delivery[t])'
      BY <2>2, <2>5 DEF SettledThere
    <2>7. TransportsTypeOK'
      BY <2>1, <2>2, <2>3, <2>5 DEF TransportsTypeOK, SettledThere
    <2>8. \A a \in answers' : Answered(a)'
      BY <2>4 DEF Answered
    <2>9. TransportExact'
      BY <2>2, <2>3, <2>6, <2>8 DEF TransportExact, Answered, SettledThere, PermitsExact, InLane
    <2> QED BY <2>7, <2>9 DEF TransportsIInv
  <1>3. TransportsIInv => TransportExact
    BY DEF TransportsIInv
  <1> QED BY <1>1, <1>2, <1>3, PTL DEF TransportsSpec

----------------------------------------------------------------------------
\* Reservations in one transaction.

\* Sequences of grants that can be indexed.
LEMMA GrantSequence ==
    ASSUME NEW G \in Seq(Grants)
    PROVE  /\ DOMAIN G = 1..Len(G) /\ Len(G) \in Nat
           /\ \A k \in DOMAIN G : /\ k \in Nat /\ k # 0 /\ G[k] \in Grants /\ G[k].id \in Identities
                                  /\ G[k].until \in Nat /\ G[k].status \in Statuses
                                  /\ G[k].late = FALSE
  <1>1. DOMAIN G = 1..Len(G) /\ Len(G) \in Nat
    OBVIOUS
  <1>2. \A k \in DOMAIN G : k \in Nat /\ k # 0 /\ G[k] \in Grants
    BY <1>1
  <1>3. \A g \in Grants : /\ g.id \in Identities /\ g.until \in Nat /\ g.status \in Statuses
                           /\ g.late = FALSE
    BY DEF Grants
  <1> QED BY <1>1, <1>2, <1>3

\* Time only ends grants.
LEMMA CoherentLater ==
    ASSUME NEW t, NEW now \in Nat, NEW later \in Nat, now <= later, NEW has, NEW i, NEW row,
           NEW G, \A k \in DOMAIN G : G[k].until \in Nat,
           Coherent(t, now, has, i, row, G)
    PROVE  Coherent(t, later, has, i, row, G)
  <1>1. \A k \in DOMAIN G : Active(G[k], later) => Active(G[k], now)
    BY DEF Active
  <1> QED BY <1>1 DEF Coherent

\* What does not touch the grants of an identity, apart from adding undone ones, keeps them
\* coherent with its row; nor does it matter what becomes of callers with other grants.
LEMMA CoherentFrame ==
    ASSUME NEW t, NEW now, NEW has, NEW has2, NEW i, NEW row, NEW G, NEW H,
           DOMAIN has2 = DOMAIN has, DOMAIN G \subseteq DOMAIN H,
           \A j \in DOMAIN G : H[j].id = G[j].id /\ (G[j].id = i => H[j] = G[j]),
           \A j \in DOMAIN H \ DOMAIN G : H[j].id = i => H[j].status = "void",
           \A s \in DOMAIN has : HasGrant(has2[s], i, H) =>
               has2[s].index = has[s].index /\ has2[s].token = has[s].token,
           Coherent(t, now, has, i, row, G)
    PROVE  Coherent(t, now, has2, i, row, H)
  <1>1. \A k \in DOMAIN H : H[k].id = i /\ H[k].status # "void" =>
            k \in DOMAIN G /\ G[k] = H[k] /\ G[k].id = i
    OBVIOUS
  <1>2. \A k : Newest(i, G, k) => Newest(i, H, k)
    BY <1>1 DEF Newest
  <1>3. \A k \in DOMAIN H : H[k].id = i /\ Active(H[k], now) => Newest(i, H, k) /\ Backs(t, row, H[k])
    BY <1>1, <1>2 DEF Coherent, Active
  <1>4. ASSUME NEW s \in DOMAIN has2, HasGrant(has2[s], i, H)
        PROVE  /\ t = "lease" => row.state # "absent" /\ has2[s].token <= row.token
               /\ row.token = has2[s].token /\ row.state = "reserved" => Newest(i, H, has2[s].index)
    <2>1. HasGrant(has[s], i, G)
      BY <1>1, <1>4 DEF HasGrant
    <2> QED BY <2>1, <1>2, <1>4 DEF Coherent
  <1>5. t = "outbox" /\ row.token # 0 => row.state = "reserved"
    BY DEF Coherent
  <1>6. t = "relay" /\ row.state = "uncertain" =>
            /\ row.born \in DOMAIN H /\ H[row.born].id = i /\ H[row.born].status # "void"
            /\ Newest(i, H, row.born)
    BY <1>1, <1>2 DEF Coherent
  <1> QED BY <1>3, <1>4, <1>5, <1>6 DEF Coherent

\* A row that reserves nothing is coherent with grants that all have ended.
LEMMA CoherentIdle ==
    ASSUME NEW t, NEW now, NEW has, NEW i, NEW row, NEW G,
           t # "lease", row.state \in {"absent", "free"}, row.token = 0,
           \A k \in DOMAIN G : G[k].id = i => ~Active(G[k], now)
    PROVE  Coherent(t, now, has, i, row, G)
  BY DEF Coherent

\* A new grant, of an identity whose grants have all ended.
LEMMA CoherentGrant ==
    ASSUME NEW t, NEW now, NEW has, NEW has2, NEW i \in Identities, NEW row, NEW G \in Seq(Grants),
           NEW g \in Grants, NEW s \in DOMAIN has, NEW h,
           DOMAIN has2 = DOMAIN has, has2[s] = h, \A o \in DOMAIN has \ {s} : has2[o] = has[o],
           h.index \in {0, Len(G) + 1}, \A o \in DOMAIN has : has[o].index # Len(G) + 1,
           g.id = i, g.status = "live", g.until = row.until, row.state = "reserved",
           \A o \in DOMAIN has : HasGrant(has[o], i, G) => has[o].token \in Nat /\ has[o].token # row.token,
           t = "lease" => /\ row.token \in Nat /\ h.token = row.token
                          /\ \A o \in DOMAIN has : HasGrant(has[o], i, G) => has[o].token <= row.token,
           \A k \in DOMAIN G : G[k].id = i => ~Active(G[k], now)
    PROVE  Coherent(t, now, has2, i, row, Append(G, g))
  <1> DEFINE H == Append(G, g)
             n == Len(G) + 1
  <1>1. /\ DOMAIN H = 1..n /\ DOMAIN G = 1..Len(G) /\ Len(G) \in Nat /\ n \in Nat
        /\ H[n] = g /\ \A k \in DOMAIN G : H[k] = G[k]
    BY DEF Grants
  <1> HIDE DEF H
  <1>2. Newest(i, H, n)
    BY <1>1 DEF Newest
  <1>3. \A k \in DOMAIN H : H[k].id = i /\ Active(H[k], now) => Newest(i, H, k) /\ Backs(t, row, H[k])
    <2>1. Backs(t, row, g)
      BY DEF Backs
    <2>2. \A k \in DOMAIN H : k \in DOMAIN G \/ k = n
      BY <1>1
    <2> QED BY <2>1, <2>2, <1>1, <1>2
  <1>4. ASSUME NEW o \in DOMAIN has2, HasGrant(has2[o], i, H)
        PROVE  /\ t = "lease" => row.state # "absent" /\ has2[o].token <= row.token
               /\ row.token = has2[o].token /\ row.state = "reserved" => Newest(i, H, has2[o].index)
    <2>1. CASE o = s
      <3>1. h.index = n
        BY <1>4, <2>1 DEF HasGrant
      <3> QED BY <2>1, <3>1, <1>2
    <2>2. CASE o # s
      <3>1. has2[o] = has[o]
        BY <2>2
      <3>2. HasGrant(has[o], i, G)
        <4>1. has[o].index \in DOMAIN G
          BY <3>1, <1>4, <1>1 DEF HasGrant
        <4> QED BY <4>1, <3>1, <1>4, <1>1 DEF HasGrant
      <3> QED BY <3>1, <3>2
    <2> QED BY <2>1, <2>2
  <1> QED BY <1>3, <1>4 DEF Coherent, H

\* What a caller that has the reservation leaves: nothing is left but its grant.
LEMMA CoherentSettled ==
    ASSUME NEW t, NEW now, NEW has, NEW has2, NEW i, NEW old, NEW row, NEW G, NEW H, NEW k \in DOMAIN G,
           DOMAIN G \subseteq Nat, DOMAIN has2 = DOMAIN has, DOMAIN H = DOMAIN G,
           \A j \in DOMAIN G : H[j].id = G[j].id /\ (j # k => H[j] = G[j]),
           G[k].id = i, G[k].status # "void", H[k].status # "void", Newest(i, G, k),
           \A o \in DOMAIN has : HasGrant(has2[o], i, H) =>
               /\ has2[o].index = has[o].index /\ has2[o].token = has[o].token /\ has[o].token # 0,
           Active(H[k], now) => Backs(t, row, H[k]),
           row.token = 0 \/ (row.token = old.token /\ old.state = "reserved") \/ row.state # "reserved",
           t = "lease" => row.token = old.token /\ row.state # "absent",
           t = "outbox" => row.token = 0,
           t = "relay" /\ row.state = "uncertain" => row.born = k,
           Coherent(t, now, has, i, old, G)
    PROVE  Coherent(t, now, has2, i, row, H)
  <1>1. \A j : Newest(i, G, j) /\ j \in Nat => Newest(i, H, j)
    <2> SUFFICES ASSUME NEW j, Newest(i, G, j), j \in Nat, NEW m \in DOMAIN H, H[m].id = i, m > j
                 PROVE  H[m].status = "void"
      BY DEF Newest
    <2>1. G[m].status = "void"
      BY DEF Newest
    <2> QED BY <2>1
  <1>2. \A j \in DOMAIN G : G[j].id = i /\ Active(G[j], now) => j = k
    <2> SUFFICES ASSUME NEW j \in DOMAIN G, G[j].id = i, Active(G[j], now), j # k
                 PROVE  FALSE
      OBVIOUS
    <2>1. Newest(i, G, j)
      BY DEF Coherent
    <2>2. CASE j < k
      BY <2>1, <2>2 DEF Newest
    <2>3. CASE j > k
      BY <2>3 DEF Newest, Active
    <2> QED BY <2>2, <2>3
  <1>3. \A j \in DOMAIN H : H[j].id = i /\ Active(H[j], now) => Newest(i, H, j) /\ Backs(t, row, H[j])
    BY <1>1, <1>2
  <1>4. ASSUME NEW o \in DOMAIN has2, HasGrant(has2[o], i, H)
        PROVE  /\ t = "lease" => row.state # "absent" /\ has2[o].token <= row.token
               /\ row.token = has2[o].token /\ row.state = "reserved" => Newest(i, H, has2[o].index)
    <2>1. HasGrant(has[o], i, G)
      BY <1>4 DEF HasGrant
    <2>2. has2[o].index \in Nat
      BY <1>4 DEF HasGrant
    <2> QED BY <2>1, <2>2, <1>1, <1>4 DEF Coherent
  <1>5. t = "relay" /\ row.state = "uncertain" =>
            /\ row.born \in DOMAIN H /\ H[row.born].id = i /\ H[row.born].status # "void"
            /\ Newest(i, H, row.born)
    BY <1>1
  <1> QED BY <1>3, <1>4, <1>5 DEF Coherent

----------------------------------------------------------------------------
\* Steps of a session that write a row.

Fields == {"pc", "op", "id", "now", "born", "undo", "grant"}
GrantFields == {"index", "token", "until"}

\* The row q is written by s, which has it or takes it.
WriteStep(s, q, row, G, c) ==
    /\ s \in Sessions /\ q \in Identities /\ row \in Rows
    /\ holder[q] \in {s, Nobody} /\ adapter # "memory"
    /\ holder' = [holder EXCEPT ![q] = s] /\ staged' = [staged EXCEPT ![q] = row]
    /\ grants' = G /\ call' = [call EXCEPT ![s] = c]
    /\ UNCHANGED <<table, adapter, clock, rows>>

\* Of the grants only those of q change, and none is undone.
GrantsStep(q, G) ==
    /\ G \in Seq(Grants) /\ DOMAIN grants \subseteq DOMAIN G
    /\ \A j \in DOMAIN grants :
          /\ G[j].id = grants[j].id
          /\ grants[j].id # q => G[j] = grants[j]
          /\ grants[j].status # "void" => G[j].status # "void"
    /\ \A j \in DOMAIN G \ DOMAIN grants : G[j].id = q

\* What changes is remembered as it was, a new grant as none.
UndoStep(s, q, G, c) ==
    LET undo == call[s].undo IN
    /\ DOMAIN undo \subseteq DOMAIN c.undo
    /\ \A j \in DOMAIN undo : c.undo[j] = undo[j]
    /\ \A j \in DOMAIN G : j \notin DOMAIN grants \/ G[j] # grants[j] => j \in DOMAIN c.undo
    /\ \A j \in DOMAIN c.undo \ DOMAIN undo :
          /\ j \in DOMAIN G /\ G[j].id = q /\ c.undo[j] \in Grants /\ c.undo[j].id = q
          /\ j \in DOMAIN grants => c.undo[j] = grants[j] /\ grants[j].status # "void"
          /\ j \notin DOMAIN grants => c.undo[j].status = "void"

\* The caller has what it had, or nothing, or the new grant.
HeldStep(s, G, c) ==
    \/ c.grant = NoGrant
    \/ c.grant = call[s].grant
    \/ /\ DOMAIN c.grant = GrantFields /\ c.grant.index # 0
       /\ c.grant.index = call[s].grant.index /\ c.grant.token = call[s].grant.token
    \/ /\ DOMAIN c.grant = GrantFields
       /\ c.grant.index \in DOMAIN G \ DOMAIN grants /\ G[c.grant.index].status # "void"
       /\ c.grant.token \in Nat \ {0} /\ (table # "lease" => c.grant.token = c.grant.index)

\* The call goes on, or it has returned.
CallStep(s, q, c) ==
    /\ DOMAIN c = Fields /\ c.now \in Nat /\ c.now <= clock /\ c.born \in Nat
    /\ c.pc \in {"idle", "open"}
       \/ /\ call[s].pc \notin {"idle", "open"} /\ call[s].id = q
          /\ c.id = q /\ c.op = call[s].op /\ c.grant = call[s].grant

\* Every session but s is as it was, and so is what the callers have.
LEMMA CallUpdated ==
    ASSUME ReservationsIInv, NEW s \in Sessions, NEW c, call' = [call EXCEPT ![s] = c]
    PROVE  /\ DOMAIN call' = Sessions /\ call'[s] = c
           /\ \A o \in Sessions \ {s} : call'[o] = call[o]
           /\ DOMAIN Has = Sessions /\ DOMAIN Has' = Sessions
           /\ Has'[s] = c.grant /\ \A o \in Sessions \ {s} : Has'[o] = Has[o]
           /\ \A o \in Sessions : Has[o] = call[o].grant
  BY DEF ReservationsIInv, ReservationsTypeOK, Has

\* The grants as a rollback of a session leaves them.
LEMMA UndoneFacts ==
    ASSUME ReservationsIInv, NEW s \in Sessions
    PROVE  LET U == UndoneBy(grants, call[s].undo)
               undo == call[s].undo IN
           /\ U \in Seq(Grants) /\ DOMAIN U = DOMAIN grants
           /\ \A j \in DOMAIN grants :
                 /\ U[j] = IF j \in DOMAIN undo THEN undo[j] ELSE grants[j]
                 /\ U[j].id = grants[j].id
                 /\ holder[grants[j].id] # s => U[j] = grants[j]
  <1> DEFINE U == UndoneBy(grants, call[s].undo)
             undo == call[s].undo
  <1>1. grants \in Seq(Grants) /\ Undoes(s)
    BY DEF ReservationsIInv, ReservationsTypeOK
  <1>2. DOMAIN grants = 1..Len(grants) /\ Len(grants) \in Nat /\ \A k \in DOMAIN grants : grants[k] \in Grants
    BY <1>1, GrantSequence
  <1>3. \A j \in DOMAIN grants : U[j] \in Grants
    BY <1>1, <1>2 DEF UndoneBy, Undoes
  <1>4. DOMAIN U = 1..Len(grants)
    BY <1>2 DEF UndoneBy
  <1>5. U = [j \in 1..Len(grants) |-> U[j]]
    BY <1>2 DEF UndoneBy
  <1>6. U \in [1..Len(grants) -> Grants]
    BY <1>2, <1>3, <1>5
  <1>7. U \in Seq(Grants)
    BY <1>6, <1>2
  <1>8. \A j \in DOMAIN grants :
           /\ U[j] = IF j \in DOMAIN undo THEN undo[j] ELSE grants[j]
           /\ U[j].id = grants[j].id
           /\ holder[grants[j].id] # s => U[j] = grants[j]
    BY <1>1 DEF UndoneBy, Undoes
  <1> QED BY <1>2, <1>4, <1>7, <1>8

\* A write keeps the sessions coherent.
LEMMA WriteSessions ==
    ASSUME ReservationsIInv, NEW s, NEW q, NEW row, NEW G, NEW c,
           WriteStep(s, q, row, G, c), GrantsStep(q, G), UndoStep(s, q, G, c), HeldStep(s, G, c),
           CallStep(s, q, c)
    PROVE  /\ ReservationsTypeOK'
           /\ \A o \in Sessions : Called(o)' /\ Keeps(o)' /\ Undoes(o)'
  <1>1. /\ ReservationsTypeOK /\ s \in Sessions /\ q \in Identities /\ row \in Rows
        /\ \A o \in Sessions : Called(o) /\ Keeps(o) /\ Undoes(o)
    BY DEF ReservationsIInv, WriteStep
  <1>2. /\ DOMAIN call' = Sessions /\ call'[s] = c
        /\ \A o \in Sessions \ {s} : call'[o] = call[o]
    BY <1>1, CallUpdated DEF WriteStep
  <1>3. /\ holder \in [Identities -> Sessions \cup {Nobody}] /\ staged \in [Identities -> Rows]
        /\ holder'[q] = s /\ \A i \in Identities \ {q} : holder'[i] = holder[i]
        /\ holder' \in [Identities -> Sessions \cup {Nobody}] /\ staged' \in [Identities -> Rows]
        /\ holder[q] \in {s, Nobody}
    BY <1>1 DEF ReservationsTypeOK, WriteStep
  <1>4. /\ grants \in Seq(Grants) /\ G \in Seq(Grants) /\ grants' = G /\ table' = table /\ clock' = clock
        /\ DOMAIN grants \subseteq DOMAIN G
    BY <1>1 DEF ReservationsTypeOK, WriteStep, GrantsStep
  <1>5. ReservationsTypeOK'
    BY <1>1, <1>2, <1>3, <1>4 DEF ReservationsTypeOK, WriteStep
  <1>6. /\ \A k \in DOMAIN grants : grants[k].id \in Identities /\ k # 0
        /\ \A k \in DOMAIN G : k # 0 /\ G[k].id \in Identities
    BY <1>4, GrantSequence
  <1>0. \A j \in DOMAIN grants :
            /\ j \in DOMAIN G /\ G[j].id = grants[j].id
            /\ grants[j].status # "void" => G[j].status # "void"
    BY DEF GrantsStep
  <1>7. ASSUME NEW o \in Sessions PROVE Called(o)'
    <2>1. CASE o = s
      BY <2>1, <1>1, <1>2, <1>3, <1>4 DEF Called, Deciding, CallStep, Fields
    <2>2. CASE o # s
      <3>1. Called(o) /\ call'[o] = call[o] /\ o # Nobody
        BY <2>2, <1>1, <1>2, ReservationsAssumption
      <3>2. \A i \in Identities : holder[i] = o => holder'[i] = o
        BY <3>1, <2>2, <1>3
      <3> QED BY <3>1, <3>2, <1>4 DEF Called, Deciding
    <2> QED BY <2>1, <2>2
  <1>8. ASSUME NEW o \in Sessions PROVE Keeps(o)'
    <2>1. CASE o = s
      <3>1. Keeps(s)
        BY <1>1
      <3>2. /\ DOMAIN c.grant = GrantFields /\ c.grant.token \in Nat
            /\ c.grant.index # 0 => /\ c.grant.index \in DOMAIN G /\ G[c.grant.index].status # "void"
                                    /\ c.grant.token # 0 /\ (table # "lease" => c.grant.token = c.grant.index)
            /\ c.grant.index = 0 => c.grant = NoGrant
        <4>1. CASE c.grant = NoGrant
          BY <4>1 DEF GrantFields, NoGrant
        <4>2. CASE c.grant = call[s].grant
          BY ONLY <4>2, <3>1, <1>0 DEF Keeps, GrantFields
        <4>3. CASE /\ DOMAIN c.grant = GrantFields /\ c.grant.index # 0
                   /\ c.grant.index = call[s].grant.index /\ c.grant.token = call[s].grant.token
          BY ONLY <4>3, <3>1, <1>0 DEF Keeps
        <4>4. CASE /\ DOMAIN c.grant = GrantFields
                   /\ c.grant.index \in DOMAIN G \ DOMAIN grants /\ G[c.grant.index].status # "void"
                   /\ c.grant.token \in Nat \ {0} /\ (table # "lease" => c.grant.token = c.grant.index)
          BY ONLY <4>4, <1>6
        <4> QED BY <4>1, <4>2, <4>3, <4>4 DEF HeldStep
      <3>3. c.pc \notin {"idle", "open"} /\ Settling(c.op) =>
                c.grant.index # 0 /\ G[c.grant.index].id = c.id
        BY <3>1, <1>0 DEF CallStep, Keeps, Settling
      <3> QED BY <3>2, <3>3, <2>1, <1>2, <1>4 DEF Keeps, GrantFields, Settling
    <2>2. CASE o # s
      <3>1. Keeps(o) /\ call'[o] = call[o]
        BY <1>1, <1>2, <2>2
      <3> QED BY <3>1, <1>4, <1>0 DEF Keeps, Settling
    <2> QED BY <2>1, <2>2
  <1>9. ASSUME NEW o \in Sessions PROVE Undoes(o)'
    <2>1. CASE o = s
      <3> SUFFICES ASSUME NEW j \in DOMAIN c.undo
                   PROVE  /\ j \in DOMAIN G /\ c.undo[j] \in Grants /\ c.undo[j].id = G[j].id
                          /\ holder'[G[j].id] = s
                          /\ \A p \in Sessions \ {s} : call'[p].grant.index = j => c.undo[j].status # "void"
        BY <2>1, <1>2, <1>4 DEF Undoes
      <3>1. CASE j \in DOMAIN call[s].undo
        <4>1. Undoes(s)
          BY <1>1
        <4>2. /\ j \in DOMAIN grants /\ c.undo[j] = call[s].undo[j] /\ c.undo[j] \in Grants
              /\ c.undo[j].id = grants[j].id /\ holder[grants[j].id] = s
              /\ \A p \in Sessions \ {s} : call[p].grant.index = j => c.undo[j].status # "void"
          BY <4>1, <3>1 DEF Undoes, UndoStep
        <4>3. j \in DOMAIN G /\ G[j].id = grants[j].id
          BY <4>2, <1>0
        <4> QED BY <4>2, <4>3, <1>2, <1>3, <1>6
      <3>2. CASE j \notin DOMAIN call[s].undo
        <4>1. /\ j \in DOMAIN G /\ G[j].id = q /\ c.undo[j] \in Grants /\ c.undo[j].id = q
              /\ j \in DOMAIN grants => c.undo[j] = grants[j] /\ grants[j].status # "void"
          BY <3>2 DEF UndoStep
        <4>2. \A p \in Sessions \ {s} : call[p].grant.index = j => j \in DOMAIN grants
          BY <1>1, <1>6, <4>1 DEF Keeps
        <4> QED BY <4>1, <4>2, <1>2, <1>3
      <3> QED BY <3>1, <3>2
    <2>2. CASE o # s
      <3>1. Undoes(o) /\ call'[o] = call[o]
        BY <1>1, <1>2, <2>2
      <3> SUFFICES ASSUME NEW j \in DOMAIN call[o].undo
                   PROVE  /\ j \in DOMAIN G /\ call[o].undo[j] \in Grants /\ call[o].undo[j].id = G[j].id
                          /\ holder'[G[j].id] = o
                          /\ \A p \in Sessions \ {o} : call'[p].grant.index = j => call[o].undo[j].status # "void"
        BY <3>1, <1>4 DEF Undoes
      <3>2. /\ j \in DOMAIN grants /\ call[o].undo[j] \in Grants /\ call[o].undo[j].id = grants[j].id
            /\ holder[grants[j].id] = o
            /\ \A p \in Sessions \ {o} : call[p].grant.index = j => call[o].undo[j].status # "void"
        BY <3>1 DEF Undoes
      <3>3. o # Nobody
        BY ReservationsAssumption
      <3>4. holder'[grants[j].id] = o
        BY <3>2, <3>3, <2>2, <1>3, <1>6
      <3>5. c.grant.index = j => call[s].grant.index = j
        BY <3>2, <1>6 DEF HeldStep, NoGrant
      <3>6. j \in DOMAIN G /\ G[j].id = grants[j].id
        BY <3>2, <1>0
      <3> QED BY <3>2, <3>4, <3>5, <3>6, <1>2, <2>2
    <2> QED BY <2>1, <2>2
  <1> QED BY <1>5, <1>7, <1>8, <1>9

\* A write keeps every row coherent with the grants, when the row it writes is.
LEMMA WriteCoherent ==
    ASSUME ReservationsIInv, NEW s, NEW q, NEW row, NEW G, NEW c,
           WriteStep(s, q, row, G, c), GrantsStep(q, G), UndoStep(s, q, G, c), HeldStep(s, G, c),
           CallStep(s, q, c), Coherent(table, clock, Has', q, row, G)
    PROVE  ReservationsIInv'
  <1>1. /\ ReservationsTypeOK /\ s \in Sessions /\ q \in Identities /\ row \in Rows
        /\ \A o \in Sessions : Called(o) /\ Keeps(o) /\ Undoes(o)
        /\ \A i \in Identities : /\ Coherent(table, clock, Has, i, Seen(i), grants)
                                 /\ Coherent(table, clock, Has, i, rows[i], Before(i))
    BY DEF ReservationsIInv, WriteStep
  <1>2. /\ call'[s] = c /\ \A o \in Sessions \ {s} : call'[o] = call[o]
        /\ DOMAIN Has = Sessions /\ DOMAIN Has' = Sessions
        /\ Has'[s] = c.grant /\ \A o \in Sessions \ {s} : Has'[o] = Has[o]
        /\ \A o \in Sessions : Has[o] = call[o].grant
    BY <1>1, CallUpdated DEF WriteStep
  <1>3. /\ holder \in [Identities -> Sessions \cup {Nobody}] /\ staged \in [Identities -> Rows]
        /\ holder'[q] = s /\ \A i \in Identities \ {q} : holder'[i] = holder[i]
        /\ staged'[q] = row /\ \A i \in Identities \ {q} : staged'[i] = staged[i]
        /\ holder[q] \in {s, Nobody} /\ s # Nobody
    BY <1>1, ReservationsAssumption DEF ReservationsTypeOK, WriteStep
  <1>4. grants' = G /\ table' = table /\ clock' = clock /\ rows' = rows
    BY DEF WriteStep
  <1>5. grants \in Seq(Grants) /\ G \in Seq(Grants)
    BY <1>1 DEF ReservationsTypeOK, GrantsStep
  <1>6. /\ \A k \in DOMAIN grants : grants[k].id \in Identities /\ k # 0
        /\ \A k \in DOMAIN G : k # 0 /\ G[k].id \in Identities
    BY <1>5, GrantSequence
  <1>7. /\ DOMAIN grants \subseteq DOMAIN G
        /\ \A j \in DOMAIN grants : G[j].id = grants[j].id /\ (grants[j].id # q => G[j] = grants[j])
        /\ \A j \in DOMAIN G \ DOMAIN grants : G[j].id = q
    BY DEF GrantsStep
  \* What the callers have of the other identities, and of q where a rollback would leave it.
  <1>8. ASSUME NEW i, NEW H, DOMAIN H = DOMAIN G, \A j \in DOMAIN G \ DOMAIN grants : ~(H[j].id = i /\ H[j].status # "void"),
               NEW o \in Sessions, HasGrant(Has'[o], i, H)
        PROVE  Has'[o].index = Has[o].index /\ Has'[o].token = Has[o].token
    <2>1. CASE o # s
      BY <2>1, <1>2
    <2>2. CASE o = s
      <3>1. c.grant.index # 0 /\ c.grant.index \in DOMAIN G /\ c.grant.index \notin DOMAIN G \ DOMAIN grants
        BY <2>2, <1>2, <1>8 DEF HasGrant
      <3> QED BY <3>1, <2>2, <1>2 DEF HeldStep, NoGrant
    <2> QED BY <2>1, <2>2
  <1>9. ASSUME NEW i \in Identities PROVE Coherent(table, clock, Has', i, Seen(i)', grants')
    <2>1. CASE i = q
      BY <2>1, <1>3, <1>4 DEF Seen
    <2>2. CASE i # q
      <3>1. Seen(i)' = Seen(i)
        BY <2>2, <1>3, <1>4 DEF Seen
      <3>2. Coherent(table, clock, Has, i, Seen(i), grants)
        BY <1>1
      <3>3. \A o \in DOMAIN Has : HasGrant(Has'[o], i, G) =>
                Has'[o].index = Has[o].index /\ Has'[o].token = Has[o].token
        BY <1>8, <1>2, <1>7, <2>2
      <3>4. Coherent(table, clock, Has', i, Seen(i), G)
        BY <3>2, <3>3, <1>2, <1>7, <2>2, CoherentFrame
      <3> QED BY <3>1, <3>4, <1>4
    <2> QED BY <2>1, <2>2
  <1>10. ASSUME NEW i \in Identities PROVE Coherent(table, clock, Has', i, rows[i], Before(i)')
    <2> DEFINE B == Before(i)
               H == Before(i)'
    <2>0. Coherent(table, clock, Has, i, rows[i], B)
      BY <1>1
    <2>1. CASE holder'[i] = Nobody
      <3>1. H = G /\ i # q /\ holder[i] = Nobody /\ B = grants
        BY <2>1, <1>3, <1>4 DEF Before
      <3>2. \A o \in DOMAIN Has : HasGrant(Has'[o], i, G) =>
                Has'[o].index = Has[o].index /\ Has'[o].token = Has[o].token
        BY <1>8, <1>2, <1>7, <3>1
      <3> HIDE DEF B, H
      <3>3. Coherent(table, clock, Has', i, rows[i], G)
        BY <2>0, <3>1, <3>2, <1>2, <1>7, CoherentFrame
      <3> QED BY <3>1, <3>3 DEF H
    <2>2. CASE holder'[i] \in Sessions \ {s}
      <3> DEFINE o == holder'[i]
                 U == UndoneBy(grants, call[o].undo)
      <3>1. i # q /\ holder[i] = o /\ o # Nobody /\ call'[o] = call[o]
        BY <2>2, <1>2, <1>3, ReservationsAssumption
      <3>2. B = U /\ H = UndoneBy(G, call[o].undo)
        BY <3>1, <1>4 DEF Before
      <3>3. /\ DOMAIN U = DOMAIN grants
            /\ \A j \in DOMAIN grants :
                   /\ U[j] = IF j \in DOMAIN call[o].undo THEN call[o].undo[j] ELSE grants[j]
                   /\ U[j].id = grants[j].id
        BY <2>2, UndoneFacts
      <3>4. Undoes(o)
        BY <2>2, <1>1
      <3>5. /\ DOMAIN H = DOMAIN G
            /\ \A j \in DOMAIN G : H[j] = IF j \in DOMAIN call[o].undo THEN call[o].undo[j] ELSE G[j]
        BY <3>2 DEF UndoneBy
      <3> HIDE DEF o, U, B, H
      <3>6. \A j \in DOMAIN grants : H[j].id = U[j].id /\ (U[j].id = i => H[j] = U[j])
        BY <3>1, <3>3, <3>5, <1>7
      <3>7. \A j \in DOMAIN G \ DOMAIN grants : H[j].id = q
        BY <3>4, <3>5, <1>7 DEF Undoes
      <3>8. \A p \in DOMAIN Has : HasGrant(Has'[p], i, H) =>
                Has'[p].index = Has[p].index /\ Has'[p].token = Has[p].token
        BY <1>8, <1>2, <3>1, <3>5, <3>7
      <3> QED BY <2>0, <3>1, <3>2, <3>3, <3>5, <3>6, <3>7, <3>8, <1>2, <1>7, CoherentFrame DEF H
    <2>3. CASE holder'[i] = s
      <3> DEFINE U == UndoneBy(grants, call[s].undo)
      <3>1. H = UndoneBy(G, c.undo)
        BY <2>3, <1>2, <1>3, <1>4 DEF Before
      <3>2. /\ DOMAIN U = DOMAIN grants
            /\ \A j \in DOMAIN grants :
                   /\ U[j] = IF j \in DOMAIN call[s].undo THEN call[s].undo[j] ELSE grants[j]
                   /\ U[j].id = grants[j].id
                   /\ holder[grants[j].id] # s => U[j] = grants[j]
        BY <1>1, UndoneFacts
      <3>3. /\ DOMAIN H = DOMAIN G
            /\ \A j \in DOMAIN G : H[j] = IF j \in DOMAIN c.undo THEN c.undo[j] ELSE G[j]
        BY <3>1 DEF UndoneBy
      <3>4. B = U \/ (B = grants /\ i = q /\ holder[q] = Nobody)
        BY <2>3, <1>3 DEF Before
      <3> HIDE DEF U, B, H
      <3>5. /\ DOMAIN B = DOMAIN grants
            /\ \A j \in DOMAIN grants : B[j].id = grants[j].id /\ (B[j].id = i => B[j] = U[j])
        BY <3>2, <3>4, <1>3
      <3>6. \A j \in DOMAIN grants : H[j] = U[j]
        BY <3>2, <3>3, <1>7 DEF UndoStep
      <3>7. \A j \in DOMAIN G \ DOMAIN grants : H[j].status = "void"
        <4>1. Undoes(s)
          BY <1>1
        <4>2. \A j \in DOMAIN G \ DOMAIN grants : j \in DOMAIN c.undo \ DOMAIN call[s].undo
          BY <4>1 DEF Undoes, UndoStep
        <4> QED BY <4>2, <3>3 DEF UndoStep
      <3>8. \A p \in DOMAIN Has : HasGrant(Has'[p], i, H) =>
                Has'[p].index = Has[p].index /\ Has'[p].token = Has[p].token
        BY <1>8, <1>2, <3>3, <3>7
      <3>9. \A j \in DOMAIN B : H[j].id = B[j].id /\ (B[j].id = i => H[j] = B[j])
        BY <3>2, <3>5, <3>6
      <3> QED BY <2>0, <3>3, <3>5, <3>7, <3>8, <3>9, <1>2, <1>7, CoherentFrame DEF H
    <2>4. holder'[i] \in Sessions \cup {Nobody}
      BY <1>1, <1>3
    <2> QED BY <2>1, <2>2, <2>3, <2>4
  <1>11. /\ ReservationsTypeOK'
         /\ \A o \in Sessions : Called(o)' /\ Keeps(o)' /\ Undoes(o)'
    BY WriteSessions
  <1> QED BY <1>4, <1>9, <1>10, <1>11 DEF ReservationsIInv

\* A step that changes nothing but where s is in its call.
QuietStep(s, c) ==
    /\ s \in Sessions /\ call' = [call EXCEPT ![s] = c]
    /\ UNCHANGED <<table, adapter, clock, rows, holder, staged, grants>>
    /\ DOMAIN c = Fields /\ c.undo = call[s].undo /\ c.grant = call[s].grant
    /\ c.now \in Nat /\ c.now <= clock /\ c.born \in Nat
    /\ c.pc \notin {"idle", "open"} => c.id \in Identities
    /\ Deciding(c.pc) => c.id \in Identities /\ holder[c.id] = s
    /\ c.pc \notin {"idle", "open"} /\ Settling(c.op) =>
          c.grant.index # 0 /\ grants[c.grant.index].id = c.id

\* A step that writes nothing keeps the invariant.
LEMMA QuietInvariant ==
    ASSUME ReservationsIInv, NEW s, NEW c, QuietStep(s, c)
    PROVE  ReservationsIInv'
  <1>1. /\ ReservationsTypeOK /\ s \in Sessions
        /\ \A o \in Sessions : Called(o) /\ Keeps(o) /\ Undoes(o)
        /\ \A i \in Identities : /\ Coherent(table, clock, Has, i, Seen(i), grants)
                                 /\ Coherent(table, clock, Has, i, rows[i], Before(i))
    BY DEF ReservationsIInv, QuietStep
  <1>2. /\ DOMAIN call' = Sessions
        /\ call'[s] = c /\ \A o \in Sessions \ {s} : call'[o] = call[o]
    BY <1>1, CallUpdated DEF QuietStep
  <1>3. \A o \in Sessions : call'[o].undo = call[o].undo /\ call'[o].grant = call[o].grant
    BY <1>2 DEF QuietStep
  <1>4. /\ table' = table /\ adapter' = adapter /\ clock' = clock /\ rows' = rows /\ holder' = holder
        /\ staged' = staged /\ grants' = grants
    BY DEF QuietStep
  <1>5. Has' = Has
    BY <1>3 DEF Has
  <1>6. ReservationsTypeOK'
    BY <1>1, <1>2, <1>4 DEF ReservationsTypeOK
  <1>7. \A o \in Sessions : Called(o)'
    BY <1>1, <1>2, <1>4 DEF Called, QuietStep, Fields, Deciding
  <1>8. ASSUME NEW o \in Sessions PROVE Keeps(o)'
    <2>1. Keeps(o)
      BY <1>1
    <2>2. CASE o = s
      BY <2>1, <2>2, <1>2, <1>4 DEF Keeps, QuietStep, Settling
    <2>3. CASE o # s
      BY <2>1, <2>3, <1>2, <1>4 DEF Keeps, Settling
    <2> QED BY <2>2, <2>3
  <1>9. \A o \in Sessions : Undoes(o)'
    BY <1>1, <1>3, <1>4 DEF Undoes
  <1>10. ASSUME NEW i \in Identities
         PROVE  /\ Coherent(table, clock, Has, i, Seen(i), grants)'
                /\ Coherent(table, clock, Has, i, rows[i], Before(i))'
    <2>1. Seen(i)' = Seen(i)
      BY <1>4 DEF Seen
    <2>2. holder[i] \in Sessions \cup {Nobody}
      BY <1>1 DEF ReservationsTypeOK
    <2>3. Before(i)' = Before(i)
      BY <2>2, <1>3, <1>4 DEF Before
    <2>4. /\ Coherent(table, clock, Has, i, Seen(i), grants)
          /\ Coherent(table, clock, Has, i, rows[i], Before(i))
      BY <1>1
    <2> QED BY <2>1, <2>3, <2>4, <1>4, <1>5
  <1> QED BY <1>6, <1>7, <1>8, <1>9, <1>10 DEF ReservationsIInv

\* The record of a call keeps its fields.
LEMMA CallFields ==
    ASSUME ReservationsIInv, NEW s \in Sessions
    PROVE  /\ DOMAIN call[s] = Fields /\ call[s].now \in Nat /\ call[s].now <= clock /\ clock \in Nat
           /\ call[s].born \in Nat
           /\ s # Nobody /\ Called(s) /\ Keeps(s) /\ Undoes(s) /\ DOMAIN call = Sessions
  BY ReservationsAssumption DEF ReservationsIInv, ReservationsTypeOK, Called, Fields

\* Moving on within a call is such a step, if the lock is there where a decision needs it.
LEMMA GotoQuiet ==
    ASSUME ReservationsIInv, NEW s \in Sessions, NEW pc, call[s].pc \notin {"idle", "open"},
           Deciding(pc) => holder[Id(s)] = s, Goto(s, pc),
           UNCHANGED <<table, adapter, outer, clock, rows, holder, staged, grants>>
    PROVE  ReservationsIInv'
  <1> DEFINE c == [call[s] EXCEPT !.pc = pc]
  <1>1. /\ DOMAIN call[s] = Fields /\ call[s].now \in Nat /\ call[s].now <= clock /\ clock \in Nat
        /\ call[s].born \in Nat
        /\ s # Nobody /\ Called(s) /\ Keeps(s) /\ Undoes(s) /\ DOMAIN call = Sessions
    BY CallFields
  <1>2. call' = [call EXCEPT ![s] = c]
    BY <1>1 DEF Goto
  <1>3. /\ DOMAIN c = Fields /\ c.pc = pc /\ c.op = call[s].op /\ c.id = call[s].id /\ c.now = call[s].now
        /\ c.born = call[s].born /\ c.undo = call[s].undo /\ c.grant = call[s].grant
    BY <1>1 DEF Fields
  <1> HIDE DEF c
  <1>4. QuietStep(s, c)
    BY <1>1, <1>2, <1>3 DEF QuietStep, Called, Keeps, Id
  <1> QED BY <1>4, QuietInvariant

\* The call returns without having changed anything.
LEMMA RefuseQuiet ==
    ASSUME ReservationsIInv, NEW s \in Sessions, Refuse(s)
    PROVE  ReservationsIInv'
  <1> DEFINE pc == IF \E i \in Identities : holder[i] = s THEN "open" ELSE "idle"
             c == [NoCall EXCEPT !.pc = pc, !.undo = call[s].undo, !.grant = call[s].grant]
  <1>1. call' = [call EXCEPT ![s] = c]
    BY DEF Refuse, Returned
  <1>2. /\ DOMAIN c = Fields /\ c.pc \in {"idle", "open"} /\ c.now = 0 /\ c.born = 0
        /\ c.undo = call[s].undo /\ c.grant = call[s].grant
    BY DEF NoCall, Fields
  <1> HIDE DEF c
  <1>3. clock \in Nat
    BY CallFields
  <1>4. QuietStep(s, c)
    BY <1>1, <1>2, <1>3 DEF QuietStep, Refuse, Deciding
  <1> QED BY <1>4, QuietInvariant

\* So is the start of a call.
LEMMA CallStoreQuiet ==
    ASSUME ReservationsIInv, NEW s \in Sessions, NEW op, NEW i \in Identities, CallStore(s, op, i)
    PROVE  ReservationsIInv'
  <1> DEFINE c == [call[s] EXCEPT !.pc = "begin", !.op = op, !.id = i, !.now = clock, !.born = rows[i].born]
  <1>1. /\ DOMAIN call[s] = Fields /\ clock \in Nat /\ DOMAIN call = Sessions
    BY CallFields
  <1>2. call' = [call EXCEPT ![s] = c]
    BY <1>1 DEF CallStore
  <1>3. /\ DOMAIN c = Fields /\ c.pc = "begin" /\ c.op = op /\ c.id = i /\ c.now = clock
        /\ c.born = rows[i].born /\ c.undo = call[s].undo /\ c.grant = call[s].grant
    BY <1>1 DEF Fields
  <1> HIDE DEF c
  <1>4. rows[i].born \in Nat
    BY DEF ReservationsIInv, ReservationsTypeOK, Rows
  <1>5. ~Settling(op) \/ (call[s].grant.index # 0 /\ grants[call[s].grant.index].id = i)
    <2>1. <<adapter, table>> \in Stores
      BY DEF ReservationsIInv, ReservationsTypeOK
    <2>2. table \in {"replay", "idempotency", "inbox", "lease", "outbox", "relay"}
      BY <2>1 DEF Stores
    <2>3. op \in Operations /\ table \notin {"outbox", "relay"} => op \notin {"add", "resolve"}
      BY <2>2 DEF Operations, IdempotencyOperations, InboxOperations, LeaseOperations
    <2>4. op \in Operations
      BY DEF CallStore
    <2> HIDE DEF c
    <2> QED BY <2>3, <2>4 DEF CallStore, Held, Settling
  <1>6. UNCHANGED <<table, adapter, clock, rows, holder, staged, grants>>
    BY DEF CallStore
  <1>7. QuietStep(s, c)
    BY <1>1, <1>2, <1>3, <1>4, <1>5, <1>6 DEF QuietStep, Deciding
  <1> QED BY <1>7, QuietInvariant

\* Whoever need not wait for the row sees it as its transaction has it.
LEMMA RowFacts ==
    ASSUME ReservationsIInv, NEW s \in Sessions, Id(s) \in Identities
    PROVE  /\ Row(s) \in Rows /\ rows[Id(s)] \in Rows /\ staged[Id(s)] \in Rows
           /\ ~Others(s) => /\ holder[Id(s)] \in {s, Nobody} /\ Row(s) = Seen(Id(s))
                            /\ Coherent(table, clock, Has, Id(s), Row(s), grants)
           /\ Others(s) => /\ Row(s) = rows[Id(s)] /\ holder[Id(s)] \in Sessions \ {s}
  <1>1. /\ holder[Id(s)] \in Sessions \cup {Nobody} /\ rows[Id(s)] \in Rows /\ staged[Id(s)] \in Rows
        /\ Coherent(table, clock, Has, Id(s), Seen(Id(s)), grants)
    BY DEF ReservationsIInv, ReservationsTypeOK
  <1> QED BY <1>1, ReservationsAssumption DEF Row, Others, Mine, Seen

\* SELECT ... FOR UPDATE of a row that is there.
LEMMA HoldRow ==
    ASSUME ReservationsIInv, NEW s \in Sessions, NEW pc, call[s].pc \notin {"idle", "open"}, ~Others(s),
           adapter # "memory", holder' = [holder EXCEPT ![Id(s)] = s],
           staged' = [staged EXCEPT ![Id(s)] = Row(s)], Goto(s, pc),
           UNCHANGED <<table, adapter, outer, clock, rows, grants>>
    PROVE  ReservationsIInv'
  <1> DEFINE c == [call[s] EXCEPT !.pc = pc]
             q == Id(s)
  <1>1. /\ DOMAIN call[s] = Fields /\ call[s].now \in Nat /\ call[s].now <= clock /\ clock \in Nat
        /\ call[s].born \in Nat
        /\ s # Nobody /\ Called(s) /\ Keeps(s) /\ Undoes(s) /\ DOMAIN call = Sessions
    BY CallFields
  <1>2. call' = [call EXCEPT ![s] = c]
    BY <1>1 DEF Goto
  <1>3. /\ DOMAIN c = Fields /\ c.pc = pc /\ c.op = call[s].op /\ c.id = call[s].id /\ c.now = call[s].now
        /\ c.born = call[s].born /\ c.undo = call[s].undo /\ c.grant = call[s].grant
    BY <1>1 DEF Fields
  <1> HIDE DEF c
  <1>4. q \in Identities
    BY <1>1 DEF Called, Id
  <1>5. /\ Row(s) \in Rows /\ holder[q] \in {s, Nobody} /\ Coherent(table, clock, Has, q, Row(s), grants)
    BY <1>4, RowFacts
  <1>6. Has' = Has
    BY <1>2, <1>3, <1>1 DEF Has
  <1>7. grants \in Seq(Grants)
    BY DEF ReservationsIInv, ReservationsTypeOK
  <1>8. WriteStep(s, q, Row(s), grants, c)
    BY <1>2, <1>4, <1>5 DEF WriteStep
  <1>9. GrantsStep(q, grants)
    BY <1>7 DEF GrantsStep
  <1>10. UndoStep(s, q, grants, c)
    BY <1>3 DEF UndoStep
  <1>11. HeldStep(s, grants, c) /\ CallStep(s, q, c)
    BY <1>1, <1>3 DEF HeldStep, CallStep, Id
  <1> QED BY <1>5, <1>6, <1>8, <1>9, <1>10, <1>11, WriteCoherent

\* select_for_update().first(): it locks the row it finds, and nothing otherwise.
LEMMA LockedFirstInvariant ==
    ASSUME ReservationsIInv, NEW s \in Sessions, NEW found, NEW absent, call[s].pc \notin {"idle", "open"},
           adapter # "memory", ~Deciding(absent), LockedFirst(s, found, absent)
    PROVE  ReservationsIInv'
  <1>1. CASE Goto(s, absent) /\ UNCHANGED <<holder, staged>>
    BY <1>1, GotoQuiet DEF LockedFirst
  <1>2. CASE /\ Row(s).state # "absent"
             /\ holder' = [holder EXCEPT ![Id(s)] = s]
             /\ staged' = [staged EXCEPT ![Id(s)] = Row(s)]
             /\ Goto(s, found)
    <2>1. Id(s) \in Identities
      BY CallFields DEF Called, Id
    <2>2. ~Others(s)
      BY <1>2, <2>1, RowFacts DEF LockedFirst
    <2> QED BY <1>2, <2>2, HoldRow DEF LockedFirst
  <1> QED BY <1>1, <1>2 DEF LockedFirst

\* Lock() takes the row of a lease: the caller has had it, and leases are never deleted.
LEMMA LockInvariant ==
    ASSUME ReservationsIInv, NEW s \in Sessions, call[s].pc = "begin",
           Settling(call[s].op), adapter # "memory", Lock(s)
    PROVE  ReservationsIInv'
  <1>0. Called(s) /\ Keeps(s) /\ Undoes(s)
    BY CallFields
  <1>1. Id(s) \in Identities
    BY <1>0 DEF Called, Id
  <1>2. CASE Row(s).state # "absent"
    <2>1. ~Others(s)
      BY <1>2, <1>1, RowFacts DEF Lock
    <2>2. /\ holder' = [holder EXCEPT ![Id(s)] = s]
          /\ staged' = [staged EXCEPT ![Id(s)] = Row(s)]
          /\ Goto(s, "locked") /\ UNCHANGED <<table, adapter, outer, clock, rows, grants>>
      BY <1>2 DEF Lock
    <2> QED BY <2>1, <2>2, HoldRow
  <1>3. CASE Row(s).state = "absent"
    <2> DEFINE q == Id(s)
               h == call[s].grant
    <2>0. /\ h.index # 0 /\ h.index \in DOMAIN grants /\ grants[h.index].id = q /\ grants[h.index].status # "void"
      BY <1>0 DEF Keeps, Id
    <2>1. table # "lease"
      <3> SUFFICES ASSUME table = "lease" PROVE FALSE
        OBVIOUS
      <3>1. Has[s] = h /\ s \in DOMAIN Has
        BY DEF Has
      <3>2. CASE ~Others(s)
        <4>1. Coherent(table, clock, Has, q, Row(s), grants)
          BY <1>1, <3>2, RowFacts
        <4>2. HasGrant(Has[s], q, grants)
          BY <2>0, <3>1 DEF HasGrant
        <4> QED BY <1>3, <4>1, <4>2, <3>1 DEF Coherent
      <3>3. CASE Others(s)
        <4> DEFINE o == holder[q]
                   U == UndoneBy(grants, call[o].undo)
        <4>1. o \in Sessions \ {s} /\ o # Nobody /\ Row(s) = rows[q]
          BY <3>3, <1>1, RowFacts, ReservationsAssumption
        <4>2. Coherent(table, clock, Has, q, rows[q], Before(q)) /\ Before(q) = U
          BY <1>1, <4>1 DEF ReservationsIInv, Before
        <4>3. /\ DOMAIN U = DOMAIN grants
              /\ \A j \in DOMAIN grants :
                    /\ U[j] = IF j \in DOMAIN call[o].undo THEN call[o].undo[j] ELSE grants[j]
                    /\ U[j].id = grants[j].id
          BY <4>1, UndoneFacts
        <4>4. Undoes(o)
          BY <4>1 DEF ReservationsIInv
        <4> HIDE DEF U, o
        <4>5. U[h.index].status # "void"
          BY <4>1, <4>3, <4>4, <2>0 DEF Undoes
        <4>6. HasGrant(Has[s], q, U)
          BY <2>0, <3>1, <4>3, <4>5 DEF HasGrant
        <4> QED BY <1>3, <4>1, <4>2, <4>6, <3>1 DEF Coherent
      <3> QED BY <3>2, <3>3
    <2>2. ~Deciding("locked")
      BY <2>1 DEF Deciding
    <2>3. /\ Goto(s, "locked") /\ UNCHANGED <<holder, staged>>
          /\ UNCHANGED <<table, adapter, outer, clock, rows, grants>>
      BY <1>3 DEF Lock
    <2>4. UNCHANGED <<table, adapter, outer, clock, rows, holder, staged, grants>>
      BY <2>3
    <2> QED BY <2>2, <2>3, <2>4, GotoQuiet
  <1> QED BY <1>2, <1>3

\* Every grant of the identity has ended.
NoneActive(q) == \A k \in DOMAIN grants : grants[k].id = q => ~Active(grants[k], clock)

\* A row that says nothing about a running grant shows that there is none.
LEMMA NoneActiveSeen ==
    ASSUME ReservationsIInv, NEW s \in Sessions, Id(s) \in Identities, ~Others(s),
           \A g \in Grants : Backs(table, Row(s), g) => ~Active(g, clock)
    PROVE  NoneActive(Id(s))
  <1>1. Coherent(table, clock, Has, Id(s), Row(s), grants)
    BY RowFacts
  <1>2. \A k \in DOMAIN grants : grants[k] \in Grants
    BY GrantSequence DEF ReservationsIInv, ReservationsTypeOK
  <1> QED BY <1>1, <1>2 DEF Coherent, NoneActive

\* A row is deleted, or added, that reserves nothing.
LEMMA IdleWrite ==
    ASSUME ReservationsIInv, NEW s \in Sessions, NEW row \in Rows, NEW c, Id(s) \in Identities, ~Others(s),
           adapter # "memory", table # "lease", NoneActive(Id(s)),
           row.state \in {"absent", "free"}, row.token = 0,
           Write(s, row), UNCHANGED grants, call' = [call EXCEPT ![s] = c],
           c.undo = call[s].undo, c.grant = call[s].grant, CallStep(s, Id(s), c)
    PROVE  ReservationsIInv'
  <1> DEFINE q == Id(s)
  <1>1. Row(s) \in Rows /\ holder[q] \in {s, Nobody}
    BY RowFacts
  <1>2. grants \in Seq(Grants)
    BY DEF ReservationsIInv, ReservationsTypeOK
  <1>3. Coherent(table, clock, Has', q, row, grants)
    BY CoherentIdle DEF NoneActive
  <1>4. WriteStep(s, q, row, grants, c)
    BY <1>1 DEF WriteStep, Write
  <1>5. GrantsStep(q, grants)
    BY <1>2 DEF GrantsStep
  <1>6. UndoStep(s, q, grants, c)
    BY DEF UndoStep
  <1>7. HeldStep(s, grants, c)
    BY DEF HeldStep
  <1> QED BY <1>3, <1>4, <1>5, <1>6, <1>7, WriteCoherent

\* A call that has written the row goes on.
LEMMA WriteGoto ==
    ASSUME ReservationsIInv, NEW s \in Sessions, NEW pc, call[s].pc \notin {"idle", "open"}, ~Others(s),
           adapter # "memory", table # "lease", NoneActive(Id(s)),
           Write(s, Absent), UNCHANGED grants, Goto(s, pc)
    PROVE  ReservationsIInv'
  <1> DEFINE c == [call[s] EXCEPT !.pc = pc]
  <1>1. /\ DOMAIN call[s] = Fields /\ call[s].now \in Nat /\ call[s].now <= clock /\ clock \in Nat
        /\ call[s].born \in Nat
        /\ s # Nobody /\ Called(s) /\ Keeps(s) /\ Undoes(s) /\ DOMAIN call = Sessions
    BY CallFields
  <1>2. call' = [call EXCEPT ![s] = c]
    BY <1>1 DEF Goto
  <1>3. /\ DOMAIN c = Fields /\ c.pc = pc /\ c.op = call[s].op /\ c.id = call[s].id /\ c.now = call[s].now
        /\ c.born = call[s].born /\ c.undo = call[s].undo /\ c.grant = call[s].grant
    BY <1>1 DEF Fields
  <1> HIDE DEF c
  <1>4. Id(s) \in Identities
    BY <1>1 DEF Called, Id
  <1>5. CallStep(s, Id(s), c)
    BY <1>1, <1>3 DEF CallStep, Id
  <1>6. Absent \in Rows /\ Absent.state = "absent" /\ Absent.token = 0
    BY DEF Absent, Rows
  <1> QED BY <1>2, <1>3, <1>4, <1>5, <1>6, IdleWrite

\* add() of an outbox message.
LEMMA OutboxAddInvariant ==
    ASSUME ReservationsIInv, NEW s \in Sessions, OutboxAdd(s), adapter # "memory", table # "lease"
    PROVE  ReservationsIInv'
  <1>1. CASE Refuse(s)
    BY <1>1, RefuseQuiet
  <1>2. CASE Row(s).state = "absent" /\ Write(s, [Absent EXCEPT !.state = "free", !.born = Fresh])
             /\ Returned(s, "open", call[s].undo, call[s].grant) /\ UNCHANGED grants
    <2> DEFINE row == [Absent EXCEPT !.state = "free", !.born = Fresh]
               c == [NoCall EXCEPT !.pc = "open", !.undo = call[s].undo, !.grant = call[s].grant]
    <2>0. /\ Called(s) /\ clock \in Nat
      BY CallFields
    <2>1. Id(s) \in Identities
      BY <2>0 DEF Called, Id, OutboxAdd, At
    <2>2. ~Others(s)
      BY <1>2, <2>1, RowFacts DEF OutboxAdd, KeySettled
    <2>3. NoneActive(Id(s))
      BY <1>2, <2>1, <2>2, NoneActiveSeen DEF Backs
    <2>4. Fresh \in Nat
      BY DEF Fresh, ReservationsIInv, ReservationsTypeOK
    <2>5. row \in Rows /\ row.state = "free" /\ row.token = 0
      BY <2>4 DEF Absent, Rows
    <2>6. /\ DOMAIN c = Fields /\ c.pc = "open" /\ c.now = 0 /\ c.born = 0
          /\ c.undo = call[s].undo /\ c.grant = call[s].grant
      BY DEF NoCall, Fields
    <2>7. call' = [call EXCEPT ![s] = c]
      BY <1>2 DEF Returned
    <2> HIDE DEF row, c
    <2>8. CallStep(s, Id(s), c)
      BY <2>0, <2>6 DEF CallStep
    <2>9. Write(s, row)
      BY <1>2 DEF row
    <2> QED BY <1>2, <2>1, <2>2, <2>3, <2>5, <2>6, <2>7, <2>8, <2>9, IdleWrite
  <1> QED BY <1>1, <1>2 DEF OutboxAdd

\* A reservation is granted: none was running, and its token is none that a caller has.
LEMMA GrantInvariant ==
    ASSUME ReservationsIInv, NEW s \in Sessions, NEW row \in Rows, Id(s) \in Identities, ~Others(s),
           adapter # "memory", NoneActive(Id(s)), row.state = "reserved",
           table # "lease" => row.token = Fresh,
           table = "lease" => /\ row.token # 0
                              /\ \A o \in Sessions : HasGrant(Has[o], Id(s), grants) => Has[o].token < row.token,
           Grant(s, row)
    PROVE  ReservationsIInv'
  <1> DEFINE q == Id(s)
             n == Len(grants) + 1
             g == [id |-> q, until |-> row.until, status |-> "live", late |-> FALSE]
             v == [g EXCEPT !.status = "void", !.until = 0]
             G == Append(grants, g)
             u == Remember(call[s].undo, n, v)
             h == [index |-> n, token |-> row.token, until |-> row.until]
             c == [NoCall EXCEPT !.pc = "open", !.undo = u, !.grant = h]
  <1>1. /\ Write(s, row) /\ grants' = G /\ call' = [call EXCEPT ![s] = c]
    BY DEF Grant, Returned, Fresh
  <1>2. /\ grants \in Seq(Grants) /\ Len(grants) \in Nat /\ DOMAIN grants = 1..Len(grants)
        /\ \A k \in DOMAIN grants : k # 0
    BY GrantSequence DEF ReservationsIInv, ReservationsTypeOK
  <1>3. row.until \in Nat /\ row.token \in Nat
    BY DEF Rows
  <1>4. /\ g \in Grants /\ g.id = q /\ g.until = row.until /\ g.status = "live"
        /\ v \in Grants /\ v.id = q /\ v.status = "void"
    BY <1>3 DEF Grants, Statuses
  <1>5. /\ G \in Seq(Grants) /\ DOMAIN G = 1..n /\ n \in Nat /\ n # 0 /\ n \notin DOMAIN grants
        /\ G[n] = g /\ \A k \in DOMAIN grants : G[k] = grants[k]
    <2> HIDE DEF g
    <2> QED BY <1>2, <1>4
  <1>6. Undoes(s) /\ clock \in Nat /\ \A o \in Sessions : Keeps(o)
    BY CallFields
  <1>7. n \notin DOMAIN call[s].undo
    BY <1>5, <1>6 DEF Undoes
  <1>8. /\ DOMAIN u = DOMAIN call[s].undo \cup {n} /\ u[n] = v
        /\ \A j \in DOMAIN call[s].undo : u[j] = call[s].undo[j]
    <2> HIDE DEF v
    <2> QED BY <1>7 DEF Remember
  <1>9. /\ DOMAIN c = Fields /\ c.pc = "open" /\ c.now = 0 /\ c.born = 0 /\ c.undo = u /\ c.grant = h
    BY DEF NoCall, Fields
  <1>10. DOMAIN h = GrantFields /\ h.index = n /\ h.token = row.token
    BY DEF GrantFields
  <1>11. /\ DOMAIN Has = Sessions /\ DOMAIN Has' = Sessions
         /\ Has'[s] = c.grant /\ \A o \in Sessions \ {s} : Has'[o] = Has[o]
         /\ \A o \in Sessions : Has[o] = call[o].grant
    BY <1>1, CallUpdated
  <1> HIDE DEF c, h, u, g, v
  <1>12. \A o \in Sessions : Has[o].index # n /\ Has[o].token \in Nat
    BY <1>5, <1>6, <1>11 DEF Keeps
  <1>13. \A o \in Sessions : HasGrant(Has[o], q, grants) => Has[o].token # row.token
    <2>1. CASE table = "lease"
      BY <2>1, <1>3, <1>12
    <2>2. CASE table # "lease"
      BY <2>2, <1>5, <1>6, <1>11 DEF Keeps, HasGrant, Fresh
    <2> QED BY <2>1, <2>2
  <1> HIDE DEF G
  <1>14. Coherent(table, clock, Has', q, row, Append(grants, g))
    <2>1. \A o \in DOMAIN Has : HasGrant(Has[o], q, grants) => Has[o].token \in Nat /\ Has[o].token # row.token
      BY <1>11, <1>12, <1>13
    <2>2. table = "lease" => /\ row.token \in Nat /\ h.token = row.token
                             /\ \A o \in DOMAIN Has : HasGrant(Has[o], q, grants) => Has[o].token <= row.token
      BY <1>3, <1>10, <1>11, <1>12
    <2>3. /\ DOMAIN Has' = DOMAIN Has /\ Has'[s] = h /\ s \in DOMAIN Has
          /\ \A o \in DOMAIN Has \ {s} : Has'[o] = Has[o]
          /\ h.index \in {0, Len(grants) + 1} /\ \A o \in DOMAIN Has : Has[o].index # Len(grants) + 1
      BY <1>9, <1>10, <1>11, <1>12
    <2>4. \A k \in DOMAIN grants : grants[k].id = q => ~Active(grants[k], clock)
      BY DEF NoneActive
    <2> QED BY <2>1, <2>2, <2>3, <2>4, <1>2, <1>4, CoherentGrant
  <1>15. WriteStep(s, q, row, G, c)
    <2>1. holder[q] \in {s, Nobody}
      BY RowFacts
    <2> QED BY <2>1, <1>1 DEF WriteStep, Write
  <1>16. GrantsStep(q, G)
    BY <1>2, <1>4, <1>5 DEF GrantsStep
  <1>17. UndoStep(s, q, G, c)
    BY <1>2, <1>4, <1>5, <1>8, <1>9 DEF UndoStep
  <1>18. HeldStep(s, G, c)
    BY <1>2, <1>3, <1>4, <1>5, <1>9, <1>10 DEF HeldStep, Fresh
  <1>19. CallStep(s, q, c)
    BY <1>6, <1>9 DEF CallStep
  <1> QED BY <1>14, <1>15, <1>16, <1>17, <1>18, <1>19, WriteCoherent DEF G

\* The grants with the one of index k replaced.
LEMMA GrantReplaced ==
    ASSUME NEW G \in Seq(Grants), NEW k \in DOMAIN G, NEW g \in Grants
    PROVE  /\ [G EXCEPT ![k] = g] \in Seq(Grants) /\ DOMAIN [G EXCEPT ![k] = g] = DOMAIN G
           /\ [G EXCEPT ![k] = g][k] = g /\ \A j \in DOMAIN G \ {k} : [G EXCEPT ![k] = g][j] = G[j]
  <1>1. DOMAIN G = 1..Len(G) /\ Len(G) \in Nat
    BY GrantSequence
  <1>2. \A j \in DOMAIN G : G[j] \in Grants
    BY GrantSequence
  <1>3. G = [j \in 1..Len(G) |-> G[j]]
    BY <1>1
  <1>4. [G EXCEPT ![k] = g] \in [1..Len(G) -> Grants]
    BY <1>1, <1>2, <1>3
  <1>5. [G EXCEPT ![k] = g] \in Seq(Grants)
    BY <1>1, <1>4
  <1> QED BY <1>5

\* Grant k of the identity of s is settled, the newest one: its row, its end and its status.
Settlement(s, k, row, g, h) ==
    /\ k \in DOMAIN grants /\ grants[k].id = Id(s) /\ grants[k].status # "void" /\ Newest(Id(s), grants, k)
    /\ row \in Rows /\ g \in Grants /\ g.id = Id(s) /\ g.status # "void"
    /\ Active(g, clock) => Backs(table, row, g)
    /\ \/ row.token = 0
       \/ row.token = Row(s).token /\ Row(s).state = "reserved"
       \/ row.state # "reserved"
    /\ table = "lease" => row.token = Row(s).token /\ row.state # "absent"
    /\ table = "outbox" => row.token = 0
    /\ table = "relay" /\ row.state = "uncertain" => row.born = k
    /\ Write(s, row) /\ grants' = [grants EXCEPT ![k] = g]
    /\ Returned(s, "open", Remember(call[s].undo, k, grants[k]), h)
    /\ \/ h = NoGrant
       \/ h = call[s].grant
       \/ /\ DOMAIN h = GrantFields /\ h.index # 0
          /\ h.index = call[s].grant.index /\ h.token = call[s].grant.token

\* A settlement changes the newest grant of the identity and the row together.
LEMMA SettlementInvariant ==
    ASSUME ReservationsIInv, NEW s \in Sessions, NEW k, NEW row, NEW g, NEW h, Id(s) \in Identities, ~Others(s),
           adapter # "memory", Settlement(s, k, row, g, h)
    PROVE  ReservationsIInv'
  <1> DEFINE q == Id(s)
             G == [grants EXCEPT ![k] = g]
             u == Remember(call[s].undo, k, grants[k])
             c == [NoCall EXCEPT !.pc = "open", !.undo = u, !.grant = h]
  <1>1. /\ k \in DOMAIN grants /\ grants[k].id = q /\ grants[k].status # "void" /\ Newest(q, grants, k)
        /\ row \in Rows /\ g \in Grants /\ g.id = q /\ g.status # "void"
    BY DEF Settlement
  <1>2. /\ grants \in Seq(Grants) /\ DOMAIN grants \subseteq Nat
        /\ \A j \in DOMAIN grants : j # 0 /\ grants[j] \in Grants
    BY GrantSequence DEF ReservationsIInv, ReservationsTypeOK
  <1>3. /\ G \in Seq(Grants) /\ DOMAIN G = DOMAIN grants
        /\ G[k] = g /\ \A j \in DOMAIN grants \ {k} : G[j] = grants[j]
    BY <1>1, <1>2, GrantReplaced
  <1>4. Undoes(s) /\ clock \in Nat /\ \A o \in Sessions : Keeps(o)
    BY CallFields
  <1>5. /\ DOMAIN u = DOMAIN call[s].undo \cup {k}
        /\ \A j \in DOMAIN call[s].undo : u[j] = call[s].undo[j]
        /\ k \notin DOMAIN call[s].undo => u[k] = grants[k]
    BY DEF Remember
  <1>6. /\ DOMAIN c = Fields /\ c.pc = "open" /\ c.now = 0 /\ c.born = 0 /\ c.undo = u /\ c.grant = h
    BY DEF NoCall, Fields
  <1>7. call' = [call EXCEPT ![s] = c] /\ grants' = G /\ Write(s, row)
    BY DEF Settlement, Returned
  <1>8. /\ DOMAIN Has = Sessions /\ DOMAIN Has' = Sessions
        /\ Has'[s] = c.grant /\ \A o \in Sessions \ {s} : Has'[o] = Has[o]
        /\ \A o \in Sessions : Has[o] = call[o].grant
    BY <1>7, CallUpdated
  <1> HIDE DEF c, u, G
  <1>9. \A o \in Sessions : HasGrant(Has'[o], q, G) =>
            Has'[o].index = Has[o].index /\ Has'[o].token = Has[o].token /\ Has[o].token # 0
    <2> SUFFICES ASSUME NEW o \in Sessions, HasGrant(Has'[o], q, G)
                 PROVE  Has'[o].index = Has[o].index /\ Has'[o].token = Has[o].token /\ Has[o].token # 0
      OBVIOUS
    <2>1. Has'[o].index = Has[o].index /\ Has'[o].token = Has[o].token
      BY <1>6, <1>8 DEF HasGrant, NoGrant, Settlement
    <2> QED BY <2>1, <1>4, <1>8 DEF Keeps, HasGrant
  <1>10. Coherent(table, clock, Has', q, row, G)
    <2>1. Coherent(table, clock, Has, q, Row(s), grants)
      BY RowFacts
    <2>2. /\ Active(G[k], clock) => Backs(table, row, G[k])
          /\ row.token = 0 \/ (row.token = Row(s).token /\ Row(s).state = "reserved") \/ row.state # "reserved"
          /\ table = "lease" => row.token = Row(s).token /\ row.state # "absent"
          /\ table = "outbox" => row.token = 0
          /\ table = "relay" /\ row.state = "uncertain" => row.born = k
      BY <1>3 DEF Settlement
    <2>3. \A j \in DOMAIN grants : G[j].id = grants[j].id /\ (j # k => G[j] = grants[j])
      BY <1>1, <1>3
    <2>4. /\ G[k].status # "void" /\ DOMAIN Has' = DOMAIN Has
          /\ \A o \in DOMAIN Has : HasGrant(Has'[o], q, G) =>
                 Has'[o].index = Has[o].index /\ Has'[o].token = Has[o].token /\ Has[o].token # 0
      BY <1>1, <1>3, <1>8, <1>9
    <2> HIDE DEF q
    <2> QED BY ONLY <2>1, <2>2, <2>3, <2>4, <1>1, <1>2, <1>3, CoherentSettled
  <1>11. WriteStep(s, q, row, G, c)
    <2>1. holder[q] \in {s, Nobody}
      BY RowFacts
    <2> QED BY <2>1, <1>1, <1>7 DEF WriteStep, Write
  <1>12. GrantsStep(q, G)
    BY <1>1, <1>3 DEF GrantsStep
  <1>13. UndoStep(s, q, G, c)
    BY <1>1, <1>2, <1>3, <1>5, <1>6 DEF UndoStep
  <1>14. HeldStep(s, G, c)
    BY <1>6 DEF HeldStep, Settlement
  <1>15. CallStep(s, q, c)
    BY <1>4, <1>6 DEF CallStep
  <1> QED BY <1>10, <1>11, <1>12, <1>13, <1>14, <1>15, WriteCoherent

\* A caller that settles its own grant, whose reservation the row still is.
LEMMA SettledInvariant ==
    ASSUME ReservationsIInv, NEW s \in Sessions, NEW row \in Rows, NEW until \in Nat, NEW status,
           call[s].pc \notin {"idle", "open"}, Settling(call[s].op),
           ~Others(s), adapter # "memory",
           Row(s).token = Held(s).token, table = "outbox" \/ Row(s).state = "reserved",
           status \in {"live", "done", "ended"},
           \A g \in Grants : Active(g, clock) /\ g.until = until /\ g.status = status => Backs(table, row, g),
           row.token \in {0, Row(s).token},
           table = "lease" => row.token = Row(s).token /\ row.state # "absent",
           table = "outbox" => row.token = 0,
           table = "relay" /\ row.state = "uncertain" => row.born = Held(s).index,
           Settled(s, row, until, status)
    PROVE  ReservationsIInv'
  <1> DEFINE q == Id(s)
             k == call[s].grant.index
             newer == {j \in DOMAIN grants : j > k /\ grants[j].id = q /\ grants[j].status # "void"}
             g == [id |-> q, until |-> until, status |-> status, late |-> FALSE]
             h == IF status = "live" THEN [call[s].grant EXCEPT !.until = until] ELSE NoGrant
  <1>1. Called(s) /\ Keeps(s) /\ clock \in Nat
    BY CallFields
  <1>2. q \in Identities
    BY <1>1 DEF Called, Id
  <1>3. /\ k # 0 /\ k \in DOMAIN grants /\ grants[k].id = q /\ grants[k].status # "void"
        /\ DOMAIN call[s].grant = GrantFields /\ call[s].grant.token # 0
    BY <1>1 DEF Keeps, Id, GrantFields
  <1>4. Coherent(table, clock, Has, q, Row(s), grants) /\ Has[s] = call[s].grant /\ s \in DOMAIN Has
    BY <1>2, RowFacts DEF Has
  <1>5. Row(s).state = "reserved"
    BY <1>3, <1>4 DEF Coherent, Held
  <1>6. Newest(q, grants, k)
    <2>1. HasGrant(Has[s], q, grants)
      BY <1>3, <1>4 DEF HasGrant
    <2> QED BY <1>4, <1>5, <2>1 DEF Coherent, Held
  <1>7. newer = {}
    BY <1>6 DEF Newest
  <1>8. /\ grants \in Seq(Grants) /\ grants[k] \in Grants
    BY <1>3, GrantSequence DEF ReservationsIInv, ReservationsTypeOK
  <1>9. grants[k] = [id |-> q, until |-> grants[k].until, status |-> grants[k].status, late |-> grants[k].late]
    BY <1>3, <1>8 DEF Grants
  <1>10. [[[grants[k] EXCEPT !.until = until] EXCEPT !.status = status] EXCEPT !.late = newer # {}] = g
    <2>1. (newer # {}) = FALSE
      BY <1>7
    <2>2. ASSUME NEW z
          PROVE  [[[grants[k] EXCEPT !.until = until] EXCEPT !.status = status] EXCEPT !.late = z]
                     = [id |-> q, until |-> until, status |-> status, late |-> z]
      <3> DEFINE y == [grants[k] EXCEPT !.until = until]
                 w == [y EXCEPT !.status = status]
      <3>1. y = [id |-> q, until |-> until, status |-> grants[k].status, late |-> grants[k].late]
        BY <1>9
      <3> HIDE DEF y
      <3>2. w = [id |-> q, until |-> until, status |-> status, late |-> grants[k].late]
        BY <3>1
      <3> HIDE DEF w
      <3>3. [w EXCEPT !.late = z] = [id |-> q, until |-> until, status |-> status, late |-> z]
        BY <3>2
      <3> QED BY <3>3 DEF w, y
    <2> HIDE DEF newer
    <2> QED BY <2>1, <2>2, Zenon
  <1>11. grants' = [grants EXCEPT ![k] = g]
    <2>1. grants' = [grants EXCEPT ![k].until = until, ![k].status = status, ![k].late = newer # {}]
      BY DEF Settled
    <2> QED BY <2>1, <1>3, <1>10
  <1>12. g \in Grants /\ g.id = q /\ g.status = status /\ g.until = until
    BY <1>2 DEF Grants, Statuses
  <1>13. /\ h = NoGrant
            \/ /\ DOMAIN h = GrantFields /\ h.index # 0
               /\ h.index = call[s].grant.index /\ h.token = call[s].grant.token
    BY <1>3 DEF GrantFields
  <1>14. /\ Write(s, row) /\ Returned(s, "open", Remember(call[s].undo, k, grants[k]), h)
    BY DEF Settled
  <1> HIDE DEF h, g, k
  <1>15. table = "relay" /\ row.state = "uncertain" => row.born = k
    BY DEF k, Held
  <1>16. Settlement(s, k, row, g, h)
    BY <1>3, <1>5, <1>6, <1>11, <1>12, <1>13, <1>14, <1>15 DEF Settlement
  <1> QED BY <1>2, <1>16, SettlementInvariant

\* resolve_uncertain() settles the grant the uncertain row remembers.
LEMMA ResolveInvariant ==
    ASSUME ReservationsIInv, NEW s \in Sessions, ResolveUncertain(s), adapter # "memory", table = "relay"
    PROVE  ReservationsIInv'
  <1> DEFINE q == Id(s)
             k == Row(s).born
  <1>1. Called(s) /\ Keeps(s) /\ clock \in Nat
    BY CallFields
  <1>2. q \in Identities
    BY <1>1 DEF Called, Id, ResolveUncertain, At
  <1>3. CASE Refuse(s)
    BY <1>3, RefuseQuiet
  <1>4. ASSUME NEW row, NEW until \in Nat, NEW status \in {"done", "ended"},
               Row(s).state = "uncertain", ~Others(s),
               row \in Rows, row.state \in {"completed", "free"}, until > clock => status = "done" /\ row.state = "completed",
               Write(s, row), grants' = [grants EXCEPT ![k].until = until, ![k].status = status],
               Returned(s, "open", Remember(call[s].undo, k, grants[k]), Held(s))
        PROVE  ReservationsIInv'
    <2> DEFINE g == [id |-> q, until |-> until, status |-> status, late |-> grants[k].late]
    <2>1. /\ k \in DOMAIN grants /\ grants[k].id = q /\ grants[k].status # "void" /\ Newest(q, grants, k)
      <3>1. Coherent(table, clock, Has, q, Row(s), grants)
        BY <1>2, <1>4, RowFacts
      <3> QED BY <3>1, <1>4 DEF Coherent
    <2>2. grants \in Seq(Grants) /\ grants[k] \in Grants
      BY <2>1, GrantSequence DEF ReservationsIInv, ReservationsTypeOK
    <2>3. grants[k] = [id |-> q, until |-> grants[k].until, status |-> grants[k].status, late |-> grants[k].late]
      BY <2>1, <2>2 DEF Grants
    <2>4. [[grants[k] EXCEPT !.until = until] EXCEPT !.status = status] = g
      <3> DEFINE y == [grants[k] EXCEPT !.until = until]
      <3>1. y = [id |-> q, until |-> until, status |-> grants[k].status, late |-> grants[k].late]
        BY <2>3
      <3> HIDE DEF y
      <3>2. [y EXCEPT !.status = status] = g
        BY <3>1
      <3> QED BY <3>2 DEF y
    <2>5. grants' = [grants EXCEPT ![k] = g]
      BY <2>1, <2>4, <1>4
    <2>6. g \in Grants /\ g.id = q /\ g.status = status /\ g.until = until
      <3>1. grants[k].late \in {FALSE}
        BY <2>2 DEF Grants
      <3> QED BY <3>1, <1>2, <1>4 DEF Grants, Statuses
    <2> HIDE DEF g
    <2>7. Active(g, clock) => Backs(table, row, g)
      BY <2>6, <1>4 DEF Active, Backs
    <2>8. Settlement(s, k, row, g, call[s].grant)
      BY <2>1, <2>5, <2>6, <2>7, <1>4 DEF Settlement, Held
    <2> QED BY <2>8, <1>2, <1>4, SettlementInvariant
  <1>5. Row(s) \in Rows /\ Forever \in Nat /\ call[s].now \in Nat
    BY <1>1, <1>2, RowFacts, ReservationsAssumption DEF Forever, Called
  <1>6. /\ [Row(s) EXCEPT !.state = "completed"] \in Rows
        /\ [Row(s) EXCEPT !.state = "completed"].state = "completed"
        /\ [Row(s) EXCEPT !.state = "free", !.avail = Now(s)] \in Rows
        /\ [Row(s) EXCEPT !.state = "free", !.avail = Now(s)].state = "free"
    BY <1>5 DEF Rows, Now
  <1>7. CASE /\ Row(s).state = "uncertain" /\ ~Others(s)
             /\ Write(s, [Row(s) EXCEPT !.state = "completed"])
             /\ grants' = [grants EXCEPT ![k].until = Forever, ![k].status = "done"]
             /\ Returned(s, "open", Remember(call[s].undo, k, grants[k]), Held(s))
    BY <1>7, <1>6, <1>5, <1>4
  <1>8. CASE /\ Row(s).state = "uncertain" /\ ~Others(s)
             /\ Write(s, [Row(s) EXCEPT !.state = "free", !.avail = Now(s)])
             /\ grants' = [grants EXCEPT ![k].until = 0, ![k].status = "ended"]
             /\ Returned(s, "open", Remember(call[s].undo, k, grants[k]), Held(s))
    <2>1. ~(0 > clock) /\ 0 \in Nat
      BY <1>1
    <2> QED BY <1>8, <1>6, <1>5, <1>4, <2>1
  <1> QED BY <1>3, <1>7, <1>8 DEF ResolveUncertain

----------------------------------------------------------------------------
\* The calls.

\* The rows that reservations and their settlements write.
LEMMA NewRow ==
    ASSUME ReservationsIInv, NEW s \in Sessions, NEW token \in Nat, NEW born \in Nat
    PROVE  /\ New(s, token) \in Rows /\ New(s, token).state = "reserved" /\ New(s, token).token = token
           /\ [New(s, token) EXCEPT !.born = born] \in Rows
           /\ [New(s, token) EXCEPT !.born = born].state = "reserved"
           /\ [New(s, token) EXCEPT !.born = born].token = token
           /\ Fresh \in Nat /\ Fresh # 0
  <1>1. Fresh \in Nat /\ Fresh # 0
    BY DEF Fresh, ReservationsIInv, ReservationsTypeOK
  <1>2. call[s].now + Ttl \in Nat
    BY CallFields, ReservationsAssumption
  <1> QED BY <1>1, <1>2 DEF New, Rows

\* The grant of a token no caller has, in a table that is not the leases'.
LEMMA FreshGrant ==
    ASSUME ReservationsIInv, NEW s \in Sessions, NEW row, Id(s) \in Identities, ~Others(s),
           adapter # "memory", table # "lease", NoneActive(Id(s)), Grant(s, row),
           row = New(s, Fresh) \/ row = [New(s, Fresh) EXCEPT !.born = Row(s).born]
    PROVE  ReservationsIInv'
  <1>1. Row(s).born \in Nat
    BY RowFacts DEF Rows
  <1>2. Fresh \in Nat
    BY DEF Fresh, ReservationsIInv, ReservationsTypeOK
  <1>3. row \in Rows /\ row.state = "reserved" /\ row.token = Fresh
    <2> DEFINE n == Fresh
               b == Row(s).born
               r == [New(s, n) EXCEPT !.born = b]
    <2>1. n \in Nat /\ b \in Nat /\ (row = New(s, n) \/ row = r)
      BY <1>1, <1>2
    <2> HIDE DEF n, b
    <2>2. /\ New(s, n) \in Rows /\ New(s, n).state = "reserved" /\ New(s, n).token = n
          /\ r \in Rows /\ r.state = "reserved" /\ r.token = n
      BY <2>1, NewRow
    <2> HIDE DEF r
    <2> QED BY <2>1, <2>2 DEF n
  <1> QED BY <1>3, GrantInvariant

\* An insert that is granted, or collides.
LEMMA InsertInvariant ==
    ASSUME ReservationsIInv, NEW s \in Sessions, NEW token, NEW collided, call[s].pc \notin {"idle", "open"},
           adapter # "memory", ~Deciding(collided), Insert(s, New(s, token), collided),
           IF table = "lease" THEN token = 1 ELSE token = Fresh
    PROVE  ReservationsIInv'
  <1>0. /\ DOMAIN call[s] = Fields /\ call[s].now \in Nat /\ call[s].now <= clock /\ clock \in Nat
        /\ s # Nobody /\ Called(s) /\ Keeps(s) /\ Undoes(s) /\ DOMAIN call = Sessions
    BY CallFields
  <1>1. Id(s) \in Identities
    BY <1>0 DEF Called, Id
  <1>2. CASE Row(s).state = "absent" /\ Grant(s, New(s, token))
    <2>1. ~Others(s)
      BY <1>1, <1>2, RowFacts DEF Insert, KeySettled
    <2>2. NoneActive(Id(s))
      BY <1>1, <1>2, <2>1, NoneActiveSeen DEF Backs
    <2>3. CASE table # "lease"
      BY <1>1, <1>2, <2>1, <2>2, <2>3, FreshGrant
    <2>4. CASE table = "lease"
      <3>1. /\ New(s, token) \in Rows /\ New(s, token).state = "reserved" /\ New(s, token).token = 1
        <4>1. token \in Nat /\ token = 1
          BY <2>4
        <4> QED BY ONLY <4>1, ReservationsIInv, s \in Sessions, NewRow
      <3>2. Coherent(table, clock, Has, Id(s), Row(s), grants) /\ DOMAIN Has = Sessions
        BY <1>1, <2>1, RowFacts DEF Has
      <3>3. \A o \in Sessions : ~HasGrant(Has[o], Id(s), grants)
        BY <3>2, <2>4, <1>2 DEF Coherent
      <3> QED BY <1>1, <1>2, <2>1, <2>2, <2>4, <3>1, <3>3, GrantInvariant
    <2> QED BY <2>3, <2>4
  <1>3. CASE /\ call' = [call EXCEPT ![s].pc = collided, ![s].born = Row(s).born]
             /\ UNCHANGED <<table, adapter, outer, clock, rows, holder, staged, grants>>
    <2> DEFINE c == [call[s] EXCEPT !.pc = collided, !.born = Row(s).born]
    <2>1. call' = [call EXCEPT ![s] = c]
      BY <1>0, <1>3
    <2>2. /\ DOMAIN c = Fields /\ c.pc = collided /\ c.op = call[s].op /\ c.id = call[s].id /\ c.now = call[s].now
          /\ c.born = Row(s).born /\ c.undo = call[s].undo /\ c.grant = call[s].grant
      BY <1>0 DEF Fields
    <2> HIDE DEF c
    <2>3. Row(s).born \in Nat
      BY <1>1, RowFacts DEF Rows
    <2>4. QuietStep(s, c)
      BY <1>0, <1>1, <1>3, <2>1, <2>2, <2>3 DEF QuietStep, Keeps, Id
    <2> QED BY <2>4, QuietInvariant
  <1> QED BY <1>2, <1>3 DEF Insert

\* A call that decides has the row.
LEMMA DecidingHolds ==
    ASSUME ReservationsIInv, NEW s \in Sessions, call[s].pc \notin {"idle", "open"}
    PROVE  /\ Id(s) \in Identities
           /\ Deciding(call[s].pc) => ~Others(s)
           /\ call[s].pc = "found" => ~Others(s)
  BY CallFields DEF Called, Deciding, Others, Id

\* A reservation that ran out before the caller read its clock excludes nobody.
LEMMA ExpiredNone ==
    ASSUME ReservationsIInv, NEW s \in Sessions, Id(s) \in Identities, ~Others(s),
           Row(s).until <= call[s].now,
           \/ table \in {"replay", "lease"}
           \/ table = "idempotency" /\ Row(s).state # "uncertain"
           \/ table = "inbox" /\ Row(s).state # "completed"
           \/ table \in {"outbox", "relay"} /\ Row(s).state \in {"free", "reserved"}
    PROVE  NoneActive(Id(s))
  <1>1. call[s].now \in Nat /\ call[s].now <= clock /\ clock \in Nat /\ Row(s).until \in Nat
    BY CallFields, RowFacts DEF Rows
  <1>2. ASSUME NEW g \in Grants, Backs(table, Row(s), g) PROVE ~Active(g, clock)
    <2>1. g.until = Row(s).until
      BY <1>2 DEF Backs
    <2> QED BY <1>1, <2>1 DEF Active
  <1> QED BY <1>2, NoneActiveSeen

\* The replay store of Django.
LEMMA ReplayReserve ==
    ASSUME ReservationsIInv, NEW s \in Sessions, DjangoReplayReserve(s)
    PROVE  ReservationsIInv'
  <1>1. adapter # "memory" /\ table = "replay"
    BY DEF DjangoReplayReserve, Asks
  <1>2. ~Deciding("create") /\ ~Deciding("collided") /\ ~Deciding("raise")
    BY <1>1 DEF Deciding
  <1>3. CASE At(s, "begin") /\ LockedFirst(s, "found", "create")
    BY <1>1, <1>2, <1>3, LockedFirstInvariant DEF At
  <1>4. CASE /\ At(s, "found") /\ Row(s).until <= call[s].now
             /\ Write(s, Absent) /\ Goto(s, "create") /\ UNCHANGED grants
    <2>1. Id(s) \in Identities /\ ~Others(s)
      BY <1>4, DecidingHolds DEF At
    <2>2. NoneActive(Id(s))
      BY <1>1, <1>4, <2>1, ExpiredNone
    <2> QED BY <1>1, <1>4, <2>1, <2>2, WriteGoto DEF At
  <1>5. CASE Refuse(s)
    BY <1>5, RefuseQuiet
  <1>6. CASE At(s, "create") /\ Insert(s, New(s, Fresh), "collided")
    BY <1>1, <1>2, <1>6, InsertInvariant DEF At
  <1>7. CASE Reselect(s, "detected")
    BY <1>1, <1>2, <1>7, LockedFirstInvariant DEF Reselect, At
  <1> QED BY <1>3, <1>4, <1>5, <1>6, <1>7 DEF DjangoReplayReserve

\* The idempotency stores: reserve.
LEMMA IdempotencyReserve ==
    ASSUME ReservationsIInv, NEW s \in Sessions, DjangoIdempotencyReserve(s) \/ SqlIdempotencyReserve(s)
    PROVE  ReservationsIInv'
  <1>1. adapter # "memory" /\ table = "idempotency"
    BY DEF DjangoIdempotencyReserve, SqlIdempotencyReserve, Asks
  <1>2. ~Deciding("create") /\ ~Deciding("collided") /\ ~Deciding("raise")
    BY <1>1 DEF Deciding
  <1>3. CASE At(s, "begin") /\ LockedFirst(s, "found", "create")
    BY <1>1, <1>2, <1>3, LockedFirstInvariant DEF At
  <1>4. ASSUME At(s, "found"), Lapsed(s)
        PROVE  Id(s) \in Identities /\ ~Others(s) /\ NoneActive(Id(s))
    <2>1. Id(s) \in Identities /\ ~Others(s)
      BY <1>4, DecidingHolds DEF At
    <2> QED BY <1>1, <1>4, <2>1, ExpiredNone DEF Lapsed
  <1>5. CASE At(s, "found") /\ Lapsed(s) /\ Write(s, Absent) /\ Goto(s, "create") /\ UNCHANGED grants
    BY <1>1, <1>4, <1>5, WriteGoto DEF At
  <1>6. CASE Refuse(s)
    BY <1>6, RefuseQuiet
  <1>7. CASE (At(s, "create") \/ At(s, "begin")) /\ Insert(s, New(s, Fresh), "collided")
    BY <1>1, <1>2, <1>7, InsertInvariant DEF At
  <1>8. CASE Reselect(s, "decide") \/ Reselect(s, "found")
    BY <1>1, <1>2, <1>8, LockedFirstInvariant DEF Reselect, At
  <1>9. CASE At(s, "found") /\ Lapsed(s) /\ Grant(s, [New(s, Fresh) EXCEPT !.born = Row(s).born])
    BY <1>1, <1>4, <1>9, FreshGrant
  <1> QED BY <1>3, <1>5, <1>6, <1>7, <1>8, <1>9 DEF DjangoIdempotencyReserve, SqlIdempotencyReserve

\* The inbox stores: begin.
LEMMA InboxBegin ==
    ASSUME ReservationsIInv, NEW s \in Sessions, DjangoInboxBegin(s) \/ SqlInboxBegin(s)
    PROVE  ReservationsIInv'
  <1>1. adapter # "memory" /\ table = "inbox"
    BY DEF DjangoInboxBegin, SqlInboxBegin, Asks
  <1>2. ~Deciding("create") /\ ~Deciding("collided") /\ ~Deciding("raise")
    BY <1>1 DEF Deciding
  <1>3. CASE At(s, "begin") /\ LockedFirst(s, "found", "create")
    BY <1>1, <1>2, <1>3, LockedFirstInvariant DEF At
  <1>4. CASE At(s, "found") /\ Stalled(s) /\ TakeOver(s)
    <2>1. Id(s) \in Identities /\ ~Others(s)
      BY <1>4, DecidingHolds DEF At
    <2>2. NoneActive(Id(s))
      BY <1>1, <1>4, <2>1, ExpiredNone DEF Stalled
    <2> QED BY <1>1, <1>4, <2>1, <2>2, FreshGrant DEF TakeOver
  <1>5. CASE Refuse(s)
    BY <1>5, RefuseQuiet
  <1>6. CASE (At(s, "create") \/ At(s, "begin")) /\ Insert(s, New(s, Fresh), "collided")
    BY <1>1, <1>2, <1>6, InsertInvariant DEF At
  <1>7. CASE Reselect(s, "found")
    BY <1>1, <1>2, <1>7, LockedFirstInvariant DEF Reselect, At
  <1> QED BY <1>3, <1>4, <1>5, <1>6, <1>7 DEF DjangoInboxBegin, SqlInboxBegin

\* The lease store of Django: acquire, which raises the token of the row it finds.
LEMMA LeaseAcquire ==
    ASSUME ReservationsIInv, NEW s \in Sessions, DjangoLeaseAcquire(s)
    PROVE  ReservationsIInv'
  <1> DEFINE busy == Row(s).state = "reserved" /\ Row(s).until > call[s].now
             row == [New(s, Row(s).token + 1) EXCEPT !.born = Row(s).born]
  <1>1. adapter # "memory" /\ table = "lease"
    BY DEF DjangoLeaseAcquire, Asks
  <1>2. ~Deciding("create") /\ ~Deciding("collided") /\ ~Deciding("raise")
    BY <1>1 DEF Deciding
  <1>3. CASE At(s, "begin") /\ LockedFirst(s, "found", "create")
    BY <1>1, <1>2, <1>3, LockedFirstInvariant DEF At
  <1>4. CASE At(s, "found") /\ ~busy /\ Grant(s, row)
    <2>1. Id(s) \in Identities /\ ~Others(s)
      BY <1>4, DecidingHolds DEF At
    <2>2. /\ Row(s) \in Rows /\ Row(s).until \in Nat /\ Row(s).born \in Nat /\ Row(s).token \in Nat
          /\ Coherent(table, clock, Has, Id(s), Row(s), grants) /\ DOMAIN Has = Sessions
      BY <2>1, RowFacts DEF Rows, Has
    <2>3. NoneActive(Id(s))
      <3>1. CASE Row(s).state # "reserved"
        BY <1>1, <2>1, <3>1, NoneActiveSeen DEF Backs
      <3>2. CASE Row(s).until <= call[s].now
        BY <1>1, <2>1, <3>2, ExpiredNone
      <3> QED BY <1>4, <2>2, <3>1, <3>2, CallFields
    <2>4. row \in Rows /\ row.state = "reserved" /\ row.token = Row(s).token + 1
      <3> DEFINE n == Row(s).token + 1
                 b == Row(s).born
      <3>1. n \in Nat /\ b \in Nat
        BY <2>2
      <3> HIDE DEF n, b
      <3>2. /\ [New(s, n) EXCEPT !.born = b] \in Rows /\ [New(s, n) EXCEPT !.born = b].state = "reserved"
            /\ [New(s, n) EXCEPT !.born = b].token = n
        BY <3>1, NewRow
      <3> QED BY <3>2 DEF n, b
    <2> HIDE DEF row
    <2>5. \A o \in Sessions : HasGrant(Has[o], Id(s), grants) => Has[o].token < row.token
      <3> SUFFICES ASSUME NEW o \in Sessions, HasGrant(Has[o], Id(s), grants)
                   PROVE  Has[o].token < row.token
        OBVIOUS
      <3>1. Has[o].token <= Row(s).token
        BY <1>1, <2>2 DEF Coherent
      <3>2. Has[o].token \in Nat
        BY CallFields DEF Keeps, Has
      <3> QED BY <3>1, <3>2, <2>2, <2>4
    <2> QED BY <1>1, <1>4, <2>1, <2>2, <2>3, <2>4, <2>5, GrantInvariant
  <1>5. CASE Refuse(s)
    BY <1>5, RefuseQuiet
  <1>6. CASE At(s, "create") /\ Insert(s, New(s, 1), "collided")
    BY <1>1, <1>2, <1>6, InsertInvariant DEF At
  <1>7. CASE Reselect(s, "found")
    BY <1>1, <1>2, <1>7, LockedFirstInvariant DEF Reselect, At
  <1> QED BY <1>3, <1>4, <1>5, <1>6, <1>7 DEF DjangoLeaseAcquire

\* The outbox and relay stores: claim.
LEMMA OutboxClaim ==
    ASSUME ReservationsIInv, NEW s \in Sessions,
           DjangoOutboxClaim(s) \/ DjangoRelayClaim(s) \/ SqlRelayClaim(s)
    PROVE  ReservationsIInv'
  <1>1. adapter # "memory" /\ table \in {"outbox", "relay"} /\ Claims(s)
    BY DEF DjangoOutboxClaim, DjangoRelayClaim, SqlRelayClaim, Asks
  <1>2. CASE At(s, "begin") /\ ~Others(s) /\ Claimable(Row(s), call[s].now) /\ TakeOver(s)
    <2>1. Id(s) \in Identities
      BY <1>2, DecidingHolds DEF At
    <2>2. NoneActive(Id(s))
      BY <1>1, <1>2, <2>1, ExpiredNone DEF Claimable
    <2> QED BY <1>1, <1>2, <2>1, <2>2, FreshGrant DEF TakeOver
  <1>3. CASE Refuse(s)
    BY <1>3, RefuseQuiet
  <1> QED BY <1>1, <1>2, <1>3 DEF Claims

\* What a settlement finds: the row, and numbers.
LEMMA SettleFacts ==
    ASSUME ReservationsIInv, NEW s \in Sessions, call[s].pc \notin {"idle", "open"}
    PROVE  /\ Id(s) \in Identities /\ Row(s) \in Rows /\ Absent \in Rows /\ Now(s) \in Nat
           /\ Now(s) + Ttl \in Nat /\ Now(s) + Retention \in Nat /\ Forever \in Nat
           /\ Settling(call[s].op) => Held(s).index \in Nat
           /\ Absent.token = 0 /\ Absent.state = "absent"
  <1>1. Called(s) /\ Keeps(s) /\ Id(s) \in Identities
    BY CallFields, DecidingHolds
  <1>2. call[s].now \in Nat /\ Row(s) \in Rows
    BY <1>1, RowFacts DEF Called
  <1>3. Now(s) + Ttl \in Nat /\ Now(s) + Retention \in Nat /\ Forever \in Nat /\ Now(s) \in Nat
    BY <1>2, ReservationsAssumption DEF Now, Forever
  <1>4. DOMAIN grants \subseteq Nat
    BY GrantSequence DEF ReservationsIInv, ReservationsTypeOK
  <1>5. Settling(call[s].op) => Held(s).index \in Nat
    BY <1>1, <1>4 DEF Keeps, Held
  <1>6. Absent \in Rows /\ Absent.token = 0 /\ Absent.state = "absent"
    BY DEF Absent, Rows
  <1> QED BY <1>1, <1>2, <1>3, <1>5, <1>6

\* The writes that settle an idempotency reservation.
LEMMA IdempotencySettledInvariant ==
    ASSUME ReservationsIInv, NEW s \in Sessions, call[s].pc \notin {"idle", "open"}, ~Others(s),
           adapter # "memory", table = "idempotency", Row(s).token = Held(s).token,
           Row(s).state = "reserved", IdempotencySettled(s)
    PROVE  ReservationsIInv'
  <1> DEFINE kept == Now(s) + Retention
  <1>0. /\ Row(s) \in Rows /\ Absent \in Rows /\ Absent.token = 0 /\ Now(s) \in Nat
        /\ Now(s) + Ttl \in Nat /\ kept \in Nat /\ Forever \in Nat
    BY SettleFacts
  <1>1. CASE call[s].op = "renew" /\ Settled(s, [Row(s) EXCEPT !.until = Now(s) + Ttl], Now(s) + Ttl, "live")
    <2> DEFINE row == [Row(s) EXCEPT !.until = Now(s) + Ttl]
    <2>1. row \in Rows /\ row.token = Row(s).token /\ row.state = "reserved" /\ row.until = Now(s) + Ttl
      BY <1>0 DEF Rows
    <2> HIDE DEF row
    <2>2. \A g \in Grants : Active(g, clock) /\ g.until = Now(s) + Ttl /\ g.status = "live" => Backs(table, row, g)
      BY <2>1 DEF Backs
    <2>3. Settled(s, row, Now(s) + Ttl, "live")
      BY <1>1 DEF row
    <2> QED BY <1>0, <1>1, <2>1, <2>2, <2>3, SettledInvariant DEF Settling
  <1>2. CASE call[s].op = "complete"
             /\ Settled(s, [Row(s) EXCEPT !.state = "completed", !.until = kept], kept, "done")
    <2> DEFINE row == [Row(s) EXCEPT !.state = "completed", !.until = kept]
    <2>1. row \in Rows /\ row.token = Row(s).token /\ row.state = "completed" /\ row.until = kept
      BY <1>0 DEF Rows
    <2>3. Settled(s, row, kept, "done")
      BY <1>2
    <2> HIDE DEF row, kept
    <2>2. \A g \in Grants : Active(g, clock) /\ g.until = kept /\ g.status = "done" => Backs(table, row, g)
      BY <2>1 DEF Backs
    <2> QED BY <1>0, <1>2, <2>1, <2>2, <2>3, SettledInvariant DEF Settling
  <1>3. CASE call[s].op = "uncertain"
             /\ Settled(s, [Row(s) EXCEPT !.state = "uncertain", !.until = kept], Forever, "done")
    <2> DEFINE row == [Row(s) EXCEPT !.state = "uncertain", !.until = kept]
    <2>1. row \in Rows /\ row.token = Row(s).token /\ row.state = "uncertain"
      BY <1>0 DEF Rows
    <2>3. Settled(s, row, Forever, "done")
      BY <1>3
    <2> HIDE DEF row, kept
    <2>2. \A g \in Grants : Active(g, clock) /\ g.until = Forever /\ g.status = "done" => Backs(table, row, g)
      BY <2>1 DEF Backs
    <2> QED BY <1>0, <1>3, <2>1, <2>2, <2>3, SettledInvariant DEF Settling
  <1>4. CASE call[s].op = "abandon" /\ Settled(s, Absent, 0, "ended")
    <2>1. \A g \in Grants : Active(g, clock) /\ g.until = 0 /\ g.status = "ended" => Backs(table, Absent, g)
      BY DEF Active
    <2> QED BY <1>0, <1>4, <2>1, SettledInvariant DEF Settling
  <1> QED BY <1>1, <1>2, <1>3, <1>4 DEF IdempotencySettled

\* The idempotency stores: renew, complete, fail, release.
LEMMA IdempotencySettle ==
    ASSUME ReservationsIInv, NEW s \in Sessions, DjangoIdempotencySettle(s) \/ SqlIdempotencySettle(s)
    PROVE  ReservationsIInv'
  <1>1. adapter # "memory" /\ table = "idempotency" /\ call[s].op # "acquire" /\ call[s].pc \notin {"idle", "open"}
    BY DEF DjangoIdempotencySettle, SqlIdempotencySettle, Settles, At
  <1>2. CASE Refuse(s)
    BY <1>2, RefuseQuiet
  <1>3. ASSUME NEW at, HasReservation(s, at), ~Others(s), IdempotencySettled(s)
        PROVE  ReservationsIInv'
    BY <1>1, <1>3, IdempotencySettledInvariant DEF HasReservation
  <1>4. CASE At(s, "begin") /\ call[s].op # "abandon" /\ Lock(s)
    BY <1>1, <1>4, LockInvariant DEF At, Settling
  <1>5. CASE DjangoIdempotencySettle(s)
    BY <1>2, <1>3, <1>5 DEF DjangoIdempotencySettle, Matching
  <1>6. CASE SqlIdempotencySettle(s)
    BY <1>2, <1>3, <1>4, <1>6 DEF SqlIdempotencySettle, Matching
  <1> QED BY <1>5, <1>6

\* The inbox stores: complete and abandon.
LEMMA InboxSettle ==
    ASSUME ReservationsIInv, NEW s \in Sessions, DjangoInboxSettle(s) \/ SqlInboxSettle(s)
    PROVE  ReservationsIInv'
  <1>1. adapter # "memory" /\ table = "inbox" /\ call[s].pc \notin {"idle", "open"}
    BY DEF DjangoInboxSettle, SqlInboxSettle, Settles, At
  <1>0. Row(s) \in Rows /\ Absent \in Rows /\ Absent.token = 0 /\ Forever \in Nat
    BY <1>1, SettleFacts
  <1>2. CASE Refuse(s)
    BY <1>2, RefuseQuiet
  <1>3. ASSUME NEW at, HasReservation(s, at), ~Others(s), call[s].op = "complete", InboxCompleted(s)
        PROVE  ReservationsIInv'
    <2> DEFINE row == [Row(s) EXCEPT !.state = "completed"]
    <2>1. row \in Rows /\ row.token = Row(s).token /\ row.state = "completed"
      BY <1>0 DEF Rows
    <2>2. Settled(s, row, Forever, "done")
      BY <1>3 DEF InboxCompleted
    <2> HIDE DEF row
    <2>3. \A g \in Grants : Active(g, clock) /\ g.until = Forever /\ g.status = "done" => Backs(table, row, g)
      BY <1>1, <2>1 DEF Backs
    <2> QED BY <1>0, <1>1, <1>3, <2>1, <2>2, <2>3, SettledInvariant DEF HasReservation, Settling
  <1>4. ASSUME call[s].op = "abandon", InboxAbandoned(s)
        PROVE  ReservationsIInv'
    <2>1. \A g \in Grants : Active(g, clock) /\ g.until = 0 /\ g.status = "ended" => Backs(table, Absent, g)
      BY DEF Active
    <2>2. CASE /\ Row(s).token = Held(s).token /\ Row(s).state = "reserved" /\ ~Others(s)
               /\ Settled(s, Absent, 0, "ended")
      <3>1. Settling(call[s].op) /\ table # "lease" /\ 0 \in Nat /\ "ended" \in {"live", "done", "ended"}
        BY <1>1, <1>4 DEF Settling
      <3> QED BY <1>0, <1>1, <2>1, <2>2, <3>1, SettledInvariant
    <2> QED BY <1>2, <1>4, <2>2 DEF InboxAbandoned, Matching
  <1>5. CASE At(s, "begin") /\ Settling(call[s].op) /\ Lock(s)
    BY <1>1, <1>5, LockInvariant DEF At
  <1>6. CASE DjangoInboxSettle(s)
    BY <1>2, <1>3, <1>4, <1>6 DEF DjangoInboxSettle, Matching
  <1>7. CASE SqlInboxSettle(s)
    BY <1>2, <1>3, <1>4, <1>5, <1>7 DEF SqlInboxSettle, Matching, Settling
  <1> QED BY <1>6, <1>7

\* The lease store of Django: renew and release.
LEMMA LeaseSettle ==
    ASSUME ReservationsIInv, NEW s \in Sessions, DjangoLeaseSettle(s)
    PROVE  ReservationsIInv'
  <1>1. adapter # "memory" /\ table = "lease" /\ call[s].pc \notin {"idle", "open"} /\ Settling(call[s].op)
    BY DEF DjangoLeaseSettle, At, Settling
  <1>2. Row(s) \in Rows /\ Now(s) + Ttl \in Nat
    BY <1>1, SettleFacts
  <1>3. CASE Refuse(s)
    BY <1>3, RefuseQuiet
  <1>4. CASE At(s, "begin") /\ Lock(s)
    BY <1>1, <1>4, LockInvariant DEF At
  <1>5. ASSUME At(s, "locked"), Authoritative(s)
        PROVE  ~Others(s) /\ Row(s).token = Held(s).token /\ Row(s).state = "reserved"
    BY <1>1, <1>5, DecidingHolds DEF At, Deciding, Authoritative, HasReservation
  <1>6. CASE /\ At(s, "locked") /\ Authoritative(s)
             /\ Settled(s, [Row(s) EXCEPT !.until = Now(s) + Ttl], Now(s) + Ttl, "live")
    <2> DEFINE row == [Row(s) EXCEPT !.until = Now(s) + Ttl]
    <2>1. row \in Rows /\ row.token = Row(s).token /\ row.state = Row(s).state /\ row.until = Now(s) + Ttl
      BY <1>2 DEF Rows
    <2> HIDE DEF row
    <2>2. \A g \in Grants : Active(g, clock) /\ g.until = Now(s) + Ttl /\ g.status = "live" => Backs(table, row, g)
      BY <2>1, <1>5, <1>6 DEF Backs
    <2>3. Settled(s, row, Now(s) + Ttl, "live")
      BY <1>6 DEF row
    <2> QED BY <1>1, <1>2, <1>5, <1>6, <2>1, <2>2, <2>3, SettledInvariant
  <1>7. CASE /\ At(s, "locked") /\ Authoritative(s)
             /\ Settled(s, [Row(s) EXCEPT !.state = "free", !.until = 0], 0, "ended")
    <2> DEFINE row == [Row(s) EXCEPT !.state = "free", !.until = 0]
    <2>1. row \in Rows /\ row.token = Row(s).token /\ row.state = "free"
      BY <1>2 DEF Rows
    <2> HIDE DEF row
    <2>2. \A g \in Grants : Active(g, clock) /\ g.until = 0 /\ g.status = "ended" => Backs(table, row, g)
      BY DEF Active
    <2>3. Settled(s, row, 0, "ended")
      BY <1>7 DEF row
    <2> QED BY <1>1, <1>2, <1>5, <1>7, <2>1, <2>2, <2>3, SettledInvariant
  <1> QED BY <1>3, <1>4, <1>6, <1>7 DEF DjangoLeaseSettle

\* The writes that settle a claim.
LEMMA ClaimSettledInvariant ==
    ASSUME ReservationsIInv, NEW s \in Sessions, call[s].pc \notin {"idle", "open"}, ~Others(s),
           adapter # "memory", table \in {"outbox", "relay"}, Settling(call[s].op), ClaimSettled(s),
           Row(s).token = Held(s).token, table = "outbox" \/ Row(s).state = "reserved",
           table = "outbox" => call[s].op # "uncertain"
    PROVE  ReservationsIInv'
  <1>1. Row(s) \in Rows /\ Forever \in Nat /\ Now(s) \in Nat /\ Held(s).index \in Nat
    BY SettleFacts
  <1>2. ASSUME NEW state \in {"completed", "failed", "free", "uncertain"}, NEW avail \in Nat
        PROVE  /\ Cleared(s, state, avail) \in Rows /\ Cleared(s, state, avail).token = 0
               /\ Cleared(s, state, avail).state = state
    BY <1>1 DEF Cleared, Rows
  <1>3. ASSUME NEW state \in {"completed", "failed"}, Settled(s, Cleared(s, state, 0), Forever, "done")
        PROVE  ReservationsIInv'
    <2> DEFINE row == Cleared(s, state, 0)
    <2>1. row \in Rows /\ row.token = 0 /\ row.state = state
      BY <1>2
    <2>2. Settled(s, row, Forever, "done")
      BY <1>3
    <2> HIDE DEF row
    <2>3. \A g \in Grants : Active(g, clock) /\ g.until = Forever /\ g.status = "done" => Backs(table, row, g)
      BY <2>1 DEF Backs
    <2> QED BY <1>1, <2>1, <2>2, <2>3, SettledInvariant
  <1>4. ASSUME NEW delay \in {0, 1}, Settled(s, Cleared(s, "free", Now(s) + delay), 0, "ended")
        PROVE  ReservationsIInv'
    <2> DEFINE row == Cleared(s, "free", Now(s) + delay)
    <2>1. row \in Rows /\ row.token = 0 /\ row.state = "free"
      <3>1. Now(s) + delay \in Nat
        BY <1>1
      <3> QED BY <3>1, <1>2
    <2>2. Settled(s, row, 0, "ended")
      BY <1>4
    <2> HIDE DEF row
    <2>3. \A g \in Grants : Active(g, clock) /\ g.until = 0 /\ g.status = "ended" => Backs(table, row, g)
      BY DEF Active
    <2> QED BY <1>1, <2>1, <2>2, <2>3, SettledInvariant
  <1>5. ASSUME call[s].op = "uncertain",
               Settled(s, [Cleared(s, "uncertain", 0) EXCEPT !.born = Held(s).index], Forever, "done")
        PROVE  ReservationsIInv'
    <2> DEFINE row == [Cleared(s, "uncertain", 0) EXCEPT !.born = Held(s).index]
    <2>1. row \in Rows /\ row.token = 0 /\ row.state = "uncertain" /\ row.born = Held(s).index
      <3>1. Cleared(s, "uncertain", 0) \in Rows /\ Cleared(s, "uncertain", 0).token = 0
            /\ Cleared(s, "uncertain", 0).state = "uncertain"
        BY <1>2
      <3> QED BY <3>1, <1>1 DEF Rows
    <2>2. Settled(s, row, Forever, "done")
      BY <1>5
    <2> HIDE DEF row
    <2>3. \A g \in Grants : Active(g, clock) /\ g.until = Forever /\ g.status = "done" => Backs(table, row, g)
      BY <2>1 DEF Backs
    <2> QED BY <1>1, <2>1, <2>2, <2>3, SettledInvariant
  <1> QED BY <1>3, <1>4, <1>5 DEF ClaimSettled

\* The outbox and relay stores: the settlements of a claim.
LEMMA OutboxSettle ==
    ASSUME ReservationsIInv, NEW s \in Sessions,
           DjangoOutboxSettle(s) \/ DjangoRelaySettle(s) \/ SqlRelaySettle(s)
    PROVE  ReservationsIInv'
  <1>1. CASE DjangoOutboxSettle(s)
    <2>1. /\ adapter # "memory" /\ table = "outbox" /\ call[s].pc \notin {"idle", "open"}
          /\ Settling(call[s].op) /\ call[s].op # "uncertain"
      BY <1>1 DEF DjangoOutboxSettle, Settles, At, Settling
    <2>2. CASE Refuse(s)
      BY <2>2, RefuseQuiet
    <2>3. CASE Row(s).token = Held(s).token /\ ~Others(s) /\ ClaimSettled(s)
      BY <2>1, <2>3, ClaimSettledInvariant
    <2> QED BY <1>1, <2>2, <2>3 DEF DjangoOutboxSettle, Matching
  <1>2. ASSUME NEW a \in {"django", "sqlalchemy"}, RelaySettle(s, a)
        PROVE  ReservationsIInv'
    <2>1. /\ adapter # "memory" /\ table = "relay" /\ call[s].pc \notin {"idle", "open"} /\ Settling(call[s].op)
      BY <1>2 DEF RelaySettle, At, Settling
    <2>2. CASE Refuse(s)
      BY <2>2, RefuseQuiet
    <2>3. CASE HasReservation(s, clock) /\ ~Others(s) /\ ClaimSettled(s)
      BY <2>1, <2>3, ClaimSettledInvariant DEF HasReservation
    <2>4. CASE At(s, "begin") /\ Lock(s)
      BY <2>1, <2>4, LockInvariant DEF At
    <2> QED BY <1>2, <2>2, <2>3, <2>4 DEF RelaySettle, Matching
  <1> QED BY <1>1, <1>2 DEF DjangoRelaySettle, SqlRelaySettle

----------------------------------------------------------------------------
\* Transactions end.

\* After its end a session is idle, has undone or committed everything and holds no row.
EndStep(s, h) ==
    /\ s \in Sessions
    /\ call' = [call EXCEPT ![s] = [NoCall EXCEPT !.grant = h]]
    /\ Released(s)

\* What the end of a transaction leaves of every caller.
LEMMA EndSessions ==
    ASSUME ReservationsIInv, NEW s, NEW h, EndStep(s, h), rows' \in [Identities -> Rows],
           NEW G, grants' = G, G \in Seq(Grants), DOMAIN G = DOMAIN grants,
           \A j \in DOMAIN grants : G[j].id = grants[j].id,
           \A o \in Sessions \ {s} : call[o].grant.index # 0 => G[call[o].grant.index].status # "void",
           h = NoGrant \/ /\ DOMAIN h = GrantFields /\ h.index = call[s].grant.index /\ h.index # 0
                          /\ h.token = call[s].grant.token /\ G[h.index].status # "void"
    PROVE  /\ ReservationsTypeOK'
           /\ \A o \in Sessions : Called(o)' /\ Keeps(o)' /\ Undoes(o)'
  <1> DEFINE c == [NoCall EXCEPT !.grant = h]
  <1>1. /\ ReservationsTypeOK /\ s \in Sessions
        /\ \A o \in Sessions : Called(o) /\ Keeps(o) /\ Undoes(o)
    BY DEF ReservationsIInv, EndStep
  <1>2. /\ DOMAIN call' = Sessions /\ call'[s] = c
        /\ \A o \in Sessions \ {s} : call'[o] = call[o]
    BY <1>1, CallUpdated DEF EndStep
  <1>3. /\ DOMAIN c = Fields /\ c.pc = "idle" /\ c.now = 0 /\ c.born = 0 /\ c.undo = << >> /\ c.grant = h
    BY DEF NoCall, Fields
  <1> HIDE DEF c
  <1>4. /\ holder \in [Identities -> Sessions \cup {Nobody}] /\ staged \in [Identities -> Rows]
        /\ holder' = [i \in Identities |-> IF holder[i] = s THEN Nobody ELSE holder[i]]
        /\ staged' = [i \in Identities |-> IF holder[i] = s THEN Absent ELSE staged[i]]
        /\ table' = table /\ adapter' = adapter /\ clock' = clock /\ clock \in Nat
    BY <1>1 DEF ReservationsTypeOK, EndStep, Released
  <1>5. ReservationsTypeOK'
    <2>1. Absent \in Rows
      BY DEF Absent, Rows
    <2>2. holder' \in [Identities -> Sessions \cup {Nobody}] /\ staged' \in [Identities -> Rows]
      BY <1>4, <2>1
    <2> QED BY <1>1, <1>2, <1>4, <2>2 DEF ReservationsTypeOK
  <1>6. \A o \in Sessions \ {s} : o # Nobody /\ \A i \in Identities : holder[i] = o => holder'[i] = o
    BY <1>4, ReservationsAssumption
  <1>7. ASSUME NEW o \in Sessions PROVE Called(o)'
    <2>1. CASE o = s
      BY <2>1, <1>2, <1>3, <1>4 DEF Called, Deciding, Fields
    <2>2. CASE o # s
      BY <2>2, <1>1, <1>2, <1>4, <1>6 DEF Called, Deciding
    <2> QED BY <2>1, <2>2
  <1>8. ASSUME NEW o \in Sessions PROVE Keeps(o)'
    <2>0. Keeps(o)
      BY <1>1
    <2>1. CASE o = s
      <3>1. CASE h = NoGrant
        BY <3>1, <2>1, <1>2, <1>3 DEF Keeps, NoGrant
      <3>2. CASE h # NoGrant
        BY <3>2, <2>0, <2>1, <1>2, <1>3, <1>4 DEF Keeps, GrantFields
      <3> QED BY <3>1, <3>2
    <2>2. CASE o # s
      BY <2>0, <2>2, <1>2, <1>4 DEF Keeps, Settling
    <2> QED BY <2>1, <2>2
  <1>9. ASSUME NEW o \in Sessions PROVE Undoes(o)'
    <2>1. CASE o = s
      BY <2>1, <1>2, <1>3 DEF Undoes
    <2>2. CASE o # s
      <3>0. \A k \in DOMAIN grants : grants[k].id \in Identities /\ k # 0
        BY <1>1, GrantSequence DEF ReservationsTypeOK
      <3>1. Undoes(o) /\ call'[o] = call[o]
        BY <1>1, <1>2, <2>2
      <3> SUFFICES ASSUME NEW j \in DOMAIN call[o].undo
                   PROVE  /\ j \in DOMAIN G /\ call[o].undo[j] \in Grants /\ call[o].undo[j].id = G[j].id
                          /\ holder'[G[j].id] = o
                          /\ \A p \in Sessions \ {o} : call'[p].grant.index = j => call[o].undo[j].status # "void"
        BY <3>1 DEF Undoes
      <3>2. /\ j \in DOMAIN grants /\ call[o].undo[j] \in Grants /\ call[o].undo[j].id = grants[j].id
            /\ holder[grants[j].id] = o
            /\ \A p \in Sessions \ {o} : call[p].grant.index = j => call[o].undo[j].status # "void"
        BY <3>1 DEF Undoes
      <3>3. h.index = j => call[s].grant.index = j
        BY <3>0, <3>2 DEF NoGrant
      <3> QED BY <3>0, <3>2, <3>3, <1>2, <1>3, <1>6, <2>2
    <2> QED BY <2>1, <2>2
  <1> QED BY <1>5, <1>7, <1>8, <1>9

\* A commit makes what its session saw the committed rows.
LEMMA CommitInvariant ==
    ASSUME ReservationsIInv, NEW s \in Sessions, Commit(s)
    PROVE  ReservationsIInv'
  <1>1. PICK h \in {Held(s), NoGrant} : call' = [call EXCEPT ![s] = [NoCall EXCEPT !.grant = h]]
    BY DEF Commit
  <1>2. /\ ReservationsTypeOK /\ \A o \in Sessions : Called(o) /\ Keeps(o) /\ Undoes(o)
        /\ \A i \in Identities : /\ Coherent(table, clock, Has, i, Seen(i), grants)
                                 /\ Coherent(table, clock, Has, i, rows[i], Before(i))
    BY DEF ReservationsIInv
  <1>3. /\ EndStep(s, h) /\ grants' = grants
        /\ rows' = [i \in Identities |-> IF holder[i] = s THEN staged[i] ELSE rows[i]]
    BY <1>1 DEF Commit, EndStep
  <1>4. /\ grants \in Seq(Grants) /\ rows' \in [Identities -> Rows]
        /\ holder \in [Identities -> Sessions \cup {Nobody}]
    BY <1>2, <1>3 DEF ReservationsTypeOK
  <1>5. /\ ReservationsTypeOK'
        /\ \A o \in Sessions : Called(o)' /\ Keeps(o)' /\ Undoes(o)'
    <2>1. \A o \in Sessions : call[o].grant.index # 0 => grants[call[o].grant.index].status # "void"
      BY <1>2 DEF Keeps
    <2>2. h = NoGrant \/ /\ DOMAIN h = GrantFields /\ h.index = call[s].grant.index /\ h.index # 0
                         /\ h.token = call[s].grant.token /\ grants[h.index].status # "void"
      BY <1>1, <1>2 DEF Keeps, Held, GrantFields
    <2> QED BY <1>3, <1>4, <2>1, <2>2, EndSessions
  <1>6. /\ call'[s] = [NoCall EXCEPT !.grant = h] /\ \A o \in Sessions \ {s} : call'[o] = call[o]
        /\ DOMAIN Has = Sessions /\ DOMAIN Has' = Sessions
        /\ Has'[s] = [NoCall EXCEPT !.grant = h].grant /\ \A o \in Sessions \ {s} : Has'[o] = Has[o]
        /\ \A o \in Sessions : Has[o] = call[o].grant
    BY <1>1, CallUpdated
  <1>7. Has'[s] = h
    BY <1>6 DEF NoCall
  <1>8. \A i, H : \A o \in DOMAIN Has : HasGrant(Has'[o], i, H) =>
            Has'[o].index = Has[o].index /\ Has'[o].token = Has[o].token
    BY <1>1, <1>6, <1>7 DEF HasGrant, NoGrant, Held
  <1>9. /\ table' = table /\ clock' = clock
        /\ holder' = [i \in Identities |-> IF holder[i] = s THEN Nobody ELSE holder[i]]
        /\ staged' = [i \in Identities |-> IF holder[i] = s THEN Absent ELSE staged[i]]
    BY <1>3 DEF EndStep, Released
  <1>10. ASSUME NEW i \in Identities, NEW row, NEW H, Coherent(table, clock, Has, i, row, H)
         PROVE  Coherent(table, clock, Has', i, row, H)
    BY <1>6, <1>8, <1>10, CoherentFrame
  <1>11. ASSUME NEW i \in Identities
         PROVE  /\ Coherent(table, clock, Has, i, Seen(i), grants)'
                /\ Coherent(table, clock, Has, i, rows[i], Before(i))'
    <2>1. Coherent(table, clock, Has, i, Seen(i), grants) /\ Coherent(table, clock, Has, i, rows[i], Before(i))
      BY <1>2
    <2>2. s # Nobody
      BY ReservationsAssumption
    <2>3. CASE holder[i] = s
      <3>1. Seen(i)' = Seen(i) /\ rows'[i] = Seen(i) /\ Before(i)' = grants
        BY <2>2, <2>3, <1>3, <1>9 DEF Seen, Before
      <3> QED BY <2>1, <3>1, <1>3, <1>9, <1>10
    <2>4. CASE holder[i] # s
      <3>1. Seen(i)' = Seen(i) /\ rows'[i] = rows[i]
        BY <2>4, <1>3, <1>9 DEF Seen
      <3>2. Before(i)' = Before(i)
        BY <2>4, <1>3, <1>4, <1>6, <1>9 DEF Before
      <3> QED BY <2>1, <3>1, <3>2, <1>3, <1>9, <1>10
    <2> QED BY <2>3, <2>4
  <1> QED BY <1>5, <1>11 DEF ReservationsIInv

\* A rollback makes the committed rows, and the grants as they were, what everybody sees.
LEMMA RollbackInvariant ==
    ASSUME ReservationsIInv, NEW s \in Sessions, Rollback(s)
    PROVE  ReservationsIInv'
  <1> DEFINE U == UndoneBy(grants, call[s].undo)
             k == call[s].grant.index
             h == IF k # 0 /\ U[k].status # "void" THEN [call[s].grant EXCEPT !.until = U[k].until] ELSE NoGrant
  <1>1. /\ EndStep(s, h) /\ grants' = U /\ rows' = rows
    BY DEF Rollback, EndStep, UndoneBy, Held
  <1>2. /\ ReservationsTypeOK /\ \A o \in Sessions : Called(o) /\ Keeps(o) /\ Undoes(o)
        /\ \A i \in Identities : /\ Coherent(table, clock, Has, i, Seen(i), grants)
                                 /\ Coherent(table, clock, Has, i, rows[i], Before(i))
    BY DEF ReservationsIInv
  <1>3. /\ rows \in [Identities -> Rows] /\ holder \in [Identities -> Sessions \cup {Nobody}]
    BY <1>2 DEF ReservationsTypeOK
  <1>4. /\ U \in Seq(Grants) /\ DOMAIN U = DOMAIN grants
        /\ \A j \in DOMAIN grants :
              /\ U[j] = IF j \in DOMAIN call[s].undo THEN call[s].undo[j] ELSE grants[j]
              /\ U[j].id = grants[j].id
              /\ holder[grants[j].id] # s => U[j] = grants[j]
    BY UndoneFacts
  <1>5. h = NoGrant \/ /\ DOMAIN h = GrantFields /\ h.index = call[s].grant.index /\ h.index # 0
                       /\ h.token = call[s].grant.token /\ U[h.index].status # "void"
    BY <1>2 DEF Keeps, GrantFields
  <1> HIDE DEF U, h
  <1>6. /\ ReservationsTypeOK'
        /\ \A o \in Sessions : Called(o)' /\ Keeps(o)' /\ Undoes(o)'
    <2>1. ASSUME NEW o \in Sessions \ {s}, call[o].grant.index # 0
          PROVE  U[call[o].grant.index].status # "void"
      BY <2>1, <1>2, <1>4 DEF Keeps, Undoes
    <2>2. \A j \in DOMAIN grants : U[j].id = grants[j].id
      BY <1>4
    <2> QED BY <1>1, <1>3, <1>4, <1>5, <2>1, <2>2, EndSessions
  <1>7. /\ call'[s] = [NoCall EXCEPT !.grant = h] /\ \A o \in Sessions \ {s} : call'[o] = call[o]
        /\ DOMAIN Has = Sessions /\ DOMAIN Has' = Sessions
        /\ Has'[s] = [NoCall EXCEPT !.grant = h].grant /\ \A o \in Sessions \ {s} : Has'[o] = Has[o]
        /\ \A o \in Sessions : Has[o] = call[o].grant
    BY <1>1, CallUpdated DEF EndStep
  <1>8. Has'[s] = h
    BY <1>7 DEF NoCall
  <1>9. \A i, H : \A o \in DOMAIN Has : HasGrant(Has'[o], i, H) =>
            Has'[o].index = Has[o].index /\ Has'[o].token = Has[o].token
    BY <1>5, <1>7, <1>8 DEF HasGrant, NoGrant
  <1>10. /\ table' = table /\ clock' = clock
         /\ holder' = [i \in Identities |-> IF holder[i] = s THEN Nobody ELSE holder[i]]
         /\ staged' = [i \in Identities |-> IF holder[i] = s THEN Absent ELSE staged[i]]
    BY <1>1 DEF EndStep, Released
  <1>11. ASSUME NEW i \in Identities
         PROVE  /\ Coherent(table, clock, Has, i, Seen(i), grants)'
                /\ Coherent(table, clock, Has, i, rows[i], Before(i))'
    <2>1. Coherent(table, clock, Has, i, Seen(i), grants) /\ Coherent(table, clock, Has, i, rows[i], Before(i))
      BY <1>2
    <2>2. s # Nobody
      BY ReservationsAssumption
    <2>3. CASE holder[i] = s
      <3>1. Seen(i)' = rows[i] /\ Before(i)' = U /\ Before(i) = U
        BY <2>2, <2>3, <1>1, <1>10 DEF Seen, Before, U
      <3>2. Coherent(table, clock, Has', i, rows[i], U)
        <4>1. Coherent(table, clock, Has, i, rows[i], U)
          BY <2>1, <3>1
        <4> QED BY <4>1, <1>7, <1>9, CoherentFrame
      <3> QED BY <3>1, <3>2, <1>1, <1>10
    <2>4. CASE holder[i] # s
      <3>1. Seen(i)' = Seen(i)
        BY <2>4, <1>1, <1>10 DEF Seen
      <3>2. Coherent(table, clock, Has', i, Seen(i), U)
        <4>1. \A j \in DOMAIN grants : U[j].id = grants[j].id /\ (grants[j].id = i => U[j] = grants[j])
          BY <1>4, <2>4
        <4> QED BY <4>1, <2>1, <1>4, <1>7, <1>9, CoherentFrame
      <3>3. Coherent(table, clock, Has', i, rows[i], Before(i)')
        <4>1. CASE holder[i] = Nobody
          <5>1. Before(i)' = U /\ Before(i) = grants
            BY <4>1, <2>4, <1>1, <1>10 DEF Before
          <5>2. \A j \in DOMAIN grants : U[j].id = grants[j].id /\ (grants[j].id = i => U[j] = grants[j])
            BY <1>4, <2>4
          <5>3. Coherent(table, clock, Has', i, rows[i], U)
            BY <5>1, <5>2, <2>1, <1>4, <1>7, <1>9, CoherentFrame
          <5> QED BY <5>1, <5>3
        <4>2. CASE holder[i] # Nobody
          <5> DEFINE o == holder[i]
                     B == UndoneBy(grants, call[o].undo)
                     H == UndoneBy(U, call[o].undo)
          <5>1. o \in Sessions \ {s} /\ Before(i) = B /\ Before(i)' = H
            BY <4>2, <2>4, <1>1, <1>3, <1>7, <1>10 DEF Before
          <5>2. /\ DOMAIN B = DOMAIN grants
                /\ \A j \in DOMAIN grants :
                      /\ B[j] = IF j \in DOMAIN call[o].undo THEN call[o].undo[j] ELSE grants[j]
                      /\ B[j].id = grants[j].id
            BY <5>1, UndoneFacts
          <5>3. /\ DOMAIN H = DOMAIN U
                /\ \A j \in DOMAIN U : H[j] = IF j \in DOMAIN call[o].undo THEN call[o].undo[j] ELSE U[j]
            BY DEF UndoneBy
          <5> HIDE DEF B, H, o
          <5>4. \A j \in DOMAIN B : H[j].id = B[j].id /\ (B[j].id = i => H[j] = B[j])
            BY <5>2, <5>3, <1>4, <2>4
          <5>5. Coherent(table, clock, Has', i, rows[i], H)
            <6>1. Coherent(table, clock, Has, i, rows[i], B)
              BY <5>1, <2>1
            <6> QED BY <6>1, <5>2, <5>3, <5>4, <1>4, <1>7, <1>9, CoherentFrame
          <5> QED BY <5>1, <5>5
        <4> QED BY <4>1, <4>2
      <3> QED BY <3>1, <3>2, <3>3, <1>1, <1>10
    <2> QED BY <2>3, <2>4
  <1> QED BY <1>6, <1>11 DEF ReservationsIInv

----------------------------------------------------------------------------
\* Retention, time and the in-memory store.

\* A retention plan deletes no row of a running reservation.
LEMMA PurgeInvariant ==
    ASSUME ReservationsIInv, NEW q \in Identities, Purge(q)
    PROVE  ReservationsIInv'
  <1> DEFINE purged(g) == IF g.id = q /\ g.status = "done" THEN [g EXCEPT !.status = "ended", !.until = 0] ELSE g
             G == [k \in DOMAIN grants |-> purged(grants[k])]
  <1>1. /\ ReservationsTypeOK /\ \A o \in Sessions : Called(o) /\ Keeps(o) /\ Undoes(o)
        /\ \A i \in Identities : /\ Coherent(table, clock, Has, i, Seen(i), grants)
                                 /\ Coherent(table, clock, Has, i, rows[i], Before(i))
    BY DEF ReservationsIInv
  <1>2. /\ holder[q] = Nobody /\ Purgeable(rows[q]) /\ rows' = [rows EXCEPT ![q] = Absent]
        /\ grants' = G
        /\ table' = table /\ adapter' = adapter /\ clock' = clock /\ holder' = holder
        /\ staged' = staged /\ call' = call
    BY DEF Purge
  <1>3. /\ grants \in Seq(Grants) /\ DOMAIN grants = 1..Len(grants) /\ Len(grants) \in Nat
        /\ \A k \in DOMAIN grants : k # 0 /\ grants[k] \in Grants
    BY <1>1, GrantSequence DEF ReservationsTypeOK
  <1>4. \A g \in Grants : /\ purged(g) \in Grants /\ purged(g).id = g.id
                          /\ g.status # "void" => purged(g).status # "void"
                          /\ g.id # q => purged(g) = g
                          /\ g.id = q => purged(g) = g \/ ~Active(purged(g), clock)
                          /\ g.id = q => purged(g).status # "done"
    BY DEF Grants, Statuses, Active
  <1>5. /\ DOMAIN G = DOMAIN grants /\ G \in Seq(Grants)
        /\ \A j \in DOMAIN grants : /\ G[j] = purged(grants[j]) /\ G[j].id = grants[j].id
                                    /\ grants[j].status # "void" => G[j].status # "void"
                                    /\ grants[j].id # q => G[j] = grants[j]
    <2>1. DOMAIN G = DOMAIN grants /\ \A j \in DOMAIN grants : G[j] = purged(grants[j])
      OBVIOUS
    <2>2. G \in [1..Len(grants) -> Grants]
      BY <1>3, <1>4
    <2> HIDE DEF G, purged
    <2>3. G \in Seq(Grants)
      BY <1>3, <2>2
    <2> QED BY <1>3, <1>4, <2>1, <2>3
  <1>6. Absent \in Rows /\ Absent.token = 0 /\ Absent.state = "absent"
    BY DEF Absent, Rows
  <1>7. /\ rows \in [Identities -> Rows] /\ rows' \in [Identities -> Rows] /\ rows'[q] = Absent
        /\ \A i \in Identities \ {q} : rows'[i] = rows[i]
        /\ holder \in [Identities -> Sessions \cup {Nobody}]
    BY <1>1, <1>2, <1>6 DEF ReservationsTypeOK
  <1>8. table # "lease" /\ \A k \in DOMAIN grants : G[k].id = q => ~Active(G[k], clock)
    <2>1. Coherent(table, clock, Has, q, rows[q], grants)
      BY <1>1, <1>2 DEF Seen
    <2>2. /\ table # "lease"
          /\ rows[q].state = "reserved" => rows[q].until <= clock
      <3>1. <<adapter, table>> \in Stores
        BY <1>1 DEF ReservationsTypeOK
      <3>2. table \in {"replay", "idempotency", "inbox", "lease", "outbox", "relay"}
        BY <3>1 DEF Stores
      <3> QED BY <1>2, <3>2 DEF Purgeable, PurgeableReplay, PurgeableIdempotency, PurgeableInbox, PurgeableOutbox
    <2>3. rows[q].until \in Nat /\ clock \in Nat
      BY <1>1, <1>7 DEF Rows, ReservationsTypeOK
    <2>4. ASSUME NEW k \in DOMAIN grants, G[k].id = q, Active(G[k], clock) PROVE FALSE
      <3>1. G[k] = grants[k] /\ grants[k].status # "done"
        <4> HIDE DEF purged, G
        <4> QED BY <1>3, <1>4, <1>5, <2>4
      <3>2. Backs(table, rows[q], grants[k])
        BY <2>1, <2>4, <3>1 DEF Coherent
      <3>3. grants[k].until = rows[q].until /\ rows[q].state = "reserved"
        BY <3>1, <3>2 DEF Backs
      <3> QED BY <2>2, <2>3, <2>4, <3>1, <3>3 DEF Active
    <2> QED BY <2>2, <2>4, <1>5
  <1> HIDE DEF G
  <1>9. ReservationsTypeOK'
    BY <1>1, <1>2, <1>5, <1>7 DEF ReservationsTypeOK
  <1>10. ASSUME NEW o \in Sessions PROVE Called(o)' /\ Keeps(o)' /\ Undoes(o)'
    <2>1. Called(o) /\ Keeps(o) /\ Undoes(o)
      BY <1>1
    <2>2. Called(o)'
      BY <2>1, <1>2 DEF Called, Deciding
    <2>3. Keeps(o)'
      BY <2>1, <1>2, <1>5 DEF Keeps, Settling
    <2>4. Undoes(o)'
      BY <2>1, <1>2, <1>5 DEF Undoes
    <2> QED BY <2>2, <2>3, <2>4
  <1>11. Has' = Has /\ DOMAIN Has = Sessions
    BY <1>2 DEF Has
  <1>12. ASSUME NEW i \in Identities
         PROVE  /\ Coherent(table, clock, Has, i, Seen(i), grants)'
                /\ Coherent(table, clock, Has, i, rows[i], Before(i))'
    <2>1. CASE i = q
      <3>1. Coherent(table, clock, Has, q, Absent, G)
        BY <1>5, <1>6, <1>8, CoherentIdle
      <3>2. Seen(q)' = Absent /\ Before(q)' = G
        BY <1>2, <1>7 DEF Seen, Before
      <3> QED BY <2>1, <3>1, <3>2, <1>2, <1>7, <1>11
    <2>2. CASE i # q
      <3>0. Coherent(table, clock, Has, i, Seen(i), grants) /\ Coherent(table, clock, Has, i, rows[i], Before(i))
        BY <1>1
      <3>1. Seen(i)' = Seen(i) /\ rows'[i] = rows[i]
        BY <2>2, <1>2, <1>7 DEF Seen
      <3>2. \A j \in DOMAIN grants : G[j].id = grants[j].id /\ (grants[j].id = i => G[j] = grants[j])
        BY <2>2, <1>5
      <3>3. \A H : \A o \in DOMAIN Has : HasGrant(Has[o], i, H) =>
                Has[o].index = Has[o].index /\ Has[o].token = Has[o].token
        OBVIOUS
      <3>4. \A row : Coherent(table, clock, Has, i, row, grants) => Coherent(table, clock, Has, i, row, G)
        BY <3>2, <3>3, <1>5, CoherentFrame
      <3>5. Coherent(table, clock, Has, i, rows[i], Before(i)')
        <4>1. CASE holder[i] = Nobody
          <5>1. Before(i)' = G /\ Before(i) = grants
            BY <4>1, <1>2 DEF Before
          <5> QED BY <5>1, <3>0, <3>4
        <4>2. CASE holder[i] # Nobody
          <5> DEFINE o == holder[i]
                     B == UndoneBy(grants, call[o].undo)
                     H == UndoneBy(G, call[o].undo)
          <5>1. o \in Sessions /\ Before(i) = B /\ Before(i)' = H
            BY <4>2, <1>2, <1>7 DEF Before
          <5>2. /\ DOMAIN B = DOMAIN grants
                /\ \A j \in DOMAIN grants :
                      /\ B[j] = IF j \in DOMAIN call[o].undo THEN call[o].undo[j] ELSE grants[j]
                      /\ B[j].id = grants[j].id
            BY <5>1, UndoneFacts
          <5>3. /\ DOMAIN H = DOMAIN G
                /\ \A j \in DOMAIN G : H[j] = IF j \in DOMAIN call[o].undo THEN call[o].undo[j] ELSE G[j]
            BY DEF UndoneBy
          <5> HIDE DEF B, H, o
          <5>4. \A j \in DOMAIN B : H[j].id = B[j].id /\ (B[j].id = i => H[j] = B[j])
            BY <5>2, <5>3, <1>5, <3>2
          <5>5. Coherent(table, clock, Has, i, rows[i], B)
            BY <5>1, <3>0
          <5>6. Coherent(table, clock, Has, i, rows[i], H)
            BY <5>5, <5>2, <5>3, <5>4, <3>3, <1>5, CoherentFrame
          <5> QED BY <5>1, <5>6
        <4> QED BY <4>1, <4>2
      <3> QED BY <3>0, <3>1, <3>4, <3>5, <1>2, <1>11
    <2> QED BY <2>1, <2>2
  <1> QED BY <1>9, <1>10, <1>12 DEF ReservationsIInv

\* Time ends grants, and gives none.
LEMMA TickInvariant ==
    ASSUME ReservationsIInv, Tick, UNCHANGED <<table, adapter, outer, rows, holder, staged, call, grants>>
    PROVE  ReservationsIInv'
  <1>1. /\ ReservationsTypeOK /\ \A o \in Sessions : Called(o) /\ Keeps(o) /\ Undoes(o)
        /\ \A i \in Identities : /\ Coherent(table, clock, Has, i, Seen(i), grants)
                                 /\ Coherent(table, clock, Has, i, rows[i], Before(i))
    BY DEF ReservationsIInv
  <1>2. clock \in Nat /\ clock' \in Nat /\ clock <= clock'
    BY <1>1 DEF ReservationsTypeOK, Tick
  <1>3. /\ table' = table /\ adapter' = adapter /\ rows' = rows /\ holder' = holder /\ staged' = staged
        /\ call' = call /\ grants' = grants
    OBVIOUS
  <1>4. ReservationsTypeOK'
    BY <1>1, <1>2, <1>3 DEF ReservationsTypeOK
  <1>5. ASSUME NEW o \in Sessions PROVE Called(o)' /\ Keeps(o)' /\ Undoes(o)'
    <2>1. Called(o) /\ Keeps(o) /\ Undoes(o)
      BY <1>1
    <2>2. Called(o)'
      BY <2>1, <1>2, <1>3 DEF Called, Deciding
    <2>3. Keeps(o)'
      BY <2>1, <1>3 DEF Keeps, Settling
    <2>4. Undoes(o)'
      BY <2>1, <1>3 DEF Undoes
    <2> QED BY <2>2, <2>3, <2>4
  <1>6. Has' = Has
    BY <1>3 DEF Has
  <1>7. ASSUME NEW i \in Identities
        PROVE  /\ Coherent(table, clock, Has, i, Seen(i), grants)'
               /\ Coherent(table, clock, Has, i, rows[i], Before(i))'
    <2>1. Seen(i)' = Seen(i) /\ Before(i)' = Before(i)
      BY <1>3 DEF Seen, Before
    <2>2. Coherent(table, clock, Has, i, Seen(i), grants) /\ Coherent(table, clock, Has, i, rows[i], Before(i))
      BY <1>1
    <2>3. \A k \in DOMAIN grants : grants[k].until \in Nat
      BY <1>1, GrantSequence DEF ReservationsTypeOK
    <2>4. \A k \in DOMAIN Before(i) : Before(i)[k].until \in Nat
      <3>1. holder[i] \in Sessions \cup {Nobody}
        BY <1>1 DEF ReservationsTypeOK
      <3>2. Before(i) \in Seq(Grants)
        BY <3>1, <1>1, UndoneFacts DEF Before, ReservationsTypeOK
      <3> QED BY <3>2, GrantSequence
    <2>5. Coherent(table, clock', Has, i, Seen(i), grants)
      BY <2>2, <2>3, <1>2, CoherentLater
    <2>6. Coherent(table, clock', Has, i, rows[i], Before(i))
      BY <2>2, <2>4, <1>2, CoherentLater
    <2> QED BY <2>1, <2>5, <2>6, <1>3, <1>6
  <1> QED BY <1>4, <1>5, <1>7 DEF ReservationsIInv

\* The in-memory store forgets what has expired, and grants what nobody has.
LEMMA MemoryInvariant ==
    ASSUME ReservationsIInv, NEW s \in Sessions, MemoryReplayReserve(s)
    PROVE  ReservationsIInv'
  <1> DEFINE q == Id(s)
             active == {i \in Identities : rows[i].state # "absent" /\ rows[i].until > call[s].now}
             kept == [i \in Identities |-> IF i \in active THEN rows[i] ELSE Absent]
             row == New(s, Fresh)
             g == [id |-> q, until |-> row.until, status |-> "live", late |-> FALSE]
  <1>1. /\ ReservationsTypeOK /\ \A o \in Sessions : Called(o) /\ Keeps(o) /\ Undoes(o)
        /\ \A i \in Identities : Coherent(table, clock, Has, i, Seen(i), grants)
    BY DEF ReservationsIInv
  <1>2. /\ adapter = "memory" /\ table = "replay" /\ call[s].pc = "begin"
        /\ call' = [call EXCEPT ![s] = NoCall]
        /\ table' = table /\ adapter' = adapter /\ clock' = clock /\ holder' = holder /\ staged' = staged
    BY DEF MemoryReplayReserve, Asks, At
  <1>3. PICK taken \in BOOLEAN :
           /\ taken => q \notin active
           /\ rows' = IF taken THEN [kept EXCEPT ![q] = row] ELSE kept
           /\ grants' = IF taken THEN Append(grants, g) ELSE grants
    BY DEF MemoryReplayReserve
  <1>4. q \in Identities /\ call[s].now \in Nat /\ call[s].now <= clock /\ clock \in Nat
    BY <1>2, DecidingHolds, CallFields
  <1>5. /\ \A i \in Identities : holder[i] = Nobody
        /\ rows \in [Identities -> Rows] /\ grants \in Seq(Grants)
    BY <1>1, <1>2 DEF ReservationsTypeOK
  <1>6. /\ row \in Rows /\ row.state = "reserved" /\ row.token = Fresh /\ row.until \in Nat
    <2>1. Fresh \in Nat
      BY <1>5 DEF Fresh
    <2>2. row \in Rows /\ row.state = "reserved" /\ row.token = Fresh
      <3> DEFINE n == Fresh
      <3>1. n \in Nat /\ 0 \in Nat
        BY <2>1
      <3> HIDE DEF n
      <3>2. New(s, n) \in Rows /\ New(s, n).state = "reserved" /\ New(s, n).token = n
        BY <3>1, NewRow
      <3> QED BY <3>2 DEF n
    <2> HIDE DEF row
    <2> QED BY <2>2 DEF Rows
  <1>7. Absent \in Rows /\ Absent.token = 0 /\ Absent.state = "absent"
    BY DEF Absent, Rows
  <1>8. g \in Grants /\ g.id = q /\ g.until = row.until /\ g.status = "live"
    BY <1>4, <1>6 DEF Grants, Statuses
  <1> HIDE DEF row, g
  <1>9. /\ DOMAIN grants = 1..Len(grants) /\ Len(grants) \in Nat
        /\ \A k \in DOMAIN grants : k # 0 /\ grants[k] \in Grants /\ grants[k].until \in Nat /\ grants[k].id \in Identities
    BY <1>5, GrantSequence
  <1>10. /\ grants' \in Seq(Grants) /\ DOMAIN grants \subseteq DOMAIN grants'
         /\ \A k \in DOMAIN grants : grants'[k] = grants[k]
         /\ \A k \in DOMAIN grants' \ DOMAIN grants : taken /\ k = Len(grants) + 1 /\ grants'[k] = g
    BY <1>3, <1>5, <1>8, <1>9
  <1>11. /\ kept \in [Identities -> Rows] /\ rows' \in [Identities -> Rows]
         /\ \A i \in Identities : i # q \/ ~taken => rows'[i] = IF i \in active THEN rows[i] ELSE Absent
         /\ taken => rows'[q] = row
    BY <1>3, <1>4, <1>5, <1>6, <1>7
  <1>12. ASSUME NEW i \in Identities, i \notin active, NEW k \in DOMAIN grants, grants[k].id = i
         PROVE  ~Active(grants[k], clock)
    <2> SUFFICES ASSUME Active(grants[k], clock) PROVE FALSE
      OBVIOUS
    <2>1. Coherent(table, clock, Has, i, rows[i], grants)
      BY <1>1, <1>5 DEF Seen
    <2>2. Backs(table, rows[i], grants[k])
      BY <1>12, <2>1 DEF Coherent
    <2>3. rows[i].state = "reserved" /\ rows[i].until = grants[k].until
      BY <1>2, <2>2 DEF Backs
    <2>4. rows[i].until > call[s].now
      BY <1>4, <1>9, <2>3 DEF Active
    <2> QED BY <1>12, <2>3, <2>4
  <1>13. /\ DOMAIN call' = Sessions /\ call'[s] = NoCall
         /\ \A o \in Sessions \ {s} : call'[o] = call[o]
         /\ DOMAIN Has = Sessions /\ DOMAIN Has' = Sessions
         /\ Has'[s] = NoCall.grant /\ \A o \in Sessions \ {s} : Has'[o] = Has[o]
         /\ \A o \in Sessions : Has[o] = call[o].grant
    BY <1>2, CallUpdated
  <1>14. NoCall.grant = NoGrant /\ NoGrant.index = 0
    BY DEF NoCall, NoGrant
  <1>15. \A o \in Sessions : DOMAIN call[o].undo = {}
    <2>1. \A o \in Sessions : o # Nobody
      BY ReservationsAssumption
    <2> QED BY <1>1, <1>5, <1>9, <2>1 DEF Undoes
  <1>16. ReservationsTypeOK'
    BY <1>1, <1>2, <1>10, <1>11, <1>13 DEF ReservationsTypeOK
  <1>17. ASSUME NEW o \in Sessions PROVE Called(o)' /\ Keeps(o)' /\ Undoes(o)'
    <2>1. CASE o = s
      <3>1. Called(o)'
        BY <2>1, <1>2, <1>4, <1>13 DEF Called, NoCall, Deciding
      <3>2. Keeps(o)'
        BY <2>1, <1>13 DEF Keeps, NoCall, NoGrant
      <3>3. Undoes(o)'
        BY <2>1, <1>13 DEF Undoes, NoCall
      <3> QED BY <3>1, <3>2, <3>3
    <2>2. CASE o # s
      <3>0. Called(o) /\ Keeps(o) /\ call'[o] = call[o] /\ DOMAIN call[o].undo = {}
        BY <1>1, <1>13, <1>15, <2>2
      <3>1. Called(o)'
        BY <3>0, <1>2 DEF Called, Deciding
      <3>2. Keeps(o)'
        BY <3>0, <1>2, <1>10 DEF Keeps, Settling
      <3>3. Undoes(o)'
        BY <3>0 DEF Undoes
      <3> QED BY <3>1, <3>2, <3>3
    <2> QED BY <2>1, <2>2
  <1>18. ASSUME NEW i \in Identities
         PROVE  Coherent(table, clock, Has', i, rows'[i], grants')
    <2>1. CASE taken /\ i = q
      <3>1. \A k \in DOMAIN grants : grants[k].id = q => ~Active(grants[k], clock)
        BY <1>3, <1>4, <1>12, <2>1
      <3>2. \A o \in DOMAIN Has : HasGrant(Has[o], q, grants) => Has[o].token \in Nat /\ Has[o].token # row.token
        <4> SUFFICES ASSUME NEW o \in Sessions, HasGrant(Has[o], q, grants)
                     PROVE  Has[o].token \in Nat /\ Has[o].token # row.token
          BY <1>13
        <4>1. Keeps(o) /\ Has[o] = call[o].grant
          BY <1>1, <1>13
        <4> QED BY <4>1, <1>2, <1>6, <1>9 DEF Keeps, HasGrant, Fresh
      <3>3. \A o \in DOMAIN Has : Has[o].index # Len(grants) + 1
        BY <1>1, <1>9, <1>13 DEF Keeps
      <3>4. /\ s \in DOMAIN Has /\ DOMAIN Has' = DOMAIN Has /\ Has'[s] = NoGrant
            /\ \A o \in DOMAIN Has \ {s} : Has'[o] = Has[o] /\ NoGrant.index \in {0, Len(grants) + 1}
        BY <1>13, <1>14
      <3>5. Coherent(table, clock, Has', q, row, Append(grants, g))
        BY <3>1, <3>2, <3>3, <3>4, <1>2, <1>4, <1>5, <1>6, <1>8, <1>14, CoherentGrant
      <3> QED BY <3>5, <2>1, <1>3, <1>11
    <2>2. CASE ~(taken /\ i = q)
      <3>1. \A o \in DOMAIN Has : HasGrant(Has'[o], i, grants') =>
                Has'[o].index = Has[o].index /\ Has'[o].token = Has[o].token
        BY <1>13, <1>14 DEF HasGrant
      <3>2. /\ \A j \in DOMAIN grants : grants'[j].id = grants[j].id /\ (grants[j].id = i => grants'[j] = grants[j])
            /\ \A j \in DOMAIN grants' \ DOMAIN grants : grants'[j].id = i => grants'[j].status = "void"
        BY <1>8, <1>10, <2>2
      <3>3. CASE i \in active
        <4>1. Coherent(table, clock, Has, i, rows[i], grants)
          BY <1>1, <1>5 DEF Seen
        <4>2. rows'[i] = rows[i]
          BY <3>3, <2>2, <1>11
        <4> HIDE DEF active
        <4> QED BY <4>1, <4>2, <3>1, <3>2, <1>10, <1>13, CoherentFrame
      <3>4. CASE i \notin active
        <4>1. rows'[i] = Absent
          BY <3>4, <2>2, <1>11
        <4>2. \A k \in DOMAIN grants' : grants'[k].id = i => ~Active(grants'[k], clock)
          BY <3>2, <3>4, <1>10, <1>12 DEF Active
        <4> QED BY <4>1, <4>2, <1>2, <1>7, CoherentIdle
      <3> QED BY <3>3, <3>4
    <2> QED BY <2>1, <2>2
  <1>19. \A i \in Identities : Seen(i)' = rows'[i] /\ Before(i)' = grants'
    BY <1>2, <1>5 DEF Seen, Before
  <1> QED BY <1>2, <1>16, <1>17, <1>18, <1>19 DEF ReservationsIInv

----------------------------------------------------------------------------
\* At first there are rows and no grants.
LEMMA ReservationsInitial == ReservationsInit => ReservationsIInv
  <1> SUFFICES ASSUME ReservationsInit PROVE ReservationsIInv
    OBVIOUS
  <1>1. Absent \in Rows /\ Abandoned \in Rows /\ Absent.token = 0 /\ Absent.state = "absent"
        /\ Abandoned.token = 0 /\ Abandoned.state = "reserved"
    BY DEF Absent, Abandoned, Rows
  <1>2. ReservationsTypeOK
    <2>1. <<adapter, table>> \in Stores
      <3>1. PICK which \in Stores : adapter = which[1] /\ table = which[2]
        BY DEF ReservationsInit
      <3>2. which = <<which[1], which[2]>>
        BY DEF Stores
      <3> QED BY <3>1, <3>2
    <2>2. grants \in Seq(Grants)
      BY DEF ReservationsInit
    <2> QED BY <1>1, <2>1, <2>2 DEF ReservationsInit, ReservationsTypeOK
  <1>3. ASSUME NEW s \in Sessions PROVE Called(s) /\ Keeps(s) /\ Undoes(s)
    <2>1. call[s] = NoCall /\ clock = 0
      BY DEF ReservationsInit
    <2> QED BY <2>1 DEF NoCall, NoGrant, Called, Keeps, Undoes, Deciding
  <1>4. ASSUME NEW i \in Identities
        PROVE  /\ Coherent(table, clock, Has, i, Seen(i), grants)
               /\ Coherent(table, clock, Has, i, rows[i], Before(i))
    <2>1. Seen(i) = rows[i] /\ Before(i) = grants /\ DOMAIN grants = {}
      BY DEF ReservationsInit, Seen, Before
    <2>2. rows[i].state \in {"absent", "reserved"} /\ rows[i].token = 0
      BY <1>1 DEF ReservationsInit
    <2>3. Coherent(table, clock, Has, i, rows[i], grants)
      BY <2>1, <2>2 DEF Coherent, HasGrant
    <2> QED BY <2>1, <2>3
  <1> QED BY <1>2, <1>3, <1>4 DEF ReservationsIInv

\* One case per action.
LEMMA ReservationsStep == ReservationsIInv /\ [ReservationsNext]_resVars => ReservationsIInv'
  <1> SUFFICES ASSUME ReservationsIInv, [ReservationsNext]_resVars PROVE ReservationsIInv'
    OBVIOUS
  <1>1. CASE UNCHANGED resVars
    <2>1. /\ table' = table /\ adapter' = adapter /\ clock' = clock /\ rows' = rows /\ holder' = holder
          /\ staged' = staged /\ call' = call /\ grants' = grants
      BY <1>1 DEF resVars
    <2>2. ReservationsTypeOK'
      BY <2>1 DEF ReservationsIInv, ReservationsTypeOK
    <2>3. \A s \in Sessions : Called(s)' /\ Keeps(s)' /\ Undoes(s)'
      BY <2>1 DEF ReservationsIInv, Called, Keeps, Undoes, Deciding, Settling
    <2>4. \A i \in Identities : Seen(i)' = Seen(i) /\ Before(i)' = Before(i) /\ Has' = Has
      BY <2>1 DEF Seen, Before, Has
    <2> QED BY <2>1, <2>2, <2>3, <2>4 DEF ReservationsIInv
  <1>2. CASE Tick /\ UNCHANGED <<table, adapter, outer, rows, holder, staged, call, grants>>
    BY <1>2, TickInvariant
  <1>3. CASE \E i \in Identities : Purge(i)
    BY <1>3, PurgeInvariant
  <1>4. ASSUME NEW s \in Sessions, \E op \in Operations, i \in Identities : CallStore(s, op, i)
        PROVE  ReservationsIInv'
    BY <1>4, CallStoreQuiet
  <1>5. ASSUME NEW s \in Sessions, Acquires(s) PROVE ReservationsIInv'
    BY <1>5, ReplayReserve, MemoryInvariant, IdempotencyReserve, InboxBegin, LeaseAcquire, OutboxClaim,
       OutboxAddInvariant DEF Acquires, DjangoOutboxAdd, SqlOutboxAdd
  <1>6. ASSUME NEW s \in Sessions, Settlements(s) PROVE ReservationsIInv'
    BY <1>6, IdempotencySettle, InboxSettle, LeaseSettle, OutboxSettle, ResolveInvariant
       DEF Settlements, DjangoRelayResolve, SqlRelayResolve
  <1>7. ASSUME NEW s \in Sessions, Commit(s) \/ Rollback(s) PROVE ReservationsIInv'
    BY <1>7, CommitInvariant, RollbackInvariant
  <1> QED BY <1>1, <1>2, <1>3, <1>4, <1>5, <1>6, <1>7 DEF ReservationsNext

\* At any time one grant of an identity runs at most, a completed or uncertain one excludes every
\* later grant, and no settlement takes effect after a newer grant: the Django, SQLAlchemy and
\* in-memory reservations are exclusive whatever transactions interleave, wait and roll back.
THEOREM GrantExclusiveTheorem == ReservationsSpec => []GrantExclusive
  <1>1. ReservationsIInv => GrantExclusive
    <2> SUFFICES ASSUME ReservationsIInv, NEW j \in DOMAIN grants
                 PROVE  /\ ~grants[j].late
                        /\ \A k \in DOMAIN grants \ {j} :
                              grants[j].id = grants[k].id => ~(Active(grants[j], clock) /\ Active(grants[k], clock))
      BY DEF GrantExclusive
    <2>1. /\ \A k \in DOMAIN grants : k \in Nat /\ grants[k].id \in Identities /\ grants[k].late = FALSE
      BY GrantSequence DEF ReservationsIInv, ReservationsTypeOK
    <2>2. ASSUME NEW k \in DOMAIN grants \ {j}, grants[j].id = grants[k].id,
                 Active(grants[j], clock), Active(grants[k], clock)
          PROVE  FALSE
      <3>1. Coherent(table, clock, Has, grants[j].id, Seen(grants[j].id), grants)
        BY <2>1 DEF ReservationsIInv
      <3>2. Newest(grants[j].id, grants, j) /\ Newest(grants[j].id, grants, k)
        BY <2>2, <3>1 DEF Coherent
      <3>3. j < k \/ k < j
        BY <2>1, <2>2
      <3> QED BY <2>2, <3>2, <3>3 DEF Newest, Active
    <2> QED BY <2>1, <2>2
  <1> QED BY <1>1, ReservationsInitial, ReservationsStep, PTL DEF ReservationsSpec

----------------------------------------------------------------------------
\* The batch store.

\* Writing one row.
LEMMA PutFacts ==
    ASSUME NEW f, NEW key, NEW value
    PROVE  /\ DOMAIN Put(f, key, value) = DOMAIN f \cup {key} /\ Put(f, key, value)[key] = value
           /\ \A x \in DOMAIN f : x # key => Put(f, key, value)[x] = f[x]
  BY DEF Put

\* Removing rows.
LEMMA WithoutFacts ==
    ASSUME NEW f, NEW keys
    PROVE  /\ DOMAIN Without(f, keys) = DOMAIN f \ keys
           /\ \A x \in DOMAIN f \ keys : Without(f, keys)[x] = f[x]
  BY DEF Without

\* The callers that gave the receipts.
LEMMA NamedSequence ==
    ASSUME NEW r \in Seq(BatchReceipts)
    PROVE  Named(r) \in Seq(Callers) /\ Len(Named(r)) = Len(r) /\ (r = << >> => Named(r) = << >>)
  <1>1. DOMAIN r = 1..Len(r) /\ Len(r) \in Nat /\ \A i \in DOMAIN r : r[i] \in BatchReceipts
    OBVIOUS
  <1>2. \A y \in BatchReceipts : y.by \in Callers
    BY DEF BatchReceipts
  <1>3. Named(r) \in [1..Len(r) -> Callers]
    BY <1>1, <1>2 DEF Named
  <1>4. Named(r) \in Seq(Callers) /\ Len(Named(r)) = Len(r)
    BY <1>1, <1>3
  <1>5. r = << >> => Named(r) = << >>
    BY <1>4
  <1> QED BY <1>4, <1>5

\* What a receipt adds to those of a row, the names of its caller add to what was answered.
LEMMA NamedAppend ==
    ASSUME NEW r \in Seq(BatchReceipts), NEW x \in BatchReceipts
    PROVE  /\ Named(Append(r, x)) = Append(Named(r), x.by) /\ Named(r) \in Seq(Callers)
           /\ Len(Named(r)) = Len(r) /\ x.by \in Callers
  <1>1. DOMAIN r = 1..Len(r) /\ Len(r) \in Nat /\ \A i \in DOMAIN r : r[i] \in BatchReceipts
    OBVIOUS
  <1>2. \A y \in BatchReceipts : y.by \in Callers
    BY DEF BatchReceipts
  <1>3. Named(r) \in [1..Len(r) -> Callers]
    BY <1>1, <1>2 DEF Named
  <1>4. Named(r) \in Seq(Callers) /\ Len(Named(r)) = Len(r)
    BY <1>1, <1>3
  <1>5. /\ Append(r, x) \in Seq(BatchReceipts) /\ DOMAIN Append(r, x) = 1..(Len(r) + 1)
        /\ Append(r, x)[Len(r) + 1] = x /\ \A i \in 1..Len(r) : Append(r, x)[i] = r[i]
    BY <1>1
  <1>6. /\ DOMAIN Append(Named(r), x.by) = 1..(Len(r) + 1) /\ Append(Named(r), x.by)[Len(r) + 1] = x.by
        /\ \A i \in 1..Len(r) : Append(Named(r), x.by)[i] = r[i].by
    <2>1. \A i \in 1..Len(r) : Named(r)[i] = r[i].by
      BY <1>1 DEF Named
    <2>2. x.by \in Callers
      BY <1>2
    <2> QED BY <1>1, <1>4, <2>1, <2>2
  <1>7. DOMAIN Named(Append(r, x)) = 1..(Len(r) + 1)
    BY <1>5 DEF Named
  <1>8. \A i \in 1..(Len(r) + 1) : Named(Append(r, x))[i] = Append(Named(r), x.by)[i]
    <2>1. \A i \in 1..(Len(r) + 1) : Named(Append(r, x))[i] = Append(r, x)[i].by
      BY <1>5 DEF Named
    <2>2. \A i \in 1..(Len(r) + 1) : i = Len(r) + 1 \/ i \in 1..Len(r)
      BY <1>1
    <2> QED BY <1>5, <1>6, <2>1, <2>2
  <1>9. Named(Append(r, x)) = Append(Named(r), x.by)
    <2>1. Named(Append(r, x)) = [i \in 1..(Len(r) + 1) |-> Named(Append(r, x))[i]]
      BY <1>5 DEF Named
    <2>2. Append(Named(r), x.by) \in Seq(Callers)
      BY <1>2, <1>4
    <2>3. Append(Named(r), x.by) = [i \in 1..(Len(r) + 1) |-> Append(Named(r), x.by)[i]]
      BY <1>6, <2>2
    <2> QED BY <1>8, <2>1, <2>3
  <1> QED BY <1>2, <1>4, <1>9

----------------------------------------------------------------------------
\* Rows are dropped that are settled and past their retention.
Dropped(keys) ==
    \A b \in keys : b \in DOMAIN entries /\ ~Executing(entries[b]) /\ entries[b].retention_expires_at <= clock

\* What begin removes first is settled and past its retention.
LEMMA KeptFacts ==
    ASSUME NEW b, NEW now \in 0..clock, BatchStoreIInv
    PROVE  \E keys : Dropped(keys) /\ Kept(b, now) = Without(entries, keys)
  <1>1. \A x \in DOMAIN entries : entries[x].retention_expires_at \in Nat /\ clock \in Nat /\ now \in Nat /\ now <= clock
    BY DEF BatchStoreIInv, BatchStoreTypeOK, BatchRows
  <1>2. Dropped(MemoryTerminal(now)) /\ Dropped(DjangoTerminal(b, now))
    BY <1>1 DEF Dropped, MemoryTerminal, DjangoTerminal, PastRetention, Executing
  <1> QED BY <1>2 DEF Kept

\* Rows are dropped, and that of batch b is written with a token of its own.
RowStep(c, b, keys, row) ==
    /\ c \in Callers /\ b \in BatchIds /\ row \in BatchRows /\ Dropped(keys)
    /\ GrantLease(c, b, Without(entries, keys), row)
    /\ UNCHANGED <<clock, keeper>>

\* What the row of b may have been: absent, or executing.
Replaced(b, keys) == b \in DOMAIN entries \ keys => Executing(entries[b])

\* What it leaves.
RowWritten(c, b, keys, row) ==
    /\ DOMAIN entries' = (DOMAIN entries \ keys) \cup {b} /\ entries'[b] = row
    /\ \A x \in DOMAIN entries \ keys : x # b => entries'[x] = entries[x]
    /\ DOMAIN entries' \subseteq BatchIds /\ \A x \in DOMAIN entries' : entries'[x] \in BatchRows
    /\ \A o \in Callers \ {c} : held'[o] = held[o]
    /\ held'[c] \in {held[c], LeaseOf(b, row)}
    /\ held' \in [Callers -> {NoLease} \cup BatchLeases]
    /\ LeaseOf(b, row).token = row.token
    /\ c \in Callers /\ b \in BatchIds /\ row \in BatchRows

\* A step that writes one row, described by its fields.
LEMMA RowStepFacts ==
    ASSUME BatchStoreIInv, NEW c, NEW b, NEW keys, NEW row, RowStep(c, b, keys, row)
    PROVE  RowWritten(c, b, keys, row)
  <1> DEFINE others == Without(entries, keys)
  <1>1. /\ DOMAIN others = DOMAIN entries \ keys /\ \A x \in DOMAIN entries \ keys : others[x] = entries[x]
    BY WithoutFacts
  <1>2. entries' = Put(others, b, row) /\ held' \in {held, [held EXCEPT ![c] = LeaseOf(b, row)]}
    BY DEF RowStep, GrantLease
  <1> HIDE DEF others
  <1>3. /\ DOMAIN entries' = (DOMAIN entries \ keys) \cup {b} /\ entries'[b] = row
        /\ \A x \in DOMAIN entries \ keys : x # b => entries'[x] = entries[x]
    <2>1. /\ DOMAIN Put(others, b, row) = DOMAIN others \cup {b} /\ Put(others, b, row)[b] = row
          /\ \A x \in DOMAIN others : x # b => Put(others, b, row)[x] = others[x]
      BY DEF Put
    <2> QED BY <1>1, <1>2, <2>1
  <1>4. DOMAIN entries' \subseteq BatchIds /\ \A x \in DOMAIN entries' : entries'[x] \in BatchRows
    BY <1>3 DEF RowStep, BatchStoreIInv, BatchStoreTypeOK
  <1>5. LeaseOf(b, row) \in BatchLeases /\ LeaseOf(b, row).token = row.token
    BY DEF RowStep, LeaseOf, BatchLeases, BatchRows
  <1>6. held \in [Callers -> {NoLease} \cup BatchLeases] /\ c \in Callers
    BY DEF BatchStoreIInv, BatchStoreTypeOK, RowStep
  <1>7. /\ \A o \in Callers \ {c} : held'[o] = held[o]
        /\ held'[c] \in {held[c], LeaseOf(b, row)} /\ held' \in [Callers -> {NoLease} \cup BatchLeases]
    BY <1>2, <1>5, <1>6
  <1> QED BY <1>3, <1>4, <1>5, <1>7 DEF RowWritten, RowStep

\* A new token is nobody's.
LEMMA NewToken ==
    ASSUME BatchStoreIInv, NEW c, NEW b, NEW keys, NEW row, RowStep(c, b, keys, row),
           minted' = minted + 1, row.token = minted + 1
    PROVE  TokensUnique'
  <1>0. RowWritten(c, b, keys, row)
    BY RowStepFacts
  <1>1. minted \in Nat /\ \A x \in DOMAIN entries : entries[x].token \in Nat
    BY DEF BatchStoreIInv, BatchStoreTypeOK, BatchRows
  <1>2. \A o \in Callers : held[o].token \in Nat
    BY DEF BatchStoreIInv, BatchStoreTypeOK, BatchLeases, NoLease
  <1>3. TokensUnique
    BY DEF BatchStoreIInv
  <1>4. /\ \A x \in DOMAIN entries' : entries'[x].token # 0 /\ entries'[x].token <= minted'
        /\ \A x, y \in DOMAIN entries' : entries'[x].token = entries'[y].token => x = y
    <2>1. \A x \in DOMAIN entries' : (x = b /\ entries'[x].token = minted + 1)
                                    \/ (x # b /\ x \in DOMAIN entries /\ entries'[x] = entries[x])
      BY <1>0 DEF RowWritten
    <2> QED BY <2>1, <1>1, <1>3 DEF TokensUnique
  <1>5. \A o \in Callers : (o # c /\ held'[o] = held[o]) \/ (o = c /\ held'[o].token \in {held[o].token, minted + 1})
    BY <1>0 DEF RowWritten
  <1>6. /\ \A o \in Callers : held'[o].token <= minted'
        /\ \A o, p \in Callers : held'[o].token = held'[p].token /\ held'[o].token # 0 => o = p
    BY <1>1, <1>2, <1>3, <1>5 DEF TokensUnique
  <1> QED BY <1>4, <1>6 DEF TokensUnique

\* A row that keeps its token leaves it with the caller that has it.
LEMMA SameToken ==
    ASSUME BatchStoreIInv, NEW c, NEW b, NEW keys, NEW row, RowStep(c, b, keys, row),
           minted' = minted, b \in DOMAIN entries, row.token = entries[b].token, row.token = held[c].token
    PROVE  TokensUnique'
  <1>0. RowWritten(c, b, keys, row)
    BY RowStepFacts
  <1>1. minted \in Nat /\ \A x \in DOMAIN entries : entries[x].token \in Nat
    BY DEF BatchStoreIInv, BatchStoreTypeOK, BatchRows
  <1>3. TokensUnique
    BY DEF BatchStoreIInv
  <1>4. /\ \A x \in DOMAIN entries' : entries'[x].token # 0 /\ entries'[x].token <= minted'
        /\ \A x, y \in DOMAIN entries' : entries'[x].token = entries'[y].token => x = y
    <2>1. \A x \in DOMAIN entries' : x \in DOMAIN entries /\ entries'[x].token = entries[x].token
      BY <1>0 DEF RowWritten
    <2> QED BY <2>1, <1>3 DEF TokensUnique
  <1>5. \A o \in Callers : held'[o].token = held[o].token
    BY <1>0 DEF RowWritten
  <1> QED BY <1>3, <1>4, <1>5 DEF TokensUnique

\* The index leads from the new token to batch b instead of from its old token.
IndexStep(b, keys, row, old) ==
    /\ keeper' = keeper /\ Executing(row)
    /\ b \in DOMAIN entries \ keys => entries[b].token = old
    /\ \A x \in DOMAIN entries \ keys : x # b => entries[x].token \notin {row.token, old}
    /\ keeper = "memory" =>
          /\ DOMAIN tokens' = (DOMAIN tokens \ {old}) \cup {row.token} /\ tokens'[row.token] = b
          /\ \A t \in DOMAIN tokens \ {old, row.token} : tokens'[t] = tokens[t]
          /\ Cardinality(DOMAIN entries') <= BatchCapacity

\* The index follows the row of b from its old token to its new one.
LEMMA IndexMoved ==
    ASSUME BatchStoreIInv, NEW c, NEW b, NEW keys, NEW row, RowWritten(c, b, keys, row), Dropped(keys),
           NEW old, IndexStep(b, keys, row, old)
    PROVE  IndexExact'
  <1> SUFFICES ASSUME keeper = "memory" PROVE IndexExact'
    BY DEF IndexExact, IndexStep
  <1>0. /\ Executing(row) /\ DOMAIN tokens' = (DOMAIN tokens \ {old}) \cup {row.token} /\ tokens'[row.token] = b
        /\ \A t \in DOMAIN tokens \ {old, row.token} : tokens'[t] = tokens[t]
        /\ Cardinality(DOMAIN entries') <= BatchCapacity
        /\ b \in DOMAIN entries \ keys => entries[b].token = old
        /\ \A x \in DOMAIN entries \ keys : x # b => entries[x].token \notin {row.token, old}
    BY DEF IndexStep
  <1>1. /\ \A t \in DOMAIN tokens :
               tokens[t] \in DOMAIN entries /\ entries[tokens[t]].token = t /\ Executing(entries[tokens[t]])
        /\ \A x \in DOMAIN entries : Executing(entries[x]) => entries[x].token \in DOMAIN tokens
    BY DEF BatchStoreIInv, IndexExact
  <1>2. /\ DOMAIN entries' = (DOMAIN entries \ keys) \cup {b} /\ entries'[b] = row
        /\ \A x \in DOMAIN entries \ keys : x # b => entries'[x] = entries[x]
    BY DEF RowWritten
  <1>3. ASSUME NEW t \in DOMAIN tokens'
        PROVE  tokens'[t] \in DOMAIN entries' /\ entries'[tokens'[t]].token = t /\ Executing(entries'[tokens'[t]])
    <2>1. CASE t = row.token
      BY <2>1, <1>0, <1>2
    <2>2. CASE t # row.token
      <3>1. t \in DOMAIN tokens /\ t # old /\ tokens'[t] = tokens[t]
        BY <2>2, <1>0
      <3>2. tokens[t] \in DOMAIN entries \ keys /\ tokens[t] # b
        BY <3>1, <1>0, <1>1 DEF Dropped
      <3> QED BY <3>1, <3>2, <1>1, <1>2
    <2> QED BY <2>1, <2>2
  <1>4. ASSUME NEW x \in DOMAIN entries', Executing(entries'[x])
        PROVE  entries'[x].token \in DOMAIN tokens'
    BY <1>0, <1>1, <1>2, <1>4
  <1>5. \A t \in DOMAIN tokens' :
            /\ tokens'[t] \in DOMAIN entries' /\ entries'[tokens'[t]].token = t
            /\ entries'[tokens'[t]].state \in {"processing", "partially_committed"}
    BY <1>3 DEF Executing
  <1>6. \A x \in DOMAIN entries' : entries'[x].state \in {"processing", "partially_committed"} =>
            entries'[x].token \in DOMAIN tokens'
    BY <1>4 DEF Executing
  <1> QED BY <1>0, <1>5, <1>6 DEF IndexExact, Executing

\* The rows of the other batches are as they were.
LEMMA RowsWritten ==
    ASSUME BatchStoreIInv, NEW c, NEW b, NEW keys, NEW row, RowWritten(c, b, keys, row),
           \A x \in BatchIds \ {b} : accepted'[x] = accepted[x],
           Named(row.receipts) = accepted'[b], row.state # "completed"
    PROVE  RowsExact'
  BY DEF BatchStoreIInv, BatchStoreTypeOK, RowsExact, RowWritten

\* A batch that begins has a new token, no receipts and a place in the store.
LEMMA BeginNewInvariant ==
    ASSUME BatchStoreIInv, NEW c \in Callers, NEW b \in BatchIds, NEW f \in BatchFingerprints, NEW n \in Totals,
           NEW now \in 0..clock, BeginNew(c, b, f, n, now)
    PROVE  BatchStoreIInv' /\ SettledKept
  <1> DEFINE row == [fingerprint |-> f, total |-> n, token |-> minted + 1, state |-> "processing",
                     receipts |-> << >>, lease_expires_at |-> now + BatchTtl, retention_expires_at |-> 0]
             kept == Kept(b, now)
  <1>0. /\ b \notin DOMAIN kept /\ (keeper = "memory" => Cardinality(DOMAIN kept) < BatchCapacity)
        /\ minted' = minted + 1 /\ GrantLease(c, b, kept, row)
        /\ Index(Put(tokens, minted + 1, b)) /\ accepted' = [accepted EXCEPT ![b] = << >>]
        /\ clock' = clock /\ keeper' = keeper
    BY DEF BeginNew
  <1>1. PICK keys : Dropped(keys) /\ kept = Without(entries, keys)
    BY KeptFacts
  <1>2. minted \in Nat /\ clock \in Nat /\ now \in Nat /\ now + BatchTtl \in Nat
    BY BatchStoreAssumption DEF BatchStoreIInv, BatchStoreTypeOK
  <1>3. /\ row \in BatchRows /\ row.token = minted + 1 /\ row.state = "processing" /\ row.receipts = << >>
        /\ Executing(row)
    BY <1>2, BatchStoreAssumption DEF BatchRows, Executing
  <1> HIDE DEF row, kept
  <1>4. RowStep(c, b, keys, row)
    BY <1>0, <1>1, <1>3 DEF RowStep
  <1>5. RowWritten(c, b, keys, row)
    BY <1>4, RowStepFacts
  <1>6. DOMAIN kept = DOMAIN entries \ keys
    BY <1>1, WithoutFacts
  <1>7. TokensUnique'
    BY <1>0, <1>3, <1>4, NewToken
  <1>8. accepted \in [BatchIds -> Seq(Callers)]
    BY DEF BatchStoreIInv, BatchStoreTypeOK
  <1>9. BatchStoreTypeOK'
    BY <1>0, <1>2, <1>5, <1>8 DEF BatchStoreTypeOK, RowWritten
  <1>10. RowsExact'
    <2>0. << >> \in Seq(BatchReceipts)
      OBVIOUS
    <2>1. Named(<< >>) = << >>
      BY <2>0, NamedSequence
    <2> QED BY <1>0, <1>3, <1>5, <1>8, <2>1, RowsWritten
  <1>11. IndexExact'
    <2>1. \A x \in DOMAIN entries : entries[x].token \in Nat /\ entries[x].token <= minted
      BY DEF BatchStoreIInv, BatchStoreTypeOK, BatchRows, TokensUnique
    <2>2. \A x \in DOMAIN entries \ keys : x # b => entries[x].token \notin {row.token, row.token}
      BY <1>2, <1>3, <2>1
    <2>3. keeper = "memory" =>
              /\ DOMAIN tokens' = (DOMAIN tokens \ {row.token}) \cup {row.token} /\ tokens'[row.token] = b
              /\ \A t \in DOMAIN tokens \ {row.token, row.token} : tokens'[t] = tokens[t]
      BY <1>0, <1>3 DEF Index, Put
    <2>4. keeper = "memory" => Cardinality(DOMAIN entries') <= BatchCapacity
      <3>1. IsFiniteSet(BatchIds) /\ DOMAIN kept \subseteq BatchIds
        BY <1>6, BatchStoreAssumption DEF BatchStoreIInv, BatchStoreTypeOK
      <3>2. IsFiniteSet(DOMAIN kept)
        BY <3>1, FS_Subset
      <3>3. Cardinality(DOMAIN kept \cup {b}) = Cardinality(DOMAIN kept) + 1 /\ Cardinality(DOMAIN kept) \in Nat
        BY <1>0, <3>2, FS_AddElement, FS_CardinalityType
      <3>4. DOMAIN entries' = DOMAIN kept \cup {b}
        BY <1>5, <1>6 DEF RowWritten
      <3> QED BY <1>0, <3>3, <3>4, BatchStoreAssumption
    <2>5. b \notin DOMAIN entries \ keys
      BY <1>0, <1>6
    <2>6. IndexStep(b, keys, row, row.token)
      BY <1>0, <1>3, <2>2, <2>3, <2>4, <2>5 DEF IndexStep
    <2> QED BY <1>1, <1>5, <2>6, IndexMoved
  <1>12. SettledKept
    <2>1. ASSUME NEW x \in DOMAIN entries, ~(x \in DOMAIN entries' /\ entries'[x] = entries[x])
          PROVE  x \in keys
      BY <1>0, <1>5, <1>6, <2>1 DEF RowWritten
    <2> QED BY <2>1, <1>1 DEF SettledKept, Dropped
  <1> QED BY <1>7, <1>9, <1>10, <1>11, <1>12 DEF BatchStoreIInv

\* Fewer rows are within the capacity too.
LEMMA FewerRows ==
    ASSUME BatchStoreIInv, keeper = "memory", NEW S, S \subseteq DOMAIN entries
    PROVE  Cardinality(S) <= BatchCapacity
  <1>1. IsFiniteSet(BatchIds) /\ DOMAIN entries \subseteq BatchIds /\ Cardinality(DOMAIN entries) <= BatchCapacity
    BY BatchStoreAssumption DEF BatchStoreIInv, BatchStoreTypeOK, IndexExact
  <1>2. IsFiniteSet(DOMAIN entries)
    BY <1>1, FS_Subset
  <1>3. IsFiniteSet(S) /\ Cardinality(S) <= Cardinality(DOMAIN entries)
    BY <1>2, FS_Subset
  <1>4. Cardinality(S) \in Nat /\ Cardinality(DOMAIN entries) \in Nat /\ BatchCapacity \in Nat
    BY <1>2, <1>3, FS_CardinalityType, BatchStoreAssumption
  <1> QED BY ONLY <1>1, <1>3, <1>4

\* Only an executing row is written again, so the settled ones stay until they are dropped.
LEMMA SettledWritten ==
    ASSUME NEW c, NEW b, NEW keys, NEW row, RowWritten(c, b, keys, row), Dropped(keys), Replaced(b, keys)
    PROVE  SettledKept
  BY DEF SettledKept, RowWritten, Dropped, Replaced

\* begin(): a resumed batch.
LEMMA BeginResumedInvariant ==
    ASSUME BatchStoreIInv, NEW c \in Callers, NEW b \in BatchIds, NEW f \in BatchFingerprints, NEW n \in Totals,
           NEW now \in 0..clock, BeginResumed(c, b, f, n, now)
    PROVE  BatchStoreIInv' /\ SettledKept
  <1> DEFINE kept == Kept(b, now)
             row == [kept[b] EXCEPT !.token = minted + 1, !.lease_expires_at = now + BatchTtl]
             old == kept[b].token
  <1>0. /\ b \in DOMAIN kept /\ Executing(kept[b])
        /\ minted' = minted + 1 /\ GrantLease(c, b, kept, row)
        /\ Index(Put(Without(tokens, {old}), minted + 1, b)) /\ accepted' = accepted
        /\ clock' = clock /\ keeper' = keeper
    BY DEF BeginResumed
  <1>1. PICK keys : Dropped(keys) /\ kept = Without(entries, keys)
    BY KeptFacts
  <1>2. minted \in Nat /\ clock \in Nat /\ now \in Nat /\ now + BatchTtl \in Nat
    BY BatchStoreAssumption DEF BatchStoreIInv, BatchStoreTypeOK
  <1>3. b \in DOMAIN entries \ keys /\ kept[b] = entries[b] /\ kept[b] \in BatchRows
    <2> HIDE DEF kept
    <2>1. DOMAIN kept = DOMAIN entries \ keys /\ \A x \in DOMAIN entries \ keys : kept[x] = entries[x]
      BY <1>1, WithoutFacts
    <2> QED BY <1>0, <2>1 DEF BatchStoreIInv, BatchStoreTypeOK
  <1> HIDE DEF kept
  <1>4. /\ row \in BatchRows /\ row.token = minted + 1 /\ row.state = kept[b].state /\ row.receipts = kept[b].receipts
        /\ Executing(row)
    <2> DEFINE r == kept[b]
               one == [r EXCEPT !.token = minted + 1]
               two == [one EXCEPT !.lease_expires_at = now + BatchTtl]
    <2>1. r \in BatchRows
      BY <1>3
    <2>2. two = row
      OBVIOUS
    <2> HIDE DEF r
    <2>3. one \in BatchRows /\ one.token = minted + 1 /\ one.state = r.state /\ one.receipts = r.receipts
      BY <1>2, <2>1 DEF BatchRows
    <2> HIDE DEF one
    <2>4. two \in BatchRows /\ two.token = one.token /\ two.state = one.state /\ two.receipts = one.receipts
      BY <1>2, <2>3 DEF BatchRows
    <2> QED BY <1>0, <2>2, <2>3, <2>4 DEF r, Executing
  <1> HIDE DEF row
  <1>5. RowStep(c, b, keys, row)
    BY <1>0, <1>1, <1>4 DEF RowStep
  <1>6. RowWritten(c, b, keys, row)
    BY <1>5, RowStepFacts
  <1>7. TokensUnique'
    BY <1>0, <1>4, <1>5, NewToken
  <1>8. accepted \in [BatchIds -> Seq(Callers)]
    BY DEF BatchStoreIInv, BatchStoreTypeOK
  <1>9. BatchStoreTypeOK'
    BY <1>0, <1>2, <1>6, <1>8 DEF BatchStoreTypeOK, RowWritten
  <1>10. RowsExact'
    <2>1. Named(row.receipts) = accepted'[b] /\ row.state # "completed"
      BY <1>0, <1>3, <1>4 DEF BatchStoreIInv, RowsExact, Executing
    <2> QED BY <1>0, <1>6, <2>1, RowsWritten
  <1>11. IndexExact'
    <2>1. \A x \in DOMAIN entries : entries[x].token \in Nat /\ entries[x].token <= minted
      BY DEF BatchStoreIInv, BatchStoreTypeOK, BatchRows, TokensUnique
    <2>2. \A x \in DOMAIN entries \ keys : x # b => entries[x].token \notin {row.token, old}
      BY <1>2, <1>3, <1>4, <2>1 DEF BatchStoreIInv, TokensUnique
    <2>3. keeper = "memory" =>
              /\ DOMAIN tokens' = (DOMAIN tokens \ {old}) \cup {row.token} /\ tokens'[row.token] = b
              /\ \A t \in DOMAIN tokens \ {old, row.token} : tokens'[t] = tokens[t]
      BY <1>0, <1>4 DEF Index, Put, Without
    <2>4. keeper = "memory" => Cardinality(DOMAIN entries') <= BatchCapacity
      <3>1. DOMAIN entries' \subseteq DOMAIN entries
        BY <1>3, <1>6 DEF RowWritten
      <3> QED BY <3>1, FewerRows
    <2>5. b \in DOMAIN entries \ keys => entries[b].token = old
      BY <1>3
    <2> HIDE DEF old
    <2>6. IndexStep(b, keys, row, old)
      BY <1>0, <1>4, <2>2, <2>3, <2>4, <2>5 DEF IndexStep
    <2> QED BY <1>1, <1>6, <2>6, IndexMoved
  <1>12. SettledKept
    BY <1>0, <1>1, <1>3, <1>6, SettledWritten DEF Replaced
  <1> QED BY <1>7, <1>9, <1>10, <1>11, <1>12 DEF BatchStoreIInv

\* Rows are dropped, and nothing else changes.
LEMMA DropInvariant ==
    ASSUME BatchStoreIInv, NEW keys, Dropped(keys), entries' = Without(entries, keys),
           UNCHANGED <<clock, keeper, tokens, held, minted, accepted>>
    PROVE  BatchStoreIInv' /\ SettledKept
  <1>1. DOMAIN entries' = DOMAIN entries \ keys /\ \A x \in DOMAIN entries \ keys : entries'[x] = entries[x]
    BY WithoutFacts
  <1>2. BatchStoreTypeOK'
    BY <1>1 DEF BatchStoreIInv, BatchStoreTypeOK
  <1>3. TokensUnique'
    BY <1>1 DEF BatchStoreIInv, TokensUnique
  <1>4. RowsExact'
    BY <1>1 DEF BatchStoreIInv, RowsExact
  <1>5. IndexExact'
    <2> SUFFICES ASSUME keeper = "memory" PROVE IndexExact'
      BY DEF IndexExact
    <2>1. Cardinality(DOMAIN entries') <= BatchCapacity
      BY <1>1, FewerRows
    <2> QED BY <1>1, <2>1 DEF BatchStoreIInv, IndexExact, Executing, Dropped
  <1>6. SettledKept
    BY <1>1 DEF SettledKept, Dropped
  <1> QED BY <1>2, <1>3, <1>4, <1>5, <1>6 DEF BatchStoreIInv

\* A refused begin removes settled rows at most.
LEMMA BeginRefusedInvariant ==
    ASSUME BatchStoreIInv, NEW b \in BatchIds, NEW f, NEW n, NEW now \in 0..clock, BeginRefused(b, f, n, now)
    PROVE  BatchStoreIInv' /\ SettledKept
  <1>1. PICK keys : Dropped(keys) /\ Kept(b, now) = Without(entries, keys)
    BY KeptFacts
  <1> QED BY <1>1, DropInvariant DEF BeginRefused

\* So does a purge.
LEMMA PurgeBatchesInvariant ==
    ASSUME BatchStoreIInv, NEW now \in 0..clock, NEW u \in BOOLEAN, PurgeBatches(u, now)
    PROVE  BatchStoreIInv' /\ SettledKept
  <1> DEFINE states == {"completed"} \cup (IF u THEN {"uncertain"} ELSE {})
             selected == {x \in DOMAIN entries : PastRetention(entries[x], states, now)}
             first == {x \in selected : Cardinality({y \in selected : Earlier(y, x)}) < PurgeSize}
  <1>1. entries' = Without(entries, first) /\ UNCHANGED <<clock, keeper, tokens, held, minted, accepted>>
    BY DEF PurgeBatches
  <1>2. first \subseteq selected
    OBVIOUS
  <1>3. \A x \in DOMAIN entries : entries[x].retention_expires_at \in Nat /\ clock \in Nat /\ now \in Nat /\ now <= clock
    BY DEF BatchStoreIInv, BatchStoreTypeOK, BatchRows
  <1>4. Dropped(selected)
    BY <1>3 DEF Dropped, PastRetention, Executing
  <1> HIDE DEF selected, first
  <1>5. Dropped(first)
    BY <1>2, <1>4 DEF Dropped
  <1> QED BY <1>1, <1>5, DropInvariant

\* A lease that a caller may use is that of the row, and has seen all of it.
LEMMA ActiveFacts ==
    ASSUME BatchStoreIInv, NEW c \in Callers, NEW now, ActiveRow(held[c], now)
    PROVE  /\ held[c].batch \in DOMAIN entries /\ held[c].batch \in BatchIds
           /\ entries[held[c].batch] \in BatchRows /\ Executing(entries[held[c].batch])
           /\ entries[held[c].batch].token = held[c].token /\ held[c].token # 0
           /\ entries[held[c].batch].receipts = held[c].receipts
  <1> DEFINE b == held[c].batch
  <1>1. b \in DOMAIN entries /\ Executing(entries[b]) /\ LeaseOf(b, entries[b]) = held[c] /\ held[c].token # 0
    BY DEF ActiveRow, LeaseCurrent
  <1>2. b \in BatchIds /\ entries[b] \in BatchRows
    BY <1>1 DEF BatchStoreIInv, BatchStoreTypeOK
  <1>3. LeaseOf(b, entries[b]).token = entries[b].token /\ LeaseOf(b, entries[b]).receipts = entries[b].receipts
    BY DEF LeaseOf
  <1> QED BY <1>1, <1>2, <1>3

\* The row of an executing batch is written again under the token that the caller has.
LEMMA KeepsToken ==
    ASSUME BatchStoreIInv, NEW c \in Callers, NEW b \in DOMAIN entries, NEW row \in BatchRows,
           Executing(entries[b]), Executing(row), row.token = entries[b].token, row.token = held[c].token,
           GrantLease(c, b, entries, row), accepted' \in [BatchIds -> Seq(Callers)],
           \A x \in BatchIds \ {b} : accepted'[x] = accepted[x], Named(row.receipts) = accepted'[b],
           UNCHANGED <<clock, keeper, tokens, minted>>
    PROVE  BatchStoreIInv' /\ SettledKept
  <1>0. b \in BatchIds /\ minted \in Nat /\ clock \in Nat
    BY DEF BatchStoreIInv, BatchStoreTypeOK
  <1>1. Put(entries, b, row) = Put(Without(entries, {}), b, row)
    BY DEF Put, Without
  <1>2. Dropped({})
    BY DEF Dropped
  <1>3. RowStep(c, b, {}, row)
    BY <1>0, <1>1, <1>2 DEF RowStep, GrantLease
  <1>4. RowWritten(c, b, {}, row)
    BY <1>3, RowStepFacts
  <1>5. TokensUnique'
    BY <1>3, SameToken
  <1>6. BatchStoreTypeOK'
    BY <1>0, <1>4 DEF BatchStoreTypeOK, RowWritten
  <1>7. RowsExact'
    BY <1>4, RowsWritten DEF Executing
  <1>8. IndexExact'
    <2> DEFINE t == row.token
    <2>1. keeper = "memory" => t \in DOMAIN tokens /\ tokens[t] = b
      <3> SUFFICES ASSUME keeper = "memory" PROVE t \in DOMAIN tokens /\ tokens[t] = b
        OBVIOUS
      <3>1. t \in DOMAIN tokens
        BY DEF BatchStoreIInv, IndexExact
      <3>2. tokens[t] \in DOMAIN entries /\ entries[tokens[t]].token = t
        BY <3>1 DEF BatchStoreIInv, IndexExact
      <3>3. t = entries[b].token
        OBVIOUS
      <3> HIDE DEF t
      <3> QED BY <3>1, <3>2, <3>3 DEF BatchStoreIInv, TokensUnique
    <2>2. \A x \in DOMAIN entries \ {} : x # b => entries[x].token # t
      BY DEF BatchStoreIInv, TokensUnique
    <2>3. keeper = "memory" => Cardinality(DOMAIN entries') <= BatchCapacity
      <3>1. DOMAIN entries' \subseteq DOMAIN entries
        BY <1>4 DEF RowWritten
      <3> QED BY <3>1, FewerRows
    <2>4. keeper = "memory" =>
              /\ DOMAIN tokens' = (DOMAIN tokens \ {row.token}) \cup {row.token} /\ tokens'[row.token] = b
              /\ \A y \in DOMAIN tokens \ {row.token, row.token} : tokens'[y] = tokens[y]
      BY <2>1
    <2>5. b \in DOMAIN entries \ {} => entries[b].token = row.token
      OBVIOUS
    <2>6. IndexStep(b, {}, row, row.token)
      BY <2>2, <2>3, <2>4, <2>5 DEF IndexStep
    <2> QED BY <1>2, <1>4, <2>6, IndexMoved
  <1>9. SettledKept
    BY <1>2, <1>4, SettledWritten DEF Replaced
  <1> QED BY <1>5, <1>6, <1>7, <1>8, <1>9 DEF BatchStoreIInv

\* A renewal moves the expiry of the lease alone.
LEMMA RenewInvariant ==
    ASSUME BatchStoreIInv, NEW c \in Callers, NEW now \in 0..clock, Renew(c, now)
    PROVE  BatchStoreIInv' /\ SettledKept
  <1> DEFINE b == held[c].batch
             r == entries[b]
             row == [r EXCEPT !.lease_expires_at = now + BatchTtl]
  <1>1. ActiveRow(held[c], now) /\ GrantLease(c, b, entries, row) /\ UNCHANGED <<clock, keeper, tokens, minted, accepted>>
    BY DEF Renew
  <1>2. /\ b \in DOMAIN entries /\ b \in BatchIds /\ r \in BatchRows /\ Executing(r)
        /\ r.token = held[c].token
    BY <1>1, ActiveFacts
  <1>3. now + BatchTtl \in Nat
    BY BatchStoreAssumption DEF BatchStoreIInv, BatchStoreTypeOK
  <1>4. accepted \in [BatchIds -> Seq(Callers)] /\ Named(r.receipts) = accepted[b]
    BY <1>2 DEF BatchStoreIInv, BatchStoreTypeOK, RowsExact
  <1> HIDE DEF r
  <1>5. row \in BatchRows /\ row.token = r.token /\ row.state = r.state /\ row.receipts = r.receipts
    BY <1>2, <1>3 DEF BatchRows
  <1>6. Executing(row)
    BY <1>2, <1>5 DEF Executing
  <1> HIDE DEF row, b
  <1>7. Executing(entries[b]) /\ row.token = entries[b].token /\ row.token = held[c].token
    BY <1>2, <1>5 DEF r
  <1> QED BY <1>1, <1>2, <1>4, <1>5, <1>6, <1>7, KeepsToken

\* An advance adds the receipt to the row and to the history.
LEMMA AdvanceInvariant ==
    ASSUME BatchStoreIInv, NEW c \in Callers, NEW now \in 0..clock, NEW receipt \in BatchReceipts,
           Advance(c, receipt, now)
    PROVE  BatchStoreIInv' /\ SettledKept
  <1> DEFINE b == held[c].batch
             r == entries[b]
             more == OneMore(held[c], receipt)
             one == [r EXCEPT !.receipts = more]
             two == [one EXCEPT !.state = "partially_committed"]
             row == [two EXCEPT !.lease_expires_at = now + BatchTtl]
  <1>1. /\ ActiveRow(held[c], now) /\ GrantLease(c, b, entries, row) /\ UNCHANGED <<clock, keeper, tokens, minted>>
        /\ accepted' = [accepted EXCEPT ![b] = Append(@, receipt.by)]
    BY DEF Advance
  <1>2. /\ b \in DOMAIN entries /\ b \in BatchIds /\ r \in BatchRows /\ Executing(r)
        /\ r.token = held[c].token /\ r.receipts = held[c].receipts
    BY <1>1, ActiveFacts
  <1>3. now + BatchTtl \in Nat
    BY BatchStoreAssumption DEF BatchStoreIInv, BatchStoreTypeOK
  <1>4. accepted \in [BatchIds -> Seq(Callers)] /\ Named(r.receipts) = accepted[b]
    BY <1>2 DEF BatchStoreIInv, BatchStoreTypeOK, RowsExact
  <1>5. r.receipts \in Seq(BatchReceipts)
    BY <1>2 DEF BatchRows
  <1>6. Encoded(receipt) \in BatchReceipts /\ Encoded(receipt).by = receipt.by
    BY DEF Encoded, BatchReceipts
  <1>7. more = Append(r.receipts, receipt) \/ more = Append(r.receipts, Encoded(receipt))
    BY <1>2 DEF OneMore
  <1>8. more \in Seq(BatchReceipts) /\ Named(more) = Append(accepted[b], receipt.by) /\ receipt.by \in Callers
    <2> HIDE DEF more
    <2>1. CASE more = Append(r.receipts, receipt)
      BY <2>1, <1>4, <1>5, NamedAppend
    <2>2. CASE more = Append(r.receipts, Encoded(receipt))
      BY <2>2, <1>4, <1>5, <1>6, NamedAppend
    <2> QED BY <1>7, <2>1, <2>2
  <1> HIDE DEF r, more, b
  <1>9. one \in BatchRows /\ one.token = r.token /\ one.receipts = more
    BY <1>2, <1>8 DEF BatchRows
  <1> HIDE DEF one
  <1>10. two \in BatchRows /\ two.token = one.token /\ two.receipts = one.receipts /\ two.state = "partially_committed"
    BY <1>9 DEF BatchRows
  <1> HIDE DEF two
  <1>11. row \in BatchRows /\ row.token = two.token /\ row.receipts = two.receipts /\ row.state = two.state
    BY <1>3, <1>10 DEF BatchRows
  <1> HIDE DEF row
  <1>12. Executing(row)
    BY <1>10, <1>11 DEF Executing
  <1>13. /\ accepted' \in [BatchIds -> Seq(Callers)] /\ accepted'[b] = Append(accepted[b], receipt.by)
         /\ \A x \in BatchIds \ {b} : accepted'[x] = accepted[x]
    BY <1>1, <1>2, <1>4, <1>8
  <1>14. Executing(entries[b]) /\ row.token = entries[b].token /\ row.token = held[c].token
    BY <1>2, <1>9, <1>10, <1>11 DEF r
  <1>15. Named(row.receipts) = accepted'[b]
    BY <1>8, <1>9, <1>10, <1>11, <1>13
  <1> QED BY <1>1, <1>2, <1>11, <1>12, <1>13, <1>14, <1>15, KeepsToken

\* A row is settled: all of its receipts are there when it is completed, and its token is forgotten.
LEMMA SettleInvariant ==
    ASSUME BatchStoreIInv, NEW c \in Callers, NEW now \in 0..clock, ActiveRow(held[c], now),
           NEW state \in {"completed", "uncertain"}, Settle(held[c], state, now),
           state = "completed" => Len(entries[held[c].batch].receipts) = entries[held[c].batch].total
    PROVE  BatchStoreIInv' /\ SettledKept
  <1> DEFINE b == held[c].batch
             r == entries[b]
             one == [r EXCEPT !.state = state]
             row == [one EXCEPT !.retention_expires_at = now + BatchRetention]
  <1>1. /\ entries' = [entries EXCEPT ![b] = row] /\ Index(Without(tokens, {held[c].token}))
        /\ UNCHANGED <<clock, keeper, held, minted, accepted>>
    BY ActiveFacts DEF Settle
  <1>2. /\ b \in DOMAIN entries /\ b \in BatchIds /\ r \in BatchRows /\ Executing(r)
        /\ r.token = held[c].token
    BY ActiveFacts
  <1>3. now + BatchRetention \in Nat
    BY BatchStoreAssumption DEF BatchStoreIInv, BatchStoreTypeOK
  <1>4. accepted \in [BatchIds -> Seq(Callers)] /\ Named(r.receipts) = accepted[b]
    BY <1>2 DEF BatchStoreIInv, BatchStoreTypeOK, RowsExact
  <1>5. state = "completed" => Len(accepted[b]) = r.total
    <2>1. r.receipts \in Seq(BatchReceipts)
      BY <1>2 DEF BatchRows
    <2> QED BY <1>4, <2>1, NamedSequence
  <1>6. \A x \in DOMAIN entries : Executing(entries[x]) => x \in DOMAIN entries
    OBVIOUS
  <1> HIDE DEF r
  <1>7. one \in BatchRows /\ one.token = r.token /\ one.receipts = r.receipts /\ one.total = r.total /\ one.state = state
    BY <1>2 DEF BatchRows
  <1> HIDE DEF one
  <1>8. /\ row \in BatchRows /\ row.token = one.token /\ row.receipts = one.receipts /\ row.total = one.total
        /\ row.state = one.state
    BY <1>3, <1>7 DEF BatchRows
  <1> HIDE DEF row, b
  <1>9. DOMAIN entries' = DOMAIN entries /\ entries'[b] = row /\ \A x \in DOMAIN entries \ {b} : entries'[x] = entries[x]
    BY <1>1, <1>2
  <1>10. row.token = entries[b].token /\ Named(row.receipts) = accepted[b] /\ ~Executing(row) /\ Executing(entries[b])
         /\ row.token = held[c].token /\ row.total = r.total /\ row.state = state
    BY <1>2, <1>4, <1>7, <1>8 DEF r, Executing
  <1>11. BatchStoreTypeOK'
    BY <1>1, <1>8, <1>9 DEF BatchStoreIInv, BatchStoreTypeOK
  <1>12. TokensUnique'
    <2>1. \A x \in DOMAIN entries' : x \in DOMAIN entries /\ entries'[x].token = entries[x].token
      BY <1>9, <1>10
    <2> QED BY <1>1, <1>9, <2>1 DEF BatchStoreIInv, TokensUnique
  <1>13. RowsExact'
    <2>1. \A x \in DOMAIN entries' \ {b} : x \in DOMAIN entries /\ entries'[x] = entries[x]
      BY <1>9
    <2>2. Named(entries'[b].receipts) = accepted'[b] /\ (entries'[b].state = "completed" => Len(accepted'[b]) = entries'[b].total)
      BY <1>1, <1>5, <1>9, <1>10
    <2> QED BY <1>1, <2>1, <2>2 DEF BatchStoreIInv, RowsExact
  <1>14. IndexExact'
    <2> SUFFICES ASSUME keeper = "memory" PROVE IndexExact'
      BY <1>1 DEF IndexExact
    <2> DEFINE t == held[c].token
    <2>1. DOMAIN tokens' = DOMAIN tokens \ {t} /\ \A y \in DOMAIN tokens \ {t} : tokens'[y] = tokens[y]
      BY <1>1 DEF Index, Without
    <2>2. Cardinality(DOMAIN entries') <= BatchCapacity
      BY <1>9, FewerRows
    <2>3. /\ \A y \in DOMAIN tokens :
               tokens[y] \in DOMAIN entries /\ entries[tokens[y]].token = y /\ Executing(entries[tokens[y]])
          /\ \A x \in DOMAIN entries : Executing(entries[x]) => entries[x].token \in DOMAIN tokens
          /\ \A x, y \in DOMAIN entries : entries[x].token = entries[y].token => x = y
      BY DEF BatchStoreIInv, IndexExact, TokensUnique
    <2>4. \A y \in DOMAIN tokens' : tokens'[y] \in DOMAIN entries' /\ tokens'[y] # b /\ tokens'[y] = tokens[y]
                                    /\ entries'[tokens'[y]] = entries[tokens[y]]
      <3> TAKE y \in DOMAIN tokens'
      <3>1. y \in DOMAIN tokens /\ y # t /\ tokens'[y] = tokens[y]
        BY <2>1
      <3>2. tokens[y] \in DOMAIN entries /\ entries[tokens[y]].token = y
        BY <2>3, <3>1
      <3>3. tokens[y] # b
        BY <1>10, <3>1, <3>2
      <3> QED BY <1>9, <3>1, <3>2, <3>3
    <2>5. \A x \in DOMAIN entries' : Executing(entries'[x]) => x # b /\ entries'[x] = entries[x]
      BY <1>9, <1>10
    <2>6. \A x \in DOMAIN entries' : Executing(entries'[x]) => entries'[x].token \in DOMAIN tokens'
      <3> SUFFICES ASSUME NEW x \in DOMAIN entries', Executing(entries'[x]) PROVE entries'[x].token \in DOMAIN tokens'
        OBVIOUS
      <3>1. x # b /\ x \in DOMAIN entries /\ entries'[x] = entries[x]
        BY <1>9, <2>5
      <3>2. entries[x].token \in DOMAIN tokens
        BY <2>3, <3>1
      <3>3. entries[x].token # t
        <4>1. entries[b].token = t /\ b \in DOMAIN entries
          BY <1>2, <1>10
        <4> HIDE DEF t
        <4> QED BY <2>3, <3>1, <4>1
      <3> HIDE DEF t
      <3> QED BY <2>1, <3>1, <3>2, <3>3
    <2>7. \A y \in DOMAIN tokens' :
              tokens'[y] \in DOMAIN entries' /\ entries'[tokens'[y]].token = y /\ Executing(entries'[tokens'[y]])
      BY <2>1, <2>3, <2>4
    <2> QED BY <2>2, <2>6, <2>7 DEF IndexExact, Executing
  <1>15. SettledKept
    BY <1>9, <1>10 DEF SettledKept
  <1> QED BY <1>11, <1>12, <1>13, <1>14, <1>15 DEF BatchStoreIInv

\* An empty store, and nobody with a lease.
LEMMA BatchStoreInitial == BatchStoreInit => BatchStoreIInv
  <1> SUFFICES ASSUME BatchStoreInit PROVE BatchStoreIInv
    OBVIOUS
  <1>1. DOMAIN entries = {} /\ DOMAIN tokens = {}
    BY DEF BatchStoreInit
  <1>2. BatchStoreTypeOK
    BY <1>1 DEF BatchStoreInit, BatchStoreTypeOK
  <1>3. \A c \in Callers : held[c].token = 0
    BY DEF BatchStoreInit, NoLease
  <1>4. TokensUnique
    BY <1>1, <1>3 DEF BatchStoreInit, TokensUnique
  <1>5. Cardinality(DOMAIN entries) = 0 /\ BatchCapacity \in Nat
    BY <1>1, FS_EmptySet, BatchStoreAssumption
  <1>6. IndexExact
    BY <1>1, <1>5 DEF IndexExact
  <1> QED BY <1>1, <1>2, <1>4, <1>6 DEF BatchStoreIInv, RowsExact

\* One case per action.
LEMMA BatchStoreStep == BatchStoreIInv /\ [BatchStoreNext]_storeVars => BatchStoreIInv' /\ [SettledKept]_storeVars
  <1> SUFFICES ASSUME BatchStoreIInv, [BatchStoreNext]_storeVars PROVE BatchStoreIInv' /\ [SettledKept]_storeVars
    OBVIOUS
  <1>1. CASE UNCHANGED storeVars
    BY <1>1 DEF storeVars, BatchStoreIInv, BatchStoreTypeOK, TokensUnique, RowsExact, IndexExact
  <1>2. CASE Tick /\ UNCHANGED <<keeper, entries, tokens, held, minted, accepted>>
    <2>1. clock' \in Nat
      BY <1>2 DEF Tick, BatchStoreIInv, BatchStoreTypeOK
    <2> QED BY <1>2, <2>1 DEF SettledKept, BatchStoreIInv, BatchStoreTypeOK, TokensUnique, RowsExact, IndexExact
  <1>3. ASSUME NEW now \in 0..clock, NEW c \in Callers, NEW b \in BatchIds, NEW f \in BatchFingerprints, NEW n \in Totals,
               Begin(c, b, f, n, now)
        PROVE  BatchStoreIInv' /\ SettledKept
    BY <1>3, BeginNewInvariant, BeginResumedInvariant, BeginRefusedInvariant DEF Begin
  <1>4. ASSUME NEW now \in 0..clock, NEW c \in Callers, NEW replayed \in BOOLEAN,
               Advance(c, [by |-> c, replayed |-> replayed], now)
        PROVE  BatchStoreIInv' /\ SettledKept
    <2>1. [by |-> c, replayed |-> replayed] \in BatchReceipts
      BY DEF BatchReceipts
    <2> QED BY <1>4, <2>1, AdvanceInvariant
  <1>5. ASSUME NEW now \in 0..clock, NEW c \in Callers, CompleteBatch(c, now) \/ MarkUncertain(c, now)
        PROVE  BatchStoreIInv' /\ SettledKept
    BY <1>5, SettleInvariant DEF CompleteBatch, MarkUncertain
  <1> QED BY <1>1, <1>2, <1>3, <1>4, <1>5, RenewInvariant, PurgeBatchesInvariant DEF BatchStoreNext

\* The invariant says what was to be shown.
LEMMA BatchStoreExactNow == BatchStoreIInv => LeasesExact /\ EntriesExact
  <1> SUFFICES ASSUME BatchStoreIInv PROVE LeasesExact /\ EntriesExact
    OBVIOUS
  <1>1. ASSUME NEW c \in Callers, ActiveRow(held[c], 0)
        PROVE  Named(held[c].receipts) = accepted[held[c].batch]
    BY <1>1, ActiveFacts DEF BatchStoreIInv, RowsExact
  <1>2. ASSUME NEW c \in Callers, NEW o \in Callers, ActiveRow(held[c], 0), c # o, ActiveRow(held[o], 0)
        PROVE  held[c].batch # held[o].batch
    <2>1. /\ entries[held[c].batch].token = held[c].token /\ held[c].token # 0
          /\ entries[held[o].batch].token = held[o].token
      BY <1>2, ActiveFacts
    <2> QED BY <1>2, <2>1 DEF BatchStoreIInv, TokensUnique
  <1>3. keeper = "memory" =>
            /\ DOMAIN tokens = {entries[b].token : b \in {x \in DOMAIN entries : Executing(entries[x])}}
            /\ \A t \in DOMAIN tokens : entries[tokens[t]].token = t
            /\ Cardinality(DOMAIN entries) <= BatchCapacity
    BY DEF BatchStoreIInv, IndexExact
  <1> QED BY <1>1, <1>2, <1>3 DEF LeasesExact, EntriesExact, BatchStoreIInv, RowsExact

\* What the store has answered it keeps, for every number of callers, batches and tokens.
THEOREM BatchStoreTheorem == BatchStoreSpec => BatchStoreExact
  <1>1. BatchStoreInit => BatchStoreIInv
    BY BatchStoreInitial
  <1>2. BatchStoreIInv /\ [BatchStoreNext]_storeVars => BatchStoreIInv' /\ [SettledKept]_storeVars
    BY BatchStoreStep
  <1>3. BatchStoreIInv => LeasesExact /\ EntriesExact
    BY BatchStoreExactNow
  <1> QED BY <1>1, <1>2, <1>3, PTL DEF BatchStoreSpec, BatchStoreExact
=============================================================================
