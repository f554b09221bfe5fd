--------------------------- MODULE ConsumerProofs ---------------------------
(***************************************************************************)
(* Admission is exact and the consumer implements Effects, for any sets of *)
(* messages, consumers and workers, any capacities and any number of       *)
(* faults.                                                                 *)
(*                                                                         *)
(* AdmissionExact needs the end marks: run() leaves the queue as it is     *)
(* when its workers have ended, so the next run() starts with every permit *)
(* free only because the marks count off against the workers and stand     *)
(* behind every delivery (LoopCoherent).  The refinement needs the stages  *)
(* to tell the truth about the stores (SlotsCoherent), one transaction per *)
(* inbox row (RowsExclusive), and that a decision whose entry was purged   *)
(* belongs to a message no consumer holds and the broker has forgotten     *)
(* (DecisionsRecorded): otherwise a redelivery would decide it again.      *)
(***************************************************************************)
EXTENDS Consumer, FiniteSetTheorems, SequenceTheorems, TLAPS

Locked == {"handling", "committing", "confirming"}

----------------------------------------------------------------------------
\* Counting in the queue.

CountIn(q, T) == Cardinality({i \in DOMAIN q : q[i] \in T})

\* Taking the head counts it off.
LEMMA CountTail ==
  ASSUME NEW S, NEW q \in Seq(S), q # << >>, NEW T
  PROVE  /\ CountIn(Tail(q), T) \in Nat
         /\ CountIn(q, T) = CountIn(Tail(q), T) + IF Head(q) \in T THEN 1 ELSE 0
  <1> DEFINE before == {i \in DOMAIN q : q[i] \in T}
             after == {i \in DOMAIN Tail(q) : Tail(q)[i] \in T}
             n == Len(q)
             rest == before \ {1}
             up == [i \in after |-> i + 1]
  <1>1. n \in Nat \ {0} /\ DOMAIN q = 1..n
    BY LenProperties, EmptySeq
  <1>2. /\ DOMAIN Tail(q) = 1..(n - 1)
        /\ \A i \in 1..(n - 1) : Tail(q)[i] = q[i + 1]
    BY <1>1, HeadTailProperties, LenProperties
  <1>3. Head(q) = q[1]
    BY <1>1
  <1>4. before \in SUBSET (1..n) /\ after \in SUBSET (1..n)
    BY <1>1, <1>2
  <1>5. IsFiniteSet(before) /\ IsFiniteSet(after)
    <2> HIDE DEF before, after
    <2>1. IsFiniteSet(1..n)
      BY <1>1, FS_Interval
    <2> QED BY <1>4, <2>1, FS_Subset
  <1>6. up \in Bijection(after, rest)
    <2>1. up \in [after -> rest]
      BY <1>1, <1>2, <1>4
    <2>2. \A i, j \in after : up[i] = up[j] => i = j
      BY <1>4
    <2>3. \A k \in rest : \E i \in after : up[i] = k
      <3> SUFFICES ASSUME NEW k \in rest PROVE \E i \in after : up[i] = k
        OBVIOUS
      <3>1. k - 1 \in after /\ up[k - 1] = k
        BY <1>1, <1>2, <1>4
      <3> QED BY <3>1
    <2> HIDE DEF up, after, rest
    <2> QED BY <2>1, <2>2, <2>3 DEF Bijection, Injection, Surjection, IsInjective
  <1>7. (1 \in before) <=> (Head(q) \in T)
    BY <1>1, <1>3
  <1> HIDE DEF before, after, up
  <1>8. /\ IsFiniteSet(rest)
        /\ Cardinality(rest) = IF 1 \in before THEN Cardinality(before) - 1 ELSE Cardinality(before)
    BY <1>5, FS_RemoveElement
  <1>9. Cardinality(rest) = Cardinality(after)
    BY <1>5, <1>6, FS_Bijection DEF ExistsBijection
  <1>10. Cardinality(before) \in Nat /\ Cardinality(after) \in Nat
    BY <1>5, FS_CardinalityType
  <1>11. Cardinality(before) = Cardinality(after) + IF Head(q) \in T THEN 1 ELSE 0
    BY <1>7, <1>8, <1>9, <1>10
  <1> QED BY <1>10, <1>11 DEF before, after, CountIn

----------------------------------------------------------------------------
\* Type correctness.

SlotType == [stage : Stages, message : Messages \cup {None}]

\* One slot changes.
LEMMA OneSlot ==
  ASSUME TypeOK, NEW c \in Consumers, NEW w \in Workers, NEW r \in SlotType,
         slots' = [slots EXCEPT ![c][w] = r]
  PROVE  /\ slots' \in [Consumers -> [Workers -> SlotType]]
         /\ slots'[c][w] = r
         /\ \A d \in Consumers, v \in Workers :
              d # c \/ v # w => slots'[d][v] = slots[d][v]
  BY DEF TypeOK, SlotType

\* One slot comes to a stage with a message.
LEMMA SlotTo ==
  ASSUME TypeOK, NEW c \in Consumers, NEW w \in Workers, NEW stage \in Stages,
         NEW m \in Messages \cup {None}, slots' = [slots EXCEPT ![c][w] = Slot(stage, m)]
  PROVE  /\ slots'[c][w].stage = stage /\ slots'[c][w].message = m
         /\ \A d \in Consumers, v \in Workers :
              d # c \/ v # w => slots'[d][v] = slots[d][v]
  <1>1. Slot(stage, m) \in SlotType /\ Slot(stage, m).stage = stage /\ Slot(stage, m).message = m
    BY DEF Slot, SlotType
  <1>2. /\ slots'[c][w] = Slot(stage, m)
        /\ \A d \in Consumers, v \in Workers :
              d # c \/ v # w => slots'[d][v] = slots[d][v]
    <2> DEFINE r == Slot(stage, m)
    <2>1. r \in SlotType /\ slots' = [slots EXCEPT ![c][w] = r]
      BY <1>1
    <2> HIDE DEF r
    <2>2. /\ slots'[c][w] = r
          /\ \A d \in Consumers, v \in Workers :
               d # c \/ v # w => slots'[d][v] = slots[d][v]
      BY <2>1 DEF TypeOK
    <2> QED BY <2>2 DEF r
  <1>3. slots'[c][w].stage = stage /\ slots'[c][w].message = m
    BY <1>1, <1>2, Zenon
  <1> QED BY <1>2, <1>3, Zenon

\* Every slot of a consumer is vacated.
LEMMA NoSlots ==
  ASSUME TypeOK, NEW c \in Consumers,
         slots' = [slots EXCEPT ![c] = [v \in Workers |-> Idle]]
  PROVE  /\ slots' \in [Consumers -> [Workers -> SlotType]]
         /\ \A v \in Workers : slots'[c][v] = Idle
         /\ \A d \in Consumers : d # c => slots'[d] = slots[d]
  BY DEF TypeOK, SlotType, Idle, Stages

\* Slots have their type and their records their fields.
LEMMA SlotFacts ==
  ASSUME TypeOK, NEW c \in Consumers, NEW w \in Workers
  PROVE  /\ slots[c][w] \in SlotType
         /\ slots[c][w].stage \in Stages
         /\ MessageOf(c, w) \in Messages \cup {None}
         /\ \A stage \in Stages : Slot(stage, MessageOf(c, w)) \in SlotType
  BY DEF TypeOK, SlotType, MessageOf, Slot

\* A worker moves on with its delivery, gives it up, or raises.
LEMMA MoveType ==
  ASSUME TypeOK, NEW c \in Consumers, NEW w \in Workers, NEW stage \in Stages,
         Move(c, w, stage), UNCHANGED loop,
         faults' \in 0..MaxFaults, inbox' \subseteq Messages, quarantine' \subseteq Messages,
         decisions' \in [Messages -> Nat],
         broker' \in [Messages -> {"unsettled", "acked", "terminated"}]
  PROVE  TypeOK'
  <1>1. slots' \in [Consumers -> [Workers -> SlotType]]
    BY SlotFacts, OneSlot DEF Move
  <1> QED BY <1>1 DEF TypeOK, SlotType, loop

LEMMA FinishType ==
  ASSUME TypeOK, NEW c \in Consumers, NEW w \in Workers, Finish(c, w),
         UNCHANGED <<running, intake, queue>>,
         faults' \in 0..MaxFaults, inbox' \subseteq Messages, quarantine' \subseteq Messages,
         decisions' \in [Messages -> Nat],
         broker' \in [Messages -> {"unsettled", "acked", "terminated"}]
  PROVE  TypeOK'
  <1>1. slots' \in [Consumers -> [Workers -> SlotType]]
    BY OneSlot DEF Finish, Idle, SlotType, Stages
  <1>2. permits' \in [Consumers -> Nat]
    BY DEF TypeOK, Finish
  <1> QED BY <1>1, <1>2 DEF TypeOK, SlotType

LEMMA RaiseType ==
  ASSUME TypeOK, NEW c \in Consumers, NEW w \in Workers, Raise(c, w),
         faults' \in 0..MaxFaults, inbox' \subseteq Messages, quarantine' \subseteq Messages,
         decisions' \in [Messages -> Nat],
         broker' \in [Messages -> {"unsettled", "acked", "terminated"}]
  PROVE  TypeOK'
  <1>1. slots' \in [Consumers -> [Workers -> SlotType]]
    BY OneSlot, NoSlots DEF Raise, Abort, Idle, SlotType, Stages
  <1>2. /\ running' \in [Consumers -> BOOLEAN] /\ intake' \in [Consumers -> Intakes]
        /\ permits' \in [Consumers -> Nat]
    <2>1. running' \in [Consumers -> BOOLEAN]
      BY DEF TypeOK, Raise, Abort, loop
    <2>2. NoIntake \in Intakes
      BY DEF Intakes, NoIntake
    <2>3. intake' \in [Consumers -> Intakes]
      BY <2>2 DEF TypeOK, Raise, Abort, loop
    <2>4. permits' \in [Consumers -> Nat]
      BY DEF TypeOK, Raise, Abort, loop
    <2> QED BY <2>1, <2>3, <2>4
  <1>3. queue' \in [Consumers -> Seq(Messages \cup {None})]
    <2>1. << >> \in Seq(Messages \cup {None})
      BY EmptySeq
    <2> QED BY <2>1 DEF TypeOK, Raise, Abort, loop
  <1> QED BY <1>1, <1>2, <1>3 DEF TypeOK, SlotType

\* An oversized delivery does to a running loop what an exception of any worker does.
LEMMA OversizedRaises ==
  ASSUME LoopCoherent, NEW c \in Consumers, NEW m \in Messages, PullOversized(c, m)
  PROVE  /\ running[c] /\ \E w \in Workers : Raise(c, w)
         /\ UNCHANGED <<inbox, decisions, quarantine, broker, faults>>
  <1>1. running[c]
    BY DEF PullOversized, Admits, LoopCoherent
  <1>2. PICK w \in Workers : TRUE
    BY ConsumerAssumption
  <1>3. Raise(c, w)
    BY <1>1 DEF PullOversized, Raise
  <1> QED BY <1>1, <1>3 DEF PullOversized

\* Settling tells the broker the first outcome only.
LEMMA TellFacts ==
  ASSUME TypeOK, NEW m \in Messages, NEW outcome \in {"acked", "terminated"}, Tell(m, outcome)
  PROVE  /\ broker' \in [Messages -> {"unsettled", "acked", "terminated"}]
         /\ \A x \in Messages : broker[x] # "unsettled" \/ x # m => broker'[x] = broker[x]
         /\ broker[m] = "unsettled" => broker' = [broker EXCEPT ![m] = outcome]
         /\ broker[m] # "unsettled" => broker' = broker
  <1>1. \A x \in Messages : broker'[x] = IF x = m /\ broker[m] = "unsettled" THEN outcome ELSE broker[x]
    BY DEF TypeOK, Tell
  <1>2. broker' \in [Messages -> {"unsettled", "acked", "terminated"}]
    BY DEF TypeOK, Tell
  <1> QED BY <1>1, <1>2 DEF TypeOK, Tell

\* A commit adds the entry and the decision of the committing worker's message.
LEMMA CommittedType ==
  ASSUME TypeOK, SlotsCoherent, NEW c \in Consumers, NEW w \in Workers,
         Committed(c, w) \/ UNCHANGED <<inbox, decisions>>
  PROVE  inbox' \subseteq Messages /\ decisions' \in [Messages -> Nat]
  <1>1. At(c, w, "committing") => MessageOf(c, w) \in Messages
    BY SlotFacts DEF SlotsCoherent, At
  <1>2. CASE Committed(c, w) /\ At(c, w, "committing")
    BY <1>1, <1>2 DEF TypeOK, Committed
  <1> QED BY <1>2 DEF TypeOK, Committed

\* Every step keeps the types.
LEMMA TypeStep == IInv /\ [Next]_vars => TypeOK'
  <1> SUFFICES ASSUME IInv, [Next]_vars PROVE TypeOK'
    OBVIOUS
  <1>a. TypeOK /\ SlotsCoherent /\ LoopCoherent
    BY DEF IInv
  <1>b. Stages = {"idle", "done", "reserving", "handling", "committing", "confirming",
                  "acking", "retrying", "quarantining", "terminating"}
    BY DEF Stages
  <1>c. \A m \in Messages \cup {None}, stage \in Stages : Slot(stage, m) \in SlotType
    BY DEF Slot, SlotType
  <1>d. \A m \in Messages \cup {None}, stage \in {"stopped", "pulling", "putting"} :
          Slot(stage, m) \in Intakes
    BY DEF Slot, Intakes
  <1>e. /\ \A n \in 0..Cardinality(Workers) : Ending(n) \in Intakes
        /\ Cardinality(Workers) \in Nat
    BY ConsumerAssumption, FS_CardinalityType DEF Ending, Intakes
  <1>f. Fault => faults' \in 0..MaxFaults
    BY <1>a, ConsumerAssumption DEF Fault, TypeOK
  <1>1. ASSUME NEW m \in Messages, NEW c \in Consumers, Pull(c, m) PROVE TypeOK'
    <2>1. intake' \in [Consumers -> Intakes]
      BY <1>1, <1>a, <1>d DEF TypeOK, Pull, Admits
    <2>2. permits' \in [Consumers -> Nat]
      BY <1>1, <1>a DEF TypeOK, Pull, Admits
    <2> QED BY <1>1, <1>a, <2>1, <2>2 DEF TypeOK, Pull, Admits
  <1>2. ASSUME NEW m \in Messages, NEW c \in Consumers, NEW w \in Workers, Process(c, w, m)
        PROVE TypeOK'
    <2>1. slots' \in [Consumers -> [Workers -> SlotType]]
      BY <1>2, <1>a, <1>b, <1>c, OneSlot DEF Process
    <2> QED BY <1>2, <1>a, <2>1 DEF TypeOK, Process, SlotType, loop
  <1>3. ASSUME NEW m \in Messages, Purge(m) PROVE TypeOK'
    BY <1>3, <1>a DEF TypeOK, Purge, loop
  <1>4. ASSUME NEW c \in Consumers, RunStarts(c) PROVE TypeOK'
    <2>1. intake' \in [Consumers -> Intakes]
      BY <1>4, <1>a, <1>d DEF TypeOK, RunStarts
    <2>2. running' \in [Consumers -> BOOLEAN]
      BY <1>4, <1>a DEF TypeOK, RunStarts
    <2>3. permits' \in [Consumers -> Nat]
      BY <1>4, <1>a, ConsumerAssumption DEF TypeOK, RunStarts
    <2> QED BY <1>4, <1>a, <2>1, <2>2, <2>3 DEF TypeOK, RunStarts
  <1>5. ASSUME NEW c \in Consumers, PutDelivery(c) PROVE TypeOK'
    <2>1. intake' \in [Consumers -> Intakes]
      BY <1>5, <1>a, <1>d DEF TypeOK, PutDelivery
    <2>2. intake[c].message \in Messages \cup {None}
      BY <1>a DEF TypeOK, Intakes
    <2>3. Append(queue[c], intake[c].message) \in Seq(Messages \cup {None})
      BY <1>a, <2>2, AppendProperties DEF TypeOK
    <2>4. queue' \in [Consumers -> Seq(Messages \cup {None})]
      BY <1>5, <1>a, <2>3 DEF TypeOK, PutDelivery
    <2> QED BY <1>5, <1>a, <2>1, <2>4 DEF TypeOK, PutDelivery
  <1>6. ASSUME NEW c \in Consumers, PutEnd(c) PROVE TypeOK'
    <2>1. intake[c].marks - 1 \in 0..Cardinality(Workers)
      <3>1. intake[c].marks \in 0..Cardinality(Workers)
        BY <1>6, <1>a DEF TypeOK, PutEnd, Intakes
      <3> QED BY <1>6, <1>e, <3>1 DEF PutEnd
    <2>2. intake' \in [Consumers -> Intakes]
      BY <1>6, <1>a, <1>e, <2>1 DEF TypeOK, PutEnd
    <2>3. Append(queue[c], None) \in Seq(Messages \cup {None})
      BY <1>a, AppendProperties DEF TypeOK
    <2>4. queue' \in [Consumers -> Seq(Messages \cup {None})]
      BY <1>6, <1>a, <2>3 DEF TypeOK, PutEnd
    <2> QED BY <1>6, <1>a, <2>2, <2>4 DEF TypeOK, PutEnd
  <1>7. ASSUME NEW c \in Consumers, RunEnds(c) PROVE TypeOK'
    <2>1. slots' \in [Consumers -> [Workers -> SlotType]]
      BY <1>7, <1>a, NoSlots DEF RunEnds
    <2>2. NoIntake \in Intakes
      BY DEF Intakes, NoIntake
    <2>3. intake' \in [Consumers -> Intakes]
      BY <1>7, <1>a, <2>2 DEF TypeOK, RunEnds
    <2>4. running' \in [Consumers -> BOOLEAN]
      BY <1>7, <1>a DEF TypeOK, RunEnds
    <2>5. permits' \in [Consumers -> Nat]
      BY <1>7, <1>a DEF TypeOK, RunEnds
    <2> QED BY <1>7, <1>a, <2>1, <2>3, <2>4, <2>5 DEF TypeOK, RunEnds, SlotType
  <1>8. ASSUME NEW c \in Consumers, SourceEnds(c) PROVE TypeOK'
    <2>1. intake' \in [Consumers -> Intakes]
      BY <1>8, <1>a, <1>e DEF TypeOK, SourceEnds
    <2> QED BY <1>8, <1>a, <1>f, <2>1 DEF TypeOK, SourceEnds
  <1>9. ASSUME NEW c \in Consumers, NEW w \in Workers, Get(c, w) PROVE TypeOK'
    <2>1. queue[c] \in Seq(Messages \cup {None}) /\ queue[c] # << >>
      BY <1>9, <1>a DEF TypeOK, Get
    <2>2. Head(queue[c]) \in Messages \cup {None} /\ Tail(queue[c]) \in Seq(Messages \cup {None})
      BY <2>1, HeadTailProperties
    <2>3. queue' \in [Consumers -> Seq(Messages \cup {None})]
      BY <1>9, <1>a, <2>2 DEF TypeOK, Get
    <2>4. \E r \in SlotType : slots' = [slots EXCEPT ![c][w] = r]
      BY <1>9, <1>b, <1>c, <2>2 DEF Get
    <2>5. slots' \in [Consumers -> [Workers -> SlotType]]
      BY <1>a, <2>4, OneSlot
    <2>6. faults' \in 0..MaxFaults
      BY <1>9, <1>a, <1>f DEF Get, TypeOK
    <2> QED BY <1>9, <1>a, <2>3, <2>5, <2>6 DEF TypeOK, Get, SlotType
  <1>10. ASSUME NEW c \in Consumers, NEW w \in Workers, Processing(c, w) PROVE TypeOK'
    <2> DEFINE m == MessageOf(c, w)
    <2>a. faults \in 0..MaxFaults /\ inbox \subseteq Messages /\ quarantine \subseteq Messages
          /\ decisions \in [Messages -> Nat]
          /\ broker \in [Messages -> {"unsettled", "acked", "terminated"}]
      BY <1>a DEF TypeOK
    <2>b. slots[c][w].stage \notin {"idle", "done"} => m \in Messages
      BY <1>a, SlotFacts DEF SlotsCoherent
    <2>1. CASE Reserve(c, w)
      BY <2>1, <2>a, <1>a, <1>b, MoveType DEF Reserve
    <2>2. CASE HandlerReturns(c, w)
      BY <2>2, <2>a, <1>a, <1>b, MoveType DEF HandlerReturns
    <2>3. CASE HandlerRejects(c, w)
      BY <2>3, <2>a, <1>a, <1>b, MoveType DEF HandlerRejects
    <2>4. CASE HandlerRetries(c, w)
      BY <2>4, <2>a, <1>a, <1>b, <1>f, MoveType DEF HandlerRetries
    <2>5. CASE TimesOut(c, w)
      BY <2>5, <2>a, <1>a, <1>b, <1>f, MoveType, RaiseType DEF TimesOut
    <2>6. CASE Commit(c, w)
      BY <2>6, <2>a, <1>a, <1>b, MoveType, CommittedType DEF Commit
    <2>7. CASE CommitUncertain(c, w)
      BY <2>7, <2>a, <1>a, <1>f, RaiseType, CommittedType DEF CommitUncertain
    <2>8. CASE Ack(c, w)
      BY <2>8, <2>a, <2>b, <1>a, FinishType, TellFacts DEF Ack, At
    <2>9. CASE Retry(c, w)
      BY <2>9, <2>a, <1>a, FinishType DEF Retry
    <2>10. CASE SettlementLost(c, w)
      BY <2>10, <2>a, <1>a, <1>f, FinishType DEF SettlementLost
    <2>11. CASE Quarantine(c, w)
      <3>1. quarantine' \subseteq Messages
        BY <2>11, <2>a, <2>b DEF Quarantine, At
      <3>2. faults' \in 0..MaxFaults
        BY <2>11, <2>a, <1>f DEF Quarantine
      <3>3. Move(c, w, "terminating") \/ Move(c, w, "retrying")
        BY <2>11 DEF Quarantine
      <3> QED BY <2>11, <2>a, <1>a, <1>b, <3>1, <3>2, <3>3, MoveType DEF Quarantine
    <2>12. CASE Terminate(c, w)
      BY <2>12, <2>a, <2>b, <1>a, FinishType, TellFacts DEF Terminate, At
    <2>13. CASE Fails(c, w)
      BY <2>13, <2>a, <1>a, <1>f, RaiseType DEF Fails
    <2> QED BY <1>10, <2>1, <2>2, <2>3, <2>4, <2>5, <2>6, <2>7, <2>8, <2>9, <2>10, <2>11, <2>12, <2>13
            DEF Processing
  <1>11. ASSUME NEW c \in Consumers, NEW m \in Messages, PullOversized(c, m) PROVE TypeOK'
    <2>1. PICK w \in Workers : Raise(c, w)
      BY <1>11, <1>a, OversizedRaises
    <2>2. UNCHANGED <<inbox, decisions, quarantine, broker, faults>>
      BY <1>11, <1>a, OversizedRaises
    <2>3. /\ faults' \in 0..MaxFaults /\ inbox' \subseteq Messages /\ quarantine' \subseteq Messages
          /\ decisions' \in [Messages -> Nat]
          /\ broker' \in [Messages -> {"unsettled", "acked", "terminated"}]
      BY <1>a, <2>2 DEF TypeOK
    <2> QED BY <1>a, <2>1, <2>3, RaiseType
  <1>12. CASE UNCHANGED vars
    BY <1>12, <1>a DEF TypeOK, vars
  <1> QED BY <1>1, <1>2, <1>3, <1>4, <1>5, <1>6, <1>7, <1>8, <1>9, <1>10, <1>11, <1>12
          DEF Next, Deliver, Loop, Advance

----------------------------------------------------------------------------
\* Deliveries and the stores.

\* Nothing comes into the consumers' hands when slots, intakes and queues only keep
\* or drop what they hold.
LEMMA HandsKept ==
  ASSUME TypeOK,
         \A d \in Consumers, v \in Workers :
             slots'[d][v].message \in {slots[d][v].message, None},
         \A d \in Consumers : intake'[d].message \in {intake[d].message, None},
         \A d \in Consumers : queue'[d] = queue[d] \/ queue'[d] = << >>
  PROVE  \A m \in Messages : InHands(m)' => InHands(m)
  <1> SUFFICES ASSUME NEW m \in Messages, NEW d \in Consumers,
                      \/ \E v \in Workers : slots'[d][v].message = m
                      \/ intake'[d].message = m
                      \/ \E i \in DOMAIN queue'[d] : queue'[d][i] = m
               PROVE  InHands(m)
    BY DEF InHands, MessageOf
  <1>a. m # None
    BY ConsumerAssumption
  <1>1. CASE \E v \in Workers : slots'[d][v].message = m
    BY <1>1, <1>a DEF InHands, MessageOf
  <1>2. CASE intake'[d].message = m
    BY <1>2, <1>a DEF InHands
  <1>3. CASE \E i \in DOMAIN queue'[d] : queue'[d][i] = m
    <2>1. queue'[d] # << >>
      BY <1>3
    <2> QED BY <1>3, <2>1 DEF InHands
  <1> QED BY <1>1, <1>2, <1>3

\* Where one consumer's intake, queue or one of its slots takes a message over, that
\* message was in hand or is unsettled at the broker.
LEMMA HandsStep == IInv /\ [Next]_vars =>
    \A m \in Messages : InHands(m)' => InHands(m) \/ broker[m] = "unsettled"
  <1> DEFINE Kept == \A m \in Messages : InHands(m)' => InHands(m) \/ broker[m] = "unsettled"
  <1> SUFFICES ASSUME IInv, [Next]_vars PROVE Kept
    OBVIOUS
  <1>a. TypeOK /\ TypeOK' /\ SlotsCoherent
    BY TypeStep DEF IInv
  <1>b. None \notin Messages
    BY ConsumerAssumption
  <1>c. \A c \in Consumers, w \in Workers, stage \in Stages :
          /\ Slot(stage, MessageOf(c, w)) \in SlotType
          /\ Slot(stage, MessageOf(c, w)).message = slots[c][w].message
    BY <1>a, SlotFacts DEF Slot, MessageOf
  <1>d. Idle \in SlotType /\ Idle.message = None
    BY DEF Idle, SlotType, Stages
  <1>e. ASSUME NEW c \in Consumers, NEW w \in Workers, NEW stage \in Stages,
               Move(c, w, stage), UNCHANGED loop
        PROVE  Kept
    <2>1. \A d \in Consumers, v \in Workers :
            slots'[d][v].message \in {slots[d][v].message, None}
      BY <1>a, <1>c, <1>e, OneSlot DEF Move
    <2> QED BY <1>a, <1>e, <2>1, HandsKept DEF loop
  <1>f. ASSUME NEW c \in Consumers, NEW w \in Workers, Finish(c, w), UNCHANGED <<running, intake, queue>>
        PROVE  Kept
    <2>1. \A d \in Consumers, v \in Workers :
            slots'[d][v].message \in {slots[d][v].message, None}
      BY <1>a, <1>d, <1>f, OneSlot DEF Finish
    <2> QED BY <1>a, <1>f, <2>1, HandsKept
  <1>g. ASSUME NEW c \in Consumers, NEW w \in Workers, Raise(c, w)
        PROVE  Kept
    <2>1. \A d \in Consumers, v \in Workers :
            slots'[d][v].message \in {slots[d][v].message, None}
      BY <1>a, <1>d, <1>g, OneSlot, NoSlots DEF Raise, Abort
    <2>2. \A d \in Consumers : intake'[d].message \in {intake[d].message, None}
      BY <1>a, <1>g DEF Raise, Abort, loop, NoIntake, TypeOK
    <2>3. \A d \in Consumers : queue'[d] = queue[d] \/ queue'[d] = << >>
      BY <1>a, <1>g DEF Raise, Abort, loop, TypeOK
    <2> QED BY <1>a, <2>1, <2>2, <2>3, HandsKept
  <1>1. ASSUME NEW x \in Messages, NEW c \in Consumers, Pull(c, x) PROVE Kept
    <2>1. intake'[c] = Slot("putting", x) /\ \A d \in Consumers : d # c => intake'[d] = intake[d]
      BY <1>1, <1>a DEF Pull, Admits, TypeOK
    <2>2. intake'[c].message = x
      BY <2>1 DEF Slot
    <2> QED BY <1>1, <2>1, <2>2 DEF Pull, Admits, InHands, MessageOf
  <1>2. ASSUME NEW x \in Messages, NEW c \in Consumers, NEW w \in Workers, Process(c, w, x) PROVE Kept
    <2>1. Slot("reserving", x) \in SlotType /\ Slot("reserving", x).message = x
      BY DEF Slot, SlotType, Stages
    <2>2. slots'[c][w].message = x /\ \A d \in Consumers, v \in Workers :
            d # c \/ v # w => slots'[d][v] = slots[d][v]
      <3>1. slots' = [slots EXCEPT ![c][w] = Slot("reserving", x)]
        BY <1>2 DEF Process
      <3> HIDE DEF Slot
      <3> QED BY <1>a, <2>1, <3>1 DEF TypeOK
    <2> QED BY <1>2, <2>2 DEF Process, InHands, MessageOf, loop
  <1>3. ASSUME NEW x \in Messages, Purge(x) PROVE Kept
    BY <1>3, <1>a, HandsKept DEF Purge, loop
  <1>4. ASSUME NEW c \in Consumers, RunStarts(c) \/ SourceEnds(c) PROVE Kept
    <2>1. \A d \in Consumers : intake'[d].message \in {intake[d].message, None}
      <3>1. Slot("pulling", None).message = None /\ Ending(Cardinality(Workers)).message = None
        BY DEF Slot, Ending
      <3> QED BY <1>4, <1>a, <3>1 DEF RunStarts, SourceEnds, TypeOK
    <2>2. queue' = queue /\ slots' = slots
      BY <1>4 DEF RunStarts, SourceEnds
    <2> QED BY <1>a, <2>1, <2>2, HandsKept
  <1>5. ASSUME NEW c \in Consumers, PutDelivery(c) PROVE Kept
    <2> DEFINE x == intake[c].message
               q == Append(queue[c], x)
    <2>1. x \in Messages \cup {None}
      BY <1>a DEF TypeOK, Intakes
    <2>2. queue[c] \in Seq(Messages \cup {None})
      BY <1>a DEF TypeOK
    <2>3. \A i \in DOMAIN q : q[i] = x \/ (i \in DOMAIN queue[c] /\ q[i] = queue[c][i])
      <3> HIDE DEF x
      <3>1. Len(q) = Len(queue[c]) + 1 /\ q[Len(queue[c]) + 1] = x
            /\ \A i \in 1..Len(queue[c]) : q[i] = queue[c][i]
        BY <2>1, <2>2, AppendProperties
      <3>2. q \in Seq(Messages \cup {None})
        BY <2>1, <2>2, AppendProperties
      <3>3. DOMAIN q = 1..Len(q) /\ DOMAIN queue[c] = 1..Len(queue[c]) /\ Len(queue[c]) \in Nat
        BY <2>2, <3>2, LenProperties
      <3> HIDE DEF q
      <3> QED BY <3>1, <3>3
    <2>4. queue'[c] = q /\ \A d \in Consumers : d # c => queue'[d] = queue[d]
      BY <1>5, <1>a DEF PutDelivery, TypeOK
    <2>5. \A d \in Consumers : intake'[d].message \in {intake[d].message, None}
      BY <1>5, <1>a DEF PutDelivery, TypeOK, Slot
    <2> HIDE DEF q
    <2> QED BY <1>5, <1>b, <2>3, <2>4, <2>5 DEF PutDelivery, InHands, MessageOf
  <1>6. ASSUME NEW c \in Consumers, PutEnd(c) PROVE Kept
    <2> DEFINE q == Append(queue[c], None)
    <2>2. queue[c] \in Seq(Messages \cup {None})
      BY <1>a DEF TypeOK
    <2>3. \A i \in DOMAIN q : q[i] = None \/ (i \in DOMAIN queue[c] /\ q[i] = queue[c][i])
      <3>1. Len(q) = Len(queue[c]) + 1 /\ q[Len(queue[c]) + 1] = None
            /\ \A i \in 1..Len(queue[c]) : q[i] = queue[c][i]
        BY <2>2, AppendProperties
      <3>2. q \in Seq(Messages \cup {None})
        BY <2>2, AppendProperties
      <3>3. DOMAIN q = 1..Len(q) /\ DOMAIN queue[c] = 1..Len(queue[c]) /\ Len(queue[c]) \in Nat
        BY <2>2, <3>2, LenProperties
      <3> HIDE DEF q
      <3> QED BY <3>1, <3>3
    <2>4. queue'[c] = q /\ \A d \in Consumers : d # c => queue'[d] = queue[d]
      BY <1>6, <1>a DEF PutEnd, TypeOK
    <2>5. \A d \in Consumers : intake'[d].message \in {intake[d].message, None}
      BY <1>6, <1>a DEF PutEnd, TypeOK, Ending
    <2> HIDE DEF q
    <2> QED BY <1>6, <1>b, <2>3, <2>4, <2>5 DEF PutEnd, InHands, MessageOf
  <1>7. ASSUME NEW c \in Consumers, RunEnds(c) PROVE Kept
    <2>1. \A d \in Consumers, v \in Workers :
            slots'[d][v].message \in {slots[d][v].message, None}
      BY <1>a, <1>d, <1>7, NoSlots DEF RunEnds
    <2>2. \A d \in Consumers : intake'[d].message \in {intake[d].message, None}
      BY <1>a, <1>7 DEF RunEnds, NoIntake, TypeOK
    <2> QED BY <1>a, <1>7, <2>1, <2>2, HandsKept DEF RunEnds
  <1>8. ASSUME NEW c \in Consumers, NEW w \in Workers, Get(c, w) PROVE Kept
    <2> DEFINE q == Tail(queue[c])
               x == Head(queue[c])
    <2>1. queue[c] \in Seq(Messages \cup {None}) /\ queue[c] # << >>
      BY <1>8, <1>a DEF TypeOK, Get
    <2>2. x \in Messages \cup {None} /\ q \in Seq(Messages \cup {None})
          /\ Len(q) = Len(queue[c]) - 1 /\ \A i \in 1..Len(q) : q[i] = queue[c][i + 1]
      BY <2>1, HeadTailProperties
    <2>3. DOMAIN q = 1..Len(q) /\ DOMAIN queue[c] = 1..Len(queue[c]) /\ Len(queue[c]) \in Nat \ {0}
      BY <2>1, <2>2, LenProperties, EmptySeq
    <2>4. x = queue[c][1] /\ 1 \in DOMAIN queue[c]
      BY <2>1, <2>3
    <2>5. queue'[c] = q /\ \A d \in Consumers : d # c => queue'[d] = queue[d]
      BY <1>8, <1>a DEF Get, TypeOK
    <2>6. \E r \in SlotType : slots' = [slots EXCEPT ![c][w] = r] /\ r.message \in {x, None}
      <3>1. \A stage \in {"done", "reserving", "retrying"}, y \in Messages \cup {None} :
              Slot(stage, y) \in SlotType /\ Slot(stage, y).message = y
        BY DEF Slot, SlotType, Stages
      <3> HIDE DEF x
      <3> QED BY <1>8, <2>2, <3>1 DEF Get, x
    <2>7. slots'[c][w].message \in {x, None} /\ \A d \in Consumers, v \in Workers :
            d # c \/ v # w => slots'[d][v] = slots[d][v]
      <3> PICK r \in SlotType : slots' = [slots EXCEPT ![c][w] = r] /\ r.message \in {x, None}
        BY <2>6
      <3> HIDE DEF x
      <3> QED BY <1>a, OneSlot
    <2>8. \A i \in DOMAIN q : i + 1 \in DOMAIN queue[c] /\ q[i] = queue[c][i + 1]
      BY <2>2, <2>3
    <2> HIDE DEF q, x
    <2>9. ASSUME NEW m \in Messages, InHands(m)' PROVE InHands(m)
      <3>1. PICK d \in Consumers : \/ \E v \in Workers : slots'[d][v].message = m
                                  \/ intake'[d].message = m
                                  \/ \E i \in DOMAIN queue'[d] : queue'[d][i] = m
        BY <2>9 DEF InHands, MessageOf
      <3>2. CASE \E v \in Workers : slots'[d][v].message = m
        BY <3>2, <1>b, <2>4, <2>7 DEF InHands, MessageOf
      <3>3. CASE intake'[d].message = m
        BY <3>3, <1>8 DEF InHands, Get
      <3>4. CASE \E i \in DOMAIN queue'[d] : queue'[d][i] = m
        BY <3>4, <2>5, <2>8 DEF InHands
      <3> QED BY <3>1, <3>2, <3>3, <3>4
    <2> QED BY <2>9
  <1>9. ASSUME NEW c \in Consumers, NEW w \in Workers, Processing(c, w) PROVE Kept
    <2> HIDE DEF Kept
    <2>1. CASE \/ Reserve(c, w) \/ HandlerReturns(c, w) \/ HandlerRejects(c, w) \/ HandlerRetries(c, w)
               \/ Commit(c, w) \/ Quarantine(c, w)
      <3>1. UNCHANGED loop /\ \E stage \in Stages : Move(c, w, stage)
        BY <2>1 DEF Reserve, HandlerReturns, HandlerRejects, HandlerRetries, Commit, Quarantine, Stages
      <3> QED BY <1>e, <3>1
    <2>2. CASE TimesOut(c, w)
      <3>1. (UNCHANGED loop /\ \E stage \in Stages : Move(c, w, stage)) \/ Raise(c, w)
        BY <2>2 DEF TimesOut, Stages
      <3> QED BY <1>e, <1>g, <3>1
    <2>3. CASE CommitUncertain(c, w) \/ Fails(c, w)
      BY <2>3, <1>g DEF CommitUncertain, Fails
    <2>4. CASE Ack(c, w) \/ Retry(c, w) \/ SettlementLost(c, w) \/ Terminate(c, w)
      BY <2>4, <1>f DEF Ack, Retry, SettlementLost, Terminate
    <2> QED BY <1>9, <2>1, <2>2, <2>3, <2>4 DEF Processing
  <1>10. ASSUME NEW c \in Consumers, NEW x \in Messages, PullOversized(c, x) PROVE Kept
    <2> HIDE DEF Kept
    <2> QED BY <1>10, <1>g, OversizedRaises DEF IInv
  <1>11. CASE UNCHANGED vars
    BY <1>11, <1>a, HandsKept DEF vars
  <1> HIDE DEF Kept
  <1> QED BY <1>1, <1>2, <1>3, <1>4, <1>5, <1>6, <1>7, <1>8, <1>9, <1>10, <1>11
          DEF Next, Deliver, Loop, Advance

\* The stores stay and the broker forgets nothing it was told: decisions stay recorded.
LEMMA RecordsStay ==
  ASSUME IInv, inbox' = inbox, decisions' = decisions,
         \A m \in Messages : broker[m] # "unsettled" => broker'[m] # "unsettled",
         \A m \in Messages : InHands(m)' => InHands(m) \/ broker[m] = "unsettled"
  PROVE  DecisionsRecorded'
  <1> SUFFICES ASSUME NEW m \in Messages
               PROVE  /\ decisions[m] \in {0, 1}
                      /\ m \in inbox => decisions[m] = 1
                      /\ decisions[m] = 1 =>
                           m \in inbox \/ (broker'[m] # "unsettled" /\ ~InHands(m)')
    BY DEF DecisionsRecorded
  <1> QED BY DEF IInv, DecisionsRecorded

\* Deliveries are only dropped: nothing a stage says changes.
LEMMA SlotsDropped ==
  ASSUME IInv, TypeOK', inbox' = inbox, decisions' = decisions, quarantine \subseteq quarantine',
         \A d \in Consumers, v \in Workers : slots'[d][v] \in {slots[d][v], Idle}
  PROVE  SlotsCoherent' /\ RowsExclusive'
  <1>1. Idle.stage = "idle" /\ Idle.message = None
    BY DEF Idle
  <1>2. SlotsCoherent'
    <2> SUFFICES ASSUME NEW d \in Consumers, NEW v \in Workers
                 PROVE  LET s == slots'[d][v] IN
                        /\ s.stage \in {"idle", "done"} <=> s.message = None
                        /\ s.stage \in {"handling", "committing"} => s.message \notin inbox
                        /\ s.stage = "confirming" => s.message \in inbox
                        /\ s.stage = "acking" => decisions[s.message] = 1
                        /\ s.stage = "terminating" => s.message \in quarantine'
      BY DEF SlotsCoherent, At, MessageOf
    <2>1. CASE slots'[d][v] = Idle
      BY <1>1, <2>1
    <2>2. CASE slots'[d][v] = slots[d][v]
      BY <2>2 DEF IInv, SlotsCoherent, At, MessageOf
    <2> QED BY <2>1, <2>2
  <1>3. RowsExclusive'
    <2>1. \A d \in Consumers, v \in Workers :
            slots'[d][v].stage \in Locked => slots'[d][v] = slots[d][v]
      BY <1>1 DEF Locked
    <2> QED BY <2>1 DEF IInv, RowsExclusive, MessageOf, Locked
  <1> QED BY <1>2, <1>3

\* One delivery changes its stage, and its new stage says the truth.
LEMMA SlotMoves ==
  ASSUME IInv, TypeOK', inbox' = inbox, decisions' = decisions, quarantine \subseteq quarantine',
         NEW c \in Consumers, NEW w \in Workers,
         \A d \in Consumers, v \in Workers : d # c \/ v # w => slots'[d][v] = slots[d][v],
         LET s == slots'[c][w] IN
         /\ s.stage \in {"idle", "done"} <=> s.message = None
         /\ s.stage \in {"handling", "committing"} => s.message \notin inbox
         /\ s.stage = "confirming" => s.message \in inbox
         /\ s.stage = "acking" => decisions[s.message] = 1
         /\ s.stage = "terminating" => s.message \in quarantine'
         /\ s.stage \in Locked => \A d \in Consumers, v \in Workers :
              (d # c \/ v # w) /\ slots[d][v].message = s.message => slots[d][v].stage \notin Locked
  PROVE  SlotsCoherent' /\ RowsExclusive'
  <1>1. SlotsCoherent'
    <2> SUFFICES ASSUME NEW d \in Consumers, NEW v \in Workers
                 PROVE  LET s == slots'[d][v] IN
                        /\ s.stage \in {"idle", "done"} <=> s.message = None
                        /\ s.stage \in {"handling", "committing"} => s.message \notin inbox
                        /\ s.stage = "confirming" => s.message \in inbox
                        /\ s.stage = "acking" => decisions[s.message] = 1
                        /\ s.stage = "terminating" => s.message \in quarantine'
      BY DEF SlotsCoherent, At, MessageOf
    <2>1. CASE d = c /\ v = w
      BY <2>1
    <2>2. CASE d # c \/ v # w
      BY <2>2 DEF IInv, SlotsCoherent, At, MessageOf
    <2> QED BY <2>1, <2>2
  <1>2. RowsExclusive'
    <2> SUFFICES ASSUME NEW d \in Consumers, NEW e \in Consumers, NEW v \in Workers, NEW u \in Workers,
                        slots'[d][v].message = slots'[e][u].message,
                        slots'[d][v].stage \in Locked, slots'[e][u].stage \in Locked
                 PROVE  d = e /\ v = u
      BY DEF RowsExclusive, MessageOf, Locked
    <2>1. CASE d = c /\ v = w
      <3>1. ~(e # c \/ u # w)
        BY <2>1
      <3> QED BY <2>1, <3>1
    <2>2. CASE e = c /\ u = w
      <3>1. ~(d # c \/ v # w)
        BY <2>2
      <3> QED BY <2>2, <3>1
    <2>3. CASE (d # c \/ v # w) /\ (e # c \/ u # w)
      BY <2>3 DEF IInv, RowsExclusive, MessageOf, Locked
    <2> QED BY <2>1, <2>2, <2>3
  <1> QED BY <1>1, <1>2

\* The entry and the decision of a committing delivery come together: it was the only
\* transaction on its message, and no decision was recorded before.
LEMMA CommitRecords ==
  ASSUME IInv, TypeOK', NEW c \in Consumers, NEW w \in Workers,
         At(c, w, "committing"), Committed(c, w), quarantine' = quarantine, broker' = broker,
         \A m \in Messages : InHands(m)' => InHands(m) \/ broker[m] = "unsettled",
         \A d \in Consumers, v \in Workers :
             d # c \/ v # w => slots'[d][v] \in {slots[d][v], Idle},
         slots'[c][w] \in {Slot("acking", MessageOf(c, w)), Idle}
  PROVE  /\ SlotsCoherent' /\ RowsExclusive' /\ DecisionsRecorded'
         /\ MessageOf(c, w) \in Messages /\ decisions[MessageOf(c, w)] = 0
         /\ decisions' = [decisions EXCEPT ![MessageOf(c, w)] = 1]
  <1> DEFINE m == MessageOf(c, w)
  <1>1. m \in Messages /\ m # None /\ m \notin inbox
    BY SlotFacts, ConsumerAssumption DEF IInv, SlotsCoherent, At
  <1>2. InHands(m)
    BY DEF InHands
  <1>3. decisions[m] = 0
    BY <1>1, <1>2 DEF IInv, DecisionsRecorded
  <1>4. inbox' = inbox \cup {m} /\ decisions' = [decisions EXCEPT ![m] = 1]
    BY <1>1, <1>3 DEF Committed, IInv, TypeOK
  <1>5. decisions'[m] = 1 /\ \A x \in Messages : x # m => decisions'[x] = decisions[x]
    BY <1>1, <1>4 DEF IInv, TypeOK
  <1>6. \A d \in Consumers, v \in Workers :
          (d # c \/ v # w) /\ MessageOf(d, v) = m => slots[d][v].stage \notin Locked
    BY DEF IInv, RowsExclusive, At, Locked
  <1>7. /\ Idle.stage = "idle" /\ Idle.message = None
        /\ Slot("acking", m).stage = "acking" /\ Slot("acking", m).message = m
    BY DEF Idle, Slot
  <1> HIDE DEF m
  <1>8. SlotsCoherent'
    <2> SUFFICES ASSUME NEW d \in Consumers, NEW v \in Workers
                 PROVE  LET s == slots'[d][v] IN
                        /\ s.stage \in {"idle", "done"} <=> s.message = None
                        /\ s.stage \in {"handling", "committing"} => s.message \notin inbox'
                        /\ s.stage = "confirming" => s.message \in inbox'
                        /\ s.stage = "acking" => decisions'[s.message] = 1
                        /\ s.stage = "terminating" => s.message \in quarantine'
      BY DEF SlotsCoherent, At, MessageOf
    <2>1. CASE slots'[d][v] = Idle
      BY <2>1, <1>7
    <2>2. CASE slots'[d][v] = Slot("acking", m)
      BY <2>2, <1>1, <1>5, <1>7
    <2>3. CASE slots'[d][v] = slots[d][v] /\ (d # c \/ v # w)
      <3>1. slots[d][v].stage \in Locked => slots[d][v].message # m
        BY <2>3, <1>6 DEF MessageOf
      <3>2. slots[d][v].stage \in {"handling", "committing"} => slots[d][v].message \notin inbox'
        BY <1>4, <3>1 DEF IInv, SlotsCoherent, MessageOf, Locked
      <3>3. slots[d][v].stage = "acking" => decisions'[slots[d][v].message] = 1
        <4>1. slots[d][v].message \in Messages \cup {None}
          BY SlotFacts DEF MessageOf, IInv
        <4>2. slots[d][v].stage = "acking" => slots[d][v].message # None
          BY DEF IInv, SlotsCoherent, MessageOf
        <4> QED BY <1>5, <4>1, <4>2 DEF IInv, SlotsCoherent, MessageOf, At
      <3> QED BY <2>3, <1>4, <3>2, <3>3 DEF IInv, SlotsCoherent, MessageOf, At
    <2> QED BY <2>1, <2>2, <2>3 DEF m
  <1>9. RowsExclusive'
    <2>1. \A d \in Consumers, v \in Workers :
            slots'[d][v].stage \in Locked => slots'[d][v] = slots[d][v]
      BY <1>7 DEF Locked, m
    <2> QED BY <2>1 DEF IInv, RowsExclusive, MessageOf, Locked
  <1>10. DecisionsRecorded'
    <2> SUFFICES ASSUME NEW x \in Messages
                 PROVE  /\ decisions'[x] \in {0, 1}
                        /\ x \in inbox' => decisions'[x] = 1
                        /\ decisions'[x] = 1 => x \in inbox' \/ (broker[x] # "unsettled" /\ ~InHands(x)')
      BY DEF DecisionsRecorded
    <2>1. CASE x = m
      BY <2>1, <1>4, <1>5
    <2>2. CASE x # m
      BY <2>2, <1>4, <1>5 DEF IInv, DecisionsRecorded
    <2> QED BY <2>1, <2>2
  <1> QED BY <1>1, <1>3, <1>4, <1>8, <1>9, <1>10 DEF m

\* Every step keeps the stages true, the rows exclusive and the decisions recorded.
LEMMA StoresStep == IInv /\ [Next]_vars => SlotsCoherent' /\ RowsExclusive' /\ DecisionsRecorded'
  <1> DEFINE Goal == SlotsCoherent' /\ RowsExclusive' /\ DecisionsRecorded'
  <1> SUFFICES ASSUME IInv, [Next]_vars PROVE Goal
    OBVIOUS
  <1>a. TypeOK /\ TypeOK' /\ SlotsCoherent /\ RowsExclusive /\ LoopCoherent
    BY TypeStep DEF IInv
  <1>b. \A m \in Messages : InHands(m)' => InHands(m) \/ broker[m] = "unsettled"
    BY HandsStep
  <1>c. \A stage \in Stages, m \in Messages \cup {None} :
          Slot(stage, m) \in SlotType /\ Slot(stage, m).stage = stage /\ Slot(stage, m).message = m
    BY DEF Slot, SlotType
  <1>d. Idle \in SlotType
    BY DEF Idle, SlotType, Stages
  <1>e. Stages = {"idle", "done", "reserving", "handling", "committing", "confirming",
                  "acking", "retrying", "quarantining", "terminating"}
    BY DEF Stages
  <1>f. ASSUME inbox' = inbox, decisions' = decisions, quarantine' = quarantine, broker' = broker,
               \A d \in Consumers, v \in Workers : slots'[d][v] \in {slots[d][v], Idle}
        PROVE  Goal
    BY <1>a, <1>b, <1>f, SlotsDropped, RecordsStay
  <1>g. ASSUME NEW c \in Consumers, NEW w \in Workers, Finish(c, w),
               inbox' = inbox, decisions' = decisions, quarantine' = quarantine,
               \A m \in Messages : broker[m] # "unsettled" => broker'[m] # "unsettled"
        PROVE  Goal
    <2>1. \A d \in Consumers, v \in Workers : slots'[d][v] \in {slots[d][v], Idle}
      BY <1>a, <1>d, <1>g, OneSlot DEF Finish
    <2> QED BY <1>a, <1>b, <1>g, <2>1, SlotsDropped, RecordsStay
  <1>h. ASSUME NEW c \in Consumers, NEW w \in Workers, Raise(c, w)
        PROVE  \A d \in Consumers, v \in Workers : slots'[d][v] \in {slots[d][v], Idle}
    BY <1>a, <1>d, <1>h, OneSlot, NoSlots DEF Raise, Abort
  <1>i. ASSUME NEW c \in Consumers, NEW w \in Workers, NEW stage \in Stages, Move(c, w, stage)
        PROVE  /\ slots'[c][w].stage = stage /\ slots'[c][w].message = MessageOf(c, w)
               /\ \A d \in Consumers, v \in Workers : d # c \/ v # w => slots'[d][v] = slots[d][v]
    <2>1. slots'[c][w] = Slot(stage, MessageOf(c, w))
          /\ \A d \in Consumers, v \in Workers : d # c \/ v # w => slots'[d][v] = slots[d][v]
      BY <1>a, <1>i DEF Move, TypeOK
    <2>2. \A x : Slot(stage, x).stage = stage /\ Slot(stage, x).message = x
      BY DEF Slot
    <2> QED BY <2>1, <2>2
  <1>j. \A c \in Consumers, w \in Workers :
          slots[c][w].stage \notin {"idle", "done"} => MessageOf(c, w) \in Messages /\ MessageOf(c, w) # None
    BY <1>a, SlotFacts DEF SlotsCoherent
  <1>1. ASSUME NEW m \in Messages, NEW c \in Consumers, Pull(c, m) PROVE Goal
    BY <1>1, <1>f DEF Pull, Admits
  <1>2. ASSUME NEW m \in Messages, NEW c \in Consumers, NEW w \in Workers, Process(c, w, m) PROVE Goal
    <2>1. /\ slots'[c][w].stage = "reserving" /\ slots'[c][w].message = m
          /\ \A d \in Consumers, v \in Workers : d # c \/ v # w => slots'[d][v] = slots[d][v]
      BY <1>2, <1>a, <1>e, SlotTo DEF Process
    <2>2. m # None
      BY ConsumerAssumption
    <2>3. SlotsCoherent' /\ RowsExclusive'
      BY <1>2, <1>a, <2>1, <2>2, SlotMoves DEF Process, Locked
    <2> QED BY <1>2, <1>b, <2>3, RecordsStay DEF Process
  <1>3. ASSUME NEW m \in Messages, Purge(m) PROVE Goal
    <2>1. ~InHands(m) /\ m \in inbox /\ broker[m] # "unsettled" /\ inbox' = inbox \ {m}
      BY <1>3 DEF Purge, InHands
    <2>2. UNCHANGED <<decisions, quarantine, broker, slots, loop>>
      BY <1>3 DEF Purge
    <2>3. \A c \in Consumers, w \in Workers : MessageOf(c, w) # m
      BY <1>3 DEF Purge
    <2>4. SlotsCoherent'
      BY <1>a, <2>1, <2>2, <2>3 DEF SlotsCoherent, At, MessageOf
    <2>5. RowsExclusive'
      BY <1>a, <2>2 DEF RowsExclusive, MessageOf
    <2>6. DecisionsRecorded'
      <3>1. \A x \in Messages : InHands(x)' <=> InHands(x)
        BY <2>2 DEF InHands, MessageOf, loop
      <3> QED BY <2>1, <2>2, <3>1 DEF IInv, DecisionsRecorded
    <2> QED BY <2>4, <2>5, <2>6
  <1>4. ASSUME NEW c \in Consumers,
               RunStarts(c) \/ SourceEnds(c) \/ PutDelivery(c) \/ PutEnd(c)
        PROVE Goal
    BY <1>4, <1>f DEF RunStarts, SourceEnds, PutDelivery, PutEnd
  <1>5. ASSUME NEW c \in Consumers, RunEnds(c) PROVE Goal
    <2>1. \A d \in Consumers, v \in Workers : slots'[d][v] \in {slots[d][v], Idle}
      BY <1>a, <1>5, NoSlots DEF RunEnds
    <2> QED BY <1>5, <1>f, <2>1 DEF RunEnds
  <1>6. ASSUME NEW c \in Consumers, NEW w \in Workers, Get(c, w) PROVE Goal
    <2>1. Head(queue[c]) \in Messages \cup {None}
      BY <1>a, <1>6, HeadTailProperties DEF TypeOK, Get
    <2>2. PICK stage \in {"done", "reserving", "retrying"} :
            /\ slots' = [slots EXCEPT ![c][w] = Slot(stage, Head(queue[c]))]
            /\ stage = "done" <=> Head(queue[c]) = None
      BY <1>6 DEF Get
    <2>3. /\ slots'[c][w].stage = stage /\ slots'[c][w].message = Head(queue[c])
          /\ \A d \in Consumers, v \in Workers : d # c \/ v # w => slots'[d][v] = slots[d][v]
      <3>1. slots'[c][w] = Slot(stage, Head(queue[c]))
            /\ \A d \in Consumers, v \in Workers : d # c \/ v # w => slots'[d][v] = slots[d][v]
        BY <1>a, <2>2 DEF TypeOK
      <3>2. \A x : Slot(stage, x).stage = stage /\ Slot(stage, x).message = x
        BY DEF Slot
      <3> QED BY <3>1, <3>2
    <2>4. SlotsCoherent' /\ RowsExclusive'
      BY <1>6, <1>a, <2>2, <2>3, SlotMoves DEF Get, Locked
    <2> QED BY <1>6, <1>b, <2>4, RecordsStay DEF Get
  <1>7. ASSUME NEW c \in Consumers, NEW w \in Workers, Processing(c, w) PROVE Goal
    <2> DEFINE m == MessageOf(c, w)
    <2>0. ASSUME NEW stage \in {"retrying", "quarantining"}, Move(c, w, stage), w \in Busy(c),
                 inbox' = inbox, decisions' = decisions, quarantine' = quarantine, broker' = broker
          PROVE  Goal
      <3>1. SlotsCoherent' /\ RowsExclusive'
        BY <1>a, <1>e, <1>i, <1>j, <2>0, SlotMoves DEF Locked, Busy
      <3> QED BY <1>b, <2>0, <3>1, RecordsStay
    <2>1. CASE Reserve(c, w)
      <3>1. m # None
        BY <1>j, <2>1 DEF Reserve, At
      <3>2. \A d \in Consumers, v \in Workers :
              slots[d][v].message = m => slots[d][v].stage \notin Locked
        BY <2>1 DEF Reserve, RowLocked, Locked, MessageOf
      <3>3. PICK stage \in {"confirming", "retrying", "handling"} :
              /\ Move(c, w, stage) /\ stage = "confirming" => m \in inbox
              /\ stage = "handling" => m \notin inbox
        BY <2>1 DEF Reserve
      <3>4. SlotsCoherent' /\ RowsExclusive'
        BY <1>a, <1>e, <1>i, <2>1, <3>1, <3>2, <3>3, SlotMoves DEF Reserve
      <3> QED BY <1>b, <2>1, <3>4, RecordsStay DEF Reserve
    <2>2. CASE HandlerReturns(c, w)
      <3>1. m # None /\ m \notin inbox
        BY <1>a, <1>j, <2>2 DEF HandlerReturns, At, SlotsCoherent
      <3>2. \A d \in Consumers, v \in Workers :
              (d # c \/ v # w) /\ slots[d][v].message = m => slots[d][v].stage \notin Locked
        BY <1>a, <2>2 DEF HandlerReturns, RowsExclusive, Locked, MessageOf, At
      <3>3. SlotsCoherent' /\ RowsExclusive'
        BY <1>a, <1>e, <1>i, <2>2, <3>1, <3>2, SlotMoves DEF HandlerReturns
      <3> QED BY <1>b, <2>2, <3>3, RecordsStay DEF HandlerReturns
    <2>3. CASE HandlerRejects(c, w) \/ HandlerRetries(c, w)
      BY <2>0, <2>3 DEF HandlerRejects, HandlerRetries, At, Busy
    <2>4. CASE TimesOut(c, w)
      <3>1. CASE Raise(c, w)
        BY <1>f, <1>h, <2>4, <3>1 DEF TimesOut
      <3>2. CASE Move(c, w, "retrying")
        BY <2>0, <2>4, <3>2 DEF TimesOut, Busy
      <3> QED BY <2>4, <3>1, <3>2 DEF TimesOut
    <2>5. CASE Commit(c, w)
      <3>1. slots'[c][w] = Slot("acking", m)
            /\ \A d \in Consumers, v \in Workers : d # c \/ v # w => slots'[d][v] = slots[d][v]
        <4>1. Slot("acking", m) \in SlotType
          BY <1>a, <1>e, SlotFacts
        <4> QED BY <1>a, <2>5, <4>1, OneSlot DEF Commit, Move
      <3>2. CASE At(c, w, "committing")
        BY <1>a, <1>b, <2>5, <3>1, <3>2, CommitRecords DEF Commit
      <3>3. CASE At(c, w, "confirming")
        <4>1. inbox' = inbox /\ decisions' = decisions /\ quarantine' = quarantine /\ broker' = broker
          BY <2>5, <3>3 DEF Commit, Committed, At
        <4>2. m \in inbox /\ m # None /\ m \in Messages
          BY <1>a, <1>j, <3>3 DEF SlotsCoherent, At
        <4>3. decisions[m] = 1
          BY <4>2 DEF IInv, DecisionsRecorded
        <4>4. slots'[c][w].stage = "acking" /\ slots'[c][w].message = m
          BY <1>c, <1>e, <3>1, <4>2
        <4> HIDE DEF m
        <4>5. SlotsCoherent' /\ RowsExclusive'
          BY <1>a, <3>1, <4>1, <4>2, <4>3, <4>4, SlotMoves DEF Locked
        <4> QED BY <1>b, <4>1, <4>5, RecordsStay
      <3> QED BY <2>5, <3>2, <3>3 DEF Commit, At
    <2>6. CASE CommitUncertain(c, w)
      <3>1. \A d \in Consumers, v \in Workers : slots'[d][v] \in {slots[d][v], Idle}
        BY <1>h, <2>6 DEF CommitUncertain
      <3>2. CASE UNCHANGED <<inbox, decisions>>
        BY <1>f, <2>6, <3>1, <3>2 DEF CommitUncertain
      <3>3. CASE Committed(c, w) /\ At(c, w, "committing")
        <4>1. slots'[c][w] = Idle
          <5>1. CASE slots' = [slots EXCEPT ![c][w] = Idle]
            BY <1>a, <1>d, <5>1, OneSlot
          <5>2. CASE slots' = [slots EXCEPT ![c] = [v \in Workers |-> Idle]]
            BY <1>a, <5>2, NoSlots
          <5> QED BY <2>6, <5>1, <5>2 DEF CommitUncertain, Raise, Abort
        <4> QED BY <1>a, <1>b, <2>6, <3>1, <3>3, <4>1, CommitRecords DEF CommitUncertain
      <3> QED BY <2>6, <3>2, <3>3 DEF CommitUncertain, Committed
    <2>7. CASE Ack(c, w)
      <3>1. m \in Messages
        BY <1>j, <2>7 DEF Ack, At
      <3>2. \A x \in Messages : broker[x] # "unsettled" => broker'[x] # "unsettled"
        BY <1>a, <2>7, <3>1, TellFacts DEF Ack
      <3> QED BY <1>g, <2>7, <3>2 DEF Ack
    <2>8. CASE Retry(c, w) \/ SettlementLost(c, w)
      BY <1>g, <2>8 DEF Retry, SettlementLost
    <2>9. CASE Quarantine(c, w)
      <3>1. CASE Move(c, w, "retrying") /\ UNCHANGED quarantine
        BY <2>0, <2>9, <3>1 DEF Quarantine, At, Busy
      <3>2. CASE Move(c, w, "terminating") /\ quarantine' = quarantine \cup {m}
        <4>1. m # None
          BY <1>j, <2>9 DEF Quarantine, At
        <4>2. SlotsCoherent' /\ RowsExclusive'
          BY <1>a, <1>e, <1>i, <2>9, <3>2, <4>1, SlotMoves DEF Quarantine, Locked
        <4> QED BY <1>b, <2>9, <4>2, RecordsStay DEF Quarantine
      <3> QED BY <2>9, <3>1, <3>2 DEF Quarantine
    <2>10. CASE Terminate(c, w)
      <3>1. m \in Messages
        BY <1>j, <2>10 DEF Terminate, At
      <3>2. \A x \in Messages : broker[x] # "unsettled" => broker'[x] # "unsettled"
        BY <1>a, <2>10, <3>1, TellFacts DEF Terminate
      <3> QED BY <1>g, <2>10, <3>2 DEF Terminate
    <2>11. CASE Fails(c, w)
      BY <1>f, <1>h, <2>11 DEF Fails
    <2> HIDE DEF Goal
    <2> QED BY <1>7, <2>1, <2>2, <2>3, <2>4, <2>5, <2>6, <2>7, <2>8, <2>9, <2>10, <2>11 DEF Processing
  <1>8. ASSUME NEW c \in Consumers, NEW m \in Messages, PullOversized(c, m) PROVE Goal
    <2> HIDE DEF Goal
    <2>1. PICK w \in Workers : Raise(c, w)
      BY <1>8, OversizedRaises DEF IInv
    <2>2. UNCHANGED <<inbox, decisions, quarantine, broker, faults>>
      BY <1>8, OversizedRaises DEF IInv
    <2>3. \A d \in Consumers, v \in Workers : slots'[d][v] \in {slots[d][v], Idle}
      BY <1>h, <2>1
    <2> QED BY <1>f, <2>2, <2>3
  <1>9. CASE UNCHANGED vars
    BY <1>f, <1>9 DEF vars
  <1> HIDE DEF Goal
  <1> QED BY <1>1, <1>2, <1>3, <1>4, <1>5, <1>6, <1>7, <1>8, <1>9 DEF Next, Deliver, Loop, Advance

----------------------------------------------------------------------------
\* The intake loop, one consumer at a time.

Done(c) == {w \in Workers : At(c, w, "done")}
Marks(c) == {i \in DOMAIN queue[c] : queue[c][i] = None}
Queued(c) == {i \in DOMAIN queue[c] : queue[c][i] # None}
Putting(c) == IF intake[c].stage = "putting" THEN 1 ELSE 0

\* What LoopCoherent says of the control state of one consumer,
ControlOf(c) ==
    /\ intake[c].stage = "stopped" <=> ~running[c]
    /\ intake[c].stage = "putting" <=> intake[c].message # None
    /\ ~running[c] => queue[c] = << >> /\ Done(c) = {}

\* of its queue,
QueueOf(c) ==
    /\ Len(queue[c]) <= QueueCapacity
    /\ \A i, j \in DOMAIN queue[c] : i < j /\ queue[c][i] = None => queue[c][j] = None
    /\ Done(c) # {} => Queued(c) = {}

\* of its end marks; and what AdmissionExact says of it.
MarksOf(c) ==
    running[c] => MarksToPut(c) + Cardinality(Marks(c)) + Cardinality(Done(c)) = Cardinality(Workers)

AdmissionOf(c) ==
    LET retained == Putting(c) + Cardinality(Queued(c)) + Cardinality(Busy(c)) IN
    IF running[c] THEN retained + permits[c] = Admitted ELSE retained <= Admitted

LoopOf(c) == ControlOf(c) /\ QueueOf(c) /\ MarksOf(c) /\ AdmissionOf(c)

LEMMA LoopByConsumer ==
    LoopCoherent /\ AdmissionExact <=> \A c \in Consumers : LoopOf(c)
  <1>1. ASSUME NEW c \in Consumers
        PROVE  /\ (\A w \in Workers : ~At(c, w, "done")) <=> Done(c) = {}
               /\ (\A w \in Workers, i \in DOMAIN queue[c] : At(c, w, "done") => queue[c][i] = None)
                    <=> (Done(c) # {} => Queued(c) = {})
    BY DEF Done, Queued
  <1>2. \A c \in Consumers :
          /\ Marks(c) = {i \in DOMAIN queue[c] : queue[c][i] = None}
          /\ Done(c) = {w \in Workers : At(c, w, "done")}
          /\ Retained(c) = Putting(c) + Cardinality(Queued(c)) + Cardinality(Busy(c))
    BY DEF Marks, Done, Retained, Putting, Queued
  <1>3. LoopCoherent <=> \A c \in Consumers : ControlOf(c) /\ QueueOf(c) /\ MarksOf(c)
    BY <1>1, <1>2 DEF LoopCoherent, ControlOf, QueueOf, MarksOf
  <1>4. AdmissionExact <=> \A c \in Consumers : AdmissionOf(c)
    BY <1>2 DEF AdmissionExact, AdmissionOf
  <1> QED BY <1>3, <1>4 DEF LoopOf

\* The counted sets are finite.
LEMMA LoopFinite ==
  ASSUME TypeOK, NEW c \in Consumers
  PROVE  /\ IsFiniteSet(Done(c)) /\ IsFiniteSet(Busy(c))
         /\ Cardinality(Done(c)) \in Nat /\ Cardinality(Busy(c)) \in Nat
         /\ IsFiniteSet(Marks(c)) /\ IsFiniteSet(Queued(c))
         /\ Cardinality(Marks(c)) \in Nat /\ Cardinality(Queued(c)) \in Nat
         /\ Cardinality(Workers) \in Nat /\ Putting(c) \in Nat /\ MarksToPut(c) \in Nat
  <1>1. Done(c) \in SUBSET Workers /\ Busy(c) \in SUBSET Workers
    BY DEF Done, Busy
  <1>2. IsFiniteSet(Done(c)) /\ IsFiniteSet(Busy(c)) /\ IsFiniteSet(Workers)
    BY <1>1, ConsumerAssumption, FS_Subset
  <1>3. Len(queue[c]) \in Nat /\ DOMAIN queue[c] = 1..Len(queue[c])
    BY LenProperties DEF TypeOK
  <1>4. IsFiniteSet(1..Len(queue[c]))
    BY <1>3, FS_Interval
  <1>5. Marks(c) \in SUBSET (1..Len(queue[c])) /\ Queued(c) \in SUBSET (1..Len(queue[c]))
    BY <1>3 DEF Marks, Queued
  <1>6. IsFiniteSet(Marks(c)) /\ IsFiniteSet(Queued(c))
    BY <1>4, <1>5, FS_Subset
  <1>7. Cardinality(Workers) \in Nat
    BY <1>2, FS_CardinalityType
  <1>8. intake[c].stage = "ending" => intake[c].marks \in 0..Cardinality(Workers)
    BY DEF TypeOK, Intakes
  <1>9. MarksToPut(c) \in Nat /\ Putting(c) \in Nat
    BY <1>7, <1>8 DEF MarksToPut, Putting
  <1> QED BY <1>2, <1>6, <1>7, <1>9, FS_CardinalityType

\* Another consumer's step.
LEMMA OtherLoop ==
  ASSUME NEW d \in Consumers, LoopOf(d), running'[d] = running[d], intake'[d] = intake[d],
         queue'[d] = queue[d], permits'[d] = permits[d],
         \A v \in Workers : slots'[d][v] = slots[d][v]
  PROVE  LoopOf(d)'
  <1>1. Done(d)' = Done(d)
    BY DEF Done, At
  <1>2. Busy(d)' = Busy(d)
    BY DEF Busy
  <1>3. Marks(d)' = Marks(d) /\ Queued(d)' = Queued(d) /\ Putting(d)' = Putting(d)
        /\ MarksToPut(d)' = MarksToPut(d)
    BY DEF Marks, Queued, Putting, MarksToPut
  <1> QED BY <1>1, <1>2, <1>3 DEF LoopOf, ControlOf, QueueOf, MarksOf, AdmissionOf

\* A slot changes its stage.
LEMMA SlotCounts ==
  ASSUME TypeOK, NEW c \in Consumers, NEW w \in Workers,
         \A v \in Workers : v # w => slots'[c][v] = slots[c][v]
  PROVE  LET stage == slots'[c][w].stage IN
         /\ Done(c)' = IF stage = "done" THEN Done(c) \cup {w} ELSE Done(c) \ {w}
         /\ Busy(c)' = IF stage \in {"idle", "done"} THEN Busy(c) \ {w} ELSE Busy(c) \cup {w}
         /\ w \in Done(c) <=> slots[c][w].stage = "done"
         /\ w \in Busy(c) <=> slots[c][w].stage \notin {"idle", "done"}
  <1>1. Done(c)' = {v \in Workers : slots'[c][v].stage = "done"}
    BY DEF Done, At
  <1>2. Busy(c)' = {v \in Workers : slots'[c][v].stage \notin {"idle", "done"}}
    BY DEF Busy
  <1>3. Done(c) = {v \in Workers : slots[c][v].stage = "done"}
    BY DEF Done, At
  <1>4. Busy(c) = {v \in Workers : slots[c][v].stage \notin {"idle", "done"}}
    BY DEF Busy
  <1> QED BY <1>1, <1>2, <1>3, <1>4

\* A worker moves on with its delivery: it stays busy.
LEMMA MoveLoop ==
  ASSUME TypeOK, NEW c \in Consumers, NEW w \in Workers, LoopOf(c), UNCHANGED loop,
         \A v \in Workers : v # w => slots'[c][v] = slots[c][v],
         slots[c][w].stage \notin {"idle", "done"}, slots'[c][w].stage \notin {"idle", "done"}
  PROVE  LoopOf(c)'
  <1>1. Done(c)' = Done(c) /\ Busy(c)' = Busy(c)
    <2>1. /\ Done(c)' = Done(c) \ {w} /\ Busy(c)' = Busy(c) \cup {w}
          /\ w \notin Done(c) /\ w \in Busy(c)
      BY SlotCounts
    <2> QED BY <2>1
  <1>2. Marks(c)' = Marks(c) /\ Queued(c)' = Queued(c) /\ Putting(c)' = Putting(c)
        /\ MarksToPut(c)' = MarksToPut(c)
    BY DEF Marks, Queued, Putting, MarksToPut, loop
  <1> QED BY <1>1, <1>2 DEF LoopOf, ControlOf, QueueOf, MarksOf, AdmissionOf, loop

\* A worker gives up its delivery; the loop gets the permit back.
LEMMA VacateLoop ==
  ASSUME TypeOK, NEW c \in Consumers, NEW w \in Workers, LoopOf(c),
         running'[c] = running[c], intake'[c] = intake[c], queue'[c] = queue[c],
         running[c] => permits'[c] = permits[c] + 1,
         \A v \in Workers : v # w => slots'[c][v] = slots[c][v],
         slots[c][w].stage \notin {"idle", "done"}, slots'[c][w].stage = "idle"
  PROVE  LoopOf(c)'
  <1>1. Done(c)' = Done(c) /\ Busy(c)' = Busy(c) \ {w} /\ w \in Busy(c)
    <2>1. /\ Done(c)' = Done(c) \ {w} /\ Busy(c)' = Busy(c) \ {w}
          /\ w \notin Done(c) /\ w \in Busy(c)
      BY SlotCounts
    <2> QED BY <2>1
  <1>2. Cardinality(Busy(c)') = Cardinality(Busy(c)) - 1
    BY <1>1, LoopFinite, FS_RemoveElement
  <1>3. Marks(c)' = Marks(c) /\ Queued(c)' = Queued(c) /\ Putting(c)' = Putting(c)
        /\ MarksToPut(c)' = MarksToPut(c)
    BY DEF Marks, Queued, Putting, MarksToPut
  <1>4. ControlOf(c)' /\ QueueOf(c)' /\ MarksOf(c)'
    BY <1>1, <1>3 DEF LoopOf, ControlOf, QueueOf, MarksOf
  <1>5. AdmissionOf(c)'
    <2> DEFINE b == Cardinality(Busy(c))
               q == Cardinality(Queued(c))
               p == Putting(c)
    <2>1. b \in Nat /\ q \in Nat /\ p \in Nat /\ permits[c] \in Nat
      BY LoopFinite DEF TypeOK
    <2>2. IF running[c] THEN p + q + b + permits[c] = Admitted ELSE p + q + b <= Admitted
      BY DEF LoopOf, AdmissionOf
    <2> HIDE DEF b, q, p
    <2>3. IF running[c] THEN p + q + (b - 1) + permits'[c] = Admitted ELSE p + q + (b - 1) <= Admitted
      BY <2>1, <2>2, ConsumerAssumption
    <2> QED BY <1>2, <1>3, <2>3 DEF AdmissionOf, b, q, p
  <1> QED BY <1>4, <1>5 DEF LoopOf

\* The loop is over and nothing is left of it.
LEMMA StopLoop ==
  ASSUME TypeOK', NEW c \in Consumers, ~running'[c], intake'[c] = NoIntake, queue'[c] = << >>,
         \A v \in Workers : slots'[c][v] = Idle
  PROVE  LoopOf(c)'
  <1>1. Done(c)' = {} /\ Busy(c)' = {}
    <2>1. \A v \in Workers : slots'[c][v].stage = "idle"
      BY DEF Idle
    <2> QED BY <2>1 DEF Done, Busy, At
  <1>2. DOMAIN queue'[c] = {} /\ Len(queue'[c]) = 0
    OBVIOUS
  <1>3. Queued(c)' = {}
    BY <1>2 DEF Queued
  <1>4. intake'[c].stage = "stopped" /\ intake'[c].message = None
    BY DEF NoIntake
  <1>5. Putting(c)' = 0
    BY <1>4 DEF Putting
  <1>6. ControlOf(c)' /\ MarksOf(c)'
    BY <1>1, <1>4 DEF ControlOf, MarksOf
  <1>7. QueueOf(c)'
    BY <1>1, <1>2, ConsumerAssumption DEF QueueOf
  <1>8. AdmissionOf(c)'
    BY <1>1, <1>3, <1>5, FS_EmptySet, ConsumerAssumption DEF AdmissionOf
  <1> QED BY <1>6, <1>7, <1>8 DEF LoopOf

\* run starts on an empty queue, with every permit free.
LEMMA RunStartsLoop ==
  ASSUME TypeOK, NEW c \in Consumers, LoopOf(c), RunStarts(c)
  PROVE  LoopOf(c)'
  <1>1. running'[c] /\ permits'[c] = Admitted /\ queue' = queue /\ slots' = slots
    BY DEF RunStarts, TypeOK
  <1>2. intake'[c].stage = "pulling" /\ intake'[c].message = None
    BY DEF RunStarts, TypeOK, Slot
  <1>3. queue[c] = << >> /\ Done(c) = {} /\ Busy(c) = {}
    BY DEF LoopOf, ControlOf, RunStarts
  <1>4. Done(c)' = {} /\ Busy(c)' = {}
    BY <1>1, <1>3 DEF Done, Busy, At
  <1>5. DOMAIN queue'[c] = {} /\ Len(queue'[c]) = 0
    BY <1>1, <1>3
  <1>6. Queued(c)' = {} /\ Marks(c)' = {}
    BY <1>5 DEF Queued, Marks
  <1>7. Putting(c)' = 0 /\ MarksToPut(c)' = Cardinality(Workers)
    BY <1>2 DEF Putting, MarksToPut
  <1>8. Cardinality(Workers) \in Nat
    BY LoopFinite
  <1>9. ControlOf(c)'
    BY <1>1, <1>2 DEF ControlOf
  <1>10. QueueOf(c)'
    BY <1>4, <1>5, ConsumerAssumption DEF QueueOf
  <1>11. MarksOf(c)'
    BY <1>4, <1>6, <1>7, <1>8, FS_EmptySet DEF MarksOf
  <1>12. AdmissionOf(c)'
    BY <1>1, <1>4, <1>6, <1>7, FS_EmptySet, ConsumerAssumption DEF AdmissionOf
  <1> QED BY <1>9, <1>10, <1>11, <1>12 DEF LoopOf

\* A delivery is pulled against a permit.
LEMMA PullLoop ==
  ASSUME TypeOK, NEW c \in Consumers, NEW m \in Messages, LoopOf(c), Pull(c, m)
  PROVE  LoopOf(c)'
  <1>1. running' = running /\ permits'[c] = permits[c] - 1 /\ queue' = queue /\ slots' = slots
        /\ permits[c] \in Nat /\ intake[c].stage = "pulling"
    BY DEF Pull, Admits, TypeOK
  <1>2. intake'[c].stage = "putting" /\ intake'[c].message = m /\ m # None
    BY ConsumerAssumption DEF Pull, Admits, TypeOK, Slot
  <1>3. Done(c)' = Done(c) /\ Busy(c)' = Busy(c) /\ Marks(c)' = Marks(c) /\ Queued(c)' = Queued(c)
    BY <1>1 DEF Done, Busy, At, Marks, Queued
  <1>4. Putting(c) = 0 /\ Putting(c)' = 1 /\ MarksToPut(c)' = MarksToPut(c)
    BY <1>1, <1>2 DEF Putting, MarksToPut
  <1>5. running[c]
    BY <1>1 DEF LoopOf, ControlOf
  <1>6. ControlOf(c)' /\ QueueOf(c)' /\ MarksOf(c)'
    BY <1>1, <1>2, <1>3, <1>4, <1>5 DEF LoopOf, ControlOf, QueueOf, MarksOf
  <1>7. AdmissionOf(c)'
    <2> DEFINE b == Cardinality(Busy(c))
               q == Cardinality(Queued(c))
    <2>1. b \in Nat /\ q \in Nat
      BY LoopFinite
    <2>2. 0 + q + b + permits[c] = Admitted
      BY <1>4, <1>5 DEF LoopOf, AdmissionOf
    <2> HIDE DEF b, q
    <2>3. 1 + q + b + permits'[c] = Admitted
      BY <1>1, <2>1, <2>2
    <2> QED BY <1>1, <1>3, <1>4, <1>5, <2>3 DEF AdmissionOf, b, q
  <1> QED BY <1>6, <1>7 DEF LoopOf

\* The delivery is queued: no end mark is before it and no worker has ended.
LEMMA PutDeliveryLoop ==
  ASSUME TypeOK, NEW c \in Consumers, LoopOf(c), PutDelivery(c)
  PROVE  LoopOf(c)'
  <1> DEFINE m == intake[c].message
             n == Len(queue[c])
             b == Cardinality(Busy(c))
             q == Cardinality(Queued(c))
             T == Messages
  <1>1. running' = running /\ permits' = permits /\ slots' = slots
        /\ queue'[c] = Append(queue[c], m) /\ intake[c].stage = "putting" /\ n < QueueCapacity
    BY DEF PutDelivery, TypeOK
  <1>2. intake'[c].stage = "pulling" /\ intake'[c].message = None
    BY DEF PutDelivery, TypeOK, Slot
  <1>3. m \in Messages /\ running[c]
    BY <1>1 DEF LoopOf, ControlOf, TypeOK, Intakes
  <1>4. queue[c] \in Seq(Messages \cup {None}) /\ None \notin Messages
    BY ConsumerAssumption DEF TypeOK
  <1>5. Done(c)' = Done(c) /\ Busy(c)' = Busy(c)
    BY <1>1 DEF Done, Busy, At
  <1>6. Cardinality(Marks(c)) = 0 /\ Cardinality(Done(c)) = 0
    <2>1. Cardinality(Workers) + Cardinality(Marks(c)) + Cardinality(Done(c)) = Cardinality(Workers)
      BY <1>1, <1>3 DEF LoopOf, MarksOf, MarksToPut
    <2> QED BY <2>1, LoopFinite
  <1>7. Marks(c) = {} /\ Done(c) = {}
    BY <1>6, LoopFinite, FS_EmptySet
  <1>8. n \in Nat /\ DOMAIN queue[c] = 1..n /\ DOMAIN queue'[c] = 1..(n + 1)
        /\ Len(queue'[c]) = n + 1 /\ queue'[c][n + 1] = m
        /\ \A i \in 1..n : queue'[c][i] = queue[c][i]
    <2>1. Append(queue[c], m) \in Seq(Messages \cup {None})
          /\ Len(Append(queue[c], m)) = n + 1 /\ Append(queue[c], m)[n + 1] = m
          /\ \A i \in 1..n : Append(queue[c], m)[i] = queue[c][i]
      BY <1>3, <1>4, AppendProperties
    <2>2. n \in Nat /\ DOMAIN queue[c] = 1..n
      BY <1>4, LenProperties
    <2>3. DOMAIN Append(queue[c], m) = 1..(n + 1)
      BY <2>1, LenProperties
    <2> QED BY <1>1, <2>1, <2>2, <2>3
  <1>9. \A i \in 1..n : queue[c][i] # None
    BY <1>7, <1>8 DEF Marks
  <1>10. Marks(c)' = {} /\ \A i \in DOMAIN queue'[c] : queue'[c][i] # None
    <2>1. \A i \in 1..(n + 1) : queue'[c][i] # None
      BY <1>3, <1>4, <1>8, <1>9
    <2> QED BY <1>8, <2>1 DEF Marks
  <1>11. Cardinality(Queued(c)') = q + 1
    <2>1. Queued(c) = 1..n /\ Queued(c)' = 1..(n + 1)
      BY <1>8, <1>9, <1>10 DEF Queued
    <2>2. Cardinality(1..n) = n /\ Cardinality(1..(n + 1)) = n + 1
      <3> HIDE DEF n
      <3>0. n \in Int /\ n + 1 \in Int /\ 1 \in Int
        BY <1>8
      <3>1. Cardinality(1..n) = IF 1 > n THEN 0 ELSE n - 1 + 1
        BY <3>0, FS_Interval
      <3>2. Cardinality(1..(n + 1)) = IF 1 > n + 1 THEN 0 ELSE n + 1 - 1 + 1
        BY <3>0, FS_Interval
      <3> QED BY <1>8, <3>1, <3>2
    <2> QED BY <2>1, <2>2
  <1>12. Putting(c) = 1 /\ Putting(c)' = 0 /\ MarksToPut(c) = Cardinality(Workers)
         /\ MarksToPut(c)' = Cardinality(Workers)
    BY <1>1, <1>2 DEF Putting, MarksToPut
  <1>13. ControlOf(c)'
    BY <1>1, <1>2, <1>3 DEF ControlOf
  <1>14. QueueOf(c)'
    <2>1. Len(queue'[c]) <= QueueCapacity
      BY <1>1, <1>8, ConsumerAssumption
    <2> QED BY <1>5, <1>7, <1>10, <2>1 DEF QueueOf
  <1>15. MarksOf(c)'
    BY <1>1, <1>5, <1>7, <1>10, <1>12, LoopFinite, FS_EmptySet DEF MarksOf
  <1>16. AdmissionOf(c)'
    <2>1. b \in Nat /\ q \in Nat /\ permits[c] \in Nat
      BY LoopFinite DEF TypeOK
    <2>2. 1 + q + b + permits[c] = Admitted
      BY <1>12, <1>3 DEF LoopOf, AdmissionOf
    <2> HIDE DEF b, q, n, m
    <2>3. 0 + (q + 1) + b + permits[c] = Admitted
      BY <2>1, <2>2
    <2> QED BY <1>1, <1>3, <1>5, <1>11, <1>12, <2>3 DEF AdmissionOf, b
  <1> QED BY <1>13, <1>14, <1>15, <1>16 DEF LoopOf

\* The source ends: every end mark is to be put.
LEMMA SourceEndsLoop ==
  ASSUME TypeOK, NEW c \in Consumers, LoopOf(c), SourceEnds(c)
  PROVE  LoopOf(c)'
  <1>1. UNCHANGED <<running, permits, slots, queue>> /\ intake[c].stage = "pulling"
    BY DEF SourceEnds
  <1>2. intake'[c] = Ending(Cardinality(Workers))
    BY DEF SourceEnds, TypeOK
  <1>3. intake'[c].stage = "ending" /\ intake'[c].message = None /\ intake'[c].marks = Cardinality(Workers)
    BY <1>2 DEF Ending
  <1>4. Done(c)' = Done(c) /\ Busy(c)' = Busy(c) /\ Marks(c)' = Marks(c) /\ Queued(c)' = Queued(c)
    BY <1>1 DEF Done, Busy, At, Marks, Queued
  <1>5. Putting(c)' = Putting(c) /\ MarksToPut(c)' = MarksToPut(c)
    BY <1>1, <1>3 DEF Putting, MarksToPut
  <1>6. ControlOf(c)' /\ QueueOf(c)' /\ MarksOf(c)'
    BY <1>1, <1>3, <1>4, <1>5 DEF LoopOf, ControlOf, QueueOf, MarksOf
  <1>7. AdmissionOf(c)'
    BY <1>1, <1>4, <1>5 DEF LoopOf, AdmissionOf
  <1> QED BY <1>6, <1>7 DEF LoopOf

\* The counts of a queue that is appended to or taken from.
LEMMA QueueCounts ==
  ASSUME TypeOK, NEW c \in Consumers
  PROVE  /\ Marks(c) = {i \in DOMAIN queue[c] : queue[c][i] \in {None}}
         /\ Queued(c) = {i \in DOMAIN queue[c] : queue[c][i] \in Messages}
  <1>1. queue[c] \in Seq(Messages \cup {None}) /\ None \notin Messages
    BY ConsumerAssumption DEF TypeOK
  <1>2. \A i \in DOMAIN queue[c] : queue[c][i] \in Messages \cup {None}
    BY <1>1, LenProperties
  <1> QED BY <1>1, <1>2 DEF Marks, Queued

\* An end mark is put behind everything queued.
LEMMA PutEndLoop ==
  ASSUME TypeOK, TypeOK', NEW c \in Consumers, LoopOf(c), PutEnd(c)
  PROVE  LoopOf(c)'
  <1> DEFINE n == Len(queue[c])
             k == intake[c].marks
  <1>1. UNCHANGED <<running, permits, slots>> /\ intake[c].stage = "ending" /\ k > 0
        /\ queue'[c] = Append(queue[c], None) /\ n < QueueCapacity
    BY DEF PutEnd, TypeOK
  <1>2. k \in Nat
    BY <1>1, LoopFinite DEF MarksToPut
  <1>3. intake'[c].stage = "ending" /\ intake'[c].message = None /\ intake'[c].marks = k - 1
    <2>1. intake'[c] = Ending(k - 1)
      BY DEF PutEnd, TypeOK
    <2> QED BY <2>1 DEF Ending
  <1>4. queue[c] \in Seq(Messages \cup {None}) /\ None \notin Messages
    BY ConsumerAssumption DEF TypeOK
  <1>5. Done(c)' = Done(c) /\ Busy(c)' = Busy(c)
    BY <1>1 DEF Done, Busy, At
  <1>6. n \in Nat /\ DOMAIN queue[c] = 1..n /\ DOMAIN queue'[c] = 1..(n + 1)
        /\ Len(queue'[c]) = n + 1 /\ queue'[c][n + 1] = None
        /\ \A i \in 1..n : queue'[c][i] = queue[c][i]
    <2>1. Append(queue[c], None) \in Seq(Messages \cup {None})
          /\ Len(Append(queue[c], None)) = n + 1 /\ Append(queue[c], None)[n + 1] = None
          /\ \A i \in 1..n : Append(queue[c], None)[i] = queue[c][i]
      BY <1>4, AppendProperties
    <2>2. n \in Nat /\ DOMAIN queue[c] = 1..n
      BY <1>4, LenProperties
    <2>3. DOMAIN Append(queue[c], None) = 1..(n + 1)
      BY <2>1, LenProperties
    <2> QED BY <1>1, <2>1, <2>2, <2>3
  <1>7. Queued(c)' = Queued(c)
    BY <1>6 DEF Queued
  <1>8. Cardinality(Marks(c)') = Cardinality(Marks(c)) + 1
    <2>1. Marks(c)' = Marks(c) \cup {n + 1} /\ n + 1 \notin Marks(c)
      BY <1>6 DEF Marks
    <2> HIDE DEF n
    <2> QED BY <2>1, LoopFinite, FS_AddElement
  <1>9. Putting(c)' = Putting(c) /\ MarksToPut(c) = k /\ MarksToPut(c)' = k - 1
    BY <1>1, <1>3 DEF Putting, MarksToPut
  <1>10. ControlOf(c)'
    BY <1>1, <1>3 DEF LoopOf, ControlOf
  <1>11. QueueOf(c)'
    <2>1. Len(queue'[c]) <= QueueCapacity
      BY <1>1, <1>6, ConsumerAssumption
    <2>2. \A i, j \in DOMAIN queue'[c] : i < j /\ queue'[c][i] = None => queue'[c][j] = None
      <3> SUFFICES ASSUME NEW i \in 1..(n + 1), NEW j \in 1..(n + 1), i < j, queue'[c][i] = None
                   PROVE  queue'[c][j] = None
        BY <1>6
      <3>1. CASE j = n + 1
        BY <1>6, <3>1
      <3>2. CASE j \in 1..n
        <4>1. i \in 1..n
          BY <1>6, <3>2
        <4> QED BY <1>6, <3>2, <4>1 DEF LoopOf, QueueOf
      <3> QED BY <1>6, <3>1, <3>2
    <2> QED BY <1>5, <1>7, <2>1, <2>2 DEF LoopOf, QueueOf
  <1>12. MarksOf(c)'
    <2> DEFINE a == Cardinality(Marks(c))
               d == Cardinality(Done(c))
               s == Cardinality(Workers)
    <2>1. a \in Nat /\ d \in Nat /\ s \in Nat
      BY LoopFinite
    <2>2. running[c] => k + a + d = s
      BY <1>9 DEF LoopOf, MarksOf
    <2> HIDE DEF a, d, s, k
    <2>3. running[c] => (k - 1) + (a + 1) + d = s
      BY <1>2, <2>1, <2>2
    <2> QED BY <1>1, <1>5, <1>8, <1>9, <2>3 DEF MarksOf, a, d, s
  <1>13. AdmissionOf(c)'
    BY <1>1, <1>5, <1>7, <1>9 DEF LoopOf, AdmissionOf
  <1> QED BY <1>10, <1>11, <1>12, <1>13 DEF LoopOf

\* A worker takes the head of the queue: a delivery makes it busy, an end mark, with
\* only end marks behind it, ends it.
LEMMA GetLoop ==
  ASSUME TypeOK, TypeOK', NEW c \in Consumers, NEW w \in Workers, LoopOf(c), Get(c, w)
  PROVE  LoopOf(c)'
  <1> DEFINE m == Head(queue[c])
             r == Tail(queue[c])
             b == Cardinality(Busy(c))
             q == Cardinality(Queued(c))
             p == Putting(c)
             a == Cardinality(Marks(c))
             d == Cardinality(Done(c))
             s == Cardinality(Workers)
             k == MarksToPut(c)
  <1>1. UNCHANGED <<running, permits, intake>> /\ queue[c] # << >> /\ queue'[c] = r
        /\ running[c] /\ slots[c][w].stage = "idle"
    BY DEF Get, TypeOK, At
  <1>2. queue[c] \in Seq(Messages \cup {None}) /\ None \notin Messages
    BY ConsumerAssumption DEF TypeOK
  <1>3. PICK stage \in {"done", "reserving", "retrying"} :
          /\ slots' = [slots EXCEPT ![c][w] = Slot(stage, m)]
          /\ stage = "done" <=> m = None
    BY DEF Get
  <1>4. slots'[c][w].stage = stage /\ \A v \in Workers : v # w => slots'[c][v] = slots[c][v]
    <2>1. slots'[c][w] = Slot(stage, m) /\ \A v \in Workers : v # w => slots'[c][v] = slots[c][v]
      BY <1>3 DEF TypeOK
    <2>2. Slot(stage, m).stage = stage
      BY DEF Slot
    <2> QED BY <2>1, <2>2
  <1>5. /\ m \in Messages \cup {None} /\ r \in Seq(Messages \cup {None})
        /\ Len(r) = Len(queue[c]) - 1 /\ \A i \in 1..Len(r) : r[i] = queue[c][i + 1]
    BY <1>1, <1>2, HeadTailProperties
  <1>6. /\ DOMAIN r = 1..Len(r) /\ DOMAIN queue[c] = 1..Len(queue[c])
        /\ Len(queue[c]) \in Nat \ {0} /\ m = queue[c][1]
    BY <1>1, <1>2, <1>5, LenProperties, EmptySeq
  <1>7. /\ Done(c)' = IF stage = "done" THEN Done(c) \cup {w} ELSE Done(c)
        /\ Busy(c)' = IF stage = "done" THEN Busy(c) ELSE Busy(c) \cup {w}
        /\ w \notin Done(c) /\ w \notin Busy(c)
    <2>1. /\ Done(c)' = IF stage = "done" THEN Done(c) \cup {w} ELSE Done(c) \ {w}
          /\ Busy(c)' = IF stage \in {"idle", "done"} THEN Busy(c) \ {w} ELSE Busy(c) \cup {w}
          /\ w \notin Done(c) /\ w \notin Busy(c)
      BY <1>1, <1>4, SlotCounts
    <2> QED BY <2>1
  <1>8. /\ b \in Nat /\ q \in Nat /\ p \in Nat /\ a \in Nat /\ d \in Nat /\ s \in Nat
        /\ permits[c] \in Nat /\ k \in Nat
    BY LoopFinite DEF TypeOK
  <1>9. /\ Cardinality(Done(c)') = IF stage = "done" THEN d + 1 ELSE d
        /\ Cardinality(Busy(c)') = IF stage = "done" THEN b ELSE b + 1
    BY <1>7, LoopFinite, FS_AddElement
  <1>10. Cardinality(Marks(c)') \in Nat /\ a = Cardinality(Marks(c)') + IF m \in {None} THEN 1 ELSE 0
    <2>1. Marks(c)' = {i \in DOMAIN r : r[i] \in {None}}
      BY <1>1 DEF Marks
    <2>2. Marks(c) = {i \in DOMAIN queue[c] : queue[c][i] \in {None}}
      BY QueueCounts
    <2>3. /\ CountIn(r, {None}) \in Nat
          /\ CountIn(queue[c], {None}) = CountIn(r, {None}) + IF m \in {None} THEN 1 ELSE 0
      BY <1>1, <1>2, CountTail
    <2> HIDE DEF r, m
    <2> QED BY <2>1, <2>2, <2>3 DEF CountIn
  <1>11. Cardinality(Queued(c)') \in Nat /\ q = Cardinality(Queued(c)') + IF m \in Messages THEN 1 ELSE 0
    <2>1. Queued(c)' = {i \in DOMAIN r : r[i] \in Messages}
      <3>1. \A i \in DOMAIN r : r[i] \in Messages \cup {None}
        BY <1>5, <1>6, LenProperties
      <3>2. Queued(c)' = {i \in DOMAIN r : r[i] # None}
        BY <1>1 DEF Queued
      <3> QED BY <1>2, <3>1, <3>2
    <2>2. Queued(c) = {i \in DOMAIN queue[c] : queue[c][i] \in Messages}
      BY QueueCounts
    <2>3. /\ CountIn(r, Messages) \in Nat
          /\ CountIn(queue[c], Messages) = CountIn(r, Messages) + IF m \in Messages THEN 1 ELSE 0
      BY <1>1, <1>2, CountTail
    <2> HIDE DEF r, m
    <2> QED BY <2>1, <2>2, <2>3 DEF CountIn
  <1>13. Putting(c)' = p /\ MarksToPut(c)' = k
    BY <1>1 DEF Putting, MarksToPut
  <1>14. p + q + b + permits[c] = Admitted /\ k + a + d = s
    BY <1>1 DEF LoopOf, AdmissionOf, MarksOf
  <1>15. ControlOf(c)'
    BY <1>1 DEF LoopOf, ControlOf
  <1>16. QueueOf(c)'
    <2>1. \A i \in DOMAIN r : i + 1 \in DOMAIN queue[c] /\ r[i] = queue[c][i + 1] /\ i \in Nat /\ 1 < i + 1
      BY <1>5, <1>6
    <2>2. Len(r) <= QueueCapacity
      BY <1>5, <1>6, ConsumerAssumption DEF LoopOf, QueueOf
    <2>3. \A i, j \in DOMAIN queue[c] : i < j /\ queue[c][i] = None => queue[c][j] = None
      BY DEF LoopOf, QueueOf
    <2> HIDE DEF r, m
    <2>4. \A i, j \in DOMAIN r : i < j /\ r[i] = None => r[j] = None
      <3> SUFFICES ASSUME NEW i \in DOMAIN r, NEW j \in DOMAIN r, i < j, r[i] = None PROVE r[j] = None
        OBVIOUS
      <3>1. i + 1 < j + 1
        BY <2>1
      <3> QED BY <2>1, <2>3, <3>1
    <2>5. CASE stage = "done"
      <3>1. \A i \in DOMAIN r : r[i] = None
        BY <1>3, <1>6, <2>1, <2>3, <2>5
      <3>2. Queued(c)' = {}
        BY <1>1, <3>1 DEF Queued
      <3> QED BY <1>1, <2>2, <2>4, <3>2 DEF QueueOf
    <2>6. CASE stage # "done"
      <3>1. Done(c) # {} => Queued(c) = {}
        BY DEF LoopOf, QueueOf
      <3>2. Queued(c) = {} => Queued(c)' = {}
        BY <1>1, <2>1 DEF Queued
      <3> QED BY <1>1, <1>7, <2>2, <2>4, <2>6, <3>1, <3>2 DEF QueueOf
    <2> QED BY <2>5, <2>6
  <1> HIDE DEF m, r, b, q, p, a, d, s, k
  <1>17. MarksOf(c)'
    <2>1. k + Cardinality(Marks(c)') + Cardinality(Done(c)') = s
      BY <1>3, <1>8, <1>9, <1>10, <1>14
    <2> QED BY <1>13, <2>1 DEF MarksOf, s
  <1>18. AdmissionOf(c)'
    <2>1. p + Cardinality(Queued(c)') + Cardinality(Busy(c)') + permits[c] = Admitted
      <3>1. m \in Messages <=> stage # "done"
        BY <1>2, <1>3, <1>5
      <3> QED BY <1>8, <1>9, <1>11, <1>14, <3>1
    <2> QED BY <1>1, <1>13, <2>1 DEF AdmissionOf
  <1> QED BY <1>15, <1>16, <1>17, <1>18 DEF LoopOf

\* When every worker has ended, the queue is empty: the loop leaves nothing behind.
LEMMA RunEndsLoop ==
  ASSUME TypeOK, TypeOK', NEW c \in Consumers, LoopOf(c), RunEnds(c)
  PROVE  LoopOf(c)'
  <1>1. running[c] /\ Done(c) = Workers
    BY DEF RunEnds, Done
  <1>2. ~running'[c] /\ intake'[c] = NoIntake /\ queue' = queue
        /\ \A v \in Workers : slots'[c][v] = Idle
    BY DEF RunEnds, TypeOK
  <1>3. Cardinality(Marks(c)) = 0
    <2> DEFINE k == MarksToPut(c)
    <2>1. k \in Nat /\ Cardinality(Marks(c)) \in Nat /\ Cardinality(Workers) \in Nat
      BY LoopFinite
    <2>2. k + Cardinality(Marks(c)) + Cardinality(Workers) = Cardinality(Workers)
      BY <1>1 DEF LoopOf, MarksOf
    <2> HIDE DEF k
    <2> QED BY <2>1, <2>2
  <1>4. Marks(c) = {}
    BY <1>3, LoopFinite, FS_EmptySet
  <1>5. Queued(c) = {}
    BY <1>1, ConsumerAssumption DEF LoopOf, QueueOf
  <1>6. queue[c] = << >>
    <2>1. queue[c] \in Seq(Messages \cup {None})
      BY DEF TypeOK
    <2>2. DOMAIN queue[c] = {}
      BY <1>4, <1>5 DEF Marks, Queued
    <2>3. DOMAIN queue[c] = 1..Len(queue[c])
      BY <2>1, LenProperties
    <2>4. queue[c] # << >> => Len(queue[c]) \in Nat \ {0}
      BY <2>1, EmptySeq
    <2>5. queue[c] # << >> => 1 \in DOMAIN queue[c]
      BY <2>3, <2>4
    <2> QED BY <2>2, <2>5
  <1> QED BY <1>2, <1>6, StopLoop

\* A direct delivery is taken below the capacity.
LEMMA ProcessLoop ==
  ASSUME TypeOK, NEW c \in Consumers, NEW w \in Workers, NEW m \in Messages, LoopOf(c), Process(c, w, m)
  PROVE  LoopOf(c)'
  <1>1. UNCHANGED loop /\ ~running[c] /\ slots[c][w].stage = "idle" /\ Cardinality(Busy(c)) < Admitted
    BY DEF Process, At
  <1>2. slots'[c][w].stage = "reserving" /\ \A v \in Workers : v # w => slots'[c][v] = slots[c][v]
    <2>1. slots'[c][w] = Slot("reserving", m) /\ \A v \in Workers : v # w => slots'[c][v] = slots[c][v]
      BY DEF TypeOK, Process
    <2> QED BY <2>1 DEF Slot
  <1>3. Done(c)' = Done(c) /\ Busy(c)' = Busy(c) \cup {w} /\ w \notin Busy(c)
    <2>1. /\ Done(c)' = Done(c) \ {w} /\ Busy(c)' = Busy(c) \cup {w}
          /\ w \notin Done(c) /\ w \notin Busy(c)
      BY <1>1, <1>2, SlotCounts
    <2> QED BY <2>1
  <1>4. Cardinality(Busy(c)') = Cardinality(Busy(c)) + 1 /\ Cardinality(Busy(c)) \in Nat
    BY <1>3, LoopFinite, FS_AddElement
  <1>5. Marks(c)' = Marks(c) /\ Queued(c)' = Queued(c) /\ Putting(c)' = Putting(c)
        /\ MarksToPut(c)' = MarksToPut(c)
    BY <1>1 DEF Marks, Queued, Putting, MarksToPut, loop
  <1>6. ControlOf(c)' /\ QueueOf(c)' /\ MarksOf(c)'
    BY <1>1, <1>3, <1>5 DEF LoopOf, ControlOf, QueueOf, MarksOf, loop
  <1>7. Queued(c) = {} /\ Putting(c) = 0
    <2>1. queue[c] = << >> /\ intake[c].stage = "stopped"
      BY <1>1 DEF LoopOf, ControlOf
    <2> QED BY <2>1 DEF Queued, Putting
  <1>8. AdmissionOf(c)'
    <2>1. 0 + 0 + Cardinality(Busy(c)') <= Admitted
      BY <1>1, <1>4, ConsumerAssumption
    <2> QED BY <1>1, <1>5, <1>7, <2>1, FS_EmptySet DEF AdmissionOf, loop
  <1> QED BY <1>6, <1>8 DEF LoopOf

\* Every step keeps the loops coherent and admission exact.
LEMMA LoopStep == IInv /\ [Next]_vars => LoopCoherent' /\ AdmissionExact'
  <1> DEFINE Goal == \A d \in Consumers : LoopOf(d)'
  <1> SUFFICES ASSUME IInv, [Next]_vars PROVE Goal
    <2>1. (LoopCoherent /\ AdmissionExact)' <=> (\A c \in Consumers : LoopOf(c))'
      BY LoopByConsumer, PTL
    <2> QED BY <2>1
  <1>a. TypeOK /\ TypeOK' /\ SlotsCoherent /\ \A d \in Consumers : LoopOf(d)
    BY TypeStep, LoopByConsumer DEF IInv
  <1>b. ASSUME NEW c \in Consumers, LoopOf(c)',
               \A d \in Consumers : d # c =>
                   /\ running'[d] = running[d] /\ intake'[d] = intake[d]
                   /\ queue'[d] = queue[d] /\ permits'[d] = permits[d]
                   /\ \A v \in Workers : slots'[d][v] = slots[d][v]
        PROVE  Goal
    BY <1>a, <1>b, OtherLoop
  <1>c. ASSUME NEW c \in Consumers, NEW w \in Workers, NEW stage \in Stages, Move(c, w, stage),
               UNCHANGED loop, w \in Busy(c), stage \notin {"idle", "done"}
        PROVE  Goal
    <2>1. /\ slots'[c][w] = Slot(stage, MessageOf(c, w))
          /\ \A v \in Workers : v # w => slots'[c][v] = slots[c][v]
          /\ \A d \in Consumers : d # c => slots'[d] = slots[d]
      BY <1>a, <1>c DEF Move, TypeOK
    <2>2. \A x : Slot(stage, x).stage = stage
      BY DEF Slot
    <2>3. LoopOf(c)'
      BY <1>a, <1>c, <2>1, <2>2, MoveLoop DEF Busy
    <2> HIDE DEF Goal
    <2> QED BY <1>b, <1>c, <2>1, <2>3 DEF loop
  <1>d. ASSUME NEW c \in Consumers, NEW w \in Workers, Finish(c, w),
               UNCHANGED <<running, intake, queue>>, w \in Busy(c)
        PROVE  Goal
    <2>1. /\ slots'[c][w] = Idle
          /\ \A v \in Workers : v # w => slots'[c][v] = slots[c][v]
          /\ \A d \in Consumers : d # c => slots'[d] = slots[d]
      BY <1>a, <1>d DEF Finish, TypeOK
    <2>2. Idle.stage = "idle"
      BY DEF Idle
    <2>3. /\ running[c] => permits'[c] = permits[c] + 1
          /\ \A d \in Consumers : d # c => permits'[d] = permits[d]
      BY <1>a, <1>d DEF Finish, TypeOK
    <2>4. LoopOf(c)'
      BY <1>a, <1>d, <2>1, <2>2, <2>3, VacateLoop DEF Busy
    <2> HIDE DEF Goal
    <2> QED BY <1>b, <1>d, <2>1, <2>3, <2>4
  <1>e. ASSUME NEW c \in Consumers, NEW w \in Workers, Raise(c, w), running[c] \/ w \in Busy(c)
        PROVE  Goal
    <2>1. CASE running[c]
      <3>1. /\ ~running'[c] /\ intake'[c] = NoIntake /\ queue'[c] = << >>
            /\ \A v \in Workers : slots'[c][v] = Idle
        BY <1>a, <1>e, <2>1 DEF Raise, Abort, TypeOK
      <3>2. \A d \in Consumers : d # c =>
              /\ running'[d] = running[d] /\ intake'[d] = intake[d]
              /\ queue'[d] = queue[d] /\ permits'[d] = permits[d]
              /\ slots'[d] = slots[d]
        BY <1>a, <1>e, <2>1 DEF Raise, Abort, TypeOK
      <3>3. LoopOf(c)'
        BY <1>a, <3>1, StopLoop
      <3> HIDE DEF Goal
      <3> QED BY <1>b, <3>2, <3>3
    <2>2. CASE ~running[c]
      <3>1. /\ slots'[c][w] = Idle
            /\ \A v \in Workers : v # w => slots'[c][v] = slots[c][v]
            /\ \A d \in Consumers : d # c => slots'[d] = slots[d]
        BY <1>a, <1>e, <2>2 DEF Raise, Abort, TypeOK
      <3>2. UNCHANGED <<running, intake, queue, permits>>
        BY <1>e, <2>2 DEF Raise, Abort, loop
      <3>3. Idle.stage = "idle"
        BY DEF Idle
      <3>4. LoopOf(c)'
        BY <1>a, <1>e, <2>2, <3>1, <3>2, <3>3, VacateLoop DEF Busy
      <3> HIDE DEF Goal
      <3> QED BY <1>b, <3>1, <3>2, <3>4
    <2> QED BY <2>1, <2>2
  <1>1. ASSUME NEW m \in Messages, NEW c \in Consumers, Pull(c, m) PROVE Goal
    <2>1. LoopOf(c)'
      BY <1>1, <1>a, PullLoop
    <2>2. UNCHANGED <<running, queue, slots>> /\ \A d \in Consumers : d # c =>
            intake'[d] = intake[d] /\ permits'[d] = permits[d]
      BY <1>1, <1>a DEF Pull, Admits, TypeOK
    <2> HIDE DEF Goal
    <2> QED BY <1>b, <2>1, <2>2
  <1>2. ASSUME NEW m \in Messages, NEW c \in Consumers, NEW w \in Workers, Process(c, w, m) PROVE Goal
    <2>1. LoopOf(c)'
      BY <1>2, <1>a, ProcessLoop
    <2>2. UNCHANGED loop /\ \A d \in Consumers : d # c => slots'[d] = slots[d]
      BY <1>2, <1>a DEF Process, TypeOK
    <2> HIDE DEF Goal
    <2> QED BY <1>b, <2>1, <2>2 DEF loop
  <1>3. ASSUME UNCHANGED <<running, intake, queue, permits, slots>> PROVE Goal
    BY <1>3, <1>a, OtherLoop
  <1>4. ASSUME NEW c \in Consumers, RunStarts(c) PROVE Goal
    <2>1. LoopOf(c)'
      BY <1>4, <1>a, RunStartsLoop
    <2>2. UNCHANGED <<queue, slots>> /\ \A d \in Consumers : d # c =>
            running'[d] = running[d] /\ intake'[d] = intake[d] /\ permits'[d] = permits[d]
      BY <1>4, <1>a DEF RunStarts, TypeOK
    <2> HIDE DEF Goal
    <2> QED BY <1>b, <2>1, <2>2
  <1>5. ASSUME NEW c \in Consumers, PutDelivery(c) PROVE Goal
    <2>1. LoopOf(c)'
      BY <1>5, <1>a, PutDeliveryLoop
    <2>2. UNCHANGED <<running, permits, slots>> /\ \A d \in Consumers : d # c =>
            queue'[d] = queue[d] /\ intake'[d] = intake[d]
      BY <1>5, <1>a DEF PutDelivery, TypeOK
    <2> HIDE DEF Goal
    <2> QED BY <1>b, <2>1, <2>2
  <1>6. ASSUME NEW c \in Consumers, PutEnd(c) PROVE Goal
    <2>1. LoopOf(c)'
      BY <1>6, <1>a, PutEndLoop
    <2>2. UNCHANGED <<running, permits, slots>> /\ \A d \in Consumers : d # c =>
            queue'[d] = queue[d] /\ intake'[d] = intake[d]
      BY <1>6, <1>a DEF PutEnd, TypeOK
    <2> HIDE DEF Goal
    <2> QED BY <1>b, <2>1, <2>2
  <1>7. ASSUME NEW c \in Consumers, RunEnds(c) PROVE Goal
    <2>1. LoopOf(c)'
      BY <1>7, <1>a, RunEndsLoop
    <2>2. UNCHANGED queue /\ \A d \in Consumers : d # c =>
            /\ running'[d] = running[d] /\ intake'[d] = intake[d]
            /\ permits'[d] = permits[d] /\ slots'[d] = slots[d]
      BY <1>7, <1>a DEF RunEnds, TypeOK
    <2> HIDE DEF Goal
    <2> QED BY <1>b, <2>1, <2>2
  <1>8. ASSUME NEW c \in Consumers, SourceEnds(c) PROVE Goal
    <2>1. LoopOf(c)'
      BY <1>8, <1>a, SourceEndsLoop
    <2>2. UNCHANGED <<running, queue, permits, slots>>
          /\ \A d \in Consumers : d # c => intake'[d] = intake[d]
      BY <1>8, <1>a DEF SourceEnds, TypeOK
    <2> HIDE DEF Goal
    <2> QED BY <1>b, <2>1, <2>2
  <1>9. ASSUME NEW c \in Consumers, NEW w \in Workers, Get(c, w) PROVE Goal
    <2>1. LoopOf(c)'
      BY <1>9, <1>a, GetLoop
    <2>2. UNCHANGED <<running, intake, permits>> /\ \A d \in Consumers : d # c =>
            queue'[d] = queue[d] /\ slots'[d] = slots[d]
      BY <1>9, <1>a DEF Get, TypeOK
    <2> HIDE DEF Goal
    <2> QED BY <1>b, <2>1, <2>2
  <1>10. ASSUME NEW c \in Consumers, NEW w \in Workers, Processing(c, w) PROVE Goal
    <2> HIDE DEF Goal
    <2>1. CASE \/ Reserve(c, w) \/ HandlerReturns(c, w) \/ HandlerRejects(c, w) \/ HandlerRetries(c, w)
               \/ Commit(c, w) \/ Quarantine(c, w)
      <3>1. /\ UNCHANGED loop /\ w \in Busy(c)
            /\ \E stage \in Stages : stage \notin {"idle", "done"} /\ Move(c, w, stage)
        BY <2>1 DEF Reserve, HandlerReturns, HandlerRejects, HandlerRetries, Commit, Quarantine,
                    Stages, Busy, At
      <3> QED BY <1>c, <3>1
    <2>2. CASE TimesOut(c, w)
      <3>1. w \in Busy(c) /\ ((UNCHANGED loop /\ Move(c, w, "retrying")) \/ Raise(c, w))
        BY <2>2 DEF TimesOut, Busy
      <3>2. "retrying" \in Stages
        BY DEF Stages
      <3> QED BY <1>c, <1>e, <3>1, <3>2
    <2>3. CASE CommitUncertain(c, w) \/ Fails(c, w)
      BY <2>3, <1>e DEF CommitUncertain, Fails, Busy
    <2>4. CASE Ack(c, w) \/ Retry(c, w) \/ SettlementLost(c, w) \/ Terminate(c, w)
      BY <2>4, <1>d DEF Ack, Retry, SettlementLost, Terminate, Busy, At
    <2> QED BY <1>10, <2>1, <2>2, <2>3, <2>4 DEF Processing
  <1>11. ASSUME NEW m \in Messages, Purge(m) PROVE Goal
    BY <1>3, <1>11 DEF Purge, loop
  <1>12. ASSUME NEW c \in Consumers, NEW m \in Messages, PullOversized(c, m) PROVE Goal
    <2> HIDE DEF Goal
    <2> QED BY <1>12, <1>e, OversizedRaises DEF IInv
  <1>13. CASE UNCHANGED vars
    BY <1>3, <1>13 DEF vars
  <1> HIDE DEF Goal
  <1> QED BY <1>1, <1>2, <1>4, <1>5, <1>6, <1>7, <1>8, <1>9, <1>10, <1>11, <1>12, <1>13
          DEF Next, Deliver, Loop, Advance

----------------------------------------------------------------------------
\* Nothing is stored, admitted or in hand at first.
LEMMA InitIInv == Init => IInv
  <1> SUFFICES ASSUME Init PROVE IInv
    OBVIOUS
  <1>1. TypeOK
    <2>1. << >> \in Seq(Messages \cup {None})
      BY EmptySeq
    <2>2. Idle \in [stage : Stages, message : Messages \cup {None}] /\ NoIntake \in Intakes
      BY DEF Idle, Stages, NoIntake, Intakes
    <2> QED BY <2>1, <2>2, ConsumerAssumption DEF Init, StoresEmpty, ConsumersIdle, TypeOK
  <1>2. \A c \in Consumers, w \in Workers : slots[c][w].stage = "idle" /\ slots[c][w].message = None
    BY DEF Init, ConsumersIdle, Idle
  <1>3. SlotsCoherent /\ RowsExclusive
    BY <1>2 DEF SlotsCoherent, RowsExclusive, At, MessageOf
  <1>4. DecisionsRecorded
    BY DEF Init, StoresEmpty, DecisionsRecorded
  <1>5. ASSUME NEW c \in Consumers PROVE LoopOf(c)
    <2>1. ~running[c] /\ intake[c] = NoIntake /\ queue[c] = << >>
      BY DEF Init, ConsumersIdle
    <2>2. Done(c) = {} /\ Busy(c) = {}
      BY <1>2 DEF Done, Busy, At
    <2>3. DOMAIN queue[c] = {} /\ Len(queue[c]) = 0
      BY <2>1
    <2>4. Queued(c) = {}
      BY <2>3 DEF Queued
    <2>5. intake[c].stage = "stopped" /\ intake[c].message = None
      BY <2>1 DEF NoIntake
    <2>6. Putting(c) = 0
      BY <2>5 DEF Putting
    <2>7. ControlOf(c) /\ MarksOf(c)
      BY <2>1, <2>2, <2>5 DEF ControlOf, MarksOf
    <2>8. QueueOf(c)
      BY <2>2, <2>3, ConsumerAssumption DEF QueueOf
    <2>9. AdmissionOf(c)
      BY <2>1, <2>2, <2>4, <2>6, FS_EmptySet, ConsumerAssumption DEF AdmissionOf
    <2> QED BY <2>7, <2>8, <2>9 DEF LoopOf
  <1> QED BY <1>1, <1>3, <1>4, <1>5, LoopByConsumer DEF IInv

LEMMA StepIInv == IInv /\ [Next]_vars => IInv'
  BY TypeStep, StoresStep, LoopStep DEF IInv

\* AsyncConsumer: every state has its type, stages tell the truth about the stores,
\* one transaction holds a message's row, a decision without an inbox entry belongs to
\* a message that cannot come back, and end marks are accounted for.
THEOREM Invariance == Spec => []IInv
  BY InitIInv, StepIInv, PTL DEF Spec

\* AsyncConsumer.run and process: a consumer never retains more deliveries than it
\* admitted, and the loop gets back the permit of each delivery it gave up, whatever
\* the capacities, the number of workers and the faults.
THEOREM AdmissionTheorem == Spec => []AdmissionExact
  <1>1. IInv => AdmissionExact
    BY DEF IInv
  <1> QED BY <1>1, Invariance, PTL

----------------------------------------------------------------------------
\* The refinement of Effects.

LEMMA InitPromise == Init => Promise!Init
  BY DEF Init, StoresEmpty, Promise!Init

\* A commit applies the effect once, quarantine rejects, and the broker hears only
\* what is so; every other step changes none of the three.
LEMMA StepPromise == IInv /\ [Next]_vars => [Promise!Next]_(Promise!vars)
  <1> DEFINE Goal == [Promise!Next]_(Promise!vars)
  <1> SUFFICES ASSUME IInv, [Next]_vars PROVE Goal
    OBVIOUS
  <1>a. TypeOK /\ TypeOK' /\ SlotsCoherent
    BY TypeStep DEF IInv
  <1>b. ASSUME UNCHANGED <<decisions, quarantine, broker>> PROVE Goal
    BY <1>b DEF Promise!vars
  <1>c. ASSUME NEW m \in Messages, Promise!Apply(m) \/ Promise!Reject(m) \/ Promise!Settle(m) PROVE Goal
    BY <1>c DEF Promise!Next
  <1> HIDE DEF Goal
  <1>d. \A c \in Consumers, w \in Workers :
          slots[c][w].stage \notin {"idle", "done"} => MessageOf(c, w) \in Messages
    BY <1>a, SlotFacts DEF SlotsCoherent
  <1>e. \A m \in Messages : InHands(m)' => InHands(m) \/ broker[m] = "unsettled"
    BY HandsStep
  <1>1. ASSUME NEW c \in Consumers, NEW w \in Workers, At(c, w, "committing"), Committed(c, w),
               UNCHANGED <<quarantine, broker>>
        PROVE  Goal
    <2> DEFINE m == MessageOf(c, w)
    <2>1. m \in Messages /\ m \notin inbox
      BY <1>1, <1>a, <1>d DEF At, SlotsCoherent
    <2>2. InHands(m)
      BY DEF InHands
    <2>3. decisions[m] = 0
      BY <2>1, <2>2 DEF IInv, DecisionsRecorded
    <2>4. decisions' = [decisions EXCEPT ![m] = 1]
      BY <1>1, <2>1, <2>3 DEF Committed, IInv, TypeOK
    <2> HIDE DEF m
    <2>5. Promise!Apply(m)
      BY <1>1, <2>3, <2>4 DEF Promise!Apply
    <2> QED BY <1>c, <2>1, <2>5
  <1>2. ASSUME NEW c \in Consumers, NEW w \in Workers, Commit(c, w) \/ CommitUncertain(c, w) PROVE Goal
    <2>1. UNCHANGED <<quarantine, broker>>
      BY <1>2 DEF Commit, CommitUncertain
    <2>2. CASE UNCHANGED decisions
      BY <1>b, <2>1, <2>2
    <2>3. CASE At(c, w, "committing") /\ Committed(c, w)
      BY <1>1, <2>1, <2>3
    <2> QED BY <1>2, <2>2, <2>3 DEF Commit, CommitUncertain, Committed
  <1>3. ASSUME NEW c \in Consumers, NEW w \in Workers, Quarantine(c, w) PROVE Goal
    <2> DEFINE m == MessageOf(c, w)
    <2>1. m \in Messages
      BY <1>3, <1>d DEF Quarantine, At
    <2>2. UNCHANGED <<decisions, broker>>
      BY <1>3 DEF Quarantine
    <2>3. CASE UNCHANGED quarantine
      BY <1>b, <2>2, <2>3
    <2>4. CASE quarantine' = quarantine \cup {m}
      <3>1. Promise!Reject(m)
        BY <2>2, <2>4 DEF Promise!Reject
      <3> QED BY <1>c, <2>1, <3>1
    <2> QED BY <1>3, <2>3, <2>4 DEF Quarantine
  <1>4. ASSUME NEW c \in Consumers, NEW w \in Workers, Ack(c, w) PROVE Goal
    <2> DEFINE m == MessageOf(c, w)
    <2>1. m \in Messages /\ decisions[m] = 1
      BY <1>4, <1>a, <1>d DEF Ack, At, SlotsCoherent
    <2>2. UNCHANGED <<decisions, quarantine>>
      BY <1>4 DEF Ack
    <2>3. CASE broker[m] = "unsettled"
      <3>1. broker' = [broker EXCEPT ![m] = "acked"]
        BY <1>4, <1>a, <2>1, <2>3, TellFacts DEF Ack
      <3>2. Promise!Settle(m)
        BY <2>1, <2>2, <2>3, <3>1 DEF Promise!Settle
      <3> QED BY <1>c, <2>1, <3>2
    <2>4. CASE broker[m] # "unsettled"
      <3>1. broker' = broker
        BY <1>4, <1>a, <2>1, <2>4, TellFacts DEF Ack
      <3> QED BY <1>b, <2>2, <3>1
    <2> QED BY <2>3, <2>4
  <1>5. ASSUME NEW c \in Consumers, NEW w \in Workers, Terminate(c, w) PROVE Goal
    <2> DEFINE m == MessageOf(c, w)
    <2>1. m \in Messages /\ m \in quarantine
      BY <1>5, <1>a, <1>d DEF Terminate, At, SlotsCoherent
    <2>2. UNCHANGED <<decisions, quarantine>>
      BY <1>5 DEF Terminate
    <2>3. CASE broker[m] = "unsettled"
      <3>1. broker' = [broker EXCEPT ![m] = "terminated"]
        BY <1>5, <1>a, <2>1, <2>3, TellFacts DEF Terminate
      <3>2. Promise!Settle(m)
        BY <2>1, <2>2, <2>3, <3>1 DEF Promise!Settle
      <3> QED BY <1>c, <2>1, <3>2
    <2>4. CASE broker[m] # "unsettled"
      <3>1. broker' = broker
        BY <1>5, <1>a, <2>1, <2>4, TellFacts DEF Terminate
      <3> QED BY <1>b, <2>2, <3>1
    <2> QED BY <2>3, <2>4
  <1>6. ASSUME NEW c \in Consumers, NEW w \in Workers,
               \/ Reserve(c, w) \/ HandlerReturns(c, w) \/ HandlerRejects(c, w) \/ HandlerRetries(c, w)
               \/ TimesOut(c, w) \/ Retry(c, w) \/ SettlementLost(c, w) \/ Fails(c, w) \/ Get(c, w)
        PROVE  Goal
    BY <1>6, <1>b DEF Reserve, HandlerReturns, HandlerRejects, HandlerRetries, TimesOut, Retry,
                      SettlementLost, Fails, Get
  <1>7. ASSUME NEW c \in Consumers, RunStarts(c) \/ Loop(c) \/ SourceEnds(c) PROVE Goal
    BY <1>7, <1>b DEF RunStarts, Loop, PutDelivery, PutEnd, RunEnds, SourceEnds
  <1>8. ASSUME NEW m \in Messages, Deliver(m) \/ Purge(m) PROVE Goal
    BY <1>8, <1>b DEF Deliver, Pull, Admits, Process, Purge
  <1>9. ASSUME NEW c \in Consumers, NEW m \in Messages, PullOversized(c, m) PROVE Goal
    BY <1>9, <1>b DEF PullOversized
  <1>10. CASE UNCHANGED vars
    BY <1>10, <1>b DEF vars
  <1> QED BY <1>2, <1>3, <1>4, <1>5, <1>6, <1>7, <1>8, <1>9, <1>10 DEF Next, Advance, Processing

\* AsyncConsumer implements Effects: over redelivery, lost commit results and
\* acknowledgements, timeouts, crashes and retention, each decision is committed at most
\* once, an acknowledged message was decided and a terminated one is in quarantine.
THEOREM EffectsOnceTheorem == Spec => EffectsOnce
  BY InitPromise, StepPromise, Invariance, PTL DEF Spec, EffectsOnce, Promise!Spec

=============================================================================
