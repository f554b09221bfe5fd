------------------------------ MODULE Consumer ------------------------------
(***************************************************************************)
(* Message consumption (pytitect/aio/runtime.py AsyncConsumer): the intake *)
(* loop `run` with its bounded queue and its workers, direct `process`     *)
(* calls, the unit of work that commits the inbox entry with the decision  *)
(* (pytitect/sqlalchemy/uow.py over SQLAlchemyInboxStore, and the stricter *)
(* pytitect/aio/uow.py, which serialises whole transactions), quarantine   *)
(* (pytitect/aio/quarantine.py) and an at-least-once broker that redelivers *)
(* whatever is not settled, also while it is still being processed.        *)
(*                                                                         *)
(* Time is abstract: a reservation may have expired and a timeout may fire  *)
(* whenever the code looks.  Everything that goes wrong draws on a finite  *)
(* allowance of faults, so that the liveness property says what happens    *)
(* once the faults are over.                                               *)
(***************************************************************************)
EXTENDS Integers, FiniteSets, Sequences

CONSTANTS
    Messages,
    Consumers,           \* AsyncConsumer instances
    Workers,             \* their consume() tasks (concurrency)
    Admitted,            \* min(concurrency + queue_capacity, byte budget)
    QueueCapacity,
    InboxCapacity,       \* InMemoryInboxStore(capacity=...)
    QuarantineCapacity,
    Oversized,           \* messages whose encoding exceeds max_message_bytes
    Unkeepable,          \* messages whose encoding exceeds the policy's max_payload_bytes
    None,                \* no message; the end mark in the queue
    MaxFaults            \* bound on failures, losses, timeouts and crashes

ASSUME ConsumerAssumption ==
    /\ IsFiniteSet(Messages) /\ None \notin Messages
    /\ Oversized \subseteq Messages /\ Unkeepable \subseteq Messages
    /\ IsFiniteSet(Workers) /\ Workers # {}
    /\ {Admitted, QueueCapacity, InboxCapacity, QuarantineCapacity} \subseteq Nat \ {0}
    /\ MaxFaults \in Nat

VARIABLES
    inbox,      \* committed inbox entries; all of them are completed
    decisions,  \* how many decisions were committed for each message
    quarantine, \* messages kept by the RejectedDeliveryStore
    broker,     \* what the broker was told of each message
    running,    \* _running: the intake loop of each consumer
    intake,     \* produce(): its state and the delivery in its hands
    queue,      \* the asyncio.Queue between produce() and consume()
    permits,    \* the admission semaphore
    slots,      \* the delivery each worker, or each process() call, is at
    faults      \* how many faults happened

loop == <<running, intake, queue, permits>>
vars == <<inbox, decisions, quarantine, broker, running, intake, queue, permits,
          slots, faults>>

Idle == [stage |-> "idle", message |-> None]
NoIntake == [stage |-> "stopped", message |-> None]
Ending(marks) == [stage |-> "ending", message |-> None, marks |-> marks]

\* The inbox and the decisions of the units of work, and the quarantine.
StoresEmpty ==
    /\ inbox = {}
    /\ decisions = [m \in Messages |-> 0]
    /\ quarantine = {}

\* AsyncConsumer.__init__: no loop runs and nothing is admitted.
ConsumersIdle ==
    /\ running = [c \in Consumers |-> FALSE]
    /\ intake = [c \in Consumers |-> NoIntake]
    /\ queue = [c \in Consumers |-> << >>]
    /\ permits = [c \in Consumers |-> 0]
    /\ slots = [c \in Consumers |-> [w \in Workers |-> Idle]]

Init ==
    /\ StoresEmpty
    /\ ConsumersIdle
    /\ broker = [m \in Messages |-> "unsettled"]
    /\ faults = 0

At(c, w, stage) == slots[c][w].stage = stage

MessageOf(c, w) == slots[c][w].message

Slot(stage, m) == [stage |-> stage, message |-> m]

Move(c, w, stage) == slots' = [slots EXCEPT ![c][w] = Slot(stage, MessageOf(c, w))]

Fault == faults < MaxFaults /\ faults' = faults + 1

Busy(c) == {w \in Workers : slots[c][w].stage \notin {"idle", "done"}}

----------------------------------------------------------------------------
\* The intake loop.

\* run: refused while it runs or direct processing is under way.
RunStarts(c) ==
    /\ ~running[c]
    /\ Busy(c) = {}
    /\ running' = [running EXCEPT ![c] = TRUE]
    /\ intake' = [intake EXCEPT ![c] = Slot("pulling", None)]
    /\ permits' = [permits EXCEPT ![c] = Admitted]
    /\ UNCHANGED <<inbox, decisions, quarantine, broker, queue, slots, faults>>

\* An exception ends the task group of run() with every delivery in it, unsettled and
\* their transactions rolled back.
Abort(c) ==
    /\ slots' = [slots EXCEPT ![c] = [v \in Workers |-> Idle]]
    /\ running' = [running EXCEPT ![c] = FALSE]
    /\ intake' = [intake EXCEPT ![c] = NoIntake]
    /\ queue' = [queue EXCEPT ![c] = << >>]
    /\ permits' = [permits EXCEPT ![c] = 0]

\* produce: admission first, then the next delivery.
Admits(c, m) ==
    /\ intake[c].stage = "pulling"
    /\ permits[c] > 0
    /\ broker[m] = "unsettled"

\* A delivery over the byte limit is a ValueError in produce().
PullOversized(c, m) ==
    /\ Admits(c, m) /\ m \in Oversized
    /\ Abort(c)
    /\ UNCHANGED <<inbox, decisions, quarantine, broker, faults>>

Pull(c, m) ==
    /\ Admits(c, m) /\ m \notin Oversized
    /\ permits' = [permits EXCEPT ![c] = @ - 1]
    /\ intake' = [intake EXCEPT ![c] = Slot("putting", m)]
    /\ UNCHANGED <<inbox, decisions, quarantine, broker, running, queue, slots, faults>>

PutDelivery(c) ==
    /\ intake[c].stage = "putting"
    /\ Len(queue[c]) < QueueCapacity
    /\ queue' = [queue EXCEPT ![c] = Append(@, intake[c].message)]
    /\ intake' = [intake EXCEPT ![c] = Slot("pulling", None)]
    /\ UNCHANGED <<inbox, decisions, quarantine, broker, running, permits, slots, faults>>

\* The source ends: one end mark per worker follows.
SourceEnds(c) ==
    /\ intake[c].stage = "pulling"
    /\ permits[c] > 0
    /\ Fault
    /\ intake' = [intake EXCEPT ![c] = Ending(Cardinality(Workers))]
    /\ UNCHANGED <<inbox, decisions, quarantine, broker, running, queue, permits, slots>>

PutEnd(c) ==
    /\ intake[c].stage = "ending"
    /\ intake[c].marks > 0
    /\ Len(queue[c]) < QueueCapacity
    /\ queue' = [queue EXCEPT ![c] = Append(@, None)]
    /\ intake' = [intake EXCEPT ![c] = Ending(intake[c].marks - 1)]
    /\ UNCHANGED <<inbox, decisions, quarantine, broker, running, permits, slots, faults>>

\* consume: the end mark ends the worker; a delivery that waited past the handler
\* timeout is handed back, any other is processed.
Get(c, w) ==
    /\ running[c]
    /\ At(c, w, "idle")
    /\ queue[c] # << >>
    /\ LET m == Head(queue[c]) IN
       \/ /\ m = None
          /\ slots' = [slots EXCEPT ![c][w] = Slot("done", None)]
          /\ UNCHANGED faults
       \/ /\ m # None
          /\ slots' = [slots EXCEPT ![c][w] = Slot("reserving", m)]
          /\ UNCHANGED faults
       \/ /\ m # None
          /\ Fault
          /\ slots' = [slots EXCEPT ![c][w] = Slot("retrying", m)]
    /\ queue' = [queue EXCEPT ![c] = Tail(@)]
    /\ UNCHANGED <<inbox, decisions, quarantine, broker, running, intake, permits>>

RunEnds(c) ==
    /\ running[c]
    /\ \A w \in Workers : At(c, w, "done")
    /\ running' = [running EXCEPT ![c] = FALSE]
    /\ intake' = [intake EXCEPT ![c] = NoIntake]
    /\ permits' = [permits EXCEPT ![c] = 0]
    /\ slots' = [slots EXCEPT ![c] = [w \in Workers |-> Idle]]
    /\ UNCHANGED <<inbox, decisions, quarantine, broker, queue, faults>>

\* process: one direct delivery, unless the loop runs or the capacity is taken.  One over
\* the byte limit is a ValueError to the caller, and leaves everything as it is.
Process(c, w, m) ==
    /\ m \notin Oversized
    /\ ~running[c]
    /\ At(c, w, "idle")
    /\ Cardinality(Busy(c)) < Admitted
    /\ broker[m] = "unsettled"
    /\ slots' = [slots EXCEPT ![c][w] = Slot("reserving", m)]
    /\ UNCHANGED <<inbox, decisions, quarantine, broker, loop, faults>>

\* Mutant of consume: the permit is returned only for acknowledged deliveries.
FinishKeepsPermit(c, w) ==
    /\ slots' = [slots EXCEPT ![c][w] = Idle]
    /\ permits' = [permits EXCEPT ![c] =
            IF running[c] /\ At(c, w, "acking") THEN @ + 1 ELSE @]

\* The worker is through with its delivery; consume() returns its permit.
Finish(c, w) ==
    /\ slots' = [slots EXCEPT ![c][w] = Idle]
    /\ permits' = [permits EXCEPT ![c] = IF running[c] THEN @ + 1 ELSE @]

\* Mutant of run: _running is not reset in a finally.
RaiseKeepsRunning(c, w) ==
    \/ /\ ~running[c]
       /\ slots' = [slots EXCEPT ![c][w] = Idle]
       /\ UNCHANGED loop
    \/ /\ running[c]
       /\ slots' = [slots EXCEPT ![c] = [v \in Workers |-> Idle]]
       /\ intake' = [intake EXCEPT ![c] = NoIntake]
       /\ queue' = [queue EXCEPT ![c] = << >>]
       /\ permits' = [permits EXCEPT ![c] = 0]
       /\ UNCHANGED running

\* An exception or a cancellation leaves the delivery unsettled and its
\* transaction rolled back.  In process() it reaches the caller.
Raise(c, w) ==
    \/ /\ ~running[c]
       /\ slots' = [slots EXCEPT ![c][w] = Idle]
       /\ UNCHANGED loop
    \/ running[c] /\ Abort(c)

----------------------------------------------------------------------------
\* _process.

\* Mutant of begin: the inbox row is read without FOR UPDATE and its insertion
\* does not wait for the other transaction.
RowLockedNever(m) == FALSE

\* The transaction that reserved a message holds its inbox row until it ends.
RowLocked(m) ==
    \E c \in Consumers, w \in Workers :
        /\ MessageOf(c, w) = m
        /\ slots[c][w].stage \in {"handling", "committing", "confirming"}

\* reserve_message: InboxDuplicate for a completed entry, which is committed and
\* acknowledged; InboxCapacityExceeded rolls back and asks for a retry.  No entry
\* is ever committed in progress, so InboxInProgress is not met here.
Reserve(c, w) ==
    /\ At(c, w, "reserving")
    /\ ~RowLocked(MessageOf(c, w))
    /\ LET m == MessageOf(c, w) IN
       \/ m \in inbox /\ Move(c, w, "confirming")
       \/ m \notin inbox /\ Cardinality(inbox) >= InboxCapacity /\ Move(c, w, "retrying")
       \/ m \notin inbox /\ Cardinality(inbox) < InboxCapacity /\ Move(c, w, "handling")
    /\ UNCHANGED <<inbox, decisions, quarantine, broker, loop, faults>>

\* The handler returns, the decision is staged and the entry completed in time.
HandlerReturns(c, w) ==
    /\ At(c, w, "handling")
    /\ Move(c, w, "committing")
    /\ UNCHANGED <<inbox, decisions, quarantine, broker, loop, faults>>

\* PermanentProcessingError.
HandlerRejects(c, w) ==
    /\ At(c, w, "handling")
    /\ Move(c, w, "quarantining")
    /\ UNCHANGED <<inbox, decisions, quarantine, broker, loop, faults>>

\* RetryableProcessingError, by the handler or because the reservation expired
\* before complete_message.
HandlerRetries(c, w) ==
    /\ At(c, w, "handling")
    /\ Fault
    /\ Move(c, w, "retrying")
    /\ UNCHANGED <<inbox, decisions, quarantine, broker, loop>>

\* The handler timeout before the commit.  In process() it is a TimeoutError and
\* asks for a retry.  In the loop the timeout of consume(), which counts from
\* admission, is always the first to fire: _process sees a cancellation.
TimesOut(c, w) ==
    /\ slots[c][w].stage \in {"reserving", "handling"}
    /\ Fault
    /\ \/ ~running[c] /\ Move(c, w, "retrying") /\ UNCHANGED loop
       \/ running[c] /\ Raise(c, w)
    /\ UNCHANGED <<inbox, decisions, quarantine, broker>>

\* commit: entry and decision together; nothing for a duplicate.
Committed(c, w) ==
    IF At(c, w, "committing")
    THEN /\ inbox' = inbox \cup {MessageOf(c, w)}
         /\ decisions' = [decisions EXCEPT ![MessageOf(c, w)] = @ + 1]
    ELSE UNCHANGED <<inbox, decisions>>

Commit(c, w) ==
    /\ slots[c][w].stage \in {"committing", "confirming"}
    /\ Committed(c, w)
    /\ Move(c, w, "acking")
    /\ UNCHANGED <<quarantine, broker, loop, faults>>

\* The commit raises or times out and may have taken effect or not; the
\* uncertainty is raised, the delivery neither acknowledged nor handed back.
CommitUncertain(c, w) ==
    /\ slots[c][w].stage \in {"committing", "confirming"}
    /\ Fault
    /\ Committed(c, w) \/ UNCHANGED <<inbox, decisions>>
    /\ Raise(c, w)
    /\ UNCHANGED <<quarantine, broker>>

Tell(m, outcome) ==
    broker' = [broker EXCEPT ![m] = IF @ = "unsettled" THEN outcome ELSE @]

Ack(c, w) ==
    /\ At(c, w, "acking")
    /\ Tell(MessageOf(c, w), "acked")
    /\ Finish(c, w)
    /\ UNCHANGED <<inbox, decisions, quarantine, running, intake, queue, faults>>

\* delivery.retry(): the broker keeps the message.
Retry(c, w) ==
    /\ At(c, w, "retrying")
    /\ Finish(c, w)
    /\ UNCHANGED <<inbox, decisions, quarantine, broker, running, intake, queue, faults>>

\* An acknowledgement or a termination is lost on its way.
SettlementLost(c, w) ==
    /\ slots[c][w].stage \in {"acking", "terminating"}
    /\ Fault
    /\ Finish(c, w)
    /\ UNCHANGED <<inbox, decisions, quarantine, broker, running, intake, queue>>

\* What the quarantine can keep: a record within the policy, whose identity is kept
\* already or for which there is room.
Keepable(m) ==
    /\ m \notin Unkeepable
    /\ m \in quarantine \/ Cardinality(quarantine) < QuarantineCapacity

\* _quarantine_delivery: a refused or failed record hands the delivery back.
Quarantine(c, w) ==
    /\ At(c, w, "quarantining")
    /\ LET m == MessageOf(c, w) IN
       \/ /\ Keepable(m)
          /\ quarantine' = quarantine \cup {m}
          /\ Move(c, w, "terminating")
          /\ UNCHANGED faults
       \/ /\ ~Keepable(m)
          /\ Move(c, w, "retrying")
          /\ UNCHANGED <<quarantine, faults>>
       \/ /\ Fault
          /\ Move(c, w, "retrying")
          /\ UNCHANGED quarantine
    /\ UNCHANGED <<inbox, decisions, broker, loop>>

Terminate(c, w) ==
    /\ At(c, w, "terminating")
    /\ Tell(MessageOf(c, w), "terminated")
    /\ Finish(c, w)
    /\ UNCHANGED <<inbox, decisions, quarantine, running, intake, queue, faults>>

\* Any other exception, a cancellation or the end of the process, at any stage
\* (in a commit: CommitUncertain).
Fails(c, w) ==
    /\ w \in Busy(c)
    /\ slots[c][w].stage \notin {"committing", "confirming"}
    /\ Fault
    /\ Raise(c, w)
    /\ UNCHANGED <<inbox, decisions, quarantine, broker>>

\* Retention (InMemoryInboxStore.purge) with a cutoff behind the redelivery
\* window: the broker settled the message and no delivery of it is left.
Purge(m) ==
    /\ m \in inbox
    /\ broker[m] # "unsettled"
    /\ \A c \in Consumers :
        /\ \A w \in Workers : MessageOf(c, w) # m
        /\ intake[c].message # m
        /\ \A i \in DOMAIN queue[c] : queue[c][i] # m
    /\ inbox' = inbox \ {m}
    /\ UNCHANGED <<decisions, quarantine, broker, loop, slots, faults>>

Deliver(m) ==
    \E c \in Consumers : Pull(c, m) \/ \E w \in Workers : Process(c, w, m)

\* A step of _process.
Processing(c, w) ==
    \/ Reserve(c, w)
    \/ HandlerReturns(c, w)
    \/ HandlerRejects(c, w)
    \/ HandlerRetries(c, w)
    \/ TimesOut(c, w)
    \/ Commit(c, w)
    \/ CommitUncertain(c, w)
    \/ Ack(c, w)
    \/ Retry(c, w)
    \/ SettlementLost(c, w)
    \/ Quarantine(c, w)
    \/ Terminate(c, w)
    \/ Fails(c, w)

Advance(c, w) == Get(c, w) \/ Processing(c, w)

Loop(c) == PutDelivery(c) \/ PutEnd(c) \/ RunEnds(c)

Next ==
    \/ \E m \in Messages : Deliver(m) \/ Purge(m)
    \/ \E c \in Consumers :
        \/ RunStarts(c)
        \/ Loop(c)
        \/ SourceEnds(c)
        \/ \E m \in Messages : PullOversized(c, m)
        \/ \E w \in Workers : Advance(c, w)

Spec == Init /\ [][Next]_vars

\* Every worker and every intake loop keeps being scheduled, retention keeps
\* running, and the broker keeps offering every message it was not told to forget.  Of a
\* message that no consumer takes nothing is assumed: it may come again or stay away.
Fairness ==
    /\ \A c \in Consumers : WF_vars(Loop(c))
    /\ \A c \in Consumers, w \in Workers : WF_vars(Advance(c, w))
    /\ \A m \in Messages : WF_vars(Purge(m)) /\ SF_vars(Deliver(m))

FairSpec == Spec /\ Fairness

----------------------------------------------------------------------------
Stages == {"idle", "done", "reserving", "handling", "committing", "confirming",
           "acking", "retrying", "quarantining", "terminating"}

Intakes ==
    [stage : {"stopped", "pulling", "putting"}, message : Messages \cup {None}]
        \cup [stage : {"ending"}, message : {None}, marks : 0..Cardinality(Workers)]

TypeOK ==
    /\ inbox \subseteq Messages /\ quarantine \subseteq Messages
    /\ decisions \in [Messages -> Nat]
    /\ broker \in [Messages -> {"unsettled", "acked", "terminated"}]
    /\ running \in [Consumers -> BOOLEAN]
    /\ intake \in [Consumers -> Intakes]
    /\ queue \in [Consumers -> Seq(Messages \cup {None})]
    /\ permits \in [Consumers -> Nat]
    /\ slots \in [Consumers -> [Workers -> [stage : Stages, message : Messages \cup {None}]]]
    /\ faults \in 0..MaxFaults

\* The deliveries a consumer retains: in the hands of produce(), queued, or with a
\* worker.
Retained(c) ==
    (IF intake[c].stage = "putting" THEN 1 ELSE 0)
        + Cardinality({i \in DOMAIN queue[c] : queue[c][i] # None})
        + Cardinality(Busy(c))

\* Admission is exact: a consumer never retains more deliveries than admitted, and
\* in the intake loop every delivery it gave up, by whatever way through consume(),
\* makes room for the next (docs/reliability-foundations.md: "The intake loop
\* reserves bounded capacity before pulling the next delivery").
AdmissionExact ==
    \A c \in Consumers :
        IF running[c] THEN Retained(c) + permits[c] = Admitted ELSE Retained(c) <= Admitted

\* The consumer keeps its promise to the broker and the application: whatever is
\* redelivered, lost, timed out or crashed between commit and acknowledgement,
\* each decision is committed at most once, an acknowledged message was decided
\* and a terminated one is in quarantine.
Promise == INSTANCE Effects WITH
    effects <- decisions, rejected <- quarantine, outcome <- broker

EffectsOnce == Promise!Spec

----------------------------------------------------------------------------
\* The inductive invariant that AdmissionExact and EffectsOnce follow from.

\* A delivery of the message is with produce(), in the queue or with a worker.
InHands(m) ==
    \E c \in Consumers :
        \/ \E w \in Workers : MessageOf(c, w) = m
        \/ intake[c].message = m
        \/ \E i \in DOMAIN queue[c] : queue[c][i] = m

\* What the stage of a delivery says of the stores.
SlotsCoherent ==
    \A c \in Consumers, w \in Workers :
        LET m == MessageOf(c, w) IN
        /\ slots[c][w].stage \in {"idle", "done"} <=> m = None
        /\ slots[c][w].stage \in {"handling", "committing"} => m \notin inbox
        /\ At(c, w, "confirming") => m \in inbox
        /\ At(c, w, "acking") => decisions[m] = 1
        /\ At(c, w, "terminating") => m \in quarantine

\* One transaction at a time holds the inbox row of a message.
RowsExclusive ==
    \A c, d \in Consumers, w, v \in Workers :
        /\ MessageOf(c, w) = MessageOf(d, v)
        /\ slots[c][w].stage \in {"handling", "committing", "confirming"}
        /\ slots[d][v].stage \in {"handling", "committing", "confirming"}
        => c = d /\ w = v

\* A decision without its inbox entry was purged: the message cannot come back.
DecisionsRecorded ==
    \A m \in Messages :
        /\ decisions[m] \in {0, 1}
        /\ m \in inbox => decisions[m] = 1
        /\ decisions[m] = 1 => m \in inbox \/ (broker[m] # "unsettled" /\ ~InHands(m))

MarksToPut(c) ==
    IF intake[c].stage = "ending" THEN intake[c].marks ELSE Cardinality(Workers)

\* End marks follow every delivery, and each is still to be put, queued or has ended
\* its worker: when all workers have ended the queue is empty.
LoopCoherent ==
    \A c \in Consumers :
        /\ intake[c].stage = "stopped" <=> ~running[c]
        /\ intake[c].stage = "putting" <=> intake[c].message # None
        /\ ~running[c] => queue[c] = << >> /\ \A w \in Workers : ~At(c, w, "done")
        /\ Len(queue[c]) <= QueueCapacity
        /\ \A i, j \in DOMAIN queue[c] :
            i < j /\ queue[c][i] = None => queue[c][j] = None
        /\ \A w \in Workers, i \in DOMAIN queue[c] : At(c, w, "done") => queue[c][i] = None
        /\ running[c] =>
            MarksToPut(c) + Cardinality({i \in DOMAIN queue[c] : queue[c][i] = None})
                + Cardinality({w \in Workers : At(c, w, "done")}) = Cardinality(Workers)

IInv == /\ TypeOK /\ SlotsCoherent /\ RowsExclusive /\ DecisionsRecorded
        /\ LoopCoherent /\ AdmissionExact

\* The handler rejects the message and the quarantine refuses it: it is handed back.
RejectedInVain(m) ==
    /\ ~Keepable(m)
    /\ \E c \in Consumers, w \in Workers : MessageOf(c, w) = m /\ At(c, w, "quarantining")

\* Once the faults are over every message that fits is settled: no lost delivery, leaked
\* permit, full inbox, blocked queue or held row keeps it in the broker for ever.  Two things
\* do: a handler that rejects it again and again while the quarantine cannot keep it, and a
\* message over the byte limit that again and again ends the loop with all deliveries in it.
AllSettled ==
    \A m \in Messages \ Oversized :
        \/ <>(broker[m] # "unsettled")
        \/ []<>RejectedInVain(m)
        \/ []<><<\E c \in Consumers, o \in Oversized : PullOversized(c, o)>>_vars

\* docs/reliability-foundations.md:33: "Only RetryableProcessingError and a timeout
\* proven before commit request retry": a handler timeout before the commit hands
\* the delivery back.
TimeoutRequestsRetry ==
    [][\A c \in Consumers, w \in Workers : TimesOut(c, w) => At(c, w, "retrying")']_vars

=============================================================================
