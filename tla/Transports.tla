----------------------------- MODULE Transports -----------------------------
(***************************************************************************)
(* The transports: EventBridgePublisher, SqsDelivery and SqsDeliverySource *)
(* (pytitect/aws/transport.py), their JetStream counterparts               *)
(* (pytitect/nats/transport.py) and FastStreamNatsDelivery                 *)
(* (pytitect/faststream_nats.py).                                          *)
(*                                                                         *)
(* Tasks of one event loop publish to a bus and settle the deliveries of a *)
(* queue.  A call of the blocking AWS client runs in an executor thread,   *)
(* under a permit of a semaphore, and goes on when the task that awaits it *)
(* is cancelled.  A NATS call is awaited directly and ends with its task.  *)
(* The brokers are external: they do what the code expects of them.        *)
(***************************************************************************)
EXTENDS Integers, FiniteSets, Sequences

CONSTANTS
    Tasks,
    Messages,           \* the messages of the queue
    MaxConcurrency,     \* max_concurrency of publisher and source
    MaxCalls            \* bound on the calls made of a broker

ASSUME TransportsAssumption == {MaxConcurrency, MaxCalls} \subseteq Nat \ {0}

VARIABLES
    transport,  \* "aws", "nats" or "faststream"
    permits,    \* the semaphores: one of the publisher, one of the source and its deliveries
    task,       \* task -> what it waits for
    delivery,   \* task -> the delivery that it settles
    running,    \* the calls at a broker
    queue,      \* message -> where the broker has it, and its last receipt handle
    made,       \* number of calls made
    answers     \* history: the answers to publications, whether the bus had spoken, what it did

transportVars == <<transport, permits, task, delivery, running, queue, made, answers>>

AtRest == [pc |-> "rest", op |-> "none", call |-> 0]
NoDelivery == [message |-> "none", receipt |-> 0, settled |-> FALSE, landed |-> {}]

\* The semaphore that an operation takes its permit from.
Lane(op) == IF op = "publish" THEN "bus" ELSE "queue"

TransportsInit ==
    /\ transport \in {"aws", "nats", "faststream"}
    /\ permits = [lane \in {"bus", "queue"} |-> MaxConcurrency]
    /\ task = [t \in Tasks |-> AtRest]
    /\ delivery = [t \in Tasks |-> NoDelivery]
    /\ running = {}
    /\ queue = [m \in Messages |-> [at |-> "visible", receipt |-> 0]]
    /\ made = 0
    /\ answers = {}

\* What a call is about, when a task begins it.
Submitted(t, op) == [id |-> made + 1, op |-> op, task |-> t, of |-> delivery[t]]

\* The call is at the broker, and the task awaits it.
Submit(t, op) ==
    /\ made < MaxCalls
    /\ made' = made + 1
    /\ running' = running \cup {Submitted(t, op)}
    /\ task' = [task EXCEPT ![t] = [pc |-> "await", op |-> op, call |-> made + 1]]

\* The answer of a publisher that did not reach its bus.
NeverSent == [answer |-> "rejected", heard |-> FALSE, stored |-> FALSE]

\* Begin an operation: AWS first waits for a permit, NATS calls at once.
Start(t, op) ==
    /\ task[t].pc = "rest"
    /\ IF transport = "aws"
       THEN /\ task' = [task EXCEPT ![t] = [pc |-> "acquire", op |-> op, call |-> 0]]
            /\ UNCHANGED <<running, made>>
       ELSE Submit(t, op)
    /\ UNCHANGED <<transport, permits, delivery, queue, answers>>

\* _call(): the permit is taken and the operation handed to the executor.
Call(t) ==
    /\ task[t].pc = "acquire" /\ permits[Lane(task[t].op)] > 0
    /\ permits' = [permits EXCEPT ![Lane(task[t].op)] = @ - 1]
    /\ Submit(t, task[t].op)
    /\ UNCHANGED <<transport, delivery, queue, answers>>

\* _call(): the executor takes no more work; the permit is given back, and the exception, which
\* classify_aws_error() does not know, rejects a publication.
CallRefused(t) ==
    /\ task[t].pc = "acquire" /\ permits[Lane(task[t].op)] > 0
    /\ task' = [task EXCEPT ![t] = AtRest]
    /\ answers' = IF task[t].op = "publish" THEN answers \cup {NeverSent} ELSE answers
    /\ UNCHANGED <<transport, permits, delivery, running, queue, made>>

\* Mutant of Cancel: cancelling the await gives the permit back at once.
CancelReleases(t) ==
    /\ task[t].pc = "await" /\ transport = "aws"
    /\ permits' = [permits EXCEPT ![Lane(task[t].op)] = @ + 1]
    /\ task' = [task EXCEPT ![t] = AtRest]
    /\ UNCHANGED <<transport, delivery, running, queue, made, answers>>

\* The task is cancelled, by a timeout or a shutdown, and does not see the end of its call.  The
\* executor's call is shielded; a NATS request that was sent may still reach the broker.
Cancel(t) ==
    /\ task[t].pc # "rest"
    /\ task' = [task EXCEPT ![t] = AtRest]
    /\ UNCHANGED <<transport, permits, delivery, running, queue, made, answers>>

----------------------------------------------------------------------------
\* Publications.

\* publish(): refused before any call (profile or destination of another bus, no destination).
PublishRefused(t) ==
    /\ transport # "faststream" /\ task[t].pc = "rest"
    /\ answers' = answers \cup {NeverSent}
    /\ UNCHANGED <<transport, permits, task, delivery, running, queue, made>>

Publish(t) == transport # "faststream" /\ Start(t, "publish")

\* How a publication may end: whether the bus was heard, and whether it has stored the event.
\* An explicit refusal means that it has not.  An answer without an identity ("anonymous"), one
\* that names no entry ("unnamed"), an internal failure of the service, a lost answer and an
\* exception that the publisher does not know ("unknown": an answer that cannot be parsed, an
\* encoding error) say nothing.  That a service is unavailable is an answer of AWS, and the
\* absence of one from NATS.
Endings ==
    {[kind |-> "acknowledged", heard |-> TRUE, stored |-> TRUE]} \cup
    [kind : {"anonymous", "unnamed", "internal"}, heard : {TRUE}, stored : BOOLEAN] \cup
    [kind : {"throttled", "no_responders", "refused"}, heard : {TRUE}, stored : {FALSE}] \cup
    [kind : {"timeout", "connection", "unknown"}, heard : {FALSE}, stored : BOOLEAN] \cup
    [kind : {"unavailable"}, heard : {transport = "aws"}, stored : BOOLEAN]

\* classify_aws_error(), and publish() with the entries of an answer.
ClassifiedAws(kind) ==
    CASE kind = "acknowledged" -> "confirmed"
      [] kind \in {"anonymous", "timeout", "connection"} -> "uncertain"
      [] kind \in {"throttled", "unavailable", "internal"} -> "retryable"
      [] OTHER -> "rejected"

\* classify_nats_publication_error(), and publish() with an acknowledgement.
ClassifiedNats(kind) ==
    CASE kind = "acknowledged" -> "confirmed"
      [] kind = "no_responders" -> "retryable"
      [] kind \in {"anonymous", "timeout", "connection", "unavailable"} -> "uncertain"
      [] OTHER -> "rejected"

Classified(kind) == IF transport = "aws" THEN ClassifiedAws(kind) ELSE ClassifiedNats(kind)

Answer(ending) == [answer |-> Classified(ending.kind), heard |-> ending.heard, stored |-> ending.stored]

\* The call leaves the executor: the done callback releases its permit, whoever awaits it.
Leave(call) ==
    /\ running' = running \ {call}
    /\ permits' = IF transport = "aws" THEN [permits EXCEPT ![Lane(call.op)] = @ + 1] ELSE permits

StillAwaited(call) == task[call.task].pc = "await" /\ task[call.task].call = call.id

Resume(call) == task' = IF StillAwaited(call) THEN [task EXCEPT ![call.task] = AtRest] ELSE task

PublishEnds(call, ending) ==
    /\ call.op = "publish"
    /\ Leave(call) /\ Resume(call)
    /\ answers' = IF StillAwaited(call)
                  THEN answers \cup {Answer(ending)}
                  ELSE answers
    /\ UNCHANGED <<transport, delivery, queue, made>>

----------------------------------------------------------------------------
\* Deliveries.

\* deliveries(): a source is asked for the next message.
Receive(t) == delivery[t] = NoDelivery /\ transport # "faststream" /\ Start(t, "receive")

\* The broker hands out a message with a new receipt handle.  A cancelled receive leaves it
\* taken, with nobody to settle it.
ReceiveEnds(call, m) ==
    /\ call.op = "receive" /\ queue[m].at = "visible"
    /\ Leave(call) /\ Resume(call)
    /\ queue' = [queue EXCEPT ![m] = [at |-> "taken", receipt |-> @.receipt + 1]]
    /\ delivery' = IF StillAwaited(call)
                   THEN [delivery EXCEPT ![call.task] =
                            [NoDelivery EXCEPT !.message = m, !.receipt = queue'[m].receipt]]
                   ELSE delivery
    /\ UNCHANGED <<transport, made, answers>>

\* FastStream calls handle() with a message it has received.
Handle(t, m) ==
    /\ transport = "faststream" /\ task[t].pc = "rest" /\ delivery[t] = NoDelivery
    /\ queue[m].at = "visible" /\ queue[m].receipt < MaxCalls
    /\ queue' = [queue EXCEPT ![m] = [at |-> "taken", receipt |-> @.receipt + 1]]
    /\ delivery' = [delivery EXCEPT ![t] = [NoDelivery EXCEPT !.message = m, !.receipt = queue'[m].receipt]]
    /\ UNCHANGED <<transport, permits, task, running, made, answers>>

\* The empty answer of a long poll, or an error.
ReceiveFails(call) ==
    /\ call.op = "receive"
    /\ Leave(call) /\ Resume(call)
    /\ UNCHANGED <<transport, delivery, queue, made, answers>>

Unsettled(t) == delivery[t] # NoDelivery /\ ~delivery[t].settled

\* ack() and terminate() are the same request to SQS, _delete().
Ack(t) == Unsettled(t) /\ Start(t, "ack")
Terminate(t) == Unsettled(t) /\ Start(t, "terminate")

\* retry(): without a delay SQS is not called, the visibility timeout brings the message back.
Retry(t) == Unsettled(t) /\ Start(t, "retry")

\* The operations that set _settled once their call has succeeded.
SettledBy(op) == transport # "aws" \/ op \in {"ack", "terminate"}

\* What a broker does with a settlement: it takes it when the receipt is the last one, and may
\* take it when the message has been delivered again.
Taken(of, op) ==
    LET now == [queue EXCEPT ![of.message].at = IF op = "retry" THEN "visible" ELSE "gone"]
    IN CASE queue[of.message].at = "gone" -> {queue}
         [] queue[of.message] = [at |-> "taken", receipt |-> of.receipt] -> {now}
         [] OTHER -> {queue, now}

\* The delivery after its call: another one that the task has by now is left alone.
AfterCall(d, call, landed, ok) ==
    IF d.receipt = call.of.receipt /\ d.message = call.of.message
    THEN [d EXCEPT !.landed = IF landed THEN @ \cup {call.op} ELSE @,
                   !.settled = @ \/ (ok /\ StillAwaited(call) /\ SettledBy(call.op))]
    ELSE d

\* SQS answers a settlement.  An error does not tell whether it landed, and neither does the
\* return of a NATS client's ack(), nak() or term(): it has sent the message, no more.
SettleEnds(call, ok) ==
    /\ call.op \in {"ack", "terminate", "retry"}
    /\ Leave(call) /\ Resume(call)
    /\ \E landed \in (IF ok /\ transport = "aws" THEN {TRUE} ELSE BOOLEAN) :
          /\ queue' \in (IF landed THEN Taken(call.of, call.op) ELSE {queue})
          /\ delivery' = [delivery EXCEPT ![call.task] = AfterCall(@, call, landed, ok)]
    /\ UNCHANGED <<transport, made, answers>>

\* The handler is done with its delivery, settled or not.
Drop(t) ==
    /\ task[t].pc = "rest" /\ delivery[t] # NoDelivery
    /\ delivery' = [delivery EXCEPT ![t] = NoDelivery]
    /\ UNCHANGED <<transport, permits, task, running, queue, made, answers>>

\* The visibility timeout, or ack_wait.
Redeliver(m) ==
    /\ queue[m].at = "taken"
    /\ queue' = [queue EXCEPT ![m].at = "visible"]
    /\ UNCHANGED <<transport, permits, task, delivery, running, made, answers>>

TransportsNext ==
    \/ \E t \in Tasks :
          \/ Call(t) \/ CallRefused(t) \/ Cancel(t)
          \/ PublishRefused(t) \/ Publish(t) \/ Receive(t)
          \/ Ack(t) \/ Terminate(t) \/ Retry(t) \/ Drop(t)
          \/ \E m \in Messages : Handle(t, m)
    \/ \E call \in running :
          \/ \E ending \in Endings : PublishEnds(call, ending)
          \/ \E m \in Messages : ReceiveEnds(call, m)
          \/ ReceiveFails(call)
          \/ \E ok \in BOOLEAN : SettleEnds(call, ok)
    \/ \E m \in Messages : Redeliver(m)

TransportsSpec == TransportsInit /\ [][TransportsNext]_transportVars

----------------------------------------------------------------------------
\* What a transport says is so.  A publication answered as confirmed is stored, and one that is
\* to be tried again was answered by the bus: silence is never taken for a refusal that authorizes
\* a retry.  ("Rejected" says nothing of what is stored: the publishers also reject what they do
\* not understand.)  An SQS delivery that refuses further settlements has been deleted, whatever
\* else is still in flight.  And every call in the executor has a permit, cancelled or not, that
\* comes back exactly once: permits and running calls always add up to max_concurrency.
TransportExact ==
    /\ \A a \in answers :
          /\ a.answer = "confirmed" => a.stored
          /\ a.answer = "retryable" => a.heard
    /\ transport = "aws" =>
          /\ \A t \in Tasks : delivery[t].settled => delivery[t].landed \cap {"ack", "terminate"} # {}
          /\ \A lane \in {"bus", "queue"} :
             permits[lane] + Cardinality({call \in running : Lane(call.op) = lane}) = MaxConcurrency

\* Strengthening: a call has an id of its own, so that it is counted, and leaves, once.
TransportsTypeOK ==
    /\ transport \in {"aws", "nats", "faststream"}
    /\ made \in Nat /\ IsFiniteSet(running)
    /\ \A call \in running : call.id \in 1..made /\ call.task \in Tasks
    /\ permits \in [{"bus", "queue"} -> Int]
    /\ DOMAIN delivery = Tasks
    /\ \A t \in Tasks : DOMAIN delivery[t] = {"message", "receipt", "settled", "landed"}

TransportsIInv == TransportsTypeOK /\ TransportExact
=============================================================================
