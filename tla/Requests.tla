------------------------------ MODULE Requests ------------------------------
(***************************************************************************)
(* Requests that are executed once: DjangoTransactionalOperation           *)
(* (pytitect/django/transactions.py) and SQLAlchemyIdempotentRequest       *)
(* (pytitect/sqlalchemy/idempotency.py) write the idempotency record, the  *)
(* effect, the receipt and the outbox row in one transaction.              *)
(*                                                                         *)
(* A commit may raise while the database has committed, has aborted, or is *)
(* still to decide.  One detail is left to Reservations: when its insert   *)
(* collides, the Django store decides on the row it then finds without     *)
(* comparing its expiry again, where Reserve takes an expired record over. *)
(***************************************************************************)
EXTENDS Receipts, Sequences

CONSTANTS
    Clients,        \* callers of execute()
    Fingerprints,   \* of the requests made under the one key
    MessageIds,     \* of the outbox rows
    ExecutionTtl,   \* execution_lease_ttl
    ResultTtl,      \* result_retention_ttl
    MaxAttempts     \* bound on the executions begun

ASSUME RequestsAssumption == {ExecutionTtl, ResultTtl} \subseteq Nat \ {0}

VARIABLES
    record,     \* the committed idempotency record of the key
    effects,    \* attempts whose mutation is committed
    outbox,     \* message id -> the attempt that added it, 0 when absent
    client,     \* client -> where its execution is, and what it has staged
    attempts,   \* history: attempt -> what was asked, and when it was reserved and completed
    told        \* history: the answers that were given

reqVars == <<clock, backend, record, effects, receipts, outbox, client, reader, attempts, told>>

NoRecord == [state |-> "absent", fingerprint |-> 0, value |-> 0, until |-> 0]
Away == [pc |-> "idle", attempt |-> 0, receipt |-> 0, message |-> 0, created |-> 0, until |-> 0]

RequestsInit ==
    /\ ReceiptsInit
    /\ record = NoRecord
    /\ effects = {}
    /\ outbox = [m \in MessageIds |-> 0]
    /\ client = [c \in Clients |-> Away]
    /\ attempts = << >>
    /\ told = {}

----------------------------------------------------------------------------
Goes(c, pc) == client' = [client EXCEPT ![c].pc = pc]

Tell(c, answer, value) ==
    told' = told \cup {[attempt |-> client[c].attempt, answer |-> answer, value |-> value]}

\* Mutant of KeyFree: the record is read without a lock.
KeyNeverLocked(c) == TRUE

\* reserve() waits for the transaction that has inserted or locked the record.
KeyFree(c) == \A o \in Clients \ {c} : client[o].pc \in {"idle", "asked", "reconcile"}

Expired(rec, now) == rec.state = "absent" \/ rec.until <= now

\* _decision(): a record that holds answers, whatever is asked under its key.
Decision(rec, fingerprint) ==
    IF rec.fingerprint # fingerprint THEN "conflict" ELSE "replay"

\* execute(): the time of the reservation is read before the key is waited for.
Execute(c, fingerprint) ==
    /\ backend # "memory"
    /\ client[c].pc = "idle"
    /\ Len(attempts) < MaxAttempts
    /\ attempts' = Append(attempts, [fingerprint |-> fingerprint, reserved |-> clock,
                                     completed |-> 0])
    /\ client' = [client EXCEPT ![c] = [Away EXCEPT
           !.pc = "asked", !.attempt = Len(attempts) + 1, !.created = clock]]
    /\ UNCHANGED <<clock, backend, record, effects, receipts, outbox, reader, told>>

Reserve(c) ==
    LET now == client[c].created
        asked == attempts[client[c].attempt].fingerprint IN
    /\ client[c].pc = "asked"
    /\ KeyFree(c)
    /\ IF Expired(record, now)
       THEN /\ client' = [client EXCEPT ![c].pc = "execute", ![c].until = now + ExecutionTtl]
            /\ UNCHANGED told
       ELSE /\ client' = [client EXCEPT ![c] = Away]
            /\ Tell(c, Decision(record, asked), record.value)
    /\ UNCHANGED <<clock, backend, record, effects, receipts, outbox, reader, attempts>>

\* The transaction ends without effect: an exception of the caller's code, a lost
\* connection, cancellation.
Fails(c) ==
    /\ client[c].pc \in {"asked", "execute", "mutated", "added", "completed", "commit"}
    /\ client' = [client EXCEPT ![c] = Away]
    /\ UNCHANGED <<clock, backend, record, effects, receipts, outbox, reader, attempts, told>>

\* An identity that another transaction has inserted is waited for.
Inserted(c) ==
    CASE client[c].pc \in {"idle", "asked", "execute", "reconcile"} -> {}
      [] client[c].pc \in {"mutated", "completed"} ->
            IF backend = "django" THEN {} ELSE {client[c].message}
      [] OTHER -> {client[c].receipt, client[c].message}

Awaited(c, r, m) == \E o \in Clients \ {c} : Inserted(o) \cap {r, m} # {}

\* mutate(): the effect is in the transaction, in the SQL request the outbox row with it.
Mutate(c, r, m) ==
    /\ client[c].pc = "execute"
    /\ backend = "sqlalchemy" => ~Awaited(c, 0, m) /\ outbox[m] = 0
    /\ client' = [client EXCEPT ![c].pc = "mutated", ![c].receipt = r, ![c].message = m,
                                ![c].created = clock]
    /\ UNCHANGED <<clock, backend, record, effects, receipts, outbox, reader, attempts, told>>

RolledBack(c) == client' = [client EXCEPT ![c] = Away] /\ Tell(c, "rolled back", 0)

\* receipts.add() and outbox.add(): an identity that is there rolls everything back.
AddRows(c) ==
    LET r == client[c].receipt
        m == client[c].message IN
    /\ client[c].pc = IF backend = "django" THEN "mutated" ELSE "completed"
    /\ ~Awaited(c, r, m)
    /\ IF receipts[r] = NoReceipt /\ outbox[m] = 0
       THEN /\ client' = [client EXCEPT ![c].pc = IF backend = "django" THEN "added" ELSE "commit"]
            /\ UNCHANGED told
       ELSE RolledBack(c)
    /\ UNCHANGED <<clock, backend, record, effects, receipts, outbox, reader, attempts>>

\* complete(): the execution lease must still run.  Django asks at the end, SQL before the
\* receipt is added.
Complete(c) ==
    /\ client[c].pc = IF backend = "django" THEN "added" ELSE "mutated"
    /\ IF client[c].until > clock
       THEN /\ client' = [client EXCEPT ![c].pc = IF backend = "django" THEN "commit" ELSE "completed"]
            /\ attempts' = [attempts EXCEPT ![client[c].attempt].completed = clock]
            /\ UNCHANGED told
       ELSE RolledBack(c) /\ UNCHANGED attempts
    /\ UNCHANGED <<clock, backend, record, effects, receipts, outbox, reader>>

\* What the database commits, all of it or nothing.
Committed(c) ==
    LET n == client[c].attempt
        at == attempts[n].completed IN
    /\ record' = [state |-> "completed", fingerprint |-> attempts[n].fingerprint, value |-> n,
                  until |-> at + ResultTtl]
    /\ effects' = effects \cup {n}
    /\ receipts' = [receipts EXCEPT ![client[c].receipt] =
           [state |-> "completed", created |-> client[c].created, updated |-> at, result |-> n]]
    /\ outbox' = [outbox EXCEPT ![client[c].message] = n]
    /\ UNCHANGED <<clock, backend, reader, attempts>>

Commits(c) ==
    /\ client[c].pc = "commit"
    /\ Committed(c)
    /\ client' = [client EXCEPT ![c] = Away]
    /\ Tell(c, "committed", client[c].attempt)

\* The commit raises, and the database decides after that.  The SQL request reconciles, the
\* Django one lets the exception out.
CommitRaises(c) ==
    /\ client[c].pc = "commit"
    /\ Goes(c, IF backend = "sqlalchemy" THEN "doubt" ELSE "deaf")
    /\ UNCHANGED <<clock, backend, record, effects, receipts, outbox, reader, attempts, told>>

Decided(c) == client' = [client EXCEPT ![c] =
    IF client[c].pc = "doubt" THEN [Away EXCEPT !.pc = "reconcile", !.attempt = client[c].attempt]
    ELSE Away]

DatabaseCommits(c) ==
    /\ client[c].pc \in {"doubt", "told", "deaf"}
    /\ Committed(c) /\ Decided(c) /\ UNCHANGED told

DatabaseAborts(c) ==
    /\ client[c].pc \in {"doubt", "told", "deaf"}
    /\ Decided(c)
    /\ UNCHANGED <<clock, backend, record, effects, receipts, outbox, reader, attempts, told>>

\* reconcile(): a plain read in a new session.  No record is no evidence, and a session that
\* fails is none either.
Reconcile(c) ==
    LET asked == attempts[client[c].attempt].fingerprint IN
    /\ client[c].pc \in {"doubt", "reconcile"}
    /\ client' = IF client[c].pc = "doubt" THEN [client EXCEPT ![c].pc = "told"]
                 ELSE [client EXCEPT ![c] = Away]
    /\ \/ Tell(c, "uncertain", 0)
       \/ ~Expired(record, clock) /\ Tell(c, Decision(record, asked), record.value)
    /\ UNCHANGED <<clock, backend, record, effects, receipts, outbox, reader, attempts>>

RequestsNext ==
    \/ Tick /\ UNCHANGED <<backend, record, effects, receipts, outbox, client, reader, attempts, told>>
    \/ \E c \in Clients :
          \/ \E f \in Fingerprints : Execute(c, f)
          \/ \E r \in ReceiptIds, m \in MessageIds : Mutate(c, r, m)
          \/ Reserve(c) \/ AddRows(c) \/ Complete(c) \/ Fails(c) \/ Commits(c) \/ CommitRaises(c)
          \/ DatabaseCommits(c) \/ DatabaseAborts(c) \/ Reconcile(c)

RequestsSpec == RequestsInit /\ [][RequestsNext]_reqVars

----------------------------------------------------------------------------
\* The receipts and the outbox rows of requests are those of the effects, one each; a key has
\* one effect within the retention of its result; and no answer claims what is not so, also
\* after a commit that raised and whatever the database decided then: "committed" and "replay"
\* name an effect of the same request, "conflict" one of another, and a rolled back attempt has
\* no effect.
RequestsExact ==
    /\ \A n \in DOMAIN attempts :
          /\ n \in effects <=> \E r \in ReceiptIds : receipts[r].result = n
          /\ n \in effects <=> \E m \in MessageIds : outbox[m] = n
    /\ \A n, k \in effects :
          n # k => \/ attempts[n].completed + ResultTtl <= attempts[k].reserved
                   \/ attempts[k].completed + ResultTtl <= attempts[n].reserved
    /\ \A a \in told :
          /\ a.answer \in {"committed", "replay"} =>
                /\ a.value \in effects
                /\ attempts[a.value].fingerprint = attempts[a.attempt].fingerprint
          /\ a.answer = "conflict" =>
                /\ a.value \in effects
                /\ attempts[a.value].fingerprint # attempts[a.attempt].fingerprint
          /\ a.answer = "rolled back" => a.attempt \notin effects
----------------------------------------------------------------------------
\* Strengthening.

Attempts == [fingerprint : Fingerprints, reserved : Nat, completed : Nat]

RequestsTypeOK ==
    /\ clock \in Nat
    /\ attempts \in Seq(Attempts) /\ \A n \in DOMAIN attempts : attempts[n].reserved <= clock
    /\ effects \subseteq DOMAIN attempts
    /\ \A a \in told : a.attempt \in DOMAIN attempts
    /\ DOMAIN client = Clients /\ DOMAIN receipts = ReceiptIds /\ DOMAIN outbox = MessageIds

\* Whether the attempt may still take effect, and whether it has the key.
Undecided(pc) == pc \notin {"idle", "reconcile"}
Holding(pc) == pc \notin {"idle", "asked", "reconcile"}

\* A holder was reserved after the retention of every effect there is, what it is going to
\* commit has not been answered as rolled back, and the identities it has added are its own.
ClientCoherent(b) ==
    /\ DOMAIN b = {"pc", "attempt", "receipt", "message", "created", "until"}
    /\ b.pc # "idle" => b.attempt \in DOMAIN attempts
    /\ b.pc = "asked" => b.created = attempts[b.attempt].reserved
    /\ Undecided(b.pc) =>
        /\ b.attempt \notin effects
        /\ \A a \in told : a.answer = "rolled back" => a.attempt # b.attempt
    /\ Holding(b.pc) =>
        \A n \in effects : attempts[n].completed + ResultTtl <= attempts[b.attempt].reserved
    /\ Holding(b.pc) /\ b.pc # "execute" => b.receipt \in ReceiptIds /\ b.message \in MessageIds
    /\ b.pc \in {"added", "commit", "doubt", "told", "deaf"} =>
        receipts[b.receipt] = NoReceipt /\ outbox[b.message] = 0
    /\ b.pc \in {"completed", "commit", "doubt", "told", "deaf"} =>
        attempts[b.attempt].reserved <= attempts[b.attempt].completed

ClientsApart ==
    \A c, d \in Clients : c # d =>
        /\ ~(Holding(client[c].pc) /\ Holding(client[d].pc))
        /\ client[c].pc # "idle" /\ client[d].pc # "idle" => client[c].attempt # client[d].attempt

\* The record is of the effect whose result is retained longest.
RecordLatest ==
    IF record.state = "absent" THEN effects = {}
    ELSE /\ record.value \in effects /\ record.until \in Nat
         /\ record.fingerprint = attempts[record.value].fingerprint
         /\ \A n \in effects : attempts[n].completed + ResultTtl <= record.until

RowsOfEffects ==
    /\ \A r \in ReceiptIds : receipts[r].result \in effects \cup {0}
    /\ \A m \in MessageIds : outbox[m] \in effects \cup {0}

RequestsIInv ==
    /\ RequestsTypeOK /\ (\A c \in Clients : ClientCoherent(client[c])) /\ ClientsApart
    /\ RecordLatest /\ RowsOfEffects /\ RequestsExact
=============================================================================
