---------------------------- MODULE Reservations ----------------------------
(***************************************************************************)
(* The tables whose rows are reservations: replay digests, idempotency     *)
(* records, inbox receipts, leases and outbox claims, as the Django stores *)
(* (pytitect/django/stores.py, django/relay.py) and the SQLAlchemy stores  *)
(* (pytitect/sqlalchemy/stores.py, idempotency.py, relay.py) keep them,    *)
(* and the in-memory replay store (pytitect/security/replay.py).           *)
(*                                                                         *)
(* Every call is a sequence of statements on PostgreSQL at READ COMMITTED: *)
(* a statement sees what is committed, waits for the row another           *)
(* transaction holds, and two statements of a call may see different       *)
(* rows.  The `now` of a call is read before its first wait.  With `outer` *)
(* the transaction is the caller's, spans several calls and ends late.     *)
(***************************************************************************)
EXTENDS WallClock, FiniteSets, Sequences

CONSTANTS
    Sessions,       \* callers, one connection each
    Identities,     \* key, message, resource or digest
    Ttl,            \* lease_ttl, ttl, claim_ttl
    Retention,      \* retention_ttl of a completed idempotency record
    ReplayCapacity, \* of the in-memory replay store
    MaxGrants,      \* bound on the grants a behaviour starts to ask for
    Nobody          \* holds no lock

ASSUME ReservationsAssumption ==
    /\ {Ttl, Retention, ReplayCapacity} \subseteq Nat \ {0}
    /\ MaxClock \in Nat /\ Nobody \notin Sessions

VARIABLES
    table, adapter, outer,  \* which store this is, and whose transaction it is called in
    rows,                   \* identity -> its committed row
    holder,                 \* identity -> the session whose transaction holds its row or its key
    staged,                 \* identity -> the row as its holder's transaction sees it
    call,                   \* session -> the call it is in, and the grant it has
    grants                  \* history: every reservation that was answered to a caller

resVars == <<table, adapter, outer, clock, rows, holder, staged, call, grants>>

Absent == [state |-> "absent", token |-> 0, until |-> 0, avail |-> 0, born |-> 0]

\* `state` stands for state, completed_at, delivered_at, failure_reason, uncertain_at and a
\* null owner; `until` for expires_at and claimed_until; `born` tells an inserted row from
\* the one that was deleted before it.
Rows == [state : {"absent", "reserved", "free", "completed", "uncertain", "failed"},
         token : Nat, until : Nat, avail : Nat, born : Nat]

\* What a caller that is gone has left, and whose time is over.
Abandoned == [Absent EXCEPT !.state = "reserved"]

\* Later than every time of a behaviour.
Forever == MaxClock + Ttl + Retention + 1

Stores == {<<"django", t>> : t \in {"replay", "idempotency", "inbox", "lease", "outbox", "relay"}}
          \cup {<<"sqlalchemy", t>> : t \in {"idempotency", "inbox", "relay"}}
          \cup {<<"memory", "replay">>}

\* What the caller keeps of its reservation.
NoGrant == [index |-> 0, token |-> 0, until |-> 0]
NoCall == [pc |-> "idle", op |-> "none", id |-> 0, now |-> 0, born |-> 0, undo |-> << >>,
           grant |-> NoGrant]

ReservationsInit ==
    /\ \E which \in Stores : adapter = which[1] /\ table = which[2]
    /\ outer \in (IF adapter = "memory" \/ table \in {"outbox", "relay"} THEN {FALSE} ELSE BOOLEAN)
    /\ clock = 0
    /\ rows \in [Identities -> {Absent, Abandoned}]
    /\ holder = [i \in Identities |-> Nobody]
    /\ staged = [i \in Identities |-> Absent]
    /\ call = [s \in Sessions |-> NoCall]
    /\ grants = << >>

----------------------------------------------------------------------------
\* What a transaction does to a row.

At(s, pc) == call[s].pc = pc
Id(s) == call[s].id
Mine(s) == holder[Id(s)] = s
Others(s) == holder[Id(s)] \notin {s, Nobody}

\* The row as the transaction of s sees it.
Row(s) == IF Mine(s) THEN staged[Id(s)] ELSE rows[Id(s)]

Fresh == Len(grants) + 1

Goto(s, pc) == call' = [call EXCEPT ![s].pc = pc]

\* The call returns: the transaction is open as long as it holds a row.
Returned(s, pc, undo, grant) ==
    call' = [call EXCEPT ![s] = [NoCall EXCEPT !.pc = pc, !.undo = undo, !.grant = grant]]

\* What s has done to the grants in this transaction, to be undone when it is rolled back.
Remember(undo, k, grant) ==
    IF k \in DOMAIN undo THEN undo
    ELSE [j \in DOMAIN undo \cup {k} |-> IF j = k THEN grant ELSE undo[j]]

Write(s, row) ==
    /\ staged' = [staged EXCEPT ![Id(s)] = row]
    /\ holder' = [holder EXCEPT ![Id(s)] = s]
    /\ UNCHANGED <<table, adapter, outer, clock, rows>>

\* The row of the reservation, and the answer that grants it to s.
Grant(s, row) ==
    LET grant == [id |-> Id(s), until |-> row.until, status |-> "live", late |-> FALSE] IN
    /\ Write(s, row)
    /\ grants' = Append(grants, grant)
    /\ Returned(s, "open", Remember(call[s].undo, Fresh, [grant EXCEPT !.status = "void", !.until = 0]),
                [index |-> Fresh, token |-> row.token, until |-> row.until])

\* Any other answer leaves the row as it is.
Refuse(s) ==
    /\ Returned(s, IF \E i \in Identities : holder[i] = s THEN "open" ELSE "idle",
                call[s].undo, call[s].grant)
    /\ UNCHANGED <<table, adapter, outer, clock, rows, holder, staged, grants>>

\* The settlement of the grant of s: the row, and what is left of the grant.
Settled(s, row, until, status) ==
    LET k == call[s].grant.index
        newer == {j \in DOMAIN grants : j > k /\ grants[j].id = Id(s) /\ grants[j].status # "void"} IN
    /\ Write(s, row)
    /\ grants' = [grants EXCEPT ![k].until = until, ![k].status = status, ![k].late = newer # {}]
    /\ Returned(s, "open", Remember(call[s].undo, k, grants[k]),
                IF status = "live" THEN [call[s].grant EXCEPT !.until = until] ELSE NoGrant)

\* Mutant of LockedFirst: the row is read without FOR UPDATE.
ReadFirst(s, found, absent) ==
    /\ Goto(s, IF Row(s).state = "absent" THEN absent ELSE found)
    /\ UNCHANGED <<table, adapter, outer, clock, rows, holder, staged, grants>>

\* SELECT ... FOR UPDATE: waits for the holder of a committed row; an insert nobody has
\* committed is not there.  A statement that began before the row was deleted and inserted
\* anew finds neither.
LockedFirst(s, found, absent) ==
    /\ rows[Id(s)].state # "absent" => ~Others(s)
    /\ \/ /\ Row(s).state = "absent" \/ (~Mine(s) /\ Row(s).born # call[s].born)
          /\ Goto(s, absent)
          /\ UNCHANGED <<holder, staged>>
       \/ /\ Row(s).state # "absent"
          /\ holder' = [holder EXCEPT ![Id(s)] = s]
          /\ staged' = [staged EXCEPT ![Id(s)] = Row(s)]
          /\ Goto(s, found)
    /\ UNCHANGED <<table, adapter, outer, clock, rows, grants>>

\* An insert waits for a key that another transaction has inserted, even if it has deleted it
\* again, and for a row that another one has written.
KeySettled(s) == Others(s) => rows[Id(s)].state # "absent" /\ staged[Id(s)] = rows[Id(s)]

\* It collides with a row that is there.
Insert(s, row, collided) ==
    /\ KeySettled(s)
    /\ IF Row(s).state = "absent" THEN Grant(s, row)
       ELSE /\ call' = [call EXCEPT ![s].pc = collided, ![s].born = Row(s).born]
            /\ UNCHANGED <<table, adapter, outer, clock, rows, holder, staged, grants>>

New(s, token) == [state |-> "reserved", token |-> token, until |-> call[s].now + Ttl,
                  avail |-> 0, born |-> Fresh]

\* _create_or_locked() after its IntegrityError, and scalar_one() after the conflict: the
\* row is selected again, and a call that finds it gone raises.
Reselect(s, found) == At(s, "collided") /\ LockedFirst(s, found, "raise")

Asks(s, a, t) == adapter = a /\ table = t /\ call[s].op = "acquire"

----------------------------------------------------------------------------
\* Taking a reservation.

\* DjangoReplayStore.reserve(): what was inserted first wins whatever its age.
DjangoReplayReserve(s) ==
    /\ Asks(s, "django", "replay")
    /\ \/ At(s, "begin") /\ LockedFirst(s, "found", "create")
       \/ /\ At(s, "found") /\ Row(s).until <= call[s].now
          /\ Write(s, Absent) /\ Goto(s, "create") /\ UNCHANGED grants
       \/ At(s, "found") /\ Row(s).until > call[s].now /\ Refuse(s)
       \/ At(s, "create") /\ Insert(s, New(s, Fresh), "collided")
       \/ Reselect(s, "detected")
       \/ At(s, "detected") /\ Refuse(s)

\* InMemoryReplayStore.reserve() purges what has expired and decides under its lock.
MemoryReplayReserve(s) ==
    LET active == {i \in Identities : rows[i].state # "absent" /\ rows[i].until > call[s].now}
        kept == [i \in Identities |-> IF i \in active THEN rows[i] ELSE Absent]
        row == New(s, Fresh)
        taken == Id(s) \notin active /\ Cardinality(active) < ReplayCapacity IN
    /\ Asks(s, "memory", "replay") /\ At(s, "begin")
    /\ rows' = IF taken THEN [kept EXCEPT ![Id(s)] = row] ELSE kept
    /\ grants' = IF taken THEN Append(grants, [id |-> Id(s), until |-> row.until,
                                               status |-> "live", late |-> FALSE])
                 ELSE grants
    /\ call' = [call EXCEPT ![s] = NoCall]
    /\ UNCHANGED <<table, adapter, outer, clock, holder, staged>>

Lapsed(s) == Row(s).until <= call[s].now /\ Row(s).state # "uncertain"

DjangoIdempotencyReserve(s) ==
    /\ Asks(s, "django", "idempotency")
    /\ \/ At(s, "begin") /\ LockedFirst(s, "found", "create")
       \/ At(s, "found") /\ Lapsed(s) /\ Write(s, Absent) /\ Goto(s, "create") /\ UNCHANGED grants
       \/ At(s, "found") /\ ~Lapsed(s) /\ Refuse(s)
       \/ At(s, "create") /\ Insert(s, New(s, Fresh), "collided")
       \/ Reselect(s, "decide")
       \/ At(s, "decide") /\ Refuse(s)

\* The SQL store inserts first, and takes a lapsed record over in place.
SqlIdempotencyReserve(s) ==
    /\ Asks(s, "sqlalchemy", "idempotency")
    /\ \/ At(s, "begin") /\ Insert(s, New(s, Fresh), "collided")
       \/ Reselect(s, "found")
       \/ At(s, "found") /\ Lapsed(s) /\ Grant(s, [New(s, Fresh) EXCEPT !.born = Row(s).born])
       \/ At(s, "found") /\ ~Lapsed(s) /\ Refuse(s)

\* A completed message is a duplicate for ever, a reservation in progress until it expires.
Stalled(s) == Row(s).state # "completed" /\ Row(s).until <= call[s].now

TakeOver(s) == Grant(s, [New(s, Fresh) EXCEPT !.born = Row(s).born])

DjangoInboxBegin(s) ==
    /\ Asks(s, "django", "inbox")
    /\ \/ At(s, "begin") /\ LockedFirst(s, "found", "create")
       \/ At(s, "create") /\ Insert(s, New(s, Fresh), "collided")
       \/ Reselect(s, "found")
       \/ At(s, "found") /\ Stalled(s) /\ TakeOver(s)
       \/ At(s, "found") /\ ~Stalled(s) /\ Refuse(s)

SqlInboxBegin(s) ==
    /\ Asks(s, "sqlalchemy", "inbox")
    /\ \/ At(s, "begin") /\ Insert(s, New(s, Fresh), "collided")
       \/ Reselect(s, "found")
       \/ At(s, "found") /\ Stalled(s) /\ TakeOver(s)
       \/ At(s, "found") /\ ~Stalled(s) /\ Refuse(s)

\* DjangoLeaseStore.acquire(): the fencing token counts the grants of the row.
DjangoLeaseAcquire(s) ==
    LET busy == Row(s).state = "reserved" /\ Row(s).until > call[s].now IN
    /\ Asks(s, "django", "lease")
    /\ \/ At(s, "begin") /\ LockedFirst(s, "found", "create")
       \/ At(s, "create") /\ Insert(s, New(s, 1), "collided")
       \/ Reselect(s, "found")
       \/ At(s, "found") /\ busy /\ Refuse(s)
       \/ /\ At(s, "found") /\ ~busy
          /\ Grant(s, [New(s, Row(s).token + 1) EXCEPT !.born = Row(s).born])

\* An identity that is there is answered as it is, or as a conflict.
OutboxAdd(s) ==
    /\ call[s].op = "add" /\ At(s, "begin")
    /\ KeySettled(s)
    /\ IF Row(s).state = "absent"
       THEN /\ Write(s, [Absent EXCEPT !.state = "free", !.born = Fresh])
            /\ Returned(s, "open", call[s].undo, call[s].grant) /\ UNCHANGED grants
       ELSE Refuse(s)

DjangoOutboxAdd(s) == adapter = "django" /\ table \in {"outbox", "relay"} /\ OutboxAdd(s)
SqlOutboxAdd(s) == adapter = "sqlalchemy" /\ table = "relay" /\ OutboxAdd(s)

\* What a claim may take: pending, due, and claimed by nobody whose claim still runs.
Claimable(row, now) == row.state \in {"free", "reserved"} /\ row.avail <= now /\ row.until <= now

Claims(s) ==
    /\ At(s, "begin")
    /\ \/ ~Others(s) /\ Claimable(Row(s), call[s].now) /\ TakeOver(s)
       \/ Others(s) /\ Refuse(s)
       \/ ~Claimable(Row(s), call[s].now) /\ Refuse(s)

\* DjangoOutboxStore.claim(): the rows others hold are skipped.
DjangoOutboxClaim(s) == Asks(s, "django", "outbox") /\ Claims(s)

\* DjangoRelayStore.claim() and SQLAlchemyOutboxStore.claim() also pass what is uncertain.
DjangoRelayClaim(s) == Asks(s, "django", "relay") /\ Claims(s)
SqlRelayClaim(s) == Asks(s, "sqlalchemy", "relay") /\ Claims(s)

Acquires(s) ==
    \/ DjangoReplayReserve(s) \/ MemoryReplayReserve(s)
    \/ DjangoIdempotencyReserve(s) \/ SqlIdempotencyReserve(s)
    \/ DjangoInboxBegin(s) \/ SqlInboxBegin(s) \/ DjangoLeaseAcquire(s)
    \/ DjangoOutboxAdd(s) \/ SqlOutboxAdd(s) \/ DjangoOutboxClaim(s) \/ DjangoRelayClaim(s) \/ SqlRelayClaim(s)

----------------------------------------------------------------------------
\* Settling a reservation.

Now(s) == call[s].now
Held(s) == call[s].grant

\* One UPDATE or DELETE: a row that does not match is passed, one that does is waited for,
\* and looked at again.
Matching(s, match, Apply) ==
    \/ ~match /\ Refuse(s)
    \/ match /\ ~Others(s) /\ Apply

Settles(s, a, t) == adapter = a /\ table = t /\ At(s, "begin")

\* What the settlements of an idempotency record leave.
IdempotencySettled(s) ==
    LET kept == Now(s) + Retention IN
    \/ /\ call[s].op = "renew"
       /\ Settled(s, [Row(s) EXCEPT !.until = Now(s) + Ttl], Now(s) + Ttl, "live")
    \/ /\ call[s].op = "complete"
       /\ Settled(s, [Row(s) EXCEPT !.state = "completed", !.until = kept], kept, "done")
    \/ /\ call[s].op = "uncertain"
       /\ Settled(s, [Row(s) EXCEPT !.state = "uncertain", !.until = kept], Forever, "done")
    \/ /\ call[s].op = "abandon"
       /\ Settled(s, Absent, 0, "ended")

\* _authority(): the token, still reserved, and not expired at `at`.
HasReservation(s, at) ==
    Row(s).token = Held(s).token /\ Row(s).state = "reserved" /\ Row(s).until > at

DjangoIdempotencySettle(s) ==
    /\ Settles(s, "django", "idempotency") /\ call[s].op # "acquire"
    /\ Matching(s, HasReservation(s, Now(s)), IdempotencySettled(s))

\* FOR UPDATE first, so that the clock is read under the lock.
Lock(s) ==
    /\ rows[Id(s)].state # "absent" => ~Others(s)
    /\ IF Row(s).state = "absent" THEN UNCHANGED <<holder, staged>>
       ELSE /\ holder' = [holder EXCEPT ![Id(s)] = s]
            /\ staged' = [staged EXCEPT ![Id(s)] = Row(s)]
    /\ Goto(s, "locked")
    /\ UNCHANGED <<table, adapter, outer, clock, rows, grants>>

\* _change() locks; abandon() is one DELETE, whose clock may be read before its wait.
SqlIdempotencySettle(s) ==
    /\ adapter = "sqlalchemy" /\ table = "idempotency" /\ call[s].op # "acquire"
    /\ \/ At(s, "begin") /\ call[s].op # "abandon" /\ Lock(s)
       \/ At(s, "locked") /\ Matching(s, HasReservation(s, clock), IdempotencySettled(s))
       \/ /\ At(s, "begin") /\ call[s].op = "abandon"
          /\ \E at \in Now(s)..clock :
                Matching(s, HasReservation(s, at), IdempotencySettled(s))

InboxCompleted(s) ==
    Settled(s, [Row(s) EXCEPT !.state = "completed"], Forever, "done")

\* abandon() deletes the reservation whatever its age.
InboxAbandoned(s) ==
    Matching(s, Row(s).token = Held(s).token /\ Row(s).state = "reserved",
             Settled(s, Absent, 0, "ended"))

DjangoInboxSettle(s) ==
    /\ Settles(s, "django", "inbox")
    /\ \/ /\ call[s].op = "complete"
          /\ Matching(s, HasReservation(s, Now(s)), InboxCompleted(s))
       \/ call[s].op = "abandon" /\ InboxAbandoned(s)

SqlInboxSettle(s) ==
    /\ adapter = "sqlalchemy" /\ table = "inbox" /\ call[s].op # "acquire"
    /\ \/ At(s, "begin") /\ Lock(s)
       \/ /\ At(s, "locked") /\ call[s].op = "complete"
          /\ Matching(s, HasReservation(s, clock), InboxCompleted(s))
       \/ At(s, "locked") /\ call[s].op = "abandon" /\ InboxAbandoned(s)

\* _authoritative(): the lease as it was last answered, and not expired.
Authoritative(s) == HasReservation(s, Now(s)) /\ Row(s).until = Held(s).until

DjangoLeaseSettle(s) ==
    /\ adapter = "django" /\ table = "lease" /\ call[s].op # "acquire"
    /\ \/ At(s, "begin") /\ Lock(s)
       \/ At(s, "locked") /\ ~Authoritative(s) /\ Refuse(s)
       \/ /\ At(s, "locked") /\ Authoritative(s) /\ call[s].op = "renew"
          /\ Settled(s, [Row(s) EXCEPT !.until = Now(s) + Ttl], Now(s) + Ttl, "live")
       \/ /\ At(s, "locked") /\ Authoritative(s) /\ call[s].op = "abandon"
          /\ Settled(s, [Row(s) EXCEPT !.state = "free", !.until = 0], 0, "ended")

\* What the settlements of a claim leave: the claim is cleared in every case, and "retry"
\* stands for defer() too, which leaves the attempt as it is.
Cleared(s, state, avail) ==
    [Row(s) EXCEPT !.state = state, !.token = 0, !.until = 0, !.avail = avail]

ClaimSettled(s) ==
    \/ call[s].op = "complete" /\ Settled(s, Cleared(s, "completed", 0), Forever, "done")
    \/ call[s].op = "failed" /\ Settled(s, Cleared(s, "failed", 0), Forever, "done")
    \/ /\ call[s].op = "retry"
       /\ \E delay \in {0, 1} : Settled(s, Cleared(s, "free", Now(s) + delay), 0, "ended")
    \/ /\ call[s].op = "uncertain"
       /\ Settled(s, [Cleared(s, "uncertain", 0) EXCEPT !.born = Held(s).index], Forever, "done")

\* The synchronous outbox asks for the claim alone: one that has run out settles as well.
DjangoOutboxSettle(s) ==
    /\ Settles(s, "django", "outbox")
    /\ call[s].op \in {"complete", "failed", "retry"}
    /\ Matching(s, Row(s).token = Held(s).token, ClaimSettled(s))

\* resolve_uncertain(): decides once, on the uncertainty the operator has seen.
ResolveUncertain(s) ==
    LET k == Row(s).born
        resolved(row, until, status) ==
            /\ Write(s, row)
            /\ grants' = [grants EXCEPT ![k].until = until, ![k].status = status]
            /\ Returned(s, "open", Remember(call[s].undo, k, grants[k]), Held(s)) IN
    /\ At(s, "begin") /\ call[s].op = "resolve"
    /\ \/ Refuse(s)
       \/ /\ Row(s).state = "uncertain" /\ ~Others(s)
          /\ \/ resolved([Row(s) EXCEPT !.state = "completed"], Forever, "done")
             \/ resolved([Row(s) EXCEPT !.state = "free", !.avail = Now(s)], 0, "ended")

DjangoRelayResolve(s) == adapter = "django" /\ table = "relay" /\ ResolveUncertain(s)
SqlRelayResolve(s) == adapter = "sqlalchemy" /\ table = "relay" /\ ResolveUncertain(s)

RelaySettle(s, a) ==
    /\ adapter = a /\ table = "relay" /\ call[s].op \notin {"acquire", "add", "resolve"}
    /\ \/ At(s, "begin") /\ Lock(s)
       \/ /\ At(s, "locked")
          /\ Matching(s, HasReservation(s, clock) /\ Row(s).until = Held(s).until, ClaimSettled(s))

DjangoRelaySettle(s) == RelaySettle(s, "django")
SqlRelaySettle(s) == RelaySettle(s, "sqlalchemy")

Settlements(s) ==
    \/ DjangoIdempotencySettle(s) \/ SqlIdempotencySettle(s)
    \/ DjangoInboxSettle(s) \/ SqlInboxSettle(s) \/ DjangoLeaseSettle(s)
    \/ DjangoOutboxSettle(s) \/ DjangoRelaySettle(s) \/ SqlRelaySettle(s)
    \/ DjangoRelayResolve(s) \/ SqlRelayResolve(s)

----------------------------------------------------------------------------
\* Callers and their transactions.

IdempotencyOperations == {"acquire", "renew", "complete", "uncertain", "abandon"}
InboxOperations == {"acquire", "complete", "abandon"}
LeaseOperations == {"acquire", "renew", "abandon"}
OutboxOperations == {"add", "acquire", "complete", "failed", "retry"}
RelayOperations == OutboxOperations \cup {"uncertain", "resolve"}

Operations ==
    CASE table = "replay" -> {"acquire"}
      [] table = "idempotency" -> IdempotencyOperations
      [] table = "inbox" -> InboxOperations
      [] table = "lease" -> LeaseOperations
      [] table = "outbox" -> OutboxOperations
      [] table = "relay" -> RelayOperations

CallStore(s, op, i) ==
    /\ At(s, "idle") \/ (outer /\ At(s, "open"))
    /\ op \in Operations
    /\ \/ op = "acquire" /\ Len(grants) < MaxGrants
       \/ op \in {"add", "resolve"}
       \/ Held(s).index # 0 /\ grants[Held(s).index].id = i
    /\ call' = [call EXCEPT ![s] = [@ EXCEPT
           !.pc = "begin", !.op = op, !.id = i, !.now = clock, !.born = rows[i].born]]
    /\ UNCHANGED <<table, adapter, outer, clock, rows, holder, staged, grants>>

Released(s) ==
    /\ holder' = [i \in Identities |-> IF holder[i] = s THEN Nobody ELSE holder[i]]
    /\ staged' = [i \in Identities |-> IF holder[i] = s THEN Absent ELSE staged[i]]
    /\ UNCHANGED <<table, adapter, outer, clock>>

\* A commit whose answer is lost has happened, and leaves the caller without its grant.
Commit(s) ==
    /\ At(s, "open")
    /\ rows' = [i \in Identities |-> IF holder[i] = s THEN staged[i] ELSE rows[i]]
    /\ Released(s)
    /\ \E grant \in {Held(s)} \cup (IF Held(s).index \in DOMAIN call[s].undo THEN {NoGrant} ELSE {}) :
          call' = [call EXCEPT ![s] = [NoCall EXCEPT !.grant = grant]]
    /\ UNCHANGED grants

\* Cancellation, an exception, a lost connection or a deadlock ends a transaction anywhere.
\* A grant of an earlier transaction stays with a caller that lives on.
Rollback(s) ==
    LET undone == [k \in DOMAIN grants |->
            IF k \in DOMAIN call[s].undo THEN call[s].undo[k] ELSE grants[k]]
        k == Held(s).index IN
    /\ At(s, "raise") \/ \E i \in Identities : holder[i] = s
    /\ Released(s)
    /\ grants' = undone
    /\ call' = [call EXCEPT ![s] = [NoCall EXCEPT !.grant =
           IF k # 0 /\ undone[k].status # "void"
           THEN [Held(s) EXCEPT !.until = undone[k].until] ELSE NoGrant]]
    /\ UNCHANGED rows

\* What a maintenance plan with cutoff `clock` selects: nothing that is still reserved, and
\* of the leases nothing at all.  The SQL plan takes no uncertain record.
PurgeableReplay(row) == row.until <= clock

PurgeableIdempotency(row) ==
    row.until <= clock /\ (adapter = "sqlalchemy" => row.state = "completed")

PurgeableInbox(row) == adapter = "django" /\ (row.state = "completed" \/ row.until <= clock)

\* What has failed leaves a Django outbox through the archive.
PurgeableOutbox(row) == row.state = "completed" \/ (adapter = "django" /\ row.state = "failed")

Purgeable(row) ==
    CASE table = "replay" -> PurgeableReplay(row)
      [] table = "idempotency" -> PurgeableIdempotency(row)
      [] table = "inbox" -> PurgeableInbox(row)
      [] table \in {"outbox", "relay"} -> PurgeableOutbox(row)
      [] OTHER -> FALSE

\* A retention plan passes the rows others hold.  What is forgotten excludes nobody any more.
Purge(i) ==
    /\ rows[i].state # "absent" /\ holder[i] = Nobody
    /\ Purgeable(rows[i])
    /\ rows' = [rows EXCEPT ![i] = Absent]
    /\ grants' = [k \in DOMAIN grants |->
           IF grants[k].id = i /\ grants[k].status = "done"
           THEN [grants[k] EXCEPT !.status = "ended", !.until = 0] ELSE grants[k]]
    /\ UNCHANGED <<table, adapter, outer, clock, holder, staged, call>>

ReservationsNext ==
    \/ Tick /\ UNCHANGED <<table, adapter, outer, rows, holder, staged, call, grants>>
    \/ \E i \in Identities : Purge(i)
    \/ \E s \in Sessions :
          \/ \E op \in Operations, i \in Identities : CallStore(s, op, i)
          \/ Acquires(s) \/ Settlements(s) \/ Commit(s) \/ Rollback(s)

ReservationsSpec == ReservationsInit /\ [][ReservationsNext]_resVars

----------------------------------------------------------------------------
\* A grant that still excludes the others.
Active(g, now) == g.status \in {"live", "done"} /\ g.until > now

\* Two callers never have the same identity at once: whatever the order in which statements
\* see, wait and collide, however old the `now` they came with, and whoever rolls back, one
\* grant of an identity runs at most, a completed or uncertain one excludes every later grant,
\* and no settlement takes effect after a newer grant of that identity was given.
GrantExclusive ==
    \A j \in DOMAIN grants :
        /\ ~grants[j].late
        /\ \A k \in DOMAIN grants \ {j} :
              grants[j].id = grants[k].id => ~(Active(grants[j], clock) /\ Active(grants[k], clock))

----------------------------------------------------------------------------
\* Strengthening.  A row is seen in two ways: as its holder's transaction has it, with the grants
\* as they are, and as it is committed, with the grants as a rollback of the holder leaves them.
\* In both, the row of an identity backs the grant of it that runs.

Statuses == {"live", "done", "ended", "void"}

Grants == [id : Identities, until : Nat, status : Statuses, late : {FALSE}]

\* No grant of the identity was given after grant k, or it was undone.
Newest(i, G, k) == \A j \in DOMAIN G : G[j].id = i /\ j > k => G[j].status = "void"

\* The row of a table t keeps others from the grant's identity for as long as the grant runs.
Backs(t, row, g) ==
    \/ g.status = "live" /\ row.state = "reserved" /\ row.until = g.until
    \/ /\ g.status = "done"
       /\ t \in {"idempotency", "inbox", "outbox", "relay"}
       /\ row.state \in {"completed", "uncertain", "failed"}
       /\ t = "idempotency" /\ row.state # "uncertain" => row.until = g.until
       /\ t = "inbox" => row.state = "completed"

\* What a caller has, h, is a grant of the identity that was not undone.
HasGrant(h, i, G) ==
    h.index # 0 /\ h.index \in DOMAIN G /\ G[h.index].id = i /\ G[h.index].status # "void"

\* A row and the grants of its identity fit together, for callers that have what `has` says.
Coherent(t, now, has, i, row, G) ==
    /\ \A k \in DOMAIN G : G[k].id = i /\ Active(G[k], now) => Newest(i, G, k) /\ Backs(t, row, G[k])
    /\ \A s \in DOMAIN has : HasGrant(has[s], i, G) =>
          /\ t = "lease" => row.state # "absent" /\ has[s].token <= row.token
          /\ row.token = has[s].token /\ row.state = "reserved" => Newest(i, G, has[s].index)
    /\ t = "outbox" /\ row.token # 0 => row.state = "reserved"
    /\ t = "relay" /\ row.state = "uncertain" =>
          /\ row.born \in DOMAIN G /\ G[row.born].id = i /\ G[row.born].status # "void"
          /\ Newest(i, G, row.born)

Has == [s \in Sessions |-> call[s].grant]

Seen(i) == IF holder[i] = Nobody THEN rows[i] ELSE staged[i]

\* The grants after a rollback that takes back `undo`.
UndoneBy(G, undo) == [k \in DOMAIN G |-> IF k \in DOMAIN undo THEN undo[k] ELSE G[k]]

Before(i) == IF holder[i] = Nobody THEN grants ELSE UndoneBy(grants, call[holder[i]].undo)

ReservationsTypeOK ==
    /\ <<adapter, table>> \in Stores /\ clock \in Nat
    /\ adapter = "memory" => \A i \in Identities : holder[i] = Nobody
    /\ rows \in [Identities -> Rows] /\ staged \in [Identities -> Rows]
    /\ holder \in [Identities -> Sessions \cup {Nobody}]
    /\ grants \in Seq(Grants)
    /\ DOMAIN call = Sessions

\* Where a call has the row: after LockedFirst found it, and for a lease after Lock.
Deciding(pc) == pc \in {"found", "detected", "decide"} \/ (table = "lease" /\ pc = "locked")

\* What a session is at.
Called(s) ==
    LET c == call[s] IN
    /\ DOMAIN c = {"pc", "op", "id", "now", "born", "undo", "grant"}
    /\ c.now \in Nat /\ c.now <= clock /\ c.born \in Nat
    /\ c.pc \notin {"idle", "open"} => c.id \in Identities
    /\ Deciding(c.pc) => c.id \in Identities /\ holder[c.id] = s

\* The calls that come with a grant.
Settling(op) == op # "acquire" /\ ~(table \in {"outbox", "relay"} /\ op \in {"add", "resolve"})

\* What it has: a grant that was not undone, and the one its settlement is about.
Keeps(s) ==
    LET c == call[s]
        k == c.grant.index IN
    /\ DOMAIN c.grant = {"index", "token", "until"}
    /\ c.grant.token \in Nat
    /\ k # 0 => /\ k \in DOMAIN grants /\ grants[k].status # "void"
                /\ c.grant.token # 0 /\ (table # "lease" => c.grant.token = k)
    /\ k = 0 => c.grant = NoGrant
    /\ c.pc \notin {"idle", "open"} /\ Settling(c.op) =>
          k # 0 /\ grants[k].id = c.id

\* What it would undo: grants of identities it has the rows of.
Undoes(s) ==
    LET undo == call[s].undo IN
    \A j \in DOMAIN undo :
        /\ j \in DOMAIN grants /\ undo[j] \in Grants /\ undo[j].id = grants[j].id
        /\ holder[grants[j].id] = s
        /\ \A o \in Sessions \ {s} : call[o].grant.index = j => undo[j].status # "void"

ReservationsIInv ==
    /\ ReservationsTypeOK
    /\ \A s \in Sessions : Called(s) /\ Keeps(s) /\ Undoes(s)
    /\ \A i \in Identities : /\ Coherent(table, clock, Has, i, Seen(i), grants)
                             /\ Coherent(table, clock, Has, i, rows[i], Before(i))
=============================================================================
