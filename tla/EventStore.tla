----------------------------- MODULE EventStore -----------------------------
(***************************************************************************)
(* Event streams and their snapshots: InMemoryEventStore                   *)
(* (pytitect/event_sourcing.py) and SQLAlchemyEventStore                   *)
(* (pytitect/sqlalchemy/events.py).                                        *)
(*                                                                         *)
(* A writer rehydrates a stream from its snapshot and the pages after it,  *)
(* and appends at the version it saw.  The memory store decides under its  *)
(* lock.  The SQL store takes the row of the log, and the transaction of   *)
(* its caller keeps that row until a commit which may come late or never:  *)
(* a position that is given out becomes visible only with that commit.     *)
(***************************************************************************)
EXTENDS Integers, FiniteSets, Sequences, SequencesExt

CONSTANTS
    Writers,        \* callers of append() and save_snapshot()
    Streams,        \* StreamId
    EventIds,       \* event_id of what is appended
    MaxBatch,       \* bound on the events of one append
    PageSize,       \* limit of read_stream() and read_all()
    EventCapacity   \* of the in-memory store

ASSUME EventStoreAssumption ==
    {MaxBatch, PageSize, EventCapacity} \subseteq Nat \ {0}

VARIABLES
    store,      \* which store this is: "memory" or "sqlalchemy"
    events,     \* the committed events
    position,   \* the committed position of the log row
    snapshots,  \* stream -> its snapshot, version 0 when there is none
    writer      \* what each writer has read, and what its transaction has staged

logVars == <<store, events, position, snapshots, writer>>

StoredEvents == [stream : Streams, stream_version : Nat, global_position : Nat, event_id : EventIds]

\* The state of a snapshot is the events it stands for, in order.
Snapshots == [version : Nat, state : Seq(EventIds)]

NoSnapshot == [version |-> 0, state |-> << >>]

\* `basis` is the version of the snapshot that was loaded.
Idle == [stage |-> "idle"]

View(stage, stream, basis, version, state, staged) ==
    [stage |-> stage, stream |-> stream, basis |-> basis, version |-> version,
     state |-> state, staged |-> staged]

EventStoreInit ==
    /\ store \in {"memory", "sqlalchemy"}
    /\ events = {}
    /\ position = 0
    /\ snapshots = [s \in Streams |-> NoSnapshot]
    /\ writer = [w \in Writers |-> Idle]

----------------------------------------------------------------------------
\* Reading.  A reader sees what is committed, a page at a time.

StreamVersion(s) == Cardinality({e \in events : e.stream = s})

\* The first PageSize rows, in the order of their places: a page of read_stream() or read_all().
FirstPage(place) ==
    LET earlier(e) == {x \in DOMAIN place : place[x] < place[e]}
        first == {e \in DOMAIN place : Cardinality(earlier(e)) < PageSize}
    IN  [i \in 1..Cardinality(first) |-> CHOOSE e \in first : Cardinality(earlier(e)) = i - 1]

\* Mutant of ReadStreamPage: the version that was asked for is in the page.
ReadStreamFrom(s, after) ==
    LET rows == {e \in events : e.stream = s /\ e.stream_version >= after}
    IN  FirstPage([e \in rows |-> e.stream_version])

ReadStreamPage(s, after) ==
    LET rows == {e \in events : e.stream = s /\ e.stream_version > after}
    IN  FirstPage([e \in rows |-> e.stream_version])

\* Mutant of ReadAllPage: the position that was asked for is in the page.
ReadAllFrom(after) ==
    LET rows == {e \in events : e.global_position >= after}
    IN  FirstPage([e \in rows |-> e.global_position])

ReadAllPage(after) ==
    LET rows == {e \in events : e.global_position > after}
    IN  FirstPage([e \in rows |-> e.global_position])

EventIdsOf(page) == [i \in DOMAIN page |-> page[i].event_id]

LoadSnapshot(w, s) ==
    /\ writer[w].stage = "idle"
    /\ writer' = [writer EXCEPT ![w] =
           View("loaded", s, snapshots[s].version, snapshots[s].version,
                snapshots[s].state, << >>)]
    /\ UNCHANGED <<store, events, position, snapshots>>

ReadStream(w) ==
    LET page == ReadStreamPage(writer[w].stream, writer[w].version) IN
    /\ writer[w].stage = "loaded"
    /\ page # << >>
    /\ writer' = [writer EXCEPT
           ![w].version = page[Len(page)].stream_version,
           ![w].state = @ \o EventIdsOf(page)]
    /\ UNCHANGED <<store, events, position, snapshots>>

----------------------------------------------------------------------------
\* Appending and saving snapshots.

\* Mutant of LogFree: the positions come from a sequence nobody locks.
LogNeverLocked(w) == TRUE

\* _lock(): the row of the log is waited for, and stays with the transaction.
LogFree(w) == \A o \in Writers \ {w} : writer[o].stage # "open"

\* The rows an append adds after `actual` versions and `last` positions.
Numbered(s, actual, last, ids) ==
    [i \in DOMAIN ids |->
        [stream |-> s, stream_version |-> actual + i, global_position |-> last + i,
         event_id |-> ids[i]]]

Batches == UNION {{ids \in [1..n -> EventIds] : \A i, j \in 1..n : ids[i] = ids[j] => i = j} :
                  n \in 1..MaxBatch}

\* WrongExpectedVersion is answered to any other writer.
Expected(w) == StreamVersion(writer[w].stream) = writer[w].version

\* DuplicateEventId is answered when one of the identities is in the log.
Unseen(ids) == \A e \in events : e.event_id \notin {ids[i] : i \in DOMAIN ids}

AppendInMemory(w, ids) ==
    /\ store = "memory"
    /\ writer[w].stage = "loaded"
    /\ Expected(w) /\ Unseen(ids)
    /\ Cardinality(events) + Len(ids) <= EventCapacity
    /\ events' = events \cup ToSet(Numbered(writer[w].stream, StreamVersion(writer[w].stream),
                                            Cardinality(events), ids))
    /\ position' = position + Len(ids)
    /\ writer' = [writer EXCEPT ![w] = Idle]
    /\ UNCHANGED <<store, snapshots>>

\* The rows are flushed into the transaction, and wait for its commit.
AppendInTransaction(w, ids) ==
    /\ store = "sqlalchemy"
    /\ writer[w].stage = "loaded"
    /\ LogFree(w)
    /\ Expected(w) /\ Unseen(ids)
    /\ writer' = [writer EXCEPT
           ![w].stage = "open",
           ![w].staged = Numbered(writer[w].stream, StreamVersion(writer[w].stream),
                                  position, ids)]
    /\ UNCHANGED <<store, events, position, snapshots>>

\* A writer that was answered anything else starts again; so does one that had nothing to do.
StartAgain(w) ==
    /\ writer[w].stage = "loaded"
    /\ writer' = [writer EXCEPT ![w] = Idle]
    /\ UNCHANGED <<store, events, position, snapshots>>

SnapshotCurrent(w) ==
    /\ snapshots[writer[w].stream].version = writer[w].basis
    /\ writer[w].version \in 1..StreamVersion(writer[w].stream)

SnapshotTaken(w) == [version |-> writer[w].version, state |-> writer[w].state]

\* The memory store takes any version up to the stream's.
SaveSnapshotInMemory(w) ==
    /\ store = "memory"
    /\ writer[w].stage = "loaded"
    /\ SnapshotCurrent(w)
    /\ snapshots' = [snapshots EXCEPT ![writer[w].stream] = SnapshotTaken(w)]
    /\ writer' = [writer EXCEPT ![w] = Idle]
    /\ UNCHANGED <<store, events, position>>

\* The SQL store refuses a version below the current one, and upserts in the transaction.
SaveSnapshotInTransaction(w) ==
    /\ store = "sqlalchemy"
    /\ writer[w].stage = "loaded"
    /\ LogFree(w)
    /\ SnapshotCurrent(w) /\ writer[w].version >= snapshots[writer[w].stream].version
    /\ writer' = [writer EXCEPT ![w].stage = "open"]
    /\ UNCHANGED <<store, events, position, snapshots>>

\* A transaction holds an append, or else a snapshot.
CommitWriter(w) ==
    /\ writer[w].stage = "open"
    /\ IF writer[w].staged # << >>
       THEN /\ events' = events \cup ToSet(writer[w].staged)
            /\ position' = Last(writer[w].staged).global_position
            /\ UNCHANGED snapshots
       ELSE /\ snapshots' = [snapshots EXCEPT ![writer[w].stream] = SnapshotTaken(w)]
            /\ UNCHANGED <<events, position>>
    /\ writer' = [writer EXCEPT ![w] = Idle]
    /\ UNCHANGED store

\* The transaction is rolled back, or its process dies.
RollbackWriter(w) ==
    /\ writer[w].stage = "open"
    /\ writer' = [writer EXCEPT ![w] = Idle]
    /\ UNCHANGED <<store, events, position, snapshots>>

EventStoreNext ==
    \E w \in Writers :
        \/ \E s \in Streams : LoadSnapshot(w, s)
        \/ ReadStream(w)
        \/ \E ids \in Batches : AppendInMemory(w, ids) \/ AppendInTransaction(w, ids)
        \/ StartAgain(w)
        \/ SaveSnapshotInMemory(w) \/ SaveSnapshotInTransaction(w)
        \/ CommitWriter(w) \/ RollbackWriter(w)

EventStoreSpec == EventStoreInit /\ [][EventStoreNext]_logVars

----------------------------------------------------------------------------
\* The log is gapless: the positions of the committed events are 1, 2, ... up to the position
\* of the log row, the versions of each stream are 1, 2, ... in the order of the positions,
\* and no event_id is twice in it - whoever was late to commit, was refused or rolled back.
LogExact ==
    /\ {e.global_position : e \in events} = 1..position
    /\ Cardinality(events) = position
    /\ \A s \in Streams : {e.stream_version : e \in {x \in events : x.stream = s}} =
                          1..StreamVersion(s)
    /\ \A e, f \in events :
        /\ e.stream = f.stream /\ e.global_position < f.global_position
               => e.stream_version < f.stream_version
        /\ e.event_id = f.event_id => e = f

\* Strengthening: what is staged is what comes next in the log, because one transaction at a time
\* has the log's row and nothing else changes what is committed.
LogTypeOK ==
    /\ events \subseteq StoredEvents /\ IsFiniteSet(events) /\ position \in Nat
    /\ DOMAIN writer = Writers
    /\ \A w \in Writers :
        writer[w] = Idle \/
           /\ DOMAIN writer[w] = {"stage", "stream", "basis", "version", "state", "staged"}
           /\ writer[w].stage \in {"loaded", "open"} /\ writer[w].stream \in Streams

StagedNext(w) ==
    /\ store = "sqlalchemy" /\ LogFree(w)
    /\ \/ writer[w].staged = << >>
       \/ \E ids \in Batches :
             /\ Unseen(ids)
             /\ writer[w].staged = Numbered(writer[w].stream, StreamVersion(writer[w].stream), position, ids)

WritersCoherent ==
    \A w \in Writers :
        /\ writer[w].stage = "loaded" => writer[w].staged = << >>
        /\ writer[w].stage = "open" => StagedNext(w)

LogIInv == LogTypeOK /\ WritersCoherent /\ LogExact

\* The first n events of a stream.
StreamIds(s, n) ==
    [i \in 1..n |-> (CHOOSE e \in events : e.stream = s /\ e.stream_version = i).event_id]

\* A snapshot is never ahead of its stream, and the state rehydrated from it and the pages
\* after it - what a writer decides on - is the first events of the stream, none missed or
\* seen twice, even when the snapshot was replaced and the stream grew between two pages.
RehydrationExact ==
    /\ \A s \in Streams : /\ snapshots[s].version <= StreamVersion(s)
                          /\ snapshots[s].state = StreamIds(s, snapshots[s].version)
    /\ \A w \in Writers : writer[w].stage # "idle" =>
           writer[w].state = StreamIds(writer[w].stream, writer[w].version)

\* Strengthening: what was rehydrated is of versions that the stream has.
SnapshotsTypeOK ==
    /\ DOMAIN snapshots = Streams /\ \A s \in Streams : snapshots[s].version \in Nat
    /\ \A w \in Writers : writer[w].stage # "idle" =>
           writer[w].version \in 0..StreamVersion(writer[w].stream)

RehydrationIInv == LogIInv /\ SnapshotsTypeOK /\ RehydrationExact
=============================================================================
