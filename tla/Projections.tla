---------------------------- MODULE Projections ----------------------------
(***************************************************************************)
(* Projections of the event log and their rebuilds: ProjectionRuntime and  *)
(* InMemoryProjectionStore (pytitect/projections.py), the asynchronous     *)
(* runtime (pytitect/aio/projections.py) and SQLAlchemyProjectionStore     *)
(* (pytitect/sqlalchemy/projections.py), on the event store they read.     *)
(*                                                                         *)
(* project_once() loads a projection, reads a page and applies it to the   *)
(* checkpoint it loaded; resume_rebuild() does the same with the progress  *)
(* of a rebuild, and its last page replaces the live projection.  Writers, *)
(* projectors and rebuilds of two reducer versions go on in between.       *)
(***************************************************************************)
EXTENDS EventStore

CONSTANTS
    Projectors,   \* callers of project_once() and resume_rebuild()
    Versions,     \* versions of the reducer
    Runs,         \* run_id of rebuilds
    NoRun,
    MaxThrough    \* bound on the watermark of a rebuild

ASSUME ProjectionsAssumption ==
    /\ Versions \subseteq Nat \ {0}
    /\ NoRun \notin Runs
    /\ MaxThrough \in Nat

VARIABLES
    projection,  \* the live projection
    rebuilds,    \* run -> its progress
    worker       \* what each projector is at

projectionVars == <<projection, rebuilds, worker>>

vars == <<store, events, position, snapshots, writer, projection, rebuilds, worker>>

\* What a reducer of a version makes of an event is that pair; the state is all of them.
States == Seq(Versions \X EventIds)

Reduce(state, version, page) == state \o [i \in DOMAIN page |-> <<version, page[i].event_id>>]

\* version 0: there is no projection yet.
ProjectionStates == [version : Versions, checkpoint : Nat, state : States]

NoProjection == [version |-> 0, checkpoint |-> 0, state |-> << >>]

RebuildRuns == [projection_version : Versions, through_position : Nat, next_position : Nat,
                state : States, status : {"running", "completed"}]

NoRebuild == [status |-> "absent"]

Work(stage, run, version, from, state, page) ==
    [stage |-> stage, run |-> run, version |-> version, from |-> from, state |-> state,
     page |-> page]

ProjectionsInit ==
    /\ projection = NoProjection
    /\ rebuilds = [r \in Runs |-> NoRebuild]
    /\ worker = [p \in Projectors |-> Idle]

Becomes(p, stage) == worker' = [worker EXCEPT ![p].stage = stage]

Returns(p) == worker' = [worker EXCEPT ![p] = Idle]

NextPosition(p) ==
    IF worker[p].page = << >> THEN worker[p].from ELSE Last(worker[p].page).global_position

----------------------------------------------------------------------------
\* project_once()

\* A projection of another version is left alone.
Load(p, version) ==
    /\ worker[p].stage = "idle"
    /\ projection.version \in {0, version}
    /\ worker' = [worker EXCEPT ![p] =
           Work("loaded", NoRun, version, projection.checkpoint, projection.state, << >>)]
    /\ UNCHANGED <<logVars, projection, rebuilds>>

\* The page after the checkpoint, or of a rebuild the part of it up to the watermark: its first
\* events, for a page is in the order of the positions.
PageOf(run, from) ==
    LET page == ReadAllPage(from)
        covered == {i \in DOMAIN page :
                        run # NoRun => page[i].global_position <= rebuilds[run].through_position}
    IN  SubSeq(page, 1, Cardinality(covered))

\* A rebuild that finds nothing although its watermark is not reached raises.
ReadAll(p) ==
    LET run == worker[p].run
        page == PageOf(run, worker[p].from)
        uncovered == /\ run # NoRun /\ page = << >>
                     /\ worker[p].from # rebuilds[run].through_position
    IN  /\ worker[p].stage = "loaded"
        /\ \/ /\ ~uncovered
              /\ worker' = [worker EXCEPT
                     ![p].stage = "read", ![p].page = page,
                     ![p].state = Reduce(@, worker[p].version, page)]
           \/ uncovered /\ Returns(p)
        /\ UNCHANGED <<logVars, projection, rebuilds>>

\* A row that a transaction has written is locked until it ends.  A rebuild writes the
\* projection with its last page.
Completes(p) == worker[p].run # NoRun /\ NextPosition(p) = rebuilds[worker[p].run].through_position

LocksProjection(p) == worker[p].stage = "open" /\ (worker[p].run = NoRun \/ Completes(p))

ProjectionFree(p) == \A o \in Projectors \ {p} : ~LocksProjection(o)

RunFree(p, r) == \A o \in Projectors \ {p} : ~(worker[o].stage = "open" /\ worker[o].run = r)

Projected(p) ==
    [version |-> worker[p].version, checkpoint |-> NextPosition(p), state |-> worker[p].state]

\* Anything else is StaleProjectionCheckpoint or ProjectionVersionMismatch.
Current(p) ==
    /\ projection.checkpoint = worker[p].from
    /\ projection.version \in {0, worker[p].version}

Apply(p) ==
    /\ store = "memory"
    /\ worker[p].stage = "read" /\ worker[p].run = NoRun
    /\ projection' = IF Current(p) THEN Projected(p) ELSE projection
    /\ Returns(p)
    /\ UNCHANGED <<logVars, rebuilds>>

\* The page must be the one the log has now: another raises.
PageAuthoritative(p) ==
    worker[p].page # << >> =>
        worker[p].page = SubSeq(ReadAllPage(worker[p].from), 1, Len(worker[p].page))

ApplyInTransaction(p) ==
    /\ store = "sqlalchemy"
    /\ worker[p].stage = "read" /\ worker[p].run = NoRun
    /\ ProjectionFree(p)
    /\ IF Current(p) /\ PageAuthoritative(p) THEN Becomes(p, "open") ELSE Returns(p)
    /\ UNCHANGED <<logVars, projection, rebuilds>>

----------------------------------------------------------------------------
\* Rebuilds.

\* The memory store takes a run as it is; the SQL store one whose watermark is committed.
BeginRebuild(r, version, through) ==
    /\ rebuilds[r] = NoRebuild
    /\ store = "sqlalchemy" => through <= position
    /\ rebuilds' = [rebuilds EXCEPT ![r] =
           [projection_version |-> version, through_position |-> through, next_position |-> 0,
            state |-> << >>, status |-> "running"]]
    /\ UNCHANGED <<logVars, projection, worker>>

LoadRebuild(p, r) ==
    /\ worker[p].stage = "idle"
    /\ rebuilds[r].status = "running"
    /\ worker' = [worker EXCEPT ![p] =
           Work("loaded", r, rebuilds[r].projection_version, rebuilds[r].next_position,
                rebuilds[r].state, << >>)]
    /\ UNCHANGED <<logVars, projection, rebuilds>>

Progresses(p) ==
    /\ rebuilds[worker[p].run].status = "running"
    /\ rebuilds[worker[p].run].next_position = worker[p].from

\* Mutant of Supersedes: the rebuilt state replaces whatever there is.
SupersedesAlways(p) == TRUE

\* A rebuild does not take a projection back: its checkpoint or version went on meanwhile.
Supersedes(p) ==
    /\ projection.checkpoint <= NextPosition(p)
    /\ projection.version <= worker[p].version

RunAdvanced(p) ==
    [rebuilds EXCEPT ![worker[p].run].next_position = NextPosition(p),
                     ![worker[p].run].state = worker[p].state,
                     ![worker[p].run].status = IF Completes(p) THEN "completed" ELSE "running"]

\* None is returned, and resume_rebuild() raises, when it does not progress or supersede.
AdvanceRebuild(p) ==
    /\ store = "memory"
    /\ worker[p].stage = "read" /\ worker[p].run # NoRun
    /\ IF Progresses(p) /\ (Completes(p) => Supersedes(p))
       THEN /\ rebuilds' = RunAdvanced(p)
            /\ projection' = IF Completes(p) THEN Projected(p) ELSE projection
       ELSE UNCHANGED <<projection, rebuilds>>
    /\ Returns(p)
    /\ UNCHANGED logVars

\* The row of the run is locked first, then with the last page that of the projection.
AdvanceRebuildInTransaction(p) ==
    /\ store = "sqlalchemy"
    /\ worker[p].stage = "read" /\ worker[p].run # NoRun
    /\ RunFree(p, worker[p].run)
    /\ (Progresses(p) /\ Completes(p)) => ProjectionFree(p)
    /\ IF Progresses(p) /\ PageAuthoritative(p) /\ (Completes(p) => Supersedes(p))
       THEN Becomes(p, "open")
       ELSE Returns(p)
    /\ UNCHANGED <<logVars, projection, rebuilds>>

----------------------------------------------------------------------------
CommitProjector(p) ==
    /\ worker[p].stage = "open"
    /\ projection' = IF LocksProjection(p) THEN Projected(p) ELSE projection
    /\ rebuilds' = IF worker[p].run # NoRun THEN RunAdvanced(p) ELSE rebuilds
    /\ Returns(p)
    /\ UNCHANGED logVars

RollbackProjector(p) ==
    /\ worker[p].stage = "open"
    /\ Returns(p)
    /\ UNCHANGED <<logVars, projection, rebuilds>>

Project(p) ==
    \/ ReadAll(p) \/ Apply(p) \/ ApplyInTransaction(p)
    \/ AdvanceRebuild(p) \/ AdvanceRebuildInTransaction(p)

Init == EventStoreInit /\ ProjectionsInit

Next ==
    \/ EventStoreNext /\ UNCHANGED projectionVars
    \/ \E r \in Runs, v \in Versions, through \in 0..MaxThrough : BeginRebuild(r, v, through)
    \/ \E p \in Projectors :
        \/ \E v \in Versions : Load(p, v)
        \/ \E r \in Runs : LoadRebuild(p, r)
        \/ Project(p)
        \/ CommitProjector(p) \/ RollbackProjector(p)

Spec == Init /\ [][Next]_vars

----------------------------------------------------------------------------
Fold(version, n) ==
    [i \in 1..n |-> <<version, (CHOOSE e \in events : e.global_position = i).event_id>>]

\* The live projection, and the progress of every rebuild, is the reduction of exactly the
\* events up to its position, each once, in order and by the reducer of its version: no event
\* is skipped because its transaction committed late, and none is counted twice because two
\* projectors, or a projector and a rebuild, worked at the same time.
ProjectionExact ==
    /\ projection.checkpoint <= position
    /\ projection.state = Fold(projection.version, projection.checkpoint)
    /\ \A r \in Runs : rebuilds[r].status # "absent" =>
        /\ rebuilds[r].next_position <= position
        /\ rebuilds[r].state = Fold(rebuilds[r].projection_version, rebuilds[r].next_position)

\* The live projection goes forward only: neither project_once() nor the last page of a
\* rebuild takes its checkpoint or its version back, and a version changes only when a
\* rebuild of the newer one completes.
Forward ==
    /\ projection'.checkpoint >= projection.checkpoint
    /\ projection'.version >= projection.version
    /\ projection.version # 0 /\ projection'.version # projection.version =>
           \E r \in Runs : /\ rebuilds[r].status = "running"
                           /\ rebuilds'[r].status = "completed"
                           /\ rebuilds'[r].projection_version = projection'.version

NeverBack == [][Forward]_vars

----------------------------------------------------------------------------
\* Strengthening: what a projector has in its hands is the reduction up to where it would write,
\* and what an open transaction decided on is still so.

ProjectionsTypeOK ==
    /\ projection = NoProjection \/ projection \in ProjectionStates
    /\ rebuilds \in [Runs -> RebuildRuns \cup {NoRebuild}]
    /\ DOMAIN worker = Projectors

WorkFields == {"stage", "run", "version", "from", "state", "page"}

\* The work of p before it has read, and after.
LoadedWell(p) ==
    /\ worker[p].page = << >>
    /\ worker[p].state = Fold(worker[p].version, worker[p].from)

ReadWell(p) ==
    /\ NextPosition(p) \in worker[p].from..position
    /\ worker[p].state = Fold(worker[p].version, NextPosition(p))

\* What the transaction of p has checked, under the locks that it keeps.
OpenWell(p) ==
    /\ store = "sqlalchemy"
    /\ worker[p].run = NoRun => Current(p)
    /\ worker[p].run # NoRun => Progresses(p) /\ (Completes(p) => Supersedes(p))
    /\ LocksProjection(p) => ProjectionFree(p)
    /\ worker[p].run # NoRun => RunFree(p, worker[p].run)

Working(p) ==
    /\ DOMAIN worker[p] = WorkFields
    /\ worker[p].version \in Versions /\ worker[p].from \in 0..position
    /\ worker[p].run # NoRun =>
          /\ worker[p].run \in Runs /\ rebuilds[worker[p].run].status # "absent"
          /\ rebuilds[worker[p].run].projection_version = worker[p].version
    /\ \/ worker[p].stage = "loaded" /\ LoadedWell(p)
       \/ worker[p].stage = "read" /\ ReadWell(p)
       \/ worker[p].stage = "open" /\ ReadWell(p) /\ OpenWell(p)

WorkCoherent == \A p \in Projectors : worker[p] = Idle \/ Working(p)

ProjectionsIInv == LogIInv /\ ProjectionsTypeOK /\ WorkCoherent /\ ProjectionExact
=============================================================================
