------------------------------- MODULE Guards -------------------------------
(***************************************************************************)
(* Writes that are allowed by a row: DjangoFencedCommit                    *)
(* (pytitect/django/leases.py), GenerationGuard with DjangoGenerationStore *)
(* (pytitect/sync/generations.py, django/stores.py), and the checkpoint    *)
(* coordinators (pytitect/checkpoints.py) with their three stores.         *)
(*                                                                         *)
(* A writer takes the row with FOR UPDATE, or only reads it, decides,      *)
(* writes, and commits later.  The row is the authority of a lease, the    *)
(* generation of a dataset or the checkpoint of a stream.                  *)
(***************************************************************************)
EXTENDS WallClock, FiniteSets, Sequences

CONSTANTS
    Actors,         \* writers of the guarded state
    LeaseTtl,
    MaxToken,       \* bound on fencing tokens and generations
    MaxItem,        \* the items of the stream are 1..MaxItem, a checkpoint names the last one
    MaxWrites       \* bound on the guarded writes

ASSUME GuardsAssumption == {LeaseTtl, MaxToken, MaxItem, MaxWrites} \subseteq Nat \ {0}

VARIABLES
    guard,      \* "fenced", "generation", "atomic", "deferred" or "memory" (deferred, in memory)
    mark,       \* the committed row: fencing token, generation or checkpoint, 0 when absent
    lease,      \* what else the authority row holds: owner and expiry
    actor,      \* actor -> what it knows, and what its transaction has staged
    writes,     \* history: the guarded writes in the order of their commits
    covered     \* the items whose state is committed

guardVars == <<clock, guard, mark, lease, actor, writes, covered>>

Resting == [pc |-> "rest", knows |-> 0, prior |-> 0, items |-> {}]

GuardsInit ==
    /\ guard \in {"fenced", "generation", "atomic", "deferred", "memory"}
    /\ clock = 0
    /\ mark = 0
    /\ lease = [owner |-> "none", until |-> 0]
    /\ actor = [a \in Actors |-> Resting]
    /\ writes = << >>
    /\ covered = {}

Move(a, pc) == actor' = [actor EXCEPT ![a].pc = pc]

\* Mutant of RowFree: the row is read, not locked.
RowAlwaysFree(a) == TRUE

\* SELECT ... FOR UPDATE, INSERT and UPDATE wait for the transaction that has the row.
RowFree(a) == \A o \in Actors \ {a} : actor[o].pc \notin {"locked", "staged"}

\* The transaction is rolled back, or its process is gone.
GiveUp(a) ==
    /\ actor[a].pc # "rest"
    /\ actor' = [actor EXCEPT ![a] = Resting]
    /\ UNCHANGED <<clock, guard, mark, lease, writes, covered>>

----------------------------------------------------------------------------
\* Fenced commits.

\* _authoritative(): the lease of a is that of the row, and runs at now.
Authorized(a, now) == lease.owner = a /\ mark = actor[a].knows /\ lease.until > now

\* acquire(): a token above every earlier one, when the lease has run out at now, which the
\* caller read before the row was waited for.
Acquire(a, now) ==
    /\ guard = "fenced" /\ actor[a].pc = "rest"
    /\ RowFree(a) /\ mark < MaxToken
    /\ lease.owner = "none" \/ lease.until <= now
    /\ mark' = mark + 1
    /\ lease' = [owner |-> a, until |-> now + LeaseTtl]
    /\ actor' = [actor EXCEPT ![a] = [Resting EXCEPT !.pc = "holds", !.knows = mark + 1]]
    /\ UNCHANGED <<clock, guard, writes, covered>>

\* renew(): StaleLease changes nothing.
RenewLease(a, now) ==
    /\ guard = "fenced" /\ actor[a].pc = "holds"
    /\ RowFree(a) /\ Authorized(a, now)
    /\ lease' = [lease EXCEPT !.until = now + LeaseTtl]
    /\ UNCHANGED <<clock, guard, mark, actor, writes, covered>>

Release(a, now) ==
    /\ guard = "fenced" /\ actor[a].pc = "holds"
    /\ RowFree(a)
    /\ lease' = IF Authorized(a, now) THEN [owner |-> "none", until |-> 0] ELSE lease
    /\ actor' = [actor EXCEPT ![a] = Resting]
    /\ UNCHANGED <<clock, guard, mark, writes, covered>>

\* DjangoFencedCommit.commit(): the authority is locked, and the clock read after that.
LockAuthority(a) ==
    /\ guard = "fenced" /\ actor[a].pc = "holds"
    /\ RowFree(a)
    /\ IF Authorized(a, clock) THEN Move(a, "staged") ELSE actor' = [actor EXCEPT ![a] = Resting]
    /\ UNCHANGED <<clock, guard, mark, lease, writes, covered>>

----------------------------------------------------------------------------
\* Generations.

\* The expected generation, none at first, is replaced.
Activated(expected, generation) == mark = expected /\ mark' = generation

\* compare_and_set(): create() when none is expected, else one UPDATE.
CompareAndSetGeneration(a, expected, generation) ==
    /\ guard = "generation" /\ actor[a].pc = "rest"
    /\ RowFree(a)
    /\ Activated(expected, generation)
    /\ UNCHANGED <<clock, guard, lease, actor, writes, covered>>

\* GenerationGuard.commit(): the mutation runs under the locked generation.
LoadGeneration(a, expected) ==
    /\ guard = "generation" /\ actor[a].pc = "rest"
    /\ RowFree(a)
    /\ mark = expected /\ expected # 0
    /\ actor' = [actor EXCEPT ![a] = [Resting EXCEPT !.pc = "staged", !.knows = expected]]
    /\ UNCHANGED <<clock, guard, mark, lease, writes, covered>>

\* The mutation is committed, and the row released.
CommitWrite(a) ==
    /\ guard \in {"fenced", "generation"} /\ actor[a].pc = "staged"
    /\ Len(writes) < MaxWrites
    /\ writes' = Append(writes, [allowed |-> actor[a].knows, mark |-> mark])
    /\ actor' = [actor EXCEPT ![a] =
           IF guard = "fenced" THEN [Resting EXCEPT !.pc = "holds", !.knows = actor[a].knows]
           ELSE Resting]
    /\ UNCHANGED <<clock, guard, mark, lease, covered>>

----------------------------------------------------------------------------
\* Checkpoints.

Checkpointed == guard \in {"atomic", "deferred", "memory"}

\* The items come from a source that was asked at the checkpoint the actor then saw.
Pull(a, upto) ==
    /\ Checkpointed /\ actor[a].pc = "rest"
    /\ actor' = [actor EXCEPT ![a] =
           [Resting EXCEPT !.pc = "pulled", !.items = (mark + 1)..upto]]
    /\ UNCHANGED <<clock, guard, mark, lease, writes, covered>>

\* AtomicCheckpointCoordinator.apply(): load_for_update() locks the row that is there.
AtomicLoad(a) ==
    /\ guard = "atomic" /\ actor[a].pc = "pulled"
    /\ mark # 0 => RowFree(a)
    /\ actor' = [actor EXCEPT ![a].pc = IF mark = 0 THEN "unlocked" ELSE "locked",
                              ![a].prior = mark]
    /\ UNCHANGED <<clock, guard, mark, lease, writes, covered>>

Latest(items) == CHOOSE i \in items : \A j \in items : j <= i

\* advance(): an insert waits for another first one, and loses to it; an update finds the
\* checkpoint it expects.  Nothing is pulled, nothing advances.
AtomicAdvance(a) ==
    /\ guard = "atomic" /\ actor[a].pc \in {"unlocked", "locked"}
    /\ RowFree(a)
    /\ IF actor[a].items # {} /\ mark # actor[a].prior
       THEN actor' = [actor EXCEPT ![a] = Resting]
       ELSE Move(a, "staged")
    /\ UNCHANGED <<clock, guard, mark, lease, writes, covered>>

AtomicCommit(a) ==
    /\ guard = "atomic" /\ actor[a].pc = "staged"
    /\ covered' = covered \cup actor[a].items
    /\ mark' = IF actor[a].items = {} THEN mark ELSE Latest(actor[a].items)
    /\ actor' = [actor EXCEPT ![a] = Resting]
    /\ UNCHANGED <<clock, guard, lease, writes>>

\* DeferredCheckpointCoordinator.apply(): load() locks nothing, and the state commits first.
DeferredLoad(a) ==
    /\ guard \in {"deferred", "memory"} /\ actor[a].pc = "pulled"
    /\ actor' = [actor EXCEPT ![a].pc = "loaded", ![a].prior = mark]
    /\ UNCHANGED <<clock, guard, mark, lease, writes, covered>>

DeferredCommit(a) ==
    /\ guard \in {"deferred", "memory"} /\ actor[a].pc = "loaded"
    /\ covered' = covered \cup actor[a].items
    /\ Move(a, "applied")
    /\ UNCHANGED <<clock, guard, mark, lease, writes>>

\* advance(): compare and set, None expected when there is no checkpoint yet.
Advanced(a) ==
    IF actor[a].items # {} /\ mark = actor[a].prior THEN Latest(actor[a].items) ELSE mark

\* Mutant of DeferredAdvance: the checkpoint is advanced before the state is committed.
AdvanceFirst(a) ==
    /\ guard \in {"deferred", "memory"} /\ actor[a].pc \in {"loaded", "applied"}
    /\ mark' = Advanced(a)
    /\ actor' = IF actor[a].pc = "loaded" THEN actor ELSE [actor EXCEPT ![a] = Resting]
    /\ UNCHANGED <<clock, guard, lease, writes, covered>>

\* Unconfirmed is answered when the checkpoint has moved meanwhile.
DeferredAdvance(a) ==
    /\ guard \in {"deferred", "memory"} /\ actor[a].pc = "applied"
    /\ mark' = Advanced(a)
    /\ actor' = [actor EXCEPT ![a] = Resting]
    /\ UNCHANGED <<clock, guard, lease, writes, covered>>

GuardsNext ==
    \/ Tick /\ UNCHANGED <<guard, mark, lease, actor, writes, covered>>
    \/ \E a \in Actors :
          \/ GiveUp(a) \/ LockAuthority(a) \/ CommitWrite(a)
          \/ \E now \in 0..clock : Acquire(a, now) \/ RenewLease(a, now) \/ Release(a, now)
          \/ \E e \in 0..MaxToken, g \in 1..MaxToken : CompareAndSetGeneration(a, e, g)
          \/ \E e \in 1..MaxToken : LoadGeneration(a, e)
          \/ \E n \in 0..MaxItem : Pull(a, n)
          \/ AtomicLoad(a) \/ AtomicAdvance(a) \/ AtomicCommit(a)
          \/ DeferredLoad(a) \/ DeferredCommit(a) \/ DeferredAdvance(a)

GuardsSpec == GuardsInit /\ [][GuardsNext]_guardVars

----------------------------------------------------------------------------
\* A guarded write is committed while the row still is what allowed it: a writer whose lease
\* has passed to another, or whose generation is no longer active, commits nothing, and the
\* writes under a lease come in the order of their tokens.
WritesInOrder ==
    \A i \in DOMAIN writes :
        /\ writes[i].allowed = writes[i].mark
        /\ guard = "fenced" /\ i > 1 => writes[i - 1].allowed <= writes[i].allowed

\* A checkpoint never advances beyond what is durable: every item up to it has its state
\* committed, whoever pulled, raced, gave up or answered Unconfirmed.
CheckpointCovered == Checkpointed => 1..mark \subseteq covered
----------------------------------------------------------------------------
\* Strengthening.

GuardsTypeOK ==
    /\ clock \in Nat /\ mark \in Nat
    /\ DOMAIN actor = Actors
    /\ \A a \in Actors : /\ DOMAIN actor[a] = {"pc", "knows", "prior", "items"}
                         /\ actor[a].knows \in Nat
    /\ writes \in Seq([allowed : Nat, mark : Nat])

\* The row is what a staged write was allowed by: who has it locked keeps the others out.
StagedCurrent ==
    guard \in {"fenced", "generation"} =>
        \A a \in Actors : actor[a].pc = "staged" => actor[a].knows = mark

\* No token is above the row's.
TokensIssued ==
    guard = "fenced" => \A i \in DOMAIN writes : writes[i].allowed <= mark

\* What is pulled follows what is covered, without a gap; what is applied is covered.
Pulled(items) ==
    items # {} => \E n \in items : items \subseteq 1..n /\ 1..n \subseteq covered \cup items

ItemsFollow ==
    Checkpointed => \A a \in Actors : actor[a].pc # "rest" =>
        /\ Pulled(actor[a].items)
        /\ actor[a].pc = "applied" => actor[a].items \subseteq covered

GuardsIInv ==
    /\ GuardsTypeOK /\ WritesInOrder /\ CheckpointCovered
    /\ StagedCurrent /\ TokensIssued /\ ItemsFollow
=============================================================================
