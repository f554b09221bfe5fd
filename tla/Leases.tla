------------------------------- MODULE Leases -------------------------------
(***************************************************************************)
(* Lease ownership with fencing tokens and fenced commits                  *)
(* (pytitect/leases.py: InMemoryLeaseStore and FencedCommit).              *)
(*                                                                         *)
(* An owner reads the clock, and the store compares that `now` later, under *)
(* its lock.  FencedCommit.commit runs the consumer's mutation inside the  *)
(* lock that protects the authority: the comparison and the end of the     *)
(* mutation are two steps, between which time passes and other owners      *)
(* queue on the lock.                                                      *)
(***************************************************************************)
EXTENDS Integers, FiniteSets, Sequences

CONSTANTS
    Owners,     \* lease owners, one thread each
    Resources,  \* leased resources
    Ttl,        \* the ttl owners ask for
    Capacity,   \* InMemoryLeaseStore(capacity=...)
    None,       \* no owner, no resource
    MaxClock,   \* bound on the instants the clock reaches
    MaxToken,   \* bound on the fencing tokens of a resource
    MaxWrites   \* bound on the fenced mutations of a resource

ASSUME LeaseAssumption ==
    /\ Ttl \in Nat \ {0}
    /\ Capacity \in Nat \ {0}
    /\ None \notin Owners /\ None \notin Resources
    /\ MaxClock \in Nat /\ MaxToken \in Nat /\ MaxWrites \in Nat

VARIABLES
    leases,  \* _leases: resource -> Lease
    tokens,  \* _tokens: resource -> last fencing token, kept after release
    clock,   \* the UTC clock
    held,    \* the Lease value each owner last received, or NoLease
    call,    \* the store call each owner has in flight
    lock,    \* the mutation running under the authority lock, or Free
    writes   \* history: the fencing token behind each committed mutation

vars == <<leases, tokens, clock, held, call, lock, writes>>

Lease == [resource : Resources, owner : Owners, fencing_token : Nat \ {0},
          expires_at : Nat]

NoCall == [op |-> "none"]
AcquireCall == [op : {"acquire"}, resource : Resources, now : Nat]
LeaseCall == [op : {"renew", "release"}, lease : Lease, now : Nat]

NoLease == [resource |-> None]

Free == [owner |-> None]

Init ==
    /\ leases = [r \in {} |-> NoLease]
    /\ tokens = [r \in {} |-> 0]
    /\ clock = 0
    /\ held = [o \in Owners |-> NoLease]
    /\ call = [o \in Owners |-> NoCall]
    /\ lock = Free
    /\ writes = [r \in Resources |-> << >>]

Put(f, k, v) == [x \in DOMAIN f \cup {k} |-> IF x = k THEN v ELSE f[x]]

Drop(f, k) == [x \in DOMAIN f \ {k} |-> f[x]]

TokenOf(r) == IF r \in DOMAIN tokens THEN tokens[r] ELSE 0

----------------------------------------------------------------------------
Tick ==
    /\ clock < MaxClock
    /\ clock' = clock + 1
    /\ UNCHANGED <<leases, tokens, held, call, lock, writes>>

\* The owner samples the clock and heads for the store's lock.
Call(o, request) ==
    /\ call[o] = NoCall
    /\ lock.owner # o
    /\ call' = [call EXCEPT ![o] = request]
    /\ UNCHANGED <<leases, tokens, clock, held, lock, writes>>

CallAcquire(o, r) == Call(o, [op |-> "acquire", resource |-> r, now |-> clock])

CallRenew(o) ==
    /\ held[o] # NoLease
    /\ Call(o, [op |-> "renew", lease |-> held[o], now |-> clock])

CallRelease(o) ==
    /\ held[o] # NoLease
    /\ Call(o, [op |-> "release", lease |-> held[o], now |-> clock])

----------------------------------------------------------------------------
\* Every store method runs under _lock.

Locked(o, op) ==
    /\ lock = Free
    /\ call[o] # NoCall
    /\ call[o].op = op
    /\ call' = [call EXCEPT ![o] = NoCall]
    /\ UNCHANGED <<clock, lock, writes>>

\* Mutant of acquire: a lease counts as expired one instant early.
BusyTooShort(r, now) == r \in DOMAIN leases /\ leases[r].expires_at > now + 1

Busy(r, now) == r \in DOMAIN leases /\ leases[r].expires_at > now

\* Mutant of acquire: the token continues from the current lease, so a release
\* starts the fencing tokens over.
AcquireRestarts(o) ==
    /\ Locked(o, "acquire")
    /\ LET r == call[o].resource
           now == call[o].now
           token == IF r \in DOMAIN leases THEN leases[r].fencing_token + 1 ELSE 1
           lease == [resource |-> r, owner |-> o, fencing_token |-> token,
                     expires_at |-> now + Ttl]
       IN
       /\ ~Busy(r, now)
       /\ token <= MaxToken
       /\ tokens' = Put(tokens, r, token)
       /\ leases' = Put(leases, r, lease)
       /\ held' = [held EXCEPT ![o] = lease]

Acquire(o) ==
    /\ Locked(o, "acquire")
    /\ LET r == call[o].resource
           now == call[o].now
           token == TokenOf(r) + 1
           lease == [resource |-> r, owner |-> o, fencing_token |-> token,
                     expires_at |-> now + Ttl]
           full == r \notin DOMAIN tokens /\ Cardinality(DOMAIN tokens) >= Capacity
       IN
       \/ /\ Busy(r, now) \/ full  \* LeaseBusy, OverflowError
          /\ UNCHANGED <<leases, tokens, held>>
       \/ /\ ~Busy(r, now)
          /\ ~full
          /\ token <= MaxToken
          /\ tokens' = Put(tokens, r, token)
          /\ leases' = Put(leases, r, lease)
          /\ held' = [held EXCEPT ![o] = lease]

\* renew and release answer StaleLease unless the lease is the current one.
Current(lease, now) ==
    /\ lease.resource \in DOMAIN leases
    /\ leases[lease.resource] = lease
    /\ lease.expires_at > now

Renew(o) ==
    /\ Locked(o, "renew")
    /\ LET lease == call[o].lease
           renewed == [lease EXCEPT !.expires_at = call[o].now + Ttl]
       IN
       \/ /\ ~Current(lease, call[o].now)
          /\ UNCHANGED <<leases, held>>
       \/ /\ Current(lease, call[o].now)
          /\ leases' = Put(leases, lease.resource, renewed)
          /\ held' = [held EXCEPT ![o] = renewed]
    /\ UNCHANGED tokens

Release(o) ==
    /\ Locked(o, "release")
    /\ LET lease == call[o].lease IN
       \/ /\ ~Current(lease, call[o].now)
          /\ UNCHANGED <<leases, held>>
       \/ /\ Current(lease, call[o].now)
          /\ leases' = Drop(leases, lease.resource)
          /\ held' = [held EXCEPT ![o] = NoLease]
    /\ UNCHANGED tokens

----------------------------------------------------------------------------
\* FencedCommit.commit(lease, mutation) with any lease value the owner still
\* holds.  compare(): the current authority carries the lease's token and owner
\* and has not expired now; the lease's own expires_at is not looked at.
Authoritative(lease) ==
    /\ lease.resource \in DOMAIN leases
    /\ leases[lease.resource].fencing_token = lease.fencing_token
    /\ leases[lease.resource].owner = lease.owner
    /\ leases[lease.resource].expires_at > clock

CommitBegins(o) ==
    /\ lock = Free
    /\ call[o] = NoCall
    /\ held[o] # NoLease
    /\ Authoritative(held[o])
    /\ Len(writes[held[o].resource]) < MaxWrites
    /\ lock' = [owner |-> o, lease |-> held[o]]
    /\ UNCHANGED <<leases, tokens, clock, held, call, writes>>

\* The mutation returns and the lock is released.
CommitEnds(o) ==
    /\ lock # Free
    /\ lock.owner = o
    /\ writes' = [writes EXCEPT ![lock.lease.resource] =
                        Append(@, lock.lease.fencing_token)]
    /\ lock' = Free
    /\ UNCHANGED <<leases, tokens, clock, held, call>>

\* The mutation raises, or the process dies in it: nothing is committed.
CommitFails(o) ==
    /\ lock # Free
    /\ lock.owner = o
    /\ lock' = Free
    /\ UNCHANGED <<leases, tokens, clock, held, call, writes>>

Next ==
    \/ Tick
    \/ \E o \in Owners :
        \/ \E r \in Resources : CallAcquire(o, r)
        \/ CallRenew(o)
        \/ CallRelease(o)
        \/ Acquire(o)
        \/ Renew(o)
        \/ Release(o)
        \/ CommitBegins(o)
        \/ CommitEnds(o)
        \/ CommitFails(o)

Spec == Init /\ [][Next]_vars

----------------------------------------------------------------------------
TypeOK ==
    /\ clock \in Nat
    /\ DOMAIN leases \subseteq Resources
    /\ \A r \in DOMAIN leases : leases[r] \in Lease /\ leases[r].resource = r
    /\ DOMAIN tokens \subseteq Resources
    /\ \A r \in DOMAIN tokens : tokens[r] \in Nat \ {0}
    /\ held \in [Owners -> {NoLease} \cup Lease]
    /\ call \in [Owners -> {NoCall} \cup AcquireCall \cup LeaseCall]
    /\ \A o \in Owners : call[o] # NoCall => call[o].now <= clock
    /\ lock = Free \/ lock \in [owner : Owners, lease : Lease]
    /\ writes \in [Resources -> Seq(Nat)]

\* An owner inside the lease it holds is the store's current lessee: no other
\* owner acquires the resource early, whatever stale `now` its call carries, so
\* no two owners hold unexpired leases on a resource.
LeaseHonoured ==
    \A o \in Owners : held[o] # NoLease =>
        (clock < held[o].expires_at =>
            /\ held[o].resource \in DOMAIN leases
            /\ leases[held[o].resource] = held[o])

\* Fenced mutations of a resource commit in the order of their fencing tokens,
\* across releases, expiries, takeovers and mutations that outlive their lease:
\* once a successor wrote, no predecessor does (docs/leases.md: "Expiry and
\* takeover issue a greater token").
FencedOrder ==
    \A r \in Resources : \A i, j \in DOMAIN writes[r] :
        i < j => writes[r][i] <= writes[r][j]

\* Strengthening.  Tokens are never reissued: the counter bounds every token
\* written under, leased or still held by an owner, it survives a release, and
\* the lease of a running mutation is the one under the lock.
TokensBounded ==
    /\ DOMAIN leases \subseteq DOMAIN tokens
    /\ \A r \in DOMAIN leases : leases[r].fencing_token = tokens[r]
    /\ \A r \in Resources : \A i \in DOMAIN writes[r] : writes[r][i] <= TokenOf(r)
    /\ lock # Free =>
        /\ lock.lease.resource \in DOMAIN leases
        /\ lock.lease.fencing_token = leases[lock.lease.resource].fencing_token

\* A call in flight carries the lease its owner holds.
CallsHeld ==
    /\ \A o \in Owners : held[o] # NoLease => held[o].owner = o
    /\ \A o \in Owners : call[o] # NoCall =>
        (call[o].op \in {"renew", "release"} => call[o].lease = held[o])

IInv == TypeOK /\ LeaseHonoured /\ FencedOrder /\ TokensBounded /\ CallsHeld
=============================================================================
