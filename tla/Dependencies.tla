---------------------------- MODULE Dependencies ----------------------------
(***************************************************************************)
(* DatasetDependencyGraph (pytitect/sync/graph.py): the closure of a set   *)
(* of datasets under their parents, and the order in which datasets are    *)
(* synchronised, layer by layer.                                           *)
(*                                                                         *)
(* The loops are actions: the closure takes the datasets that wait in any  *)
(* order, for it starts from a list made of a set.  Partitions are only    *)
(* counted by the code and left out.                                       *)
(***************************************************************************)
EXTENDS Integers, FiniteSets, Sequences

CONSTANTS
    MaxDataset,     \* datasets are 1..MaxDataset: names, in their order
    Limits          \* values of max_datasets of DependencyGraphLimits

ASSUME DependenciesAssumption == MaxDataset \in Nat \ {0} /\ Limits \subseteq Nat \ {0}

VARIABLES
    parents,    \* dataset -> its direct parents
    request,    \* "validate", "order" or "closure", the datasets asked for, and the limit
    phase,      \* "closure", "order" or the kind of the answer
    selected,   \* the datasets to order
    waiting,    \* the `pending` list of closure()
    pending,    \* the `pending` map of _order(): dataset -> parents still to come
    output

dependencyVars == <<parents, request, phase, selected, waiting, pending, output>>

Datasets == 1..MaxDataset

DependenciesInit ==
    /\ parents \in [Datasets -> SUBSET Datasets]
    /\ request \in [kind : {"validate", "order", "closure"}, names : SUBSET Datasets, limit : Limits]
    /\ request.kind = "validate" => request.names = Datasets
    /\ phase = "start"
    /\ selected = {}
    /\ waiting = {}
    /\ pending = << >>
    /\ output = << >>

Finished == phase \in {"ordered", "cycle", "limit"}

\* validate(), topological_order() and closure(): what is selected at first.
Ask ==
    /\ phase = "start"
    /\ selected' = request.names
    /\ waiting' = IF request.kind = "closure" THEN request.names ELSE {}
    /\ phase' = "closure"
    /\ UNCHANGED <<parents, request, pending, output>>

\* closure(): the parents of a dataset that are new.
Visit(current) ==
    /\ phase = "closure"
    /\ selected' = selected \cup parents[current]
    /\ waiting' = (waiting \ {current}) \cup (parents[current] \ selected)
    /\ UNCHANGED <<parents, request, phase, pending, output>>

\* The limit is applied to what was selected, then _order() begins.
StartOrder ==
    /\ phase = "closure" /\ waiting = {}
    /\ IF Cardinality(selected) > request.limit
       THEN phase' = "limit" /\ UNCHANGED pending
       ELSE phase' = "order" /\ pending' = [d \in selected |-> parents[d] \cap selected]
    /\ UNCHANGED <<parents, request, selected, waiting, output>>

\* The members of a finite set of numbers in their order.
Sorted(S) == [i \in 1..Cardinality(S) |-> CHOOSE x \in S : Cardinality({y \in S : y < x}) = i - 1]

\* Mutant of Ready: a dataset is ready as soon as one of its parents is out.
ReadyEarly == {d \in DOMAIN pending : pending[d] = {} \/ pending[d] # parents[d] \cap selected}

\* The datasets whose parents are all out.
Ready == {d \in DOMAIN pending : pending[d] = {}}

\* _order(): the next layer.
Layer ==
    /\ phase = "order" /\ Ready # {}
    /\ output' = output \o Sorted(Ready)
    /\ pending' = [d \in DOMAIN pending \ Ready |-> pending[d] \ Ready]
    /\ UNCHANGED <<parents, request, phase, selected, waiting>>

\* _order(): nothing is left, or nothing that is left is ready.
Stop ==
    /\ phase = "order" /\ Ready = {}
    /\ phase' = IF DOMAIN pending = {} THEN "ordered" ELSE "cycle"
    /\ output' = IF DOMAIN pending = {} THEN output ELSE Sorted(DOMAIN pending)
    /\ UNCHANGED <<parents, request, selected, waiting, pending>>

DependenciesNext ==
    \/ Ask
    \/ \E d \in waiting : Visit(d)
    \/ StartOrder
    \/ Layer
    \/ Stop

DependenciesSpec == DependenciesInit /\ [][DependenciesNext]_dependencyVars

----------------------------------------------------------------------------
\* What is asked of the graph, by definitions that do not walk it.

\* For a closure, the least set that has the requested datasets and every parent of its own.
ClosedSets == {S \in SUBSET Datasets : request.names \subseteq S /\ \A d \in S : parents[d] \subseteq S}

Asked ==
    IF request.kind = "closure" THEN {d \in Datasets : \A S \in ClosedSets : d \in S} ELSE request.names

\* Datasets that wait for each other, and the most of them.
Waits(S) == \A d \in S : parents[d] \cap S # {}

Stuck == UNION {S \in SUBSET Asked : Waits(S)}

\* There are n datasets above d, each a parent of the one before.
Above(n, d) ==
    \E chain \in [0..n -> Asked] : chain[0] = d /\ \A i \in 1..n : chain[i] \in parents[chain[i - 1]]

\* The longest chain of parents above d is shorter than that above e, or as long and d's name is
\* the smaller one.
Precedes(d, e) ==
    \/ \E n \in 1..MaxDataset : Above(n, e) /\ ~Above(n, d)
    \/ d < e /\ \A n \in 1..MaxDataset : Above(n, d) <=> Above(n, e)

\* The answer is the right one for the graph.  The datasets selected for a closure are the least
\* closed set; a request over the limit is refused, whatever the order of the walk.  An order has
\* each selected dataset once, after the parents that were selected with it, and among the orders
\* that do it is the one by layers and names: a dataset comes before another exactly when the
\* longest chain of parents above it is shorter, or as long and its name is smaller.  A cycle is
\* answered exactly when there is one, with all that wait for it: the largest set of selected
\* datasets that each have a parent in the set.
OrderExact ==
    Finished =>
        /\ selected = Asked
        /\ (phase = "limit") = (Cardinality(Asked) > request.limit)
        /\ phase # "limit" => (phase = "cycle") = (Stuck # {})
        /\ phase = "cycle" => output = Sorted(Stuck)
        /\ phase = "ordered" =>
              /\ Len(output) = Cardinality(Asked)
              /\ {output[i] : i \in DOMAIN output} = Asked
              /\ \A i, j \in DOMAIN output : i < j => Precedes(output[i], output[j])
              /\ \A i, j \in DOMAIN output : output[i] \in parents[output[j]] => i < j

----------------------------------------------------------------------------
\* Strengthening: what the walks have found so far.

DependenciesTypeOK ==
    /\ parents \in [Datasets -> SUBSET Datasets]
    /\ request \in [kind : {"validate", "order", "closure"}, names : SUBSET Datasets, limit : Limits]
    /\ phase \in {"start", "closure", "order", "ordered", "cycle", "limit"}
    /\ selected \subseteq Datasets

\* The closure so far is part of the least one, and lacks only parents of what waits.
ClosureSoFar ==
    /\ request.names \subseteq selected /\ selected \subseteq Asked
    /\ waiting \subseteq selected
    /\ IF request.kind = "closure" THEN \A d \in selected \ waiting : parents[d] \subseteq selected
                                   ELSE waiting = {}

\* The layers so far are out, and the chains above what is left are as long as there are layers.
LayersSoFar(left) ==
    /\ left \subseteq Asked
    /\ pending = [d \in left |-> parents[d] \cap left]
    /\ \A S \in SUBSET Asked : Waits(S) => S \subseteq left
    /\ \E n \in 0..Cardinality(Asked \ left) : left = {d \in Asked : Above(n, d)}

OutputSoFar(left) ==
    /\ output \in [1..Cardinality(Asked \ left) -> Asked \ left]
    /\ \A d \in Asked \ left : \E i \in DOMAIN output : output[i] = d
    /\ \A i, j \in DOMAIN output : i < j => Precedes(output[i], output[j])
    /\ \A i, j \in DOMAIN output : output[i] \in parents[output[j]] => i < j
    /\ \A i, j \in DOMAIN output : output[i] = output[j] => i = j
    /\ \A i \in DOMAIN output : parents[output[i]] \cap left = {}

DependenciesIInv ==
    /\ DependenciesTypeOK
    /\ phase = "start" => pending = << >> /\ output = << >>
    /\ phase = "closure" => ClosureSoFar /\ output = << >>
    /\ phase = "order" =>
          /\ selected = Asked /\ Cardinality(Asked) <= request.limit
          /\ LayersSoFar(DOMAIN pending) /\ OutputSoFar(DOMAIN pending)
    /\ OrderExact
=============================================================================
