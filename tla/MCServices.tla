----------------------------- MODULE MCServices -----------------------------
(***************************************************************************)
(* The services around the stores, which share nothing but a clock: a      *)
(* behaviour is about the one that `focus` names, the others rest.         *)
(*                                                                         *)
(* BatchStore: two callers of two batches, in a store with room for one.   *)
(* Transports: two tasks, one permit, three calls and one message.         *)
(* Possession: two threads and three identities, in a store with room for  *)
(* two.  Dependencies: every graph of three datasets.                      *)
(***************************************************************************)
EXTENDS BatchStore, Transports, Possession, Dependencies, TLC

CONSTANTS
    a1, a2, f1, f2, m1, p1, p2, p3,
    MaxBatchClock   \* bound on the clock of batches, which have no window to wait for

VARIABLE focus

batchVars == <<keeper, entries, tokens, held, minted, accepted>>
proofVars == <<verifier, seen, thread, used, reused>>

Init ==
    /\ focus \in {"batches", "transports", "possession", "dependencies"}
    /\ BatchStoreInit /\ TransportsInit /\ PossessionInit /\ DependenciesInit
    /\ focus # "batches" => keeper = "memory"
    /\ focus # "transports" => transport = "aws"
    /\ focus # "possession" => verifier = "dpop"
    /\ focus # "dependencies" =>
          /\ parents = [d \in Datasets |-> {}]
          /\ request = [kind |-> "validate", names |-> Datasets, limit |-> MaxDataset]

Next ==
    \/ /\ focus = "batches"
       /\ BatchStoreNext
       /\ clock' <= MaxBatchClock
       /\ UNCHANGED <<focus, transportVars, proofVars, dependencyVars>>
    \/ /\ focus = "transports"
       /\ TransportsNext
       /\ UNCHANGED <<focus, clock, batchVars, proofVars, dependencyVars>>
    \/ /\ focus = "possession"
       /\ PossessionNext
       /\ UNCHANGED <<focus, batchVars, transportVars, dependencyVars>>
    \/ /\ focus = "dependencies"
       /\ DependenciesNext
       /\ UNCHANGED <<focus, clock, batchVars, transportVars, proofVars>>

Spec == Init /\ [][Next]_<<focus, clock, batchVars, transportVars, proofVars, dependencyVars>>

Symmetric == Permutations({a1, a2}) \cup Permutations(BatchFingerprints)
=============================================================================
