----------------------------- MODULE MCBatches ------------------------------
(***************************************************************************)
(* Two workers that run the same batch of two items under either policy.   *)
(* Leases last 2 and receipts 3 instants in a clock of 5: a lease can      *)
(* expire between two items or inside a transaction, a receipt can expire  *)
(* before the batch is resumed, and a completed batch can be forgotten and *)
(* run again.  Three leases are issued in all.                             *)
(***************************************************************************)
EXTENDS Batches, TLC

CONSTANTS w1, w2, p1

Symmetric == Permutations(Workers)
=============================================================================
