------------------------------ MODULE MCLeases ------------------------------
(***************************************************************************)
(* Two owners and two resources of which the capacity admits one at a time *)
(* (whichever is leased first), leases of 2 instants in a clock of 5, three *)
(* fencing tokens and three mutations per resource: enough for a takeover, *)
(* a release and a second takeover with writes around each.                *)
(***************************************************************************)
EXTENDS Leases, TLC

CONSTANTS o1, o2, r1, r2

Symmetric == Permutations({o1, o2}) \cup Permutations({r1, r2})
=============================================================================
