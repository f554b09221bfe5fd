--------------------------- MODULE MCIdempotency ---------------------------
(***************************************************************************)
(* Two threads, one identity under two fingerprints plus a second identity *)
(* that competes for capacity, two tokens.  Leases of 1 and retentions of  *)
(* 2 instants in a clock of 3: expiry, replacement and late calls with     *)
(* stale samples all happen.                                               *)
(***************************************************************************)
EXTENDS Idempotency, TLC

CONSTANTS c1, c2, i1, i2, f1, f2, v1, t1, t2

Symmetric == Permutations({c1, c2}) \cup Permutations({f1, f2})
                \cup Permutations({t1, t2})
                \cup Permutations({i1, i2})
=============================================================================
