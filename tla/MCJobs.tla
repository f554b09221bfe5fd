------------------------------- MODULE MCJobs -------------------------------
(***************************************************************************)
(* Two runners, one submitted job and one schedule in a store of three     *)
(* records; the clock reaches 3, claims last 1 instant and a job has two   *)
(* attempts.  Claims expire and are taken over, rounds abort, failures are *)
(* retried and exhausted, a schedule falls behind and the store fills.     *)
(***************************************************************************)
EXTENDS Jobs, TLC

CONSTANTS r1, r2, j1, s1

Symmetric == Permutations(Runners)
=============================================================================
