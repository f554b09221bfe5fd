---------------------------- MODULE MCProcesses ----------------------------
(***************************************************************************)
(* Two handlers and two firers of one process with one timer, one effect   *)
(* and one message.  Handlers race for a version, a commit outlasts the    *)
(* claim it settles, a cancellation meets a timer that is being completed. *)
(***************************************************************************)
EXTENDS Processes, TLC

CONSTANTS h1, h2, f1, f2, k1, m1, t1, e1

Symmetric == Permutations(Handlers) \cup Permutations(Firers)
=============================================================================
