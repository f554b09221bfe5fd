----------------------------- MODULE MCConsumer -----------------------------
(***************************************************************************)
(* One consumer with two workers, a queue of one and room for two          *)
(* deliveries (a byte budget below the two workers and the queue), an      *)
(* inbox that retains one entry, a quarantine with room for one and three  *)
(* faults: the same message in both workers, a lost commit result followed *)
(* by a lost acknowledgement, an aborted loop that restarts.  Of the four  *)
(* messages one exceeds the byte limit and one the quarantine's policy.    *)
(***************************************************************************)
EXTENDS Consumer

CONSTANTS c1, w1, w2, m1, m2, m3, m4
=============================================================================
