------------------------------ MODULE MCRelay -------------------------------
(***************************************************************************)
(* Two relays over two messages.  Claims last 2 instants in a clock of 2,  *)
(* so that a claim can be taken over; a round has 1 instant, so that a     *)
(* worker can run out of it with its claim intact; two rounds claim in     *)
(* all, two attempts are allowed and one retry is in the budget, so that   *)
(* retry, deferral, exhaustion and a second publication of a resolved      *)
(* message all occur.  One relay admits both messages to a round, the      *)
(* other one, so that a claim is released for its size.                    *)
(***************************************************************************)
EXTENDS Relay

CONSTANTS r1, r2, w1

SizeOf == [m \in Messages |-> 1]

Bytes == [r \in Relays |-> IF r = r1 THEN 2 ELSE 1]
=============================================================================
