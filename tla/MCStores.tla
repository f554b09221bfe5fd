------------------------------ MODULE MCStores ------------------------------
(***************************************************************************)
(* The stores that share a clock and nothing else: a behaviour is about    *)
(* the one that `focus` names, the others rest.                            *)
(*                                                                         *)
(* Reservations: two sessions and one identity, in every store and with    *)
(* and without a transaction of the caller.  Receipts: two reconcilers of  *)
(* one receipt.  Requests: two clients and two attempts on a key.          *)
(* Guards: two writers.                                                    *)
(***************************************************************************)
EXTENDS Reservations, Requests, Guards, TLC

CONSTANTS s1, s2, i1, c1, c2, f1, f2, r1, r2, m1, m2, w1, w2, a1, a2

VARIABLE focus

reservationVars == <<table, adapter, outer, rows, holder, staged, call, grants>>
requestVars == <<record, effects, outbox, client, attempts, told>>
rowVars == <<guard, mark, lease, actor, writes, covered>>

Init ==
    /\ focus \in {"reservations", "receipts", "requests", "guards"}
    /\ ReservationsInit /\ RequestsInit /\ GuardsInit
    /\ focus # "reservations" =>
          table = "replay" /\ adapter = "memory" /\ rows = [i \in Identities |-> Absent]
    /\ focus \notin {"receipts", "requests"} => backend = "memory"
    /\ focus = "requests" => backend # "memory"
    /\ focus # "guards" => guard = "memory"

Next ==
    \/ /\ focus = "reservations"
       /\ ReservationsNext
       /\ UNCHANGED <<focus, backend, receipts, reader, requestVars, rowVars>>
    \/ /\ focus = "receipts"
       /\ ReceiptsNext
       /\ receipts'[r2] = NoReceipt     \* the bound: receipts do not depend on each other
       /\ UNCHANGED <<focus, reservationVars, requestVars, rowVars>>
    \/ /\ focus = "requests"
       /\ RequestsNext
       /\ UNCHANGED <<focus, reservationVars, rowVars>>
    \/ /\ focus = "guards"
       /\ GuardsNext
       /\ UNCHANGED <<focus, reservationVars, backend, receipts, reader, requestVars>>

Spec == Init /\ [][Next]_<<focus, clock, reservationVars, backend, receipts, reader, requestVars, rowVars>>

Symmetric == Permutations(Sessions) \cup Permutations(Clients)
=============================================================================
