------------------------------ MODULE Receipts ------------------------------
(***************************************************************************)
(* Receipts and their reconciliation: Receipt and InMemoryReceiptStore     *)
(* (pytitect/receipts.py), and the Django and SQLAlchemy receipt stores.   *)
(*                                                                         *)
(* A worker reads a receipt, decides what follows, and asks the store to   *)
(* replace what it has read; others do the same meanwhile.                 *)
(***************************************************************************)
EXTENDS WallClock, FiniteSets

CONSTANTS
    ReceiptIds,
    Reconcilers,    \* workers that hold a receipt they have read
    Results         \* what a completed receipt may hold, numbers above 0

ASSUME ReceiptsAssumption == Results \subseteq Nat \ {0}

VARIABLES
    backend,    \* whose store this is: "memory", "django" or "sqlalchemy"
    receipts,   \* receipt id -> the committed receipt
    reader      \* reconciler -> the receipt it has read

receiptVars == <<clock, backend, receipts, reader>>

NoReceipt == [state |-> "absent", created |-> 0, updated |-> 0, result |-> 0]
Unread == [id |-> 0, seen |-> NoReceipt]

ReceiptsInit ==
    /\ backend \in {"memory", "django", "sqlalchemy"}
    /\ clock = 0
    /\ receipts = [r \in ReceiptIds |-> NoReceipt]
    /\ reader = [w \in Reconcilers |-> Unread]

----------------------------------------------------------------------------
Terminal == {"completed", "rejected", "conflicted"}

\* _TRANSITIONS
Follows(state) ==
    CASE state = "accepted" -> {"processing", "rejected", "conflicted", "uncertain"}
      [] state = "processing" -> Terminal \cup {"uncertain"}
      [] OTHER -> {}

\* Receipt.transition(): the target it allows from `seen`.
Transitioned(seen, target) ==
    /\ target.updated >= seen.updated
    /\ target.state \in Follows(seen.state)
    /\ target.state = "completed" => target.result # 0
    /\ target.created = seen.created

\* _valid_reconciliation()
ValidReconciliation(seen, target) ==
    /\ seen.state = "uncertain"
    /\ target.state \in Terminal
    /\ target.created = seen.created
    /\ target.updated >= seen.updated
    /\ target.state = "completed" => target.result # 0

\* Mutant of SameReceipt: the row is written to whatever it has become.
AnyReceipt(row, seen) == TRUE

\* The receipt is still the one that was read: the Django store compares its state and its
\* time under the row lock, the others all of it.
SameReceipt(row, seen) ==
    IF backend = "django" THEN row.state = seen.state /\ row.updated = seen.updated
    ELSE row = seen

\* add(): the second receipt of an identity is answered False.
AddReceipt(r, state) ==
    /\ receipts[r] = NoReceipt
    /\ receipts' = [receipts EXCEPT ![r] =
           [state |-> state, created |-> clock, updated |-> clock, result |-> 0]]
    /\ UNCHANGED <<clock, backend, reader>>

GetReceipt(w, r) ==
    /\ receipts[r] # NoReceipt
    /\ reader' = [reader EXCEPT ![w] = [id |-> r, seen |-> receipts[r]]]
    /\ UNCHANGED <<clock, backend, receipts>>

\* _cas(): the target replaces what was read, or nothing.
Replace(w, target) ==
    LET r == reader[w].id IN
    /\ reader' = [reader EXCEPT ![w] = Unread]
    /\ receipts' = IF SameReceipt(receipts[r], reader[w].seen)
                   THEN [receipts EXCEPT ![r].state = target.state, ![r].updated = target.updated,
                                         ![r].result = target.result]
                   ELSE receipts
    /\ UNCHANGED <<clock, backend>>

TransitionReceipt(w, target) ==
    /\ reader[w] # Unread
    /\ Transitioned(reader[w].seen, target)
    /\ Replace(w, target)

\* reconcile_uncertain(), and ReceiptReconciler.reconcile() that reads before it.
ReconcileUncertain(w, target) ==
    /\ reader[w] # Unread
    /\ ValidReconciliation(reader[w].seen, target)
    /\ Replace(w, target)

\* Retention takes what is terminal, and what is uncertain only when its plan says so; the
\* SQL store refuses such a plan.
Prunable(include_uncertain) == Terminal \cup (IF include_uncertain THEN {"uncertain"} ELSE {})

PurgeReceipts(r, include_uncertain) ==
    /\ backend = "sqlalchemy" => ~include_uncertain
    /\ receipts[r].state \in Prunable(include_uncertain)
    /\ receipts' = [receipts EXCEPT ![r] = NoReceipt]
    /\ UNCHANGED <<clock, backend, reader>>

ReceiptsNext ==
    \/ Tick /\ UNCHANGED <<backend, receipts, reader>>
    \/ \E r \in ReceiptIds, state \in {"accepted", "uncertain"} : AddReceipt(r, state)
    \/ \E r \in ReceiptIds, include_uncertain \in BOOLEAN : PurgeReceipts(r, include_uncertain)
    \/ \E w \in Reconcilers, r \in ReceiptIds : GetReceipt(w, r)
    \/ \E w \in Reconcilers, state \in Terminal \cup {"processing", "uncertain"},
          at \in 0..clock, result \in Results \cup {0} :
          LET target == [state |-> state, created |-> reader[w].seen.created, updated |-> at,
                         result |-> result] IN
          TransitionReceipt(w, target) \/ ReconcileUncertain(w, target)

ReceiptsSpec == ReceiptsInit /\ [][ReceiptsNext]_receiptVars

----------------------------------------------------------------------------
\* A receipt is final: whoever transitions or reconciles it from whatever it has read, what is
\* completed, rejected or conflicted stays as it is until retention takes it, uncertainty ends
\* only in one of these, work in progress is never gone or back in an earlier state, and the
\* time of a receipt does not go back.
ReceiptFinal ==
    [][\A r \in ReceiptIds :
          receipts[r] # NoReceipt /\ receipts'[r] # receipts[r] =>
              IF receipts'[r] = NoReceipt
              THEN receipts[r].state \in Terminal \cup {"uncertain"}
              ELSE /\ receipts[r].state \notin Terminal
                   /\ receipts'[r].state \in Follows(receipts[r].state) \cup
                         (IF receipts[r].state = "uncertain" THEN Terminal ELSE {})
                   /\ receipts'[r].created = receipts[r].created
                   /\ receipts'[r].updated >= receipts[r].updated]_receiptVars
----------------------------------------------------------------------------
\* Strengthening.

ReceiptsTypeOK ==
    /\ DOMAIN receipts = ReceiptIds
    /\ \A r \in ReceiptIds : DOMAIN receipts[r] = {"state", "created", "updated", "result"}
=============================================================================
