------------------------------- MODULE Effects -------------------------------
(***************************************************************************)
(* What a consumer promises about each message of an at-least-once broker: *)
(* its effect takes place at most once, and the broker may forget the      *)
(* message only when its effect took place or it is kept in quarantine.    *)
(***************************************************************************)
EXTENDS Naturals

CONSTANT Messages

VARIABLES
    effects,   \* how often the decision on each message was committed
    rejected,  \* the messages kept in quarantine
    outcome    \* what the broker was told of each message

vars == <<effects, rejected, outcome>>

Init ==
    /\ effects = [m \in Messages |-> 0]
    /\ rejected = {}
    /\ outcome = [m \in Messages |-> "unsettled"]

Apply(m) ==
    /\ effects[m] = 0
    /\ effects' = [effects EXCEPT ![m] = 1]
    /\ UNCHANGED <<rejected, outcome>>

Reject(m) ==
    /\ rejected' = rejected \cup {m}
    /\ UNCHANGED <<effects, outcome>>

Settle(m) ==
    /\ outcome[m] = "unsettled"
    /\ \/ effects[m] = 1 /\ outcome' = [outcome EXCEPT ![m] = "acked"]
       \/ m \in rejected /\ outcome' = [outcome EXCEPT ![m] = "terminated"]
    /\ UNCHANGED <<effects, rejected>>

Next == \E m \in Messages : Apply(m) \/ Reject(m) \/ Settle(m)

Spec == Init /\ [][Next]_vars
=============================================================================
