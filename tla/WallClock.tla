----------------------------- MODULE WallClock -----------------------------
(***************************************************************************)
(* The clock that callers pass to stores and databases answer as           *)
(* clock_timestamp(): SystemClock of pytitect/core.py.                     *)
(***************************************************************************)
EXTENDS Integers

CONSTANT MaxClock   \* bound on the clock

VARIABLE clock

Tick == clock < MaxClock /\ clock' = clock + 1
=============================================================================
