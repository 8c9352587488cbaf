-------------------------- MODULE MCCircuitBreaker --------------------------
(* Instances of CircuitBreaker for TLC: P&Ls that cross both loss limits   *)
(* in one drop, in two, and with a recovery in between.                    *)
EXTENDS CircuitBreaker

MCDayPnls == {0, -1, -2, -3}
=============================================================================
