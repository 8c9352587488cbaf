---------------------------- MODULE MCKillSwitch ----------------------------
(* Instances of KillSwitch for TLC: a long of two lots or nothing in each  *)
(* instrument, and OMS orders that reduce such a long, or open a short     *)
(* where none is held.                                                     *)
EXTENDS KillSwitch

MCOrderLots == {-1}
=============================================================================
