---------------------------- MODULE MCOrderFlow -----------------------------
(* Instances of OrderFlow for TLC.  The legs of MCLegs reach every kind of *)
(* order: entries that add up to the lot limit, exits, partial exits and   *)
(* reversals.                                                              *)
EXTENDS OrderFlow

MCLegs == {1, -2}
MCUnitLegs == {1, -1}
=============================================================================
