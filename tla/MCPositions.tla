---------------------------- MODULE MCPositions -----------------------------
(* Instances of Positions for TLC: one strategy with two instruments, and  *)
(* an archive of one entry so that trimming happens.  Prices are multiples *)
(* of 2^5 * 3^2 * 5^2 * 7^2, so that every average that five fills of 1 or *)
(* 2 lots can make is a whole number.                                      *)
EXTENDS Positions, TLC

CONSTANTS t1, t2

MCTokens == {t1, t2}
MCPrices == {352800, 705600}
Symmetry == Permutations(MCTokens)
=============================================================================
