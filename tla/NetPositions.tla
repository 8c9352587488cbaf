---------------------------- MODULE NetPositions ----------------------------
(***************************************************************************)
(* What the position book promises to the rest of the system, whatever it  *)
(* does with prices, archives and daily resets: one signed quantity per    *)
(* (strategy, instrument) key, moved by a fill of that key and by nothing  *)
(* else.                                                                   *)
(***************************************************************************)
EXTENDS Integers

CONSTANTS Keys,   \* the (strategy, instrument) pairs of the book
          Deltas  \* the signed quantities a fill may carry

VARIABLE net      \* net[k]: the signed quantity held under key k

Init == net = [k \in Keys |-> 0]

Fill(k, d) == net' = [net EXCEPT ![k] = @ + d]

Next == \E k \in Keys, d \in Deltas : Fill(k, d)

Spec == Init /\ [][Next]_net
=============================================================================
