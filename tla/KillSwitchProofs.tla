-------------------------- MODULE KillSwitchProofs --------------------------
(***************************************************************************)
(* Proofs about KillSwitch, for any instruments, holdings, number of       *)
(* orders and number of attempts.                                          *)
(***************************************************************************)
EXTENDS KillSwitch, TLAPS

(* The OMS is at the order it created last.                                *)
PlacedInv == opc # "idle" => placed \in Orders

TypeInv == TypeOK /\ PlacedInv

LEMMA TypeInit == Init => TypeInv
<1> SUFFICES ASSUME Init PROVE TypeInv
  OBVIOUS
<1> USE KillAssumption
<1>1. NoOrder \in [key : Keys, lots : Int]
  BY DEF NoOrder
<1>2. order \in [Orders -> [key : Keys, lots : Int]]
  BY <1>1 DEF Init
<1>3. /\ net \in [Keys -> Int] /\ closing \in [Keys -> Int]
      /\ unseen \in [Keys -> Int] /\ toClose \in [Keys -> Int]
  <2>1. Nothing \in [Keys -> Int]
    BY DEF Nothing
  <2>2. net \in [Keys -> Int]
    BY DEF Init
  <2> QED BY <2>1, <2>2 DEF Init
<1>4. ostate \in [Orders -> OrderState]
  BY DEF Init, OrderState
<1>5. attempt \in 1..MaxRetries /\ placed \in 0..MaxOrders /\ late \in Nat
  BY DEF Init
<1>6. /\ activated \in BOOLEAN /\ remaining \in BOOLEAN /\ errors \in BOOLEAN /\ lagged \in BOOLEAN
      /\ toCancel \subseteq Orders /\ kpc = "off" /\ opc = "idle"
  BY DEF Init
<1> QED BY <1>2, <1>3, <1>4, <1>5, <1>6 DEF TypeInv, TypeOK, PlacedInv

LEMMA UnitInt == ASSUME NEW n \in Int PROVE Unit(n) \in Int
BY DEF Unit

LEMMA RetryTypes ==
    ASSUME TypeOK, Retry
    PROVE  kpc' \in {"positions", "halt"} /\ attempt' \in 1..MaxRetries
BY KillAssumption DEF TypeOK, Retry, MoreAttempts

LEMMA TypeStep == TypeInv /\ [Next]_vars => TypeInv'
<1> SUFFICES ASSUME TypeInv, [Next]_vars PROVE TypeInv'
  OBVIOUS
<1> USE KillAssumption DEF TypeInv
<1>1. ASSUME NEW k \in Keys, NEW lots \in OrderLots, Gate(k, lots) PROVE TypeInv'
  <2>1. placed + 1 \in Orders
    BY <1>1 DEF Gate, TypeOK, Orders
  <2>2. order' \in [Orders -> [key : Keys, lots : Int]]
    BY <1>1, <2>1 DEF Gate, TypeOK
  <2>3. placed' \in 0..MaxOrders /\ placed' \in Orders /\ opc' = "gated"
    BY <1>1, <2>1 DEF Gate, Orders
  <2>4. UNCHANGED <<killer, ostate, account, lagged, late>>
    BY <1>1 DEF Gate
  <2> QED BY <2>2, <2>3, <2>4 DEF TypeOK, PlacedInv, killer, account
<1>2. CASE Send
  <2>1. ostate' \in [Orders -> OrderState]
    BY <1>2 DEF Send, TypeOK, OrderState
  <2>2. late' \in Nat
    BY <1>2 DEF Send, TypeOK
  <2> QED BY <1>2, <2>1, <2>2 DEF Send, TypeOK, PlacedInv, killer, account
<1>3. CASE Return
  <2>1. ostate' \in [Orders -> OrderState]
    BY <1>3 DEF Return, TypeOK, OrderState
  <2> QED BY <1>3, <2>1 DEF Return, TypeOK, PlacedInv, killer, account
<1>4. ASSUME NEW o \in Orders, Accept(o) PROVE TypeInv'
  <2>1. ostate' \in [Orders -> OrderState]
    BY <1>4 DEF Accept, TypeOK, OrderState
  <2> QED BY <1>4, <2>1 DEF Accept, TypeOK, PlacedInv, killer, oms, account
<1>5. ASSUME NEW o \in Orders, Fill(o) PROVE TypeInv'
  <2>1. order[o] \in [key : Keys, lots : Int]
    BY DEF TypeOK
  <2>2. Unit(order[o].lots) \in Int /\ order[o].key \in Keys
    BY <2>1, UnitInt
  <2>3. order' \in [Orders -> [key : Keys, lots : Int]]
    BY <1>5, <2>1, <2>2 DEF Fill, TypeOK
  <2>4. /\ ostate' \in [Orders -> OrderState]
        /\ net' \in [Keys -> Int] /\ unseen' \in [Keys -> Int]
    BY <1>5, <2>2 DEF Fill, TypeOK, OrderState
  <2> QED BY <1>5, <2>3, <2>4 DEF Fill, TypeOK, PlacedInv, killer
<1>6. ASSUME NEW k \in Keys, FillClose(k) PROVE TypeInv'
  <2>1. closing' \in [Keys -> Int] /\ net' \in [Keys -> Int]
    BY <1>6, UnitInt DEF FillClose, TypeOK
  <2> QED BY <1>6, <2>1 DEF FillClose, TypeOK, PlacedInv, killer, oms
<1>7. CASE Activate \/ FetchOrders \/ CancelsDone \/ Halt
  <2>1. CASE Activate
    BY <2>1 DEF Activate, TypeOK, PlacedInv, oms, account
  <2>2. CASE FetchOrders
    BY <2>2 DEF FetchOrders, TypeOK, PlacedInv, oms, account
  <2>3. CASE CancelsDone
    BY <2>3 DEF CancelsDone, TypeOK, PlacedInv, oms, account
  <2>4. CASE Halt
    BY <2>4 DEF Halt, MayError, TypeOK, PlacedInv, oms, account
  <2> QED BY <1>7, <2>1, <2>2, <2>3, <2>4
<1>8. ASSUME NEW o \in Orders, Cancel(o) PROVE TypeInv'
  <2>1. ostate' \in [Orders -> OrderState] /\ toCancel' \subseteq Orders
    BY <1>8 DEF Cancel, TypeOK, OrderState
  <2> QED BY <1>8, <2>1 DEF Cancel, TypeOK, PlacedInv, oms, account
<1>9. CASE FetchPositions
  <2>1. /\ kpc' \in {"close", "positions", "halt"} /\ attempt' \in 1..MaxRetries
        /\ errors' \in BOOLEAN
    BY <1>9, RetryTypes DEF FetchPositions, FetchFailed, TypeOK
  <2>2. toClose' \in [Keys -> Int] /\ unseen' \in [Keys -> Int]
    BY <1>9 DEF FetchPositions, Nothing, TypeOK
  <2>3. remaining' \in BOOLEAN
    BY <1>9, Zenon DEF FetchPositions, TypeOK
  <2> QED BY <1>9, <2>1, <2>2, <2>3 DEF FetchPositions, TypeOK, PlacedInv, oms
<1>10. ASSUME NEW k \in Keys, Close(k) PROVE TypeInv'
  <2>1. toClose' \in [Keys -> Int] /\ net' \in [Keys -> Int] /\ closing' \in [Keys -> Int]
    BY <1>10 DEF Close, TypeOK
  <2>2. lagged' \in BOOLEAN /\ errors' \in BOOLEAN
    BY <1>10 DEF Close, MayError, TypeOK
  <2> QED BY <1>10, <2>1, <2>2 DEF Close, TypeOK, PlacedInv, oms
<1>11. CASE EndAttempt
  <2>1. kpc' \in {"positions", "halt"} /\ attempt' \in 1..MaxRetries
    BY <1>11, RetryTypes DEF EndAttempt, TypeOK
  <2> QED BY <1>11, <2>1 DEF EndAttempt, TypeOK, PlacedInv, oms, account
<1>12. CASE UNCHANGED vars
  BY <1>12 DEF vars, killer, oms, account, TypeOK, PlacedInv
<1> QED BY <1>1, <1>2, <1>3, <1>4, <1>5, <1>6, <1>7, <1>8, <1>9, <1>10, <1>11, <1>12
        DEF Next, OmsStep, BrokerStep, KillStep

(* Every variable keeps its type; the attempts stay within MaxRetries.     *)
THEOREM TypeCorrect == Spec => []TypeOK
<1>1. TypeInv => TypeOK
  BY DEF TypeInv
<1> QED BY <1>1, TypeInit, TypeStep, PTL DEF Spec
-----------------------------------------------------------------------------
(* As long as nothing failed and nothing lagged, what is held is what the  *)
(* OMS filled since the last look and what that look has left to close.    *)
FlatInv ==
    /\ ~lagged => closing = Nothing
    /\ ~errors /\ ~lagged =>
           /\ kpc = "close" => \A k \in Keys : net[k] = unseen[k] + toClose[k]
           /\ kpc \in {"halt", "done"} => \A k \in Keys : net[k] = unseen[k]

LEMMA FlatStep == TypeInv /\ FlatInv /\ [Next]_vars => FlatInv'
<1> SUFFICES ASSUME TypeOK, FlatInv, [Next]_vars PROVE FlatInv'
  BY DEF TypeInv
<1> USE KillAssumption
<1>1. CASE \/ \E k \in Keys, lots \in OrderLots : Gate(k, lots)
           \/ Send \/ Return \/ (\E o \in Orders : Accept(o)) \/ UNCHANGED vars
  BY <1>1 DEF Gate, Send, Return, Accept, vars, killer, account, FlatInv
<1>2. ASSUME NEW o \in Orders, Fill(o) PROVE FlatInv'
  <2>1. order[o] \in [key : Keys, lots : Int]
    BY DEF TypeOK
  <2>2. PICK lot \in Int : \A k \in Keys :
            /\ net'[k] = (IF k = order[o].key THEN net[k] + lot ELSE net[k])
            /\ unseen'[k] = (IF k = order[o].key THEN unseen[k] + lot ELSE unseen[k])
    BY <1>2, <2>1, UnitInt DEF Fill, TypeOK
  <2>3. UNCHANGED <<errors, lagged, kpc, toClose, closing>>
    BY <1>2 DEF Fill, killer
  <2> QED BY <2>2, <2>3 DEF FlatInv, TypeOK
<1>3. ASSUME NEW k \in Keys, FillClose(k) PROVE FlatInv'
  <2>1. lagged
    BY <1>3 DEF FillClose, FlatInv, Nothing
  <2> QED BY <1>3, <2>1 DEF FillClose, FlatInv
<1>4. CASE Activate \/ FetchOrders \/ (\E o \in Orders : Cancel(o)) \/ CancelsDone
  BY <1>4 DEF Activate, FetchOrders, Cancel, CancelsDone, account, FlatInv
<1>5. CASE FetchPositions
  BY <1>5 DEF FetchPositions, FetchFailed, Retry, FlatInv, Nothing, TypeOK
<1>6. ASSUME NEW k \in Keys, Close(k) PROVE FlatInv'
  <2>0. ~lagged' => closing' = Nothing
    BY <1>6 DEF Close, FlatInv
  <2>1. CASE errors' \/ lagged'
    BY <2>0, <2>1 DEF FlatInv
  <2>2. CASE ~errors' /\ ~lagged'
    <3>1. /\ kpc = "close" /\ kpc' = "close" /\ ~errors /\ ~lagged /\ UNCHANGED <<closing, unseen>>
          /\ net' = [net EXCEPT ![k] = @ - toClose[k]]
          /\ toClose' = [toClose EXCEPT ![k] = 0]
      BY <1>6, <2>2 DEF Close, MayError, TypeOK
    <3>2. \A j \in Keys : net[j] = unseen[j] + toClose[j]
      BY <3>1 DEF FlatInv
    <3>3. \A j \in Keys : net'[j] = unseen'[j] + toClose'[j]
      BY <3>1, <3>2 DEF TypeOK
    <3> QED BY <2>0, <3>1, <3>3 DEF FlatInv
  <2> QED BY <2>1, <2>2
<1>7. CASE EndAttempt
  <2>1. \A k \in Keys : toClose[k] = 0
    BY <1>7 DEF EndAttempt, Nothing
  <2>2. ~errors /\ ~lagged => \A k \in Keys : net[k] = unseen[k]
    BY <1>7, <2>1 DEF EndAttempt, FlatInv, TypeOK
  <2>3. UNCHANGED <<errors, lagged, net, unseen, closing>> /\ kpc' \in {"positions", "halt"}
    BY <1>7 DEF EndAttempt, Retry, account
  <2> QED BY <2>2, <2>3 DEF FlatInv
<1>8. CASE Halt
  BY <1>8 DEF Halt, MayError, account, FlatInv, TypeOK
<1> QED BY <1>1, <1>2, <1>3, <1>4, <1>5, <1>6, <1>7, <1>8
        DEF Next, OmsStep, BrokerStep, KillStep

(* A reported success is a flat account, but for what the OMS filled after *)
(* the last look, provided the closing orders fill at once.                *)
THEOREM SuccessIsFlat == Spec => []PromptSuccessFlat
<1>1. Init => TypeInv /\ FlatInv
  BY TypeInit DEF Init, FlatInv
<1>2. TypeInv /\ FlatInv /\ [Next]_vars => TypeInv' /\ FlatInv'
  BY TypeStep, FlatStep
<1>3. FlatInv => PromptSuccessFlat
  BY DEF FlatInv, PromptSuccessFlat, Success
<1> QED BY <1>1, <1>2, <1>3, PTL DEF Spec
-----------------------------------------------------------------------------
(* The order between the gate and the broker is the one late order.        *)
LateInv ==
    /\ ~activated => late = 0
    /\ opc = "gated" => late = 0
    /\ late <= 1

LEMMA LateStep == TypeInv /\ LateInv /\ [Next]_vars => LateInv'
<1> SUFFICES ASSUME TypeOK, LateInv, [Next]_vars PROVE LateInv'
  BY DEF TypeInv
<1>1. CASE OmsStep
  <2>1. ASSUME NEW k \in Keys, NEW lots \in OrderLots, Gate(k, lots) PROVE LateInv'
    BY <2>1 DEF Gate, GateOpen, killer, LateInv
  <2>2. CASE Send
    BY <2>2 DEF Send, killer, LateInv, TypeOK
  <2>3. CASE Return
    BY <2>3 DEF Return, killer, LateInv
  <2> QED BY <1>1, <2>1, <2>2, <2>3 DEF OmsStep
<1>2. CASE BrokerStep
  BY <1>2 DEF BrokerStep, Accept, Fill, FillClose, killer, oms, LateInv
<1>3. CASE Activate \/ UNCHANGED vars
  BY <1>3 DEF Activate, vars, killer, oms, LateInv
<1>4. CASE KillStep
  BY <1>4 DEF KillStep, FetchOrders, Cancel, CancelsDone, FetchPositions, Close, EndAttempt,
              Halt, oms, LateInv
<1> QED BY <1>1, <1>2, <1>3, <1>4 DEF Next

(* Once the kill switch is activated at most one more OMS order is sent.   *)
THEOREM LateOrdersBounded == Spec => []LateOrderBounded
<1>1. Init => TypeInv /\ LateInv
  BY TypeInit DEF Init, LateInv
<1>2. TypeInv /\ LateInv /\ [Next]_vars => TypeInv' /\ LateInv'
  BY TypeStep, LateStep
<1>3. LateInv => LateOrderBounded
  BY DEF LateInv, LateOrderBounded
<1> QED BY <1>1, <1>2, <1>3, PTL DEF Spec
=============================================================================
