------------------------ MODULE CircuitBreakerProofs ------------------------
(***************************************************************************)
(* Proofs about CircuitBreaker, for every choice of thresholds, window,    *)
(* history length and P&L values.                                          *)
(***************************************************************************)
EXTENDS CircuitBreaker, TLAPS

(* An age saturates one past its limit.                                    *)
LEMMA OlderType ==
    ASSUME NEW limit \in Nat, NEW age \in {None} \cup 0..limit + 1
    PROVE  Older(age, limit) \in {None} \cup 0..limit + 1
BY DEF Older, None

(* One unit of time keeps the history a sequence of snapshots, with the    *)
(* same P&Ls and no age back inside the window.                            *)
LEMMA AgedHistory ==
    ASSUME TypeOK, Elapse
    PROVE  /\ snaps' \in Seq(Snapshot) /\ Len(snaps') = Len(snaps)
           /\ \A i \in 1..Len(snaps) : /\ snaps'[i].pnl = snaps[i].pnl
                                       /\ snaps'[i].age <= Window => snaps[i].age <= Window
<1> USE BreakerAssumption
<1>1. snaps' = [i \in 1..Len(snaps) |-> [snaps[i] EXCEPT !.age = Older(@, Window)]]
  BY DEF TypeOK, Elapse
<1>2. ASSUME NEW i \in 1..Len(snaps)
      PROVE  /\ [snaps[i] EXCEPT !.age = Older(@, Window)] \in Snapshot
             /\ [snaps[i] EXCEPT !.age = Older(@, Window)].pnl = snaps[i].pnl
             /\ [snaps[i] EXCEPT !.age = Older(@, Window)].age <= Window
                    => snaps[i].age <= Window
  <2>1. snaps[i] \in Snapshot
    BY <1>2 DEF TypeOK
  <2>2. /\ snaps[i].age \in 0..Window + 1
        /\ Older(snaps[i].age, Window) \in 0..Window + 1
        /\ Older(snaps[i].age, Window) >= snaps[i].age
    BY <2>1 DEF Snapshot, Older, None
  <2> QED BY <2>1, <2>2 DEF Snapshot
<1>3. snaps' \in Seq(Snapshot) /\ Len(snaps') = Len(snaps)
  BY <1>1, <1>2 DEF TypeOK
<1> QED BY <1>1, <1>2, <1>3

(* A new observation keeps the bound of the history; what it leaves is the *)
(* old history, whole or without its first entry, and the new P&L.         *)
LEMMA ObservedHistory ==
    ASSUME TypeOK, NEW pnl \in DayPnls
    PROVE  /\ Observed(pnl) \in Seq(Snapshot)
           /\ Len(Observed(pnl)) \in 1..HistoryLen
           /\ Observed(pnl)[Len(Observed(pnl))] = [age |-> 0, pnl |-> pnl]
           /\ \E d \in {0, 1} : \A i \in 1..Len(Observed(pnl)) - 1 :
                  /\ i + d \in 1..Len(snaps)
                  /\ Observed(pnl)[i] = snaps[i + d]
<1> USE BreakerAssumption
<1> DEFINE new == [age |-> 0, pnl |-> pnl]
           all == Append(snaps, new)
<1>1. new \in Snapshot
  BY DEF Snapshot
<1>2. /\ all \in Seq(Snapshot) /\ Len(all) = Len(snaps) + 1
      /\ all[Len(snaps) + 1] = new
      /\ \A i \in 1..Len(snaps) : all[i] = snaps[i]
  BY <1>1 DEF TypeOK
<1> HIDE DEF new, all
<1>3. Observed(pnl) = IF Len(all) > HistoryLen THEN Tail(all) ELSE all
  BY DEF Observed, all, new
<1>4. CASE Len(all) > HistoryLen
  <2>1. /\ Tail(all) \in Seq(Snapshot) /\ Len(Tail(all)) = Len(snaps)
        /\ \A i \in 1..Len(snaps) : Tail(all)[i] = all[i + 1]
    BY <1>2
  <2>2. Len(snaps) = HistoryLen
    BY <1>2, <1>4 DEF TypeOK
  <2>3. \A i \in 1..Len(Tail(all)) - 1 :
            i + 1 \in 1..Len(snaps) /\ Tail(all)[i] = snaps[i + 1]
    BY <1>2, <2>1
  <2> QED BY <1>2, <1>3, <1>4, <2>1, <2>2, <2>3 DEF new
<1>5. CASE ~(Len(all) > HistoryLen)
  <2>1. \A i \in 1..Len(all) - 1 : i + 0 \in 1..Len(snaps) /\ all[i] = snaps[i + 0]
    BY <1>2
  <2> QED BY <1>2, <1>3, <1>5, <2>1 DEF new
<1> QED BY <1>4, <1>5
-----------------------------------------------------------------------------
LEMMA TypeInit == Init => TypeOK
BY BreakerAssumption DEF Init, TypeOK, None

LEMMA TypeStep == TypeOK /\ [Next]_vars => TypeOK'
<1> SUFFICES ASSUME TypeOK, [Next]_vars PROVE TypeOK'
  OBVIOUS
<1> USE BreakerAssumption
<1>1. CASE Elapse
  <2>1. snaps' \in Seq(Snapshot) /\ Len(snaps') <= HistoryLen
    BY <1>1, AgedHistory DEF TypeOK
  <2>2. /\ tripAge' \in {None} \cup 0..AutoReset + 1
        /\ since' \in {None} \cup 0..DisconnectThreshold + 1
        /\ tickAge' \in {None} \cup 0..HeartbeatTimeout + 1
        /\ down' \in {None} \cup 0..DisconnectThreshold + 1
    BY <1>1, OlderType DEF Elapse, TypeOK
  <2> QED BY <1>1, <2>1, <2>2 DEF Elapse, TypeOK
<1>2. ASSUME NEW pnl \in DayPnls, NEW reducing \in BOOLEAN, ValidateOrder(pnl, reducing)
      PROVE  TypeOK'
  <2>1. CASE AutoResetDue
    BY <1>2, <2>1 DEF ValidateOrder, CheckPnl, AutoResetDue, Reset, TypeOK, connSide, pnlSide, None
  <2>2. CASE ~AutoResetDue
    <3>1. snaps' = Observed(pnl)
      BY <1>2, <2>2 DEF ValidateOrder, CheckPnl
    <3>2. snaps' \in Seq(Snapshot) /\ Len(snaps') \in 1..HistoryLen
      BY <3>1, ObservedHistory, Zenon
    <3>3. state' \in {"CLOSED", "OPEN"} /\ tripAge' \in {None} \cup 0..AutoReset + 1
      BY <1>2, <2>2 DEF ValidateOrder, CheckPnl, Trip, TypeOK
    <3> QED BY <1>2, <3>2, <3>3 DEF ValidateOrder, TypeOK, connSide
  <2> QED BY <2>1, <2>2
<1>3. CASE DailyReset
  <2>1. CASE state = "CLOSED"
    BY <1>3, <2>1 DEF DailyReset, Reset, TypeOK, connSide, pnlSide
  <2>2. CASE state # "CLOSED"
    BY <1>3, <2>2 DEF DailyReset, Reset, TypeOK, connSide, None
  <2> QED BY <2>1, <2>2
<1>4. CASE TickArrives \/ LinkCloses \/ Heartbeat
  <2>1. CASE TickArrives
    BY <2>1 DEF TickArrives, TypeOK, pnlSide
  <2>2. CASE LinkCloses
    <3>1. link' \in BOOLEAN
      BY <2>2 DEF LinkCloses
    <3>2. 0 \in 0..DisconnectThreshold + 1
      OBVIOUS
    <3>3. since' \in 0..DisconnectThreshold + 1 /\ down' \in 0..DisconnectThreshold + 1
      BY <2>2, <3>2 DEF LinkCloses, OnDisconnect
    <3>4. UNCHANGED <<state, tripAge, snaps, tickAge, beat>>
      BY <2>2 DEF LinkCloses, pnlSide
    <3> QED BY <3>1, <3>3, <3>4 DEF TypeOK
  <2>3. CASE Heartbeat
    BY <2>3 DEF Heartbeat, OnDisconnect, TypeOK, pnlSide
  <2> QED BY <1>4, <2>1, <2>2, <2>3
<1>5. CASE LinkOpens
  BY <1>5 DEF LinkOpens, OnReconnect, Trip, TypeOK
<1>6. CASE UNCHANGED vars
  BY <1>6 DEF vars, pnlSide, connSide, TypeOK
<1> QED BY <1>1, <1>2, <1>3, <1>4, <1>5, <1>6 DEF Next

(* Every variable keeps its type, and the history its bound.               *)
THEOREM TypeCorrect == Spec => []TypeOK
<1>1. Init => TypeOK
  BY TypeInit
<1>2. TypeOK /\ [Next]_vars => TypeOK'
  BY TypeStep
<1> QED BY <1>1, <1>2, PTL DEF Spec
-----------------------------------------------------------------------------
LEMMA CaughtStep ==
    TypeOK /\ TypeOK' /\ RapidLossCaught /\ [Next]_vars => RapidLossCaught'
<1> SUFFICES ASSUME TypeOK, TypeOK', RapidLossCaught, [Next]_vars PROVE RapidLossCaught'
  OBVIOUS
<1> USE BreakerAssumption
<1>1. CASE Elapse
  <2> SUFFICES ASSUME state' = "CLOSED",
                      NEW i \in 1..Len(snaps'), NEW j \in 1..Len(snaps'),
                      i < j, snaps'[i].age <= Window
               PROVE  snaps'[i].pnl - snaps'[j].pnl <= RapidLoss
    BY DEF RapidLossCaught
  <2>1. state = "CLOSED" /\ i \in 1..Len(snaps) /\ j \in 1..Len(snaps)
    BY <1>1, AgedHistory DEF Elapse
  <2>2. /\ snaps[i].age <= Window
        /\ snaps'[i].pnl = snaps[i].pnl /\ snaps'[j].pnl = snaps[j].pnl
    BY <1>1, <2>1, AgedHistory
  <2> QED BY <2>1, <2>2 DEF RapidLossCaught
<1>2. ASSUME NEW pnl \in DayPnls, NEW reducing \in BOOLEAN, ValidateOrder(pnl, reducing)
      PROVE  RapidLossCaught'
  <2> DEFINE obs == Observed(pnl)
             n   == Len(obs)
  <2>1. CASE AutoResetDue
    BY <1>2, <2>1 DEF ValidateOrder, CheckPnl, AutoResetDue, Reset, RapidLossCaught
  <2>2. CASE ~AutoResetDue
    <3> SUFFICES ASSUME state' = "CLOSED",
                        NEW i \in 1..n, NEW j \in 1..n, i < j, obs[i].age <= Window
                 PROVE  obs[i].pnl - obs[j].pnl <= RapidLoss
      BY <1>2, <2>2 DEF ValidateOrder, CheckPnl, RapidLossCaught
    <3>1. state = "CLOSED" /\ ~RapidDrop(obs, pnl)
      BY <1>2, <2>2 DEF ValidateOrder, CheckPnl, Trip, TypeOK
    <3>a. obs \in Seq(Snapshot) /\ obs[n] = [age |-> 0, pnl |-> pnl]
      BY ObservedHistory, Zenon
    <3>2. n \in Nat /\ obs[n].pnl = pnl
      BY <3>a
    <3>b. obs[i] \in Snapshot
      BY <3>a
    <3>3. obs[i].pnl \in Int /\ pnl \in Int
      BY <3>b DEF Snapshot
    <3> HIDE DEF obs, n
    <3>4. CASE j = n
      <4>1. ~(obs[i].pnl - pnl > RapidLoss)
        BY <3>1 DEF RapidDrop, n
      <4> QED BY <3>2, <3>3, <3>4, <4>1
    <3>5. CASE j # n
      <4>1. PICK d \in {0, 1} : \A m \in 1..n - 1 : m + d \in 1..Len(snaps) /\ obs[m] = snaps[m + d]
        BY ObservedHistory DEF obs, n
      <4>2. i \in 1..n - 1 /\ j \in 1..n - 1
        BY <3>2, <3>5
      <4>3. /\ i + d \in 1..Len(snaps) /\ j + d \in 1..Len(snaps) /\ i + d < j + d
            /\ obs[i] = snaps[i + d] /\ obs[j] = snaps[j + d]
        BY <4>1, <4>2
      <4> QED BY <3>1, <4>3 DEF RapidLossCaught
    <3> QED BY <3>4, <3>5
  <2> QED BY <2>1, <2>2
<1>3. CASE DailyReset
  BY <1>3 DEF DailyReset, Reset, RapidLossCaught, pnlSide
<1>4. CASE TickArrives \/ LinkCloses \/ Heartbeat \/ UNCHANGED vars
  BY <1>4 DEF TickArrives, LinkCloses, Heartbeat, vars, pnlSide, RapidLossCaught
<1>5. CASE LinkOpens
  BY <1>5 DEF LinkOpens, OnReconnect, Trip, RapidLossCaught, TypeOK
<1> QED BY <1>1, <1>2, <1>3, <1>4, <1>5 DEF Next

(* While the breaker is closed no two P&Ls that it kept and that are still *)
(* in the window lie further apart than RapidLoss: the check of each new   *)
(* P&L against the peak is enough for all pairs, and neither trimming nor  *)
(* a reset lets one through.                                               *)
THEOREM RapidLossAlwaysCaught == Spec => []RapidLossCaught
<1>1. Init => TypeOK /\ RapidLossCaught
  BY TypeInit DEF Init, RapidLossCaught
<1>2. TypeOK /\ RapidLossCaught /\ [Next]_vars => TypeOK' /\ RapidLossCaught'
  BY TypeStep, CaughtStep
<1> QED BY <1>1, <1>2, PTL DEF Spec
-----------------------------------------------------------------------------
(* While the link is down the breaker's clock runs from the close or from  *)
(* a later heartbeat, never from before.                                   *)
ClockInv == ~link => down # None /\ since <= down

LEMMA ClockStep == TypeOK /\ ClockInv /\ [Next]_vars => ClockInv'
<1> SUFFICES ASSUME TypeOK, ClockInv, [Next]_vars PROVE ClockInv'
  OBVIOUS
<1> USE BreakerAssumption
<1>1. CASE Elapse
  BY <1>1 DEF Elapse, Older, ClockInv, TypeOK, None
<1>2. CASE \/ \E pnl \in DayPnls, reducing \in BOOLEAN : ValidateOrder(pnl, reducing)
           \/ DailyReset \/ UNCHANGED vars
  BY <1>2 DEF ValidateOrder, DailyReset, vars, connSide, ClockInv
<1>3. CASE TickArrives \/ LinkCloses \/ LinkOpens \/ Heartbeat
  BY <1>3 DEF TickArrives, LinkCloses, LinkOpens, Heartbeat, OnDisconnect, ClockInv, TypeOK, None
<1> QED BY <1>1, <1>2, <1>3 DEF Next

(* A reconnection trips the breaker only when the link was really down for *)
(* longer than the threshold.                                              *)
THEOREM ReconnectTripsSound == Spec => NoSpuriousTrip
<1>1. Init => TypeOK /\ ClockInv
  BY TypeInit DEF Init, ClockInv
<1>2. TypeOK /\ ClockInv /\ [Next]_vars => TypeOK' /\ ClockInv'
  BY TypeStep, ClockStep
<1>3. TypeOK /\ ClockInv /\ [Next]_vars
          => [~link /\ link' /\ state = "CLOSED" /\ state' = "OPEN"
                => down > DisconnectThreshold]_vars
  <2> SUFFICES ASSUME TypeOK, ClockInv, [Next]_vars,
                      ~link, link', state = "CLOSED", state' = "OPEN"
               PROVE  down > DisconnectThreshold
    OBVIOUS
  <2>1. LinkOpens
    BY DEF Next, vars, Elapse, ValidateOrder, DailyReset, TickArrives, LinkCloses, Heartbeat,
           connSide, pnlSide
  <2>2. since > DisconnectThreshold
    BY <2>1 DEF LinkOpens, OnReconnect
  <2> QED BY <2>2, BreakerAssumption DEF ClockInv, TypeOK, None
<1> QED BY <1>1, <1>2, <1>3, PTL DEF Spec, NoSpuriousTrip
=============================================================================
