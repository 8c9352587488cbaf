-------------------------- MODULE OrderFlowProofs ---------------------------
(***************************************************************************)
(* The invariants of OrderFlow, for any keys, legs, limits and bounds.     *)
(*                                                                         *)
(* Inv == TypeOK /\ DispatchInv /\ TrackerInv /\ LateInv is inductive as   *)
(* it stands.  OnceInv is inductive on top of it when there is no Redis,   *)
(* for then nothing runs between two entries of a scan.                    *)
(***************************************************************************)
EXTENDS OrderFlow, Sums

(* Subsets of the orders are finite, so their cardinalities are numbers.   *)
LEMMA OrdersFinite ==
    ASSUME NEW S \in SUBSET Orders
    PROVE  IsFiniteSet(S) /\ Cardinality(S) \in Nat
<1>1. IsFiniteSet(Orders)
  BY FlowAssumption, FS_Interval DEF Orders
<1>2. IsFiniteSet(S)
  BY <1>1, FS_Subset
<1> QED BY <1>2, FS_CardinalityType

(* Lots are whole numbers.                                                 *)
LEMMA LotsInt ==
    /\ \A n \in Legs : n \in Int /\ Abs(n) \in Nat /\ n # 0
    /\ Orders \subseteq Nat \ {0}
BY FlowAssumption DEF Abs, Orders

-----------------------------------------------------------------------------
LEMMA TypeInit == Init => TypeOK
<1> SUFFICES ASSUME Init PROVE TypeOK
  OBVIOUS
<1> USE FlowAssumption DEF Init, BrokerStatus, NothingFetched
<1>1. DispatchTypes
  BY DEF DispatchTypes
<1>2. TrackerTypes
  BY DEF TrackerTypes
<1>3. BookTypes
  <2>1. /\ bstat \in [Orders -> BrokerStatus] /\ bfilled \in [Orders -> Nat]
        /\ qty \in [Keys -> Int] /\ booked \in [Orders -> Nat]
    OBVIOUS
  <2>2. queue \in Seq(Orders) /\ archived \subseteq Keys /\ late \in Nat
    OBVIOUS
  <2>3. tripped \in BOOLEAN
    BY Zenon
  <2> QED BY <2>1, <2>2, <2>3 DEF BookTypes
<1> QED BY <1>1, <1>2, <1>3 DEF TypeOK

LEMMA DispatchTypesStep ==
    ASSUME TypeOK, DispatchInv, TrackerInv, [Next]_vars
    PROVE  DispatchTypes'
<1> USE FlowAssumption DEF TypeOK, DispatchTypes
<1>1. ASSUME NEW n \in {1, 2}, Signal(n) PROVE DispatchTypes'
  BY <1>1 DEF Signal
<1>2. ASSUME NEW k \in Keys, NEW lots \in Legs, StartLeg(k, lots) PROVE DispatchTypes'
  <2>1. placed + 1 \in Orders /\ legs - 1 \in Nat
    BY <1>2 DEF StartLeg, DispatchInv, Orders
  <2>2. leg' \in [Orders -> [key : Keys, lots : Legs] \cup {NoLeg}]
    BY <1>2, <2>1 DEF StartLeg
  <2>3. /\ pc' \in {"idle", "leg", "margin"} /\ legs' \in Nat /\ placed' = placed + 1
        /\ UNCHANGED <<exit, registered>>
        /\ \/ status' = [status EXCEPT ![placed + 1] = "VALIDATING"]
           \/ status' = [status EXCEPT ![placed + 1] = "REJECTED"]
    BY <1>2, <2>1 DEF StartLeg, NextLeg, Abort
  <2> QED BY <2>1, <2>2, <2>3 DEF Orders
<1>3. CASE MarginRejected
  BY <1>3 DEF MarginRejected, NextLeg, DispatchInv, Placing, Orders
<1>4. ASSUME NEW breach \in BOOLEAN, NEW trips \in BOOLEAN, RiskCheck(breach, trips)
      PROVE DispatchTypes'
  <2>1. placed \in Orders /\ legs - 1 \in Nat
    BY <1>4 DEF RiskCheck, DispatchInv, Placing, Orders
  <2>2. /\ pc' \in {"idle", "leg", "submit"} /\ legs' \in Nat
        /\ UNCHANGED <<placed, leg, registered>>
        /\ exit' = exit \/ exit' = exit \cup {placed}
        /\ \/ status' = status
           \/ status' = [status EXCEPT ![placed] = "SUBMITTED"]
           \/ status' = [status EXCEPT ![placed] = "REJECTED"]
    BY <1>4, <2>1 DEF RiskCheck, NextLeg, Abort
  <2> QED BY <2>1, <2>2
<1>5. CASE Send
  BY <1>5 DEF Send
<1>9. CASE PlaceOk
  <2>1. placed \in Orders /\ legs - 1 \in Nat
    BY <1>9 DEF PlaceOk, DispatchInv, Placing, Orders
  <2> QED BY <1>9, <2>1 DEF PlaceOk, NextLeg
<1>6. CASE PlaceRefused \/ PlaceLost
  <2>1. placed \in Orders /\ legs - 1 \in Nat
    BY <1>6 DEF PlaceRefused, PlaceLost, DispatchInv, Placing, Orders
  <2>2. /\ pc' \in {"idle", "leg"} /\ legs' \in Nat
        /\ UNCHANGED <<placed, leg, exit, registered>>
        /\ \/ status' = status
           \/ status' = [status EXCEPT ![placed] = "FAILED"]
           \/ status' = [status EXCEPT ![placed] = "REJECTED"]
    BY <1>6, <2>1 DEF PlaceRefused, PlaceLost, NextLeg, Abort
  <2> QED BY <2>1, <2>2
<1>7. ASSUME NEW o \in Orders, ScanTerminal(o) \/ ScanOther(o) PROVE DispatchTypes'
  <2>1. /\ UNCHANGED <<pc, legs, placed, leg, exit, registered>>
        /\ \/ status' = status
           \/ \E s \in {"FILLED", "REJECTED", "CANCELLED", "SUBMITTED"} :
                    status' = [status EXCEPT ![o] = s]
    BY <1>7 DEF ScanTerminal, ScanOther, NoFillData, TerminalStatus
  <2> QED BY <2>1
<1>8. CASE UNCHANGED dispatch
  BY <1>8 DEF dispatch
<1> QED
  BY <1>1, <1>2, <1>3, <1>4, <1>5, <1>6, <1>7, <1>8, <1>9
     DEF Next, PlaceStep, ScanStep, BookFill, OnReconnect, DailyReset, BrokerStep, BrokerAccept,
         BrokerFill, BrokerEnd, Fetch, BeginScan, EndScan, ScanBroken, vars

LEMMA TrackerTypesStep ==
    ASSUME TypeOK, DispatchInv, TrackerInv, [Next]_vars
    PROVE  TrackerTypes'
<1> USE FlowAssumption DEF TypeOK, TrackerTypes
<1>1. CASE PlaceOk
  BY <1>1 DEF PlaceOk, Track, DispatchInv, DispatchTypes, Placing, Orders
<1>2. CASE Fetch
  BY <1>2 DEF Fetch, BookTypes
<1>3. CASE BeginScan
  <2>1. Cardinality(pending) \in Nat
    BY OrdersFinite
  <2> QED BY <1>3, <2>1 DEF BeginScan
<1>4. ASSUME NEW o \in Orders, ScanTerminal(o) PROVE TrackerTypes'
  BY <1>4 DEF ScanTerminal, Orders
<1>5. ASSUME NEW o \in Orders, ScanOther(o) PROVE TrackerTypes'
  <2>1. /\ tpc' = "scan" /\ at' = o /\ completed' = completed
        /\ UNCHANGED <<pending, snap, size>>
    BY <1>5 DEF ScanOther, NoFillData
  <2>2. glitches' \in 0..MaxGlitches
    BY <1>5 DEF ScanOther, NoFillData
  <2> QED BY <2>1, <2>2 DEF Orders
<1>6. CASE EndScan \/ ScanBroken
  BY <1>6 DEF EndScan, ScanBroken, Pop, ForgetLocals, NothingFetched, BrokerStatus
<1>7. CASE UNCHANGED tracker
  BY <1>7 DEF tracker
<1> QED
  BY <1>1, <1>2, <1>3, <1>4, <1>5, <1>6, <1>7
     DEF Next, PlaceStep, ScanStep, Signal, StartLeg, MarginRejected, RiskCheck, Send,
         PlaceRefused, PlaceLost, BookFill, OnReconnect, DailyReset, BrokerStep,
         BrokerAccept, BrokerFill, BrokerEnd, vars

LEMMA BookTypesStep ==
    ASSUME TypeOK, DispatchInv, TrackerInv, [Next]_vars
    PROVE  BookTypes'
<1> USE FlowAssumption DEF TypeOK, BookTypes
<1>1. ASSUME NEW breach \in BOOLEAN, NEW trips \in BOOLEAN, RiskCheck(breach, trips)
      PROVE BookTypes'
  <2>1. tripped' \in BOOLEAN
    BY <1>1 DEF RiskCheck
  <2> QED BY <1>1, <2>1 DEF RiskCheck, broker, book
<1>2. CASE Send
  <2>1. late' \in Nat
    BY <1>2 DEF Send
  <2>2. tripped' \in BOOLEAN
    BY <1>2, Zenon DEF Send
  <2>3. bstat' \in [Orders -> BrokerStatus]
    BY <1>2 DEF Send, BrokerStatus
  <2> QED BY <1>2, <2>1, <2>2, <2>3 DEF Send, book
<1>3. CASE PlaceRefused
  BY <1>3 DEF PlaceRefused, book, breaker, BrokerStatus
<1>4. CASE BookFill
  <2>1. Head(queue) = queue[1] /\ 1 \in 1..Len(queue) /\ Tail(queue) \in Seq(Orders)
    BY <1>4 DEF BookFill
  <2>2. Head(queue) \in 1..placed /\ Head(queue) \in Orders
    <3>1. queue[1] \in registered
      BY <2>1 DEF TrackerInv
    <3>2. registered \subseteq 1..placed
      BY DEF DispatchInv
    <3>3. queue[1] \in Orders
      BY <2>1
    <3> QED BY <2>1, <3>1, <3>2, <3>3
  <2>3. leg[Head(queue)].key \in Keys /\ leg[Head(queue)].lots \in Int
    BY <2>2, LotsInt DEF DispatchInv
  <2>4. queue' \in Seq(Orders)
    BY <1>4, <2>1 DEF BookFill
  <2>5. qty' \in [Keys -> Int] /\ archived' \subseteq Keys
    BY <1>4, <2>3 DEF BookFill
  <2>6. booked' \in [Orders -> Nat]
    BY <1>4, <2>2 DEF BookFill
  <2>7. UNCHANGED <<bstat, bfilled, tripped, late>>
    BY <1>4 DEF BookFill, broker, breaker
  <2> QED BY <2>4, <2>5, <2>6, <2>7
<1>5. CASE OnReconnect \/ DailyReset
  <2>1. tripped' \in BOOLEAN
    BY <1>5, Zenon DEF OnReconnect, DailyReset
  <2> QED BY <1>5, <2>1 DEF OnReconnect, DailyReset, broker, book
<1>6. CASE BrokerStep
  <2>1. ASSUME NEW o \in Orders, BrokerAccept(o) PROVE BookTypes'
    BY <2>1 DEF BrokerAccept, book, breaker, BrokerStatus
  <2>2. ASSUME NEW o \in Orders, NEW lots \in 1..Abs(leg[o].lots), BrokerFill(o, lots)
        PROVE BookTypes'
    BY <2>2 DEF BrokerFill, book, breaker, BrokerStatus
  <2>3. ASSUME NEW o \in Orders, BrokerEnd(o) PROVE BookTypes'
    BY <2>3 DEF BrokerEnd, book, breaker, BrokerStatus
  <2> QED BY <1>6, <2>1, <2>2, <2>3 DEF BrokerStep
<1>7. ASSUME NEW o \in Orders, ScanTerminal(o) PROVE BookTypes'
  <2>1. queue' \in Seq(Orders) /\ UNCHANGED <<broker, book, breaker>>
    BY <1>7 DEF ScanTerminal
  <2> QED BY <2>1 DEF broker, book, breaker
<1>8. CASE UNCHANGED <<broker, queue, book, breaker>>
  BY <1>8 DEF broker, book, breaker
<1> QED
  BY <1>1, <1>2, <1>3, <1>4, <1>5, <1>6, <1>7, <1>8
     DEF Next, PlaceStep, ScanStep, Signal, StartLeg, MarginRejected, PlaceOk,
         PlaceLost, Fetch, BeginScan, ScanOther, EndScan, ScanBroken, vars

-----------------------------------------------------------------------------
LEMMA DispatchInit == Init => DispatchInv
BY FlowAssumption DEF Init, DispatchInv, Placing

LEMMA DispatchStep ==
    ASSUME TypeOK, DispatchInv, TrackerInv, [Next]_vars
    PROVE  DispatchInv'
<1> USE FlowAssumption DEF TypeOK, DispatchTypes, DispatchInv, Placing, Orders
<1>1. ASSUME NEW n \in {1, 2}, Signal(n) PROVE DispatchInv'
  BY <1>1 DEF Signal, broker
<1>2. ASSUME NEW k \in Keys, NEW lots \in Legs, StartLeg(k, lots) PROVE DispatchInv'
  <2> DEFINE o == placed + 1
  <2>1. /\ o \in Orders /\ o \notin registered /\ bstat[o] = "none"
        /\ placed' = o /\ registered' = registered /\ bstat' = bstat
        /\ leg' = [leg EXCEPT ![o] = [key |-> k, lots |-> lots]]
    BY <1>2 DEF StartLeg, broker
  <2>2. /\ pc' \in {"idle", "leg", "margin"}
        /\ pc' = "idle" => legs' = 0
        /\ pc' = "leg" => legs' > 0 /\ legs' = legs - 1
        /\ pc' = "margin" => legs' = legs
    BY <1>2 DEF StartLeg, NextLeg, Abort
  <2>3. \A p \in 1..placed' : leg'[p] \in [key : Keys, lots : Legs]
    BY <2>1
  <2> QED BY <1>2, <2>1, <2>2, <2>3 DEF StartLeg
<1>3. CASE MarginRejected
  BY <1>3 DEF MarginRejected, NextLeg, broker
<1>4. ASSUME NEW breach \in BOOLEAN, NEW trips \in BOOLEAN, RiskCheck(breach, trips)
      PROVE DispatchInv'
  BY <1>4 DEF RiskCheck, NextLeg, Abort, broker
<1>5. CASE Send
  BY <1>5 DEF Send
<1>6. CASE PlaceOk
  BY <1>6 DEF PlaceOk, NextLeg, broker
<1>7. CASE PlaceRefused
  BY <1>7 DEF PlaceRefused, NextLeg, Abort
<1>8. CASE PlaceLost
  BY <1>8 DEF PlaceLost, NextLeg, Abort, broker
<1>9. CASE BookFill \/ OnReconnect \/ DailyReset
  BY <1>9 DEF BookFill, OnReconnect, DailyReset, dispatch, broker
<1>10. CASE BrokerStep
  <2>1. PICK o \in Orders : BrokerAccept(o) \/ (\E lots \in 1..Abs(leg[o].lots) : BrokerFill(o, lots))
                            \/ BrokerEnd(o)
    BY <1>10 DEF BrokerStep
  <2>2. bstat[o] # "none" /\ UNCHANGED dispatch
    BY <2>1 DEF BrokerAccept, BrokerFill, BrokerEnd, BookTypes
  <2>3. \A p \in Orders : bstat'[p] = "none" <=> bstat[p] = "none"
    BY <2>1 DEF BrokerAccept, BrokerFill, BrokerEnd, BookTypes
  <2> QED BY <2>2, <2>3 DEF dispatch
<1>11. CASE Fetch \/ BeginScan \/ EndScan \/ ScanBroken
  BY <1>11 DEF Fetch, BeginScan, EndScan, ScanBroken, dispatch, broker
<1>12. ASSUME NEW o \in Orders, ScanTerminal(o) \/ ScanOther(o) PROVE DispatchInv'
  <2>1. o # placed \/ ~Placing
    BY <1>12 DEF ScanTerminal, ScanOther, NextEntry, TrackerInv
  <2>2. /\ UNCHANGED <<pc, legs, placed, leg, registered, bstat>>
        /\ \A p \in Orders \ {o} : status'[p] = status[p]
    BY <1>12 DEF ScanTerminal, ScanOther, NoFillData, broker
  <2> QED BY <2>1, <2>2
<1>13. CASE UNCHANGED vars
  BY <1>13 DEF vars, dispatch, broker
<1> QED
  BY <1>1, <1>2, <1>3, <1>4, <1>5, <1>6, <1>7, <1>8, <1>9, <1>10, <1>11, <1>12, <1>13
     DEF Next, PlaceStep, ScanStep

-----------------------------------------------------------------------------
LEMMA TrackerInit == Init => TrackerInv
BY FlowAssumption DEF Init, TrackerInv, InLoop, NothingFetched

LEMMA TrackerStep ==
    ASSUME TypeOK, DispatchInv, TrackerInv, [Next]_vars
    PROVE  TrackerInv'
<1> USE FlowAssumption DEF TypeOK, DispatchTypes, TrackerTypes, BookTypes, TrackerInv, InLoop
<1>1. ASSUME NEW k \in Keys, NEW lots \in Legs, StartLeg(k, lots) PROVE TrackerInv'
  <2>1. /\ placed + 1 \in Orders /\ placed + 1 \notin registered /\ bstat[placed + 1] = "none"
        /\ \A p \in Orders : p # placed + 1 => status'[p] = status[p] /\ leg'[p] = leg[p]
        /\ UNCHANGED <<tracker, broker, queue, book, registered>>
    BY <1>1 DEF StartLeg, DispatchInv, Orders
  <2> QED BY <2>1 DEF tracker, broker, book
<1>2. ASSUME MarginRejected \/ PlaceLost
             \/ \E breach, trips \in BOOLEAN : RiskCheck(breach, trips)
      PROVE  TrackerInv'
  <2>1. placed \in Orders \ registered
    BY <1>2 DEF MarginRejected, PlaceLost, RiskCheck, DispatchInv, Placing, Orders
  <2>2. \A p \in Orders : p # placed => status'[p] = status[p]
    <3>1. CASE MarginRejected
      BY <3>1 DEF MarginRejected
    <3>2. CASE PlaceLost
      BY <3>2 DEF PlaceLost
    <3>3. CASE \E breach, trips \in BOOLEAN : RiskCheck(breach, trips)
      BY <3>3 DEF RiskCheck
    <3> QED BY <1>2, <3>1, <3>2, <3>3
  <2>3. UNCHANGED <<tracker, broker, queue, book, registered, leg>>
    BY <1>2 DEF MarginRejected, PlaceLost, RiskCheck
  <2> QED BY <2>1, <2>2, <2>3 DEF tracker, broker, book
<1>3. CASE Send \/ PlaceRefused
  <2>1. placed \in Orders \ registered
    BY <1>3 DEF Send, PlaceRefused, DispatchInv, Placing, Orders
  <2>2. bstat[placed] # "complete" /\ bstat'[placed] # "complete"
    BY <1>3, <2>1 DEF Send, PlaceRefused, DispatchInv
  <2>3. \A p \in Orders : p # placed => status'[p] = status[p] /\ bstat'[p] = bstat[p]
    BY <1>3, <2>1 DEF Send, PlaceRefused
  <2>4. UNCHANGED <<tracker, bfilled, queue, book, registered, leg>>
    BY <1>3 DEF Send, PlaceRefused
  <2>5. \A p \in Orders : bstat[p] = "complete" <=> bstat'[p] = "complete"
    BY <2>2, <2>3
  <2>6. \A p \in completed : status'[p] = status[p]
    BY <2>1, <2>3
  <2>7. UNCHANGED <<tpc, pending, snap, at, completed, bfilled, queue, registered, leg, booked>>
    BY <2>4 DEF tracker, book
  <2> HIDE <1>3
  <2> QED BY <2>5, <2>6, <2>7
<1>4. CASE PlaceOk
  BY <1>4 DEF PlaceOk, Track, broker, book
<1>5. CASE BookFill
  <2>1. /\ 1 \in 1..Len(queue) /\ Head(queue) = queue[1] /\ Len(Tail(queue)) = Len(queue) - 1
        /\ \A i \in 1..Len(Tail(queue)) : Tail(queue)[i] = queue[i + 1] /\ i + 1 \in 1..Len(queue)
    BY <1>5 DEF BookFill
  <2>2. Head(queue) \in Orders /\ Head(queue) \in registered /\ bstat[Head(queue)] = "complete"
    BY <2>1
  <2>3. \A p \in Orders : p # Head(queue) => booked'[p] = booked[p]
    BY <1>5 DEF BookFill
  <2>4. /\ queue' = Tail(queue)
        /\ UNCHANGED <<tpc, pending, completed, at, status, snap, leg, registered, bstat, bfilled>>
    BY <1>5 DEF BookFill, dispatch, tracker, broker
  <2>5. \A i \in 1..Len(queue') : queue'[i] \in registered' /\ bstat'[queue'[i]] = "complete"
    BY <2>1, <2>4
  <2>6. \A o \in Orders : booked'[o] > 0 => o \in registered' /\ bstat'[o] = "complete"
    BY <2>2, <2>3, <2>4
  <2> QED BY <2>4, <2>5, <2>6
<1>6. CASE BrokerStep
  <2>1. PICK o \in Orders : BrokerAccept(o) \/ (\E lots \in 1..Abs(leg[o].lots) : BrokerFill(o, lots))
                            \/ BrokerEnd(o)
    BY <1>6 DEF BrokerStep
  <2>2. /\ bstat[o] # "complete"
        /\ bstat'[o] = "complete" => bfilled'[o] = Abs(leg[o].lots)
        /\ \A p \in Orders : p # o => bstat'[p] = bstat[p] /\ bfilled'[p] = bfilled[p]
        /\ UNCHANGED <<dispatch, tracker, queue, book>>
    BY <2>1 DEF BrokerAccept, BrokerFill, BrokerEnd
  <2>3. UNCHANGED <<tpc, pending, snap, at, completed, status, queue, registered, leg, booked>>
    BY <2>2 DEF dispatch, tracker, book
  <2>4. \A p \in Orders : bstat[p] = "complete" => bstat'[p] = "complete"
    BY <2>2
  <2>5. \A p \in Orders : bstat'[p] = "complete" => bfilled'[p] = Abs(leg'[p].lots)
    BY <2>2, <2>3
  <2>6. \A i \in 1..Len(queue) : queue[i] \in Orders
    OBVIOUS
  <2> HIDE <1>6
  <2> QED BY <2>3, <2>4, <2>5, <2>6
<1>7. CASE Fetch \/ BeginScan
  BY <1>7 DEF Fetch, BeginScan, dispatch, broker, book
<1>8. ASSUME NEW o \in Orders, ScanTerminal(o) PROVE TrackerInv'
  <2>1. /\ o \in pending /\ o \in registered /\ o > at /\ at' = o
        /\ completed' = completed \cup {o}
        /\ tpc' \in {"scan", "publish"}
        /\ status'[o] \in {"FILLED", "REJECTED", "CANCELLED"}
        /\ \A p \in Orders : p # o => status'[p] = status[p]
        /\ UNCHANGED <<leg, registered, pending, snap, bstat, bfilled, booked>>
    BY <1>8 DEF ScanTerminal, NextEntry, TerminalStatus, broker, book
  <2>2. \A i \in 1..Len(queue') : queue'[i] \in registered /\ bstat[queue'[i]] = "complete"
    <3>1. CASE snap[o] = "complete"
      BY <1>8, <2>1, <3>1 DEF ScanTerminal
    <3>2. CASE snap[o] # "complete"
      BY <1>8, <3>2 DEF ScanTerminal
    <3> QED BY <3>1, <3>2
  <2>3. \A p \in completed : p <= at
    OBVIOUS
  <2>4. completed' \subseteq pending' /\ (\A p \in completed' : p <= at')
    BY <2>1, <2>3 DEF Orders
  <2> QED BY <2>1, <2>2, <2>4
<1>9. ASSUME NEW o \in Orders, ScanOther(o) PROVE TrackerInv'
  <2>1. /\ o > at /\ at' = o /\ o \notin completed
        /\ completed' = completed /\ tpc' = "scan"
        /\ \A p \in Orders : p # o => status'[p] = status[p]
        /\ UNCHANGED <<leg, registered, pending, snap, bstat, bfilled, queue, booked>>
    BY <1>9 DEF ScanOther, NextEntry, NoFillData, broker, book, Orders
  <2>2. \A p \in completed' : p <= at'
    BY <2>1 DEF Orders
  <2> QED BY <2>1, <2>2
<1>10. CASE EndScan \/ ScanBroken
  BY <1>10 DEF EndScan, ScanBroken, Pop, ForgetLocals, NothingFetched, dispatch, broker, book
<1>11. CASE UNCHANGED <<leg, status, registered, tracker, broker, queue, booked>>
  BY <1>11 DEF tracker, broker
<1> QED
  BY <1>1, <1>2, <1>3, <1>4, <1>5, <1>6, <1>7, <1>8, <1>9, <1>10, <1>11
     DEF Next, PlaceStep, ScanStep, Signal, OnReconnect, DailyReset, vars, dispatch, book

LEMMA LateInit == Init => LateInv
BY DEF Init, LateInv

LEMMA LateStep ==
    ASSUME TypeOK, DispatchInv, LateInv, [Next]_vars
    PROVE  LateInv'
<1> USE DEF TypeOK, DispatchTypes, BookTypes, LateInv
<1>1. ASSUME NEW breach \in BOOLEAN, NEW trips \in BOOLEAN, RiskCheck(breach, trips)
      PROVE LateInv'
  BY <1>1 DEF RiskCheck, BreakerBlocks, NextLeg, Abort
<1>2. CASE Send
  BY <1>2 DEF Send
<1>3. CASE DailyReset
  BY <1>3 DEF DailyReset, dispatch
<1>4. CASE OnReconnect
  BY <1>4 DEF OnReconnect, dispatch
<1>5. ASSUME NEW n \in {1, 2}, Signal(n) PROVE LateInv'
  BY <1>5 DEF Signal, breaker
<1>6. ASSUME NEW k \in Keys, NEW lots \in Legs, StartLeg(k, lots) PROVE LateInv'
  BY <1>6 DEF StartLeg, NextLeg, Abort, breaker
<1>7. CASE MarginRejected \/ PlaceOk \/ PlaceRefused \/ PlaceLost
  BY <1>7 DEF MarginRejected, PlaceOk, PlaceRefused, PlaceLost, NextLeg, Abort, breaker
<1>8. CASE BookFill \/ Fetch \/ BeginScan \/ EndScan \/ ScanBroken \/ UNCHANGED vars
  BY <1>8 DEF BookFill, Fetch, BeginScan, EndScan, ScanBroken, vars, dispatch, breaker
<1>9. CASE BrokerStep
  BY <1>9 DEF BrokerStep, BrokerAccept, BrokerFill, BrokerEnd, dispatch, breaker
<1>10. ASSUME NEW o \in Orders, ScanTerminal(o) \/ ScanOther(o) PROVE LateInv'
  BY <1>10 DEF ScanTerminal, ScanOther, breaker
<1> QED
  BY <1>1, <1>2, <1>3, <1>4, <1>5, <1>6, <1>7, <1>8, <1>9, <1>10 DEF Next, PlaceStep, ScanStep

-----------------------------------------------------------------------------
LEMMA OnceInit == Init => OnceInv
BY FlowAssumption DEF Init, OnceInv

(* Without Redis a scan is one piece: nothing is tracked or booked while   *)
(* it runs, it never breaks off, and what it announces it pops.            *)
LEMMA OnceStep ==
    ASSUME TypeOK, DispatchInv, TrackerInv, OnceInv, ~RedisBus, [Next]_vars
    PROVE  OnceInv'
<1> USE FlowAssumption DEF TypeOK, DispatchTypes, TrackerTypes, BookTypes, InLoop
<1>1. CASE PlaceOk
  <2>1. /\ placed \in Orders \ registered /\ status[placed] = "SUBMITTED"
        /\ pending' = pending \cup {placed} /\ tpc # "scan"
        /\ UNCHANGED <<tpc, size, completed, status, queue, booked>>
    BY <1>1 DEF PlaceOk, Track, LoopFree, DispatchInv, Placing, Orders, book
  <2>2. ~Announced(placed)
    BY <2>1 DEF TrackerInv, Announced
  <2>3. \A o \in pending' : Announced(o)' => o \in completed'
    BY <2>1, <2>2 DEF OnceInv, Announced
  <2> QED BY <2>1, <2>3 DEF OnceInv
<1>2. CASE BookFill
  <2> DEFINE h == Head(queue)
  <2>1. /\ 1 \in 1..Len(queue) /\ h = queue[1] /\ Len(Tail(queue)) = Len(queue) - 1
        /\ \A i \in 1..Len(Tail(queue)) : Tail(queue)[i] = queue[i + 1] /\ i + 1 \in 1..Len(queue)
    BY <1>2 DEF BookFill
  <2>2. h \in Orders /\ Announced(h) /\ booked[h] = 0
    BY <2>1 DEF Announced, OnceInv
  <2>3. /\ queue' = Tail(queue) /\ tpc # "scan"
        /\ booked'[h] = 1 /\ \A p \in Orders : p # h => booked'[p] = booked[p]
        /\ UNCHANGED <<tpc, pending, size, completed, status>>
    BY <1>2, <2>2 DEF BookFill, LoopFree, dispatch, tracker
  <2>4. \A o \in Orders : Announced(o)' => Announced(o)
    BY <2>1, <2>2, <2>3 DEF Announced
  <2>5. \A i \in 1..Len(queue') : booked'[queue'[i]] = 0
    <3> SUFFICES ASSUME NEW i \in 1..Len(queue') PROVE booked'[queue'[i]] = 0
      OBVIOUS
    <3>1. queue'[i] = queue[i + 1] /\ i + 1 \in 1..Len(queue) /\ i + 1 # 1
      BY <2>1, <2>3
    <3>2. queue[i + 1] # h /\ booked[queue[i + 1]] = 0 /\ queue[i + 1] \in Orders
      BY <2>1, <3>1 DEF OnceInv
    <3> QED BY <2>3, <3>1, <3>2
  <2>6. \A i, j \in 1..Len(queue') : queue'[i] = queue'[j] => i = j
    BY <2>1, <2>3 DEF OnceInv
  <2>7. ASSUME NEW o \in Orders PROVE booked'[o] <= 1
    <3>1. CASE o = h
      BY <2>3, <3>1
    <3>2. CASE o # h
      BY <2>3, <3>2 DEF OnceInv
    <3> QED BY <3>1, <3>2
  <2>8. \A o \in pending' : Announced(o)' => o \in completed'
    BY <2>3, <2>4 DEF OnceInv
  <2>9. /\ tpc' # "publish"
        /\ tpc' # "scan"
        /\ \A o \in pending' \ completed' : status'[o] = "SUBMITTED"
    BY <2>3 DEF OnceInv
  <2> QED BY <2>5, <2>6, <2>7, <2>8, <2>9 DEF OnceInv
<1>3. CASE BeginScan
  BY <1>3 DEF BeginScan, OnceInv, Announced, dispatch, book
<1>4. ASSUME NEW o \in Orders, ScanTerminal(o) PROVE OnceInv'
  <2>1. /\ o \in pending /\ o > at /\ tpc' = "scan" /\ Cardinality(pending) = size
        /\ completed' = completed \cup {o}
        /\ queue' \in {queue, Append(queue, o)}
        /\ \A p \in Orders : p # o => status'[p] = status[p]
        /\ UNCHANGED <<pending, size, booked>>
    BY <1>4 DEF ScanTerminal, NextEntry, book
  <2>2. o \notin completed
    BY <2>1 DEF TrackerInv, Orders
  <2>3. ~Announced(o)
    BY <2>1, <2>2 DEF OnceInv
  <2>4. ASSUME NEW p \in Orders, Announced(p)' PROVE Announced(p) \/ p = o
    <3>1. CASE queue' = queue
      BY <2>1, <2>4, <3>1 DEF Announced
    <3>2. CASE queue' = Append(queue, o)
      BY <2>1, <2>4, <3>2 DEF Announced
    <3> QED BY <2>1, <3>1, <3>2
  <2>5. booked[o] = 0 /\ \A i \in 1..Len(queue) : queue[i] # o
    BY <2>3 DEF Announced
  <2>6. /\ \A i \in 1..Len(queue') : booked'[queue'[i]] = 0
        /\ \A i, j \in 1..Len(queue') : queue'[i] = queue'[j] => i = j
    <3>1. CASE queue' = queue
      BY <2>1, <3>1 DEF OnceInv
    <3>2. CASE queue' = Append(queue, o)
      <4>1. /\ Len(queue') = Len(queue) + 1 /\ queue'[Len(queue) + 1] = o
            /\ \A i \in 1..Len(queue) : queue'[i] = queue[i]
        BY <3>2
      <4>2. \A i \in 1..Len(queue') : i = Len(queue) + 1 \/ i \in 1..Len(queue)
        BY <4>1
      <4>3. \A i \in 1..Len(queue') : booked'[queue'[i]] = 0
        <5> SUFFICES ASSUME NEW i \in 1..Len(queue') PROVE booked'[queue'[i]] = 0
          OBVIOUS
        <5>1. booked' = booked
          BY <2>1
        <5>2. CASE i = Len(queue) + 1
          BY <2>5, <4>1, <5>1, <5>2
        <5>3. CASE i \in 1..Len(queue)
          <6>1. queue'[i] = queue[i]
            BY <4>1, <5>3
          <6>2. booked[queue[i]] = 0
            BY <5>3 DEF OnceInv
          <6> QED BY <5>1, <6>1, <6>2
        <5> QED BY <4>2, <5>2, <5>3
      <4>4. \A i, j \in 1..Len(queue') : queue'[i] = queue'[j] => i = j
        <5> SUFFICES ASSUME NEW i \in 1..Len(queue'), NEW j \in 1..Len(queue'),
                            queue'[i] = queue'[j]
                     PROVE  i = j
          OBVIOUS
        <5>1. \A m, n \in 1..Len(queue) : queue[m] = queue[n] => m = n
          BY DEF OnceInv
        <5>2. CASE i \in 1..Len(queue) /\ j \in 1..Len(queue)
          BY <4>1, <5>1, <5>2
        <5>3. CASE i = Len(queue) + 1 /\ j \in 1..Len(queue)
          BY <2>5, <4>1, <5>3
        <5>4. CASE i \in 1..Len(queue) /\ j = Len(queue) + 1
          BY <2>5, <4>1, <5>4
        <5>5. CASE i = Len(queue) + 1 /\ j = Len(queue) + 1
          BY <5>5
        <5> QED BY <4>2, <5>2, <5>3, <5>4, <5>5
      <4> QED BY <4>3, <4>4
    <3> QED BY <2>1, <3>1, <3>2
  <2>7. \A p \in pending' : Announced(p)' => p \in completed'
    BY <2>1, <2>4 DEF OnceInv
  <2>8. \A p \in pending' \ completed' : status'[p] = "SUBMITTED"
    BY <2>1 DEF OnceInv
  <2> QED BY <2>1, <2>6, <2>7, <2>8 DEF OnceInv
<1>5. ASSUME NEW o \in Orders, ScanOther(o) PROVE OnceInv'
  <2>1. /\ tpc' = "scan" /\ Cardinality(pending) = size /\ completed' = completed
        /\ \A p \in Orders : status'[p] = status[p] \/ status'[p] = "SUBMITTED"
        /\ UNCHANGED <<pending, size, queue, booked>>
    BY <1>5 DEF ScanOther, NoFillData, book
  <2> QED BY <2>1 DEF OnceInv, Announced
<1>6. CASE EndScan
  <2>1. /\ tpc' = "idle" /\ pending' = pending \ completed /\ completed' = {}
        /\ UNCHANGED <<status, queue, booked>>
    BY <1>6 DEF EndScan, Pop, ForgetLocals, dispatch, book
  <2> QED BY <2>1 DEF OnceInv, Announced
<1>7. CASE ScanBroken
  BY <1>7 DEF ScanBroken, OnceInv
<1>8. ASSUME /\ UNCHANGED <<pending, completed, size, queue, booked>>
             /\ tpc' = tpc \/ tpc' = "reply"
             /\ \A p \in registered : status'[p] = status[p]
      PROVE  OnceInv'
  BY <1>8 DEF OnceInv, Announced, TrackerInv
<1>9. ASSUME NEW k \in Keys, NEW lots \in Legs, StartLeg(k, lots) PROVE OnceInv'
  <2>1. placed + 1 \in Orders /\ placed + 1 \notin registered
    BY <1>9 DEF StartLeg, DispatchInv, Orders
  <2>2. \A p \in registered : status'[p] = status[p]
    BY <1>9, <2>1 DEF StartLeg
  <2> QED BY <1>8, <1>9, <2>2 DEF StartLeg, tracker, book
<1>10. ASSUME MarginRejected \/ PlaceLost \/ PlaceRefused
              \/ \E breach, trips \in BOOLEAN : RiskCheck(breach, trips)
       PROVE  OnceInv'
  <2>1. placed \in Orders /\ placed \notin registered
    BY <1>10 DEF MarginRejected, PlaceLost, PlaceRefused, RiskCheck, DispatchInv, Placing, Orders
  <2>2. \A p \in registered : status'[p] = status[p]
    BY <1>10, <2>1 DEF MarginRejected, PlaceLost, PlaceRefused, RiskCheck
  <2>3. UNCHANGED <<tracker, queue, book>>
    BY <1>10 DEF MarginRejected, PlaceLost, PlaceRefused, RiskCheck
  <2> QED BY <1>8, <2>2, <2>3 DEF tracker, book
<1>11. CASE Send \/ Fetch \/ OnReconnect \/ DailyReset \/ BrokerStep \/ UNCHANGED vars
            \/ \E n \in {1, 2} : Signal(n)
  <2>1. /\ UNCHANGED <<pending, completed, size, queue, booked, status>>
        /\ tpc' = tpc \/ tpc' = "reply"
    BY <1>11 DEF Send, Fetch, OnReconnect, DailyReset, BrokerStep, BrokerAccept, BrokerFill,
                BrokerEnd, Signal, vars, dispatch, tracker, book
  <2> QED BY <1>8, <2>1
<1> QED
  BY <1>1, <1>2, <1>3, <1>4, <1>5, <1>6, <1>7, <1>9, <1>10, <1>11 DEF Next, PlaceStep, ScanStep

-----------------------------------------------------------------------------
LEMMA WatchedInit == Init => WatchedWhileOpen
BY DEF Init, WatchedWhileOpen, OpenOrders

(* An order leaves the pending only with a terminal status; what breaks    *)
(* off a scan leaves it there.                                             *)
LEMMA WatchedStep ==
    ASSUME TypeOK, DispatchInv, TrackerInv, WatchedWhileOpen, [Next]_vars
    PROVE  WatchedWhileOpen'
<1> USE DEF TypeOK, DispatchTypes, TrackerTypes
<1>1. CASE PlaceOk
  BY <1>1 DEF PlaceOk, Track, WatchedWhileOpen, OpenOrders
<1>2. CASE EndScan
  <2>1. \A o \in completed : status[o] # "SUBMITTED"
    BY DEF TrackerInv
  <2> QED BY <1>2, <2>1 DEF EndScan, Pop, dispatch, WatchedWhileOpen, OpenOrders
<1>3. ASSUME NEW o \in Orders, ScanTerminal(o) PROVE WatchedWhileOpen'
  <2>1. /\ o \in pending /\ UNCHANGED <<registered, pending>>
        /\ \A p \in Orders : p # o => status'[p] = status[p]
    BY <1>3 DEF ScanTerminal, NextEntry
  <2> QED BY <2>1 DEF WatchedWhileOpen, OpenOrders
<1>4. ASSUME NEW o \in Orders, ScanOther(o) PROVE WatchedWhileOpen'
  <2>1. /\ o \in pending /\ UNCHANGED <<registered, pending>>
        /\ \A p \in Orders : p # o => status'[p] = status[p]
    BY <1>4 DEF ScanOther, NextEntry, NoFillData
  <2> QED BY <2>1 DEF WatchedWhileOpen, OpenOrders
<1>5. ASSUME UNCHANGED <<registered, pending>>,
             \A p \in registered : status'[p] = status[p]
      PROVE  WatchedWhileOpen'
  BY <1>5 DEF WatchedWhileOpen, OpenOrders
<1>6. ASSUME NEW k \in Keys, NEW lots \in Legs, StartLeg(k, lots) PROVE WatchedWhileOpen'
  <2>1. placed + 1 \in Orders /\ placed + 1 \notin registered
    BY <1>6, FlowAssumption DEF StartLeg, DispatchInv, Orders
  <2>2. \A p \in registered : status'[p] = status[p]
    BY <1>6, <2>1 DEF StartLeg
  <2> QED BY <1>5, <1>6, <2>2 DEF StartLeg, tracker
<1>7. ASSUME MarginRejected \/ PlaceLost \/ PlaceRefused
             \/ \E breach, trips \in BOOLEAN : RiskCheck(breach, trips)
      PROVE  WatchedWhileOpen'
  <2>1. placed \in Orders /\ placed \notin registered
    BY <1>7, FlowAssumption
       DEF MarginRejected, PlaceLost, PlaceRefused, RiskCheck, DispatchInv, Placing, Orders
  <2>2. \A p \in registered : status'[p] = status[p]
    BY <1>7, <2>1 DEF MarginRejected, PlaceLost, PlaceRefused, RiskCheck
  <2>3. UNCHANGED <<registered, tracker>>
    BY <1>7 DEF MarginRejected, PlaceLost, PlaceRefused, RiskCheck
  <2> QED BY <1>5, <2>2, <2>3 DEF tracker
<1>8. CASE Send \/ BookFill \/ OnReconnect \/ DailyReset \/ BrokerStep \/ UNCHANGED vars
           \/ \E n \in {1, 2} : Signal(n)
  <2>1. UNCHANGED <<registered, pending, status>>
    BY <1>8 DEF Send, BookFill, OnReconnect, DailyReset, BrokerStep, BrokerAccept, BrokerFill,
                BrokerEnd, Signal, vars, dispatch, tracker
  <2> QED BY <1>5, <2>1
<1>9. CASE Fetch \/ BeginScan \/ ScanBroken
  <2>1. UNCHANGED <<registered, pending, status>>
    BY <1>9 DEF Fetch, BeginScan, ScanBroken, dispatch
  <2> QED BY <1>5, <2>1
<1> QED
  BY <1>1, <1>2, <1>3, <1>4, <1>6, <1>7, <1>8, <1>9 DEF Next, PlaceStep, ScanStep

-----------------------------------------------------------------------------
LEMMA OpenInit == Init => OpenOrdersBounded
<1> SUFFICES ASSUME Init PROVE OpenOrdersBounded
  OBVIOUS
<1>1. OpenOrders = {}
  BY DEF Init, OpenOrders
<1>2. Cardinality(OpenOrders) = 0
  BY <1>1, FS_EmptySet
<1> QED BY <1>2, FlowAssumption DEF Init, OpenOrdersBounded

(* A set grows by one at most when an element joins it.                    *)
LEMMA OneMore ==
    ASSUME NEW S, IsFiniteSet(S), NEW x
    PROVE  /\ IsFiniteSet(S \cup {x})
           /\ Cardinality(S \cup {x}) <= Cardinality(S) + 1
<1>1. Cardinality(S) \in Nat
  BY FS_CardinalityType
<1>2. CASE x \in S
  <2>1. S \cup {x} = S
    BY <1>2
  <2>2. IsFiniteSet(S \cup {x}) /\ Cardinality(S \cup {x}) = Cardinality(S)
    BY <2>1, Zenon
  <2> QED BY <1>1, <2>2
<1>3. CASE x \notin S
  BY <1>1, <1>3, FS_AddElement
<1> QED BY <1>2, <1>3

(* The open orders of the next state are no more than those of this one.   *)
LEMMA FewerOpen ==
    ASSUME TypeOK, OpenOrders' \subseteq OpenOrders
    PROVE  /\ Cardinality(OpenOrders) \in Nat /\ Cardinality(OpenOrders') \in Nat
           /\ Cardinality(OpenOrders') <= Cardinality(OpenOrders)
<1>1. IsFiniteSet(OpenOrders) /\ Cardinality(OpenOrders) \in Nat
  BY OrdersFinite DEF TypeOK, DispatchTypes, OpenOrders
<1>2. Cardinality(OpenOrders') <= Cardinality(OpenOrders) /\ IsFiniteSet(OpenOrders')
  BY <1>1, FS_Subset
<1> QED BY <1>1, <1>2, FS_CardinalityType

(* Without Redis an order of the dict that the scan reaches still counts,  *)
(* so COMPLETE without fill data takes up no new slot; and between the     *)
(* gate's count and the registration nothing else registers an order.      *)
LEMMA OpenStep ==
    ASSUME TypeOK, DispatchInv, TrackerInv, OnceInv, OpenOrdersBounded, [Next]_vars
    PROVE  OpenOrdersBounded'
<1> USE DEF TypeOK, DispatchTypes, TrackerTypes
<1> DEFINE InHand == pc \in {"submit", "sent"}
<1>0. Cardinality(OpenOrders) \in Nat /\ MaxOpenOrders \in Nat \ {0}
  BY OrdersFinite, FlowAssumption DEF OpenOrders
<1>1. ASSUME OpenOrders' \subseteq OpenOrders, InHand' => InHand
      PROVE  OpenOrdersBounded'
  BY <1>0, <1>1, FewerOpen DEF OpenOrdersBounded
<1>2. ASSUME NEW breach \in BOOLEAN, NEW trips \in BOOLEAN, RiskCheck(breach, trips)
      PROVE OpenOrdersBounded'
  <2>1. placed \in Orders /\ placed \notin registered
    BY <1>2, FlowAssumption DEF RiskCheck, DispatchInv, Placing, Orders
  <2>2. OpenOrders' \subseteq OpenOrders
    BY <1>2, <2>1 DEF RiskCheck, OpenOrders
  <2>3. InHand' => ~(Cardinality(OpenOrders) >= MaxOpenOrders)
    BY <1>2 DEF RiskCheck, LimitBreached, NextLeg, Abort
  <2> QED BY <1>0, <2>2, <2>3, FewerOpen DEF OpenOrdersBounded
<1>3. CASE PlaceOk
  <2>1. OpenOrders' \subseteq OpenOrders \cup {placed} /\ ~InHand' /\ InHand
    BY <1>3 DEF PlaceOk, NextLeg, OpenOrders
  <2>2. IsFiniteSet(OpenOrders)
    BY OrdersFinite DEF OpenOrders
  <2>3. /\ IsFiniteSet(OpenOrders \cup {placed})
        /\ Cardinality(OpenOrders \cup {placed}) <= Cardinality(OpenOrders) + 1
    BY <2>2, OneMore
  <2>4. /\ Cardinality(OpenOrders') <= Cardinality(OpenOrders \cup {placed})
        /\ IsFiniteSet(OpenOrders')
    BY <2>1, <2>3, FS_Subset
  <2>5. Cardinality(OpenOrders') \in Nat /\ Cardinality(OpenOrders \cup {placed}) \in Nat
    BY <2>3, <2>4, FS_CardinalityType
  <2> QED BY <1>0, <2>1, <2>3, <2>4, <2>5 DEF OpenOrdersBounded
<1>4. ASSUME NEW k \in Keys, NEW lots \in Legs, StartLeg(k, lots) PROVE OpenOrdersBounded'
  <2>1. placed + 1 \in Orders /\ placed + 1 \notin registered
    BY <1>4, FlowAssumption DEF StartLeg, DispatchInv, Orders
  <2>2. OpenOrders' \subseteq OpenOrders /\ ~InHand'
    BY <1>4, <2>1 DEF StartLeg, NextLeg, Abort, OpenOrders
  <2> QED BY <1>1, <2>2
<1>5. CASE MarginRejected \/ PlaceLost \/ PlaceRefused
  <2>1. placed \in Orders /\ placed \notin registered
    BY <1>5, FlowAssumption DEF MarginRejected, PlaceLost, PlaceRefused, DispatchInv, Placing, Orders
  <2>2. OpenOrders' \subseteq OpenOrders /\ ~InHand'
    BY <1>5, <2>1 DEF MarginRejected, PlaceLost, PlaceRefused, NextLeg, Abort, OpenOrders
  <2> QED BY <1>1, <2>2
<1>6. ASSUME NEW o \in Orders, ScanTerminal(o) PROVE OpenOrdersBounded'
  <2>1. OpenOrders' \subseteq OpenOrders /\ pc' = pc
    BY <1>6 DEF ScanTerminal, TerminalStatus, OpenOrders
  <2> QED BY <1>1, <2>1
<1>7. ASSUME NEW o \in Orders, ScanOther(o) PROVE OpenOrdersBounded'
  <2>1. o \in pending /\ o > at
    BY <1>7 DEF ScanOther, NextEntry
  <2>2. o \notin completed
    BY <2>1, FlowAssumption DEF TrackerInv, Orders
  <2>3. status[o] = "SUBMITTED"
    BY <2>1, <2>2 DEF OnceInv
  <2>4. OpenOrders' \subseteq OpenOrders /\ pc' = pc
    BY <1>7, <2>3 DEF ScanOther, NoFillData, OpenOrders
  <2> QED BY <1>1, <2>4
<1>8. CASE Send
  BY <1>1, <1>8 DEF Send, OpenOrders
<1>9. CASE BookFill \/ OnReconnect \/ DailyReset \/ BrokerStep \/ UNCHANGED vars
           \/ Fetch \/ BeginScan \/ EndScan \/ ScanBroken
  <2>1. UNCHANGED dispatch
    BY <1>9 DEF BookFill, OnReconnect, DailyReset, BrokerStep, BrokerAccept, BrokerFill,
                BrokerEnd, vars, Fetch, BeginScan, EndScan, ScanBroken
  <2> QED BY <1>1, <2>1 DEF dispatch, OpenOrders
<1>10. ASSUME NEW n \in {1, 2}, Signal(n) PROVE OpenOrdersBounded'
  BY <1>1, <1>10 DEF Signal, OpenOrders
<1> QED
  BY <1>2, <1>3, <1>4, <1>5, <1>6, <1>7, <1>8, <1>9, <1>10 DEF Next, PlaceStep, ScanStep

-----------------------------------------------------------------------------
LotsOf == [o \in Orders |-> leg[o].lots]
BookedOn(k) == {o \in Orders : booked[o] > 0 /\ leg[o].key = k}

LEMMA GapInit == Init => GapInv
<1> SUFFICES ASSUME Init PROVE GapInv
  OBVIOUS
<1>1. ASSUME NEW k \in Keys PROVE qty[k] = SumFunctionOnSet(LotsOf, BookedOn(k))
  <2>1. BookedOn(k) = {}
    BY DEF Init, BookedOn
  <2>2. SumFunctionOnSet(LotsOf, BookedOn(k)) = 0
    BY <2>1, SumEmpty, Zenon
  <2> QED BY <2>2 DEF Init
<1> QED BY <1>1 DEF Init, GapInv, LotsOf, BookedOn, NothingFetched, TerminalStatus

(* The lots of orders that were created are integers.                      *)
LEMMA LotsAreInt ==
    ASSUME TypeOK, DispatchInv, TrackerInv
    PROVE  /\ \A o \in 1..placed : o \in Orders /\ leg[o].key \in Keys /\ LotsOf[o] \in Int
           /\ \A k : \A o \in BookedOn(k) : o \in 1..placed
           /\ \A k : BookedOn(k) \in SUBSET Orders
<1>0. placed \in Nat /\ MaxOrders \in Nat /\ placed <= MaxOrders
  BY FlowAssumption DEF TypeOK, DispatchTypes
<1>1. ASSUME NEW o \in 1..placed
      PROVE  o \in Orders /\ leg[o].key \in Keys /\ LotsOf[o] \in Int
  <2>1. o \in Orders
    BY <1>0 DEF Orders
  <2>2. leg[o] \in [key : Keys, lots : Legs]
    BY DEF DispatchInv
  <2>3. leg[o].lots \in Int /\ leg[o].key \in Keys
    BY <2>2, FlowAssumption
  <2> QED BY <2>1, <2>3 DEF LotsOf
<1>2. ASSUME NEW o \in Orders, booked[o] > 0 PROVE o \in 1..placed
  BY <1>2 DEF TrackerInv, DispatchInv
<1> QED BY <1>1, <1>2 DEF BookedOn

(* Sums over what is booked stay as long as no fill is booked, whatever    *)
(* new legs are created.                                                   *)
LEMMA BookSumSame ==
    ASSUME TypeOK, DispatchInv, TrackerInv, booked' = booked,
           \A o \in 1..placed : leg'[o] = leg[o], NEW k \in Keys
    PROVE  SumFunctionOnSet(LotsOf, BookedOn(k))' = SumFunctionOnSet(LotsOf, BookedOn(k))
<1>1. BookedOn(k)' = BookedOn(k)
  <2>1. \A o \in Orders : booked[o] > 0 => leg'[o] = leg[o]
    BY DEF DispatchInv, TrackerInv
  <2>2. BookedOn(k)' = {o \in Orders : booked'[o] > 0 /\ leg'[o].key = k}
    BY DEF BookedOn
  <2>3. \A o \in Orders : booked'[o] > 0 /\ leg'[o].key = k <=> booked[o] > 0 /\ leg[o].key = k
    BY <2>1
  <2>4. BookedOn(k) = {o \in Orders : booked[o] > 0 /\ leg[o].key = k}
    BY DEF BookedOn
  <2> HIDE DEF BookedOn
  <2> QED BY <2>2, <2>3, <2>4
<1>2. \A o \in BookedOn(k) : LotsOf'[o] = LotsOf[o]
  BY LotsAreInt DEF LotsOf
<1>3. IsFiniteSet(BookedOn(k))
  BY LotsAreInt, OrdersFinite
<1>4. SumFunctionOnSet(LotsOf', BookedOn(k)) = SumFunctionOnSet(LotsOf, BookedOn(k))
  BY <1>2, <1>3, SumSame
<1>5. SumFunctionOnSet(LotsOf, BookedOn(k))' = SumFunctionOnSet(LotsOf', BookedOn(k)')
  OBVIOUS
<1> QED BY <1>1, <1>4, <1>5, Zenon

(* What the broker is done with it does not touch again.                   *)
LEMMA TerminalStays ==
    ASSUME TypeOK, DispatchInv, [Next]_vars, NEW o \in Orders,
           bstat[o] \in {"complete", "cancelled", "rejected"}
    PROVE  bstat'[o] = bstat[o] /\ bfilled'[o] = bfilled[o]
<1> USE DEF TypeOK, BookTypes
<1>1. CASE Send
  BY <1>1 DEF Send, DispatchInv
<1>2. CASE PlaceRefused
  BY <1>2 DEF PlaceRefused
<1>3. CASE BrokerStep
  <2>1. ASSUME NEW p \in Orders, BrokerAccept(p) PROVE bstat'[o] = bstat[o] /\ bfilled'[o] = bfilled[o]
    BY <2>1 DEF BrokerAccept
  <2>2. ASSUME NEW p \in Orders, NEW lots \in 1..Abs(leg[p].lots), BrokerFill(p, lots)
        PROVE bstat'[o] = bstat[o] /\ bfilled'[o] = bfilled[o]
    BY <2>2 DEF BrokerFill
  <2>3. ASSUME NEW p \in Orders, BrokerEnd(p) PROVE bstat'[o] = bstat[o] /\ bfilled'[o] = bfilled[o]
    BY <2>3 DEF BrokerEnd
  <2> QED BY <1>3, <2>1, <2>2, <2>3 DEF BrokerStep
<1>4. CASE UNCHANGED broker
  BY <1>4 DEF broker
<1> QED
  BY <1>1, <1>2, <1>3, <1>4
     DEF Next, PlaceStep, ScanStep, Signal, StartLeg, MarginRejected, RiskCheck, PlaceOk, PlaceLost,
         BookFill, OnReconnect, DailyReset, Fetch, BeginScan, ScanTerminal, ScanOther, EndScan,
         ScanBroken, vars

(* A fill that is announced stays so: it leaves the queue for the book.    *)
LEMMA AnnouncedStays ==
    ASSUME TypeOK, [Next]_vars, NEW o \in Orders, Announced(o)
    PROVE  Announced(o)'
<1> USE DEF TypeOK, BookTypes
<1>1. CASE BookFill
  <2>1. /\ Head(queue) = queue[1] /\ Head(queue) \in Orders /\ Len(Tail(queue)) = Len(queue) - 1
        /\ \A i \in 1..Len(Tail(queue)) : Tail(queue)[i] = queue[i + 1]
        /\ Len(queue) \in Nat
    BY <1>1 DEF BookFill
  <2>2. queue' = Tail(queue) /\ booked' = [booked EXCEPT ![Head(queue)] = @ + 1]
    BY <1>1 DEF BookFill
  <2>3. \A p \in Orders : booked'[p] >= booked[p]
    BY <2>1, <2>2
  <2>4. CASE booked[o] > 0
    BY <2>3, <2>4, <2>2, <2>1 DEF Announced
  <2>5. ASSUME NEW i \in 1..Len(queue), queue[i] = o PROVE Announced(o)'
    <3>1. CASE i = 1
      BY <2>1, <2>2, <2>5, <3>1 DEF Announced
    <3>2. CASE i # 1
      <4>1. i - 1 \in 1..Len(queue') /\ queue'[i - 1] = o
        BY <2>1, <2>2, <2>5, <3>2
      <4> QED BY <4>1 DEF Announced
    <3> QED BY <3>1, <3>2
  <2> QED BY <2>4, <2>5 DEF Announced
<1>2. ASSUME NEW p \in Orders, ScanTerminal(p) PROVE Announced(o)'
  <2>1. booked' = booked /\ (queue' = queue \/ queue' = Append(queue, p))
    BY <1>2 DEF ScanTerminal, book
  <2>2. \A i \in 1..Len(queue) : i \in 1..Len(queue') /\ queue'[i] = queue[i]
    BY <2>1
  <2> QED BY <2>1, <2>2 DEF Announced
<1>3. CASE UNCHANGED <<queue, booked>>
  BY <1>3 DEF Announced
<1> QED
  BY <1>1, <1>2, <1>3
     DEF Next, PlaceStep, ScanStep, Signal, StartLeg, MarginRejected, RiskCheck, Send, PlaceOk,
         PlaceRefused, PlaceLost, OnReconnect, DailyReset, BrokerStep, BrokerAccept, BrokerFill,
         BrokerEnd, Fetch, BeginScan, ScanOther, EndScan, ScanBroken, vars, book

(* An order that is settled stays settled.                                 *)
LEMMA SettledStays ==
    ASSUME TypeOK, DispatchInv, [Next]_vars, NEW o \in Orders, Settled(o)
    PROVE  Settled(o)'
BY TerminalStays, AnnouncedStays DEF Settled

LEMMA GapStep ==
    ASSUME TypeOK, TypeOK', DispatchInv, TrackerInv, OnceInv, GapInv, ~RedisBus, [Next]_vars
    PROVE  GapInv'
<1>1. ASSUME NEW k \in Keys
      PROVE  qty'[k] = SumFunctionOnSet(LotsOf, BookedOn(k))'
  <2>0. qty[k] = SumFunctionOnSet(LotsOf, BookedOn(k))
    BY DEF GapInv, LotsOf, BookedOn
  <2>1. CASE BookFill
    <3> DEFINE h == Head(queue)
               f == LotsOf
               B == BookedOn(k)
    <3>1. h \in Orders /\ booked[h] = 0 /\ h \in registered /\ h \in 1..placed
      <4>1. queue # <<>> /\ queue \in Seq(Orders)
        BY <2>1 DEF BookFill, TypeOK, BookTypes
      <4>2. 1 \in 1..Len(queue) /\ h = queue[1]
        BY <4>1
      <4>3. h \in registered /\ booked[h] = 0
        BY <4>2 DEF OnceInv, TrackerInv
      <4>4. h \in Orders
        BY <4>1, <4>2
      <4>5. h \in 1..placed
        <5>1. registered \subseteq 1..placed
          BY DEF DispatchInv
        <5> QED BY <4>3, <5>1, Zenon
      <4> QED BY <4>3, <4>4, <4>5
    <3>2. /\ leg' = leg /\ booked' = [booked EXCEPT ![h] = @ + 1]
          /\ qty' = [qty EXCEPT ![leg[h].key] = qty[leg[h].key] + leg[h].lots]
      BY <2>1 DEF BookFill, dispatch
    <3>3. LotsOf' = f
      BY <3>2 DEF LotsOf
    <3>4. BookedOn(k)' = IF leg[h].key = k THEN B \cup {h} ELSE B
      BY <3>1, <3>2 DEF BookedOn, TypeOK, BookTypes
    <3>5. h \notin B /\ f[h] = leg[h].lots /\ f[h] \in Int
      <4> HIDE DEF h
      <4>1. h \notin B
        BY <3>1 DEF BookedOn
      <4>2. f[h] \in Int
        BY <3>1, LotsAreInt
      <4>3. f[h] = leg[h].lots
        BY <3>1 DEF LotsOf
      <4> QED BY <4>1, <4>2, <4>3
    <3>6. SumFunctionOnSet(LotsOf, BookedOn(k))' = SumFunctionOnSet(f, BookedOn(k)')
      BY <3>3, Zenon
    <3>7. IsFiniteSet(B) /\ IsFiniteSet(B \cup {h}) /\ \A x \in B \cup {h} : f[x] \in Int
      <4>1. B \in SUBSET Orders /\ B \cup {h} \in SUBSET Orders
        BY <3>1, LotsAreInt
      <4> QED BY <3>5, <4>1, LotsAreInt, OrdersFinite
    <3>8. CASE leg[h].key = k
      <4>1. SumFunctionOnSet(f, B \cup {h}) = f[h] + SumFunctionOnSet(f, (B \cup {h}) \ {h})
        <5> HIDE DEF f, B, h
        <5> QED BY <3>7, SumRemove
      <4>2. (B \cup {h}) \ {h} = B
        BY <3>5
      <4>3. SumFunctionOnSet(f, B \cup {h}) = f[h] + SumFunctionOnSet(f, B)
        BY <4>1, <4>2, Zenon
      <4>4. SumFunctionOnSet(LotsOf, BookedOn(k))' = SumFunctionOnSet(f, B \cup {h})
        BY <3>4, <3>6, <3>8, Zenon
      <4>5. qty'[k] = qty[k] + leg[h].lots /\ qty[k] \in Int
        BY <3>2, <3>8 DEF TypeOK, BookTypes
      <4> QED BY <2>0, <3>5, <4>3, <4>4, <4>5
    <3>9. CASE leg[h].key # k
      <4>1. qty'[k] = qty[k]
        BY <3>2, <3>9 DEF TypeOK, BookTypes
      <4>2. BookedOn(k)' = B
        BY <3>4, <3>9
      <4> QED BY <2>0, <3>6, <4>1, <4>2, Zenon
    <3> QED BY <3>8, <3>9
  <2>2. ASSUME booked' = booked, qty' = qty, \A o \in 1..placed : leg'[o] = leg[o]
        PROVE  qty'[k] = SumFunctionOnSet(LotsOf, BookedOn(k))'
    BY <2>0, <2>2, BookSumSame
  <2>3. ASSUME NEW j \in Keys, NEW lots \in Legs, StartLeg(j, lots)
        PROVE  booked' = booked /\ qty' = qty /\ \A o \in 1..placed : leg'[o] = leg[o]
    BY <2>3 DEF StartLeg, book, TypeOK, DispatchTypes
  <2>4. CASE UNCHANGED <<booked, qty, leg>>
    BY <2>2, <2>4
  <2> QED
    BY <2>1, <2>2, <2>3, <2>4
       DEF Next, PlaceStep, ScanStep, Signal, MarginRejected, RiskCheck, Send, PlaceOk,
           PlaceRefused, PlaceLost, OnReconnect, DailyReset, BrokerStep, BrokerAccept, BrokerFill,
           BrokerEnd, Fetch, BeginScan, ScanTerminal, ScanOther, EndScan, ScanBroken, vars,
           book, dispatch
<1>2. ASSUME NEW o \in Orders, snap'[o] \in DOMAIN TerminalStatus
      PROVE  bstat'[o] = snap'[o]
  <2>1. snap[o] \in {"complete", "cancelled", "rejected"} => bstat[o] = snap[o]
    BY DEF GapInv, TerminalStatus
  <2>2. CASE Fetch
    BY <2>2 DEF Fetch, broker
  <2>3. CASE snap' = snap
    BY <1>2, <2>1, <2>3, TerminalStays DEF TerminalStatus
  <2>4. CASE EndScan \/ ScanBroken
    BY <1>2, <2>4 DEF EndScan, ScanBroken, ForgetLocals, NothingFetched, TerminalStatus
  <2> QED
    BY <2>2, <2>3, <2>4
       DEF Next, PlaceStep, ScanStep, Signal, StartLeg, MarginRejected, RiskCheck, Send, PlaceOk,
           PlaceRefused, PlaceLost, BookFill, OnReconnect, DailyReset, BrokerStep, BrokerAccept,
           BrokerFill, BrokerEnd, BeginScan, ScanTerminal, ScanOther, vars, tracker
<1>3. ASSUME NEW o \in Orders, bstat'[o] = "rejected" PROVE bfilled'[o] = 0
  <2>1. CASE bstat[o] = "rejected"
    BY <2>1, TerminalStays DEF GapInv
  <2>2. CASE bstat[o] # "rejected"
    <3>1. ASSUME NEW p \in Orders, BrokerEnd(p) PROVE bfilled'[o] = 0
      BY <1>3, <2>2, <3>1 DEF BrokerEnd, TypeOK, BookTypes
    <3>2. CASE BrokerStep
      BY <1>3, <2>2, <3>1, <3>2 DEF BrokerStep, BrokerAccept, BrokerFill, TypeOK, BookTypes
    <3>3. CASE Send \/ PlaceRefused
      BY <1>3, <2>2, <3>3 DEF Send, PlaceRefused, TypeOK, BookTypes
    <3>4. CASE UNCHANGED bstat
      BY <1>3, <2>2, <3>4
    <3> QED
      BY <3>2, <3>3, <3>4
         DEF Next, PlaceStep, ScanStep, Signal, StartLeg, MarginRejected, RiskCheck, PlaceOk,
             PlaceLost, BookFill, OnReconnect, DailyReset, Fetch, BeginScan, ScanTerminal,
             ScanOther, EndScan, ScanBroken, vars, broker
  <2> QED BY <2>1, <2>2
<1>4. ASSUME NEW o \in (registered' \ pending') \cup completed'
      PROVE  Settled(o)'
  <2>0. o \in Orders
    BY DEF TypeOK, DispatchTypes, TrackerTypes
  <2>1. CASE o \in (registered \ pending) \cup completed
    BY <2>0, <2>1, SettledStays DEF GapInv
  <2>2. ASSUME NEW p \in Orders, ScanTerminal(p), o = p PROVE Settled(o)'
    <3>1. /\ snap[o] \in DOMAIN TerminalStatus /\ bstat[o] = snap[o] /\ bstat' = bstat
          /\ bfilled' = bfilled
          /\ queue' = IF snap[o] = "complete" THEN Append(queue, o) ELSE queue
      BY <2>2 DEF ScanTerminal, broker, GapInv
    <3>2. CASE snap[o] = "complete"
      <4>1. Len(queue) + 1 \in 1..Len(queue') /\ queue'[Len(queue) + 1] = o
        BY <3>1, <3>2, <2>0 DEF TypeOK, BookTypes
      <4> QED BY <3>1, <3>2, <4>1 DEF Settled, Announced
    <3>3. CASE snap[o] \in {"rejected", "cancelled"}
      BY <2>0, <3>1, <3>3 DEF Settled, GapInv
    <3> QED BY <3>1, <3>2, <3>3 DEF TerminalStatus
  <2>3. ASSUME NEW p \in Orders, ScanTerminal(p)
        PROVE  o \in (registered \ pending) \cup completed \/ o = p
    BY <1>4, <2>3 DEF ScanTerminal
  <2>4. CASE EndScan
    BY <1>4, <2>1, <2>4 DEF EndScan, Pop, ForgetLocals, dispatch
  <2>5. CASE ScanBroken
    BY <1>4, <2>1, <2>5 DEF ScanBroken, ForgetLocals, dispatch
  <2>6. CASE PlaceOk
    BY <1>4, <2>1, <2>6 DEF PlaceOk, Track
  <2>7. CASE UNCHANGED <<registered, pending, completed>>
    BY <1>4, <2>1, <2>7
  <2>8. ASSUME NEW p \in Orders, ScanOther(p)
        PROVE  UNCHANGED <<registered, pending, completed>>
    BY <2>8 DEF ScanOther, NoFillData
  <2> QED
    BY <2>2, <2>1, <2>3, <2>4, <2>5, <2>6, <2>7, <2>8
       DEF Next, PlaceStep, ScanStep, Signal, StartLeg, MarginRejected, RiskCheck, Send,
           PlaceRefused, PlaceLost, BookFill, OnReconnect, DailyReset, BrokerStep, BrokerAccept,
           BrokerFill, BrokerEnd, Fetch, BeginScan, vars, tracker, dispatch
<1>5. /\ \A k \in Keys : qty'[k] = SumFunctionOnSet([o \in Orders |-> leg'[o].lots],
                                     {o \in Orders : booked'[o] > 0 /\ leg'[o].key = k})
  BY <1>1 DEF LotsOf, BookedOn
<1>6. \A o \in (registered' \ pending') \cup completed' : Settled(o)'
  BY <1>4
<1> QED BY <1>2, <1>3, <1>5, <1>6, Zenon DEF GapInv

(* With nothing in flight, the fills of an instrument's orders are those   *)
(* that were booked and those of the orders with no answer or cancelled.   *)
LEMMA GapExplained ==
    ASSUME TypeOK, DispatchInv, TrackerInv, GapInv
    PROVE  BookGapExplained
<1> SUFFICES ASSUME pending = {}, queue = <<>>, NEW k \in Keys
             PROVE  FilledOn(k, Orders) = qty[k]
                        + FilledOn(k, {o \in Orders : o \notin registered \/ bstat[o] = "cancelled"})
  BY DEF BookGapExplained
<1> DEFINE g == [o \in Orders |-> SignedFill(o)]
           A == {o \in Orders : leg[o].key = k}
           Gap == {o \in Orders : o \notin registered \/ bstat[o] = "cancelled"}
           C == {o \in Gap : leg[o].key = k}
           R == A \ C
           B == BookedOn(k)
           Q == R \ B
<1>1. FilledOn(k, Orders) = SumFunctionOnSet(g, A) /\ FilledOn(k, Gap) = SumFunctionOnSet(g, C)
  BY DEF FilledOn
<1>2. \A o \in Orders : g[o] \in Int
  BY DEF SignedFill, TypeOK, BookTypes
<1>3. A \in SUBSET Orders /\ C \in SUBSET A /\ R \in SUBSET Orders /\ Q \in SUBSET Orders
  OBVIOUS
<1>4. B \in SUBSET R
  BY DEF BookedOn, TrackerInv
<1>5. \A o \in B : g[o] = LotsOf[o]
  <2> SUFFICES ASSUME NEW o \in B PROVE g[o] = LotsOf[o]
    OBVIOUS
  <2>1. o \in Orders /\ bstat[o] = "complete" /\ LotsOf[o] \in Int /\ LotsOf[o] = leg[o].lots
    BY LotsAreInt DEF BookedOn, TrackerInv, LotsOf
  <2>2. bfilled[o] = Abs(leg[o].lots)
    BY <2>1 DEF TrackerInv
  <2> QED BY <2>1, <2>2 DEF SignedFill, Abs
<1>6. \A o \in Q : g[o] = 0
  <2> SUFFICES ASSUME NEW o \in Q PROVE g[o] = 0
    OBVIOUS
  <2>1. o \in Orders /\ o \in registered /\ bstat[o] # "cancelled" /\ ~(booked[o] > 0)
    BY DEF BookedOn
  <2>2. Settled(o)
    BY <2>1 DEF GapInv
  <2>3. ~Announced(o)
    BY <2>1 DEF Announced
  <2>4. bfilled[o] = 0
    BY <2>1, <2>2, <2>3 DEF Settled
  <2> QED BY <2>1, <2>4 DEF SignedFill
<1>7. qty[k] = SumFunctionOnSet(LotsOf, B)
  BY DEF GapInv, LotsOf, BookedOn
<1>8. /\ IsFiniteSet(A) /\ IsFiniteSet(R) /\ IsFiniteSet(Q) /\ IsFiniteSet(B)
  <2>1. B \in SUBSET Orders
    BY <1>3, <1>4
  <2> HIDE DEF A, R, Q, B
  <2> QED BY <1>3, <2>1, OrdersFinite
<1>9. /\ \A o \in A : g[o] \in Int
      /\ \A o \in R : g[o] \in Int
      /\ \A o \in C : g[o] \in Int
  BY <1>2
<1> HIDE DEF g, A, C, R, B, Q
<1>10. SumFunctionOnSet(g, A) = SumFunctionOnSet(g, C) + SumFunctionOnSet(g, R)
  BY <1>3, <1>8, <1>9, SumSplit DEF R
<1>11. SumFunctionOnSet(g, R) = SumFunctionOnSet(g, B) + SumFunctionOnSet(g, Q)
  BY <1>4, <1>8, <1>9, SumSplit DEF Q
<1>12. SumFunctionOnSet(g, Q) = 0
  BY <1>6, <1>8, SumZero
<1>13. SumFunctionOnSet(g, B) = SumFunctionOnSet(LotsOf, B)
  BY <1>5, <1>8, SumSame
<1>14. SumFunctionOnSet(g, C) \in Int /\ qty[k] \in Int
  <2>1. IsFiniteSet(C)
    BY <1>3, <1>8, FS_Subset
  <2> QED BY <1>9, <2>1, SumInt DEF TypeOK, BookTypes
<1> QED BY <1>1, <1>7, <1>10, <1>11, <1>12, <1>13, <1>14

-----------------------------------------------------------------------------
Inv == TypeOK /\ DispatchInv /\ TrackerInv /\ LateInv

(* The conjunction of the parts is invariant.                              *)
LEMMA InvHolds == Spec => []Inv
<1>1. Init => Inv
  BY TypeInit, DispatchInit, TrackerInit, LateInit DEF Inv
<1>2. Inv /\ [Next]_vars => Inv'
  <2> SUFFICES ASSUME Inv, [Next]_vars PROVE Inv'
    OBVIOUS
  <2>1. TypeOK'
    BY DispatchTypesStep, TrackerTypesStep, BookTypesStep DEF Inv, TypeOK
  <2> QED BY <2>1, DispatchStep, TrackerStep, LateStep DEF Inv
<1> QED BY <1>1, <1>2, PTL DEF Spec

(* Without Redis, so is the part about announcements.                      *)
LEMMA OnceHolds == ASSUME ~RedisBus PROVE Spec => []OnceInv
<1>1. Inv /\ OnceInv /\ [Next]_vars => OnceInv'
  BY OnceStep DEF Inv
<1> QED BY <1>1, OnceInit, InvHolds, PTL DEF Spec

(* Every variable keeps its type, Redis or not.                            *)
THEOREM TypeCorrect == Spec => []TypeOK
<1>1. Inv => TypeOK
  BY DEF Inv
<1> QED BY <1>1, InvHolds, PTL

(* Without Redis, a fill is booked at most once, and only after the broker *)
(* completed the order.                                                    *)
THEOREM FillsBookedOnce == ASSUME ~RedisBus PROVE Spec => []FillBookedOnce
<1>1. Inv /\ OnceInv => FillBookedOnce
  BY DEF Inv, TrackerInv, OnceInv, FillBookedOnce
<1> QED BY <1>1, InvHolds, OnceHolds, PTL

(* After a trip of the breaker one risk-increasing order goes out at most, *)
(* the one whose check at the gate tripped it, however many signals and    *)
(* legs are waiting.                                                       *)
THEOREM LateEntriesBounded == Spec => []LateEntryBounded
<1>1. Inv => LateEntryBounded
  BY DEF Inv, LateInv, LateEntryBounded
<1> QED BY <1>1, InvHolds, PTL

(* Without Redis, max_open_orders bounds the orders that are registered    *)
(* and not terminal together with the one on its way to the broker.        *)
THEOREM OpenOrdersStayBounded == ASSUME ~RedisBus PROVE Spec => []OpenOrdersBounded
<1>1. Inv /\ OnceInv /\ OpenOrdersBounded /\ [Next]_vars => OpenOrdersBounded'
  BY OpenStep DEF Inv
<1> QED BY <1>1, OpenInit, InvHolds, OnceHolds, PTL DEF Spec

(* Without Redis, once nothing is in flight the book is off the broker's   *)
(* position by what orders without an answer and cancelled orders filled,  *)
(* and by nothing else.                                                    *)
THEOREM GapsExplained == ASSUME ~RedisBus PROVE Spec => []BookGapExplained
<1>1. Inv /\ Inv' /\ OnceInv /\ GapInv /\ [Next]_vars => GapInv'
  BY GapStep DEF Inv
<1>2. Inv /\ GapInv => BookGapExplained
  BY GapExplained DEF Inv
<1> QED BY <1>1, <1>2, GapInit, InvHolds, OnceHolds, PTL DEF Spec

(* With Redis or without, and however scans break off, the tracker never   *)
(* loses an order that takes up one of the max_open_orders slots.          *)
THEOREM OpenOrdersWatched == Spec => []WatchedWhileOpen
<1>1. Inv /\ WatchedWhileOpen /\ [Next]_vars => WatchedWhileOpen'
  BY WatchedStep DEF Inv
<1> QED BY <1>1, WatchedInit, InvHolds, PTL DEF Spec
=============================================================================
