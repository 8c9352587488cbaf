----------------------------- MODULE OrderFlow ------------------------------
(***************************************************************************)
(* The life of an order in live trading: OrderManager.place_order with its *)
(* risk gate, the executor's call to the broker, the OrderTracker that     *)
(* polls the broker, and the ORDER_FILLED events that reach the position   *)
(* book through the event bus.                                             *)
(*                                                                         *)
(* Two tasks of one asyncio loop act, and interleave where they await.     *)
(* The dispatch task handles one event at a time: a tick may yield a       *)
(* signal, whose legs it places one after another before it takes the next *)
(* event, and a fill is booked.  The tracker task polls the broker.  The   *)
(* broker (Kite) is external.  Ticks that yield no signal are stuttering   *)
(* steps, and a tick may stand anywhere in the bus queue, so only the      *)
(* fills in the queue are kept.                                            *)
(***************************************************************************)
EXTENDS Integers, Sequences, FiniteSets, Functions

CONSTANTS Keys,          \* (strategy, instrument) keys of the position book
          Legs,          \* signed lots a leg may ask for
          MaxLots,       \* max_total_lots
          MaxOpenOrders, \* max_open_orders
          RedisBus,      \* is the bus connected to Redis?
          MaxOrders,     \* bound: orders per behaviour
          MaxGlitches    \* bound: COMPLETE orders polled without fill data

ASSUME FlowAssumption ==
    /\ IsFiniteSet(Keys)
    /\ Legs \subseteq Int \ {0}
    /\ MaxLots \in Nat
    /\ MaxOpenOrders \in Nat \ {0}
    /\ RedisBus \in BOOLEAN
    /\ MaxOrders \in Nat
    /\ MaxGlitches \in Nat

Orders == 1..MaxOrders   \* orders are numbered as place_order creates them
NoLeg == [key |-> "none", lots |-> 0]

VARIABLES
    \* the dispatch task, in order_callback and place_order
    pc,         \* "idle" between events, or where place_order awaits
    legs,       \* legs of the current signal still to place
    placed,     \* orders created so far; the last one is being placed
    leg,        \* leg[o]: the key and signed lots of order o
    status,     \* status[o]: order.status
    exit,       \* orders the risk gate passed as risk-reducing
    registered, \* OrderManager._orders
    \* the tracker task
    tpc,        \* "idle", "reply" (get_orders sent), "scan" (in its loop,
                \* not awaiting) or "publish" (awaiting Redis inside the loop)
    pending,    \* _pending_orders, a dict in the order of placement
    snap,       \* the broker's order list as fetched
    at, size,   \* the dict iterator: last order visited, size it started with
    completed,  \* the orders to pop when the loop ends
    glitches,
    \* the broker
    bstat,      \* bstat[o]: the broker's status of order o
    bfilled,    \* bfilled[o]: lots of o it has filled
    \* the bus, the book and the circuit breaker
    queue,      \* ORDER_FILLED events not yet dispatched
    qty,        \* qty[k]: quantity of the book's position
    archived,   \* keys of _closed, whose entries hide open positions
    booked,     \* booked[o]: times the fill of o was booked
    tripped,    \* circuit breaker not CLOSED
    late        \* risk-increasing orders sent since the breaker tripped

dispatch == <<pc, legs, placed, leg, status, exit, registered>>
tracker  == <<tpc, pending, snap, at, size, completed, glitches>>
broker   == <<bstat, bfilled>>
book     == <<qty, archived, booked>>
breaker  == <<tripped, late>>
vars     == <<dispatch, tracker, broker, queue, book, breaker>>

Abs(n) == IF n < 0 THEN -n ELSE n

(* The other tasks run only where the tracker awaits: not inside its loop. *)
LoopFree == tpc # "scan"
-----------------------------------------------------------------------------
(* The risk gate, RiskManager.validate_order.                              *)

Visible == Keys \ archived

Closes(k, lots) == qty[k] # 0 /\ (qty[k] > 0 <=> lots < 0) /\ Abs(lots) <= Abs(qty[k])

RiskReducing(k, lots) == k \in Visible /\ Closes(k, lots)     \* _is_risk_reducing

TotalLots == SumFunctionOnSet([k \in Keys |-> Abs(qty[k])], Visible)

OpenOrders == {o \in registered : status[o] = "SUBMITTED"}    \* get_open_orders

(* The breaker stops every order but a risk-reducing one.                  *)
BreakerBlocks(reducing) == tripped /\ ~reducing

LimitBreachedBad(k, lots, breach) ==
    \/ ~RiskReducing(k, lots) /\ (breach \/ TotalLots + Abs(lots) > MaxLots)
    \/ Cardinality(OpenOrders) > MaxOpenOrders

(* RiskLimits.validate_order and the Greeks check; breach stands for the   *)
(* P&L and Greeks limits, which the model leaves to the environment.       *)
LimitBreached(k, lots, breach) ==
    \/ ~RiskReducing(k, lots) /\ (breach \/ TotalLots + Abs(lots) > MaxLots)
    \/ Cardinality(OpenOrders) >= MaxOpenOrders
-----------------------------------------------------------------------------
(* The dispatch task.                                                      *)

(* A tick yields a signal of n legs.                                       *)
Signal(n) ==
    /\ LoopFree
    /\ pc = "idle"
    /\ placed + n <= MaxOrders
    /\ pc' = "leg"
    /\ legs' = n
    /\ UNCHANGED <<placed, leg, status, exit, registered,
                   tracker, broker, queue, book, breaker>>

NextLegBad == pc' = (IF legs = 0 THEN "idle" ELSE "leg") /\ legs' = legs - 1

NextLeg == pc' = (IF legs = 1 THEN "idle" ELSE "leg") /\ legs' = legs - 1

(* An exception leaves place_order and order_callback: the remaining legs  *)
(* of the signal are dropped.                                              *)
Abort == pc' = "idle" /\ legs' = 0

(* place_order up to the margin check.  The validator lets the order on,   *)
(* rejects it, or raises DuplicateOrderError, which place_order lets out.  *)
StartLeg(k, lots) ==
    LET o == placed + 1
    IN  /\ LoopFree
        /\ pc = "leg"
        /\ placed' = o
        /\ leg' = [leg EXCEPT ![o] = [key |-> k, lots |-> lots]]
        /\ \/ status' = [status EXCEPT ![o] = "VALIDATING"] /\ pc' = "margin" /\ legs' = legs
           \/ status' = [status EXCEPT ![o] = "REJECTED"] /\ NextLeg
           \/ status' = [status EXCEPT ![o] = "VALIDATING"] /\ Abort
        /\ UNCHANGED <<exit, registered, tracker, broker, queue, book, breaker>>

(* The margin check fails: too little margin, or its API call failed.      *)
MarginRejected ==
    /\ LoopFree
    /\ pc = "margin"
    /\ status' = [status EXCEPT ![placed] = "REJECTED"]
    /\ NextLeg
    /\ UNCHANGED <<placed, leg, exit, registered, tracker, broker, queue, book, breaker>>

(* Margin is there and the risk gate decides, in one step.  check_pnl runs *)
(* last and may trip the breaker on the very order it lets through.        *)
RiskCheck(breach, trips) ==
    LET k == leg[placed].key
        lots == leg[placed].lots
        reducing == RiskReducing(k, lots)
    IN  /\ LoopFree
        /\ pc = "margin"
        /\ \/ /\ BreakerBlocks(reducing)                \* CircuitBreakerActiveError
              /\ Abort
              /\ UNCHANGED <<status, exit, tripped>>
           \/ /\ ~BreakerBlocks(reducing)
              /\ LimitBreached(k, lots, breach)        \* RiskLimitBreachError
              /\ status' = [status EXCEPT ![placed] = "REJECTED"]
              /\ NextLeg
              /\ UNCHANGED <<exit, tripped>>
           \/ /\ ~BreakerBlocks(reducing)
              /\ ~LimitBreached(k, lots, breach)
              /\ status' = [status EXCEPT ![placed] = "SUBMITTED"]
              /\ exit' = IF reducing THEN exit \cup {placed} ELSE exit
              /\ tripped' = (tripped \/ trips)
              /\ pc' = "submit" /\ legs' = legs
        /\ UNCHANGED <<placed, leg, registered, tracker, broker, queue, book, late>>

(* ORDER_PLACED is published, a rate limit token obtained, the request     *)
(* sent.                                                                   *)
Send ==
    /\ LoopFree
    /\ pc = "submit"
    /\ pc' = "sent"
    /\ bstat' = [bstat EXCEPT ![placed] = "sent"]
    /\ late' = IF tripped /\ placed \notin exit THEN late + 1 ELSE late
    /\ UNCHANGED <<legs, placed, leg, status, exit, registered, tracker,
                   bfilled, queue, book, tripped>>

TrackBad(o) == pending' = IF tpc = "idle" THEN pending \cup {o} ELSE pending

Track(o) == pending' = pending \cup {o}

(* The broker answers with an order id: the order is tracked.              *)
PlaceOk ==
    /\ LoopFree
    /\ pc = "sent"
    /\ bstat[placed] # "sent"
    /\ registered' = registered \cup {placed}
    /\ Track(placed)
    /\ NextLeg
    /\ UNCHANGED <<placed, leg, status, exit, tpc, snap, at, size, completed,
                   glitches, broker, queue, book, breaker>>

(* The broker refuses the request: rate limit, order error, expired token. *)
PlaceRefused ==
    /\ LoopFree
    /\ pc = "sent"
    /\ bstat[placed] = "sent"
    /\ bstat' = [bstat EXCEPT ![placed] = "refused"]
    /\ \/ \E s \in {"FAILED", "REJECTED"} : status' = [status EXCEPT ![placed] = s] /\ NextLeg
       \/ Abort /\ UNCHANGED status                    \* BrokerAuthError
    /\ UNCHANGED <<placed, leg, exit, registered, tracker, bfilled, queue, book, breaker>>

(* The answer is lost: a network error is read as a refusal, a timeout     *)
(* leaves place_order.  The broker may have the order, or get it later.    *)
PlaceLost ==
    /\ LoopFree
    /\ pc = "sent"
    /\ \/ status' = [status EXCEPT ![placed] = "REJECTED"] /\ NextLeg
       \/ Abort /\ UNCHANGED status                    \* BrokerConnectionError
    /\ UNCHANGED <<placed, leg, exit, registered, tracker, broker, queue, book, breaker>>

(* ORDER_FILLED reaches PortfolioManager._on_order_filled.                 *)
BookFill ==
    LET o == Head(queue)
        k == leg[o].key
        q == qty[k] + leg[o].lots
    IN  /\ LoopFree
        /\ pc = "idle"
        /\ queue # <<>>
        /\ queue' = Tail(queue)
        /\ qty' = [qty EXCEPT ![k] = q]
        /\ archived' = IF q = 0 THEN archived \cup {k} ELSE archived
        /\ booked' = [booked EXCEPT ![o] = @ + 1]
        /\ UNCHANGED <<dispatch, tracker, broker, breaker>>

(* CONNECTION_RESTORED after a long disconnection trips the breaker.       *)
OnReconnect ==
    /\ LoopFree
    /\ pc = "idle"
    /\ ~tripped
    /\ tripped' = TRUE
    /\ UNCHANGED <<dispatch, tracker, broker, queue, book, late>>

(* daily_reset_task, before the market opens, so with no order in hand.    *)
DailyReset ==
    /\ LoopFree
    /\ pc = "idle"
    /\ archived' = {}
    /\ tripped' = FALSE
    /\ late' = 0
    /\ UNCHANGED <<dispatch, tracker, broker, queue, qty, booked>>
-----------------------------------------------------------------------------
(* The broker, as seen from Kite's answers.                                *)

BrokerAccept(o) ==
    /\ bstat[o] = "sent"
    /\ bstat' = [bstat EXCEPT ![o] = "live"]
    /\ UNCHANGED <<dispatch, tracker, bfilled, queue, book, breaker>>

BrokerStatus == {"none", "sent", "refused", "live", "complete", "cancelled", "rejected"}

(* Fills lots more of a live order, which completes it if it is the rest.  *)
BrokerFill(o, lots) ==
    LET filled == bfilled[o] + lots
    IN  /\ bstat[o] = "live"
        /\ filled <= Abs(leg[o].lots)
        /\ bfilled' = [bfilled EXCEPT ![o] = filled]
        /\ bstat' = IF filled = Abs(leg[o].lots)
                    THEN [bstat EXCEPT ![o] = "complete"] ELSE bstat
        /\ UNCHANGED <<dispatch, tracker, queue, book, breaker>>

(* The exchange rejects or cancels what is left of a live order.           *)
BrokerEnd(o) ==
    /\ bstat[o] = "live"
    /\ \E s \in {"cancelled"} \cup (IF bfilled[o] = 0 THEN {"rejected"} ELSE {}) :
            bstat' = [bstat EXCEPT ![o] = s]
    /\ UNCHANGED <<dispatch, tracker, bfilled, queue, book, breaker>>
-----------------------------------------------------------------------------
(* The tracker task.                                                       *)

(* _check_orders asks the broker for its orders; a call that fails changes *)
(* nothing.  snap is what the broker has when it answers.                  *)
Fetch ==
    /\ tpc = "idle"
    /\ pending # {}
    /\ tpc' = "reply"
    /\ snap' = bstat
    /\ UNCHANGED <<dispatch, pending, at, size, completed, glitches,
                   broker, queue, book, breaker>>

BeginScan ==
    /\ tpc = "reply"
    /\ tpc' = "scan"
    /\ at' = 0
    /\ size' = Cardinality(pending)
    /\ UNCHANGED <<dispatch, pending, snap, completed, glitches,
                   broker, queue, book, breaker>>

NothingFetched == [o \in Orders |-> "none"]

(* The locals of _check_orders end with the call.                          *)
ForgetLocals == snap' = NothingFetched /\ at' = 0 /\ size' = 0 /\ completed' = {}

InLoop == tpc \in {"scan", "publish"}

(* The dict iterator's next entry.                                         *)
NextEntry(o) == o \in pending /\ o > at /\ \A p \in pending : p > at => o <= p

TerminalStatus == [complete |-> "FILLED", rejected |-> "REJECTED", cancelled |-> "CANCELLED"]

(* An entry that is terminal at the broker: its status is copied and its   *)
(* event put on the bus.  With Redis, publish suspends the task here.      *)
ScanTerminal(o) ==
    /\ InLoop
    /\ Cardinality(pending) = size
    /\ NextEntry(o)
    /\ snap[o] \in DOMAIN TerminalStatus
    /\ at' = o
    /\ status' = [status EXCEPT ![o] = TerminalStatus[snap[o]]]
    /\ queue' = IF snap[o] = "complete" THEN Append(queue, o) ELSE queue
    /\ completed' = completed \cup {o}
    /\ tpc' = IF RedisBus THEN "publish" ELSE "scan"
    /\ UNCHANGED <<pc, legs, placed, leg, exit, registered, pending, snap, size,
                   glitches, broker, book, breaker>>

NoFillDataBad(o) ==
    /\ snap[o] = "complete" /\ glitches < MaxGlitches
    /\ status' = [status EXCEPT ![o] = "FILLED"]
    /\ completed' = completed \cup {o}
    /\ glitches' = glitches + 1

(* COMPLETE without a price or a quantity: back to SUBMITTED.              *)
NoFillData(o) ==
    /\ snap[o] = "complete" /\ glitches < MaxGlitches
    /\ status' = [status EXCEPT ![o] = "SUBMITTED"]
    /\ completed' = completed
    /\ glitches' = glitches + 1

(* An entry left for the next poll: still live, not listed by the broker,  *)
(* or COMPLETE without its fill data.                                      *)
ScanOther(o) ==
    /\ InLoop
    /\ Cardinality(pending) = size
    /\ NextEntry(o)
    /\ at' = o
    /\ tpc' = "scan"
    /\ \/ /\ snap[o] \notin DOMAIN TerminalStatus
          /\ UNCHANGED <<status, completed, glitches>>
       \/ NoFillData(o)
    /\ UNCHANGED <<pc, legs, placed, leg, exit, registered, pending, snap, size,
                   broker, queue, book, breaker>>

PopBad == pending' = pending
ClearBad == pending' = {}

Pop == pending' = pending \ completed

(* The loop ends: the completed orders are popped.                         *)
EndScan ==
    /\ InLoop
    /\ Cardinality(pending) = size
    /\ \A o \in pending : o <= at
    /\ tpc' = "idle"
    /\ Pop
    /\ ForgetLocals
    /\ UNCHANGED <<dispatch, glitches, broker, queue, book, breaker>>

(* The dict grew while the loop was suspended: the iterator raises         *)
(* RuntimeError, _poll_loop logs it, and nothing is popped.                *)
ScanBroken ==
    /\ InLoop
    /\ Cardinality(pending) # size
    /\ tpc' = "idle"
    /\ ForgetLocals
    /\ UNCHANGED <<dispatch, pending, glitches, broker, queue, book, breaker>>
-----------------------------------------------------------------------------
Init ==
    /\ pc = "idle" /\ legs = 0 /\ placed = 0
    /\ leg = [o \in Orders |-> NoLeg]
    /\ status = [o \in Orders |-> "PENDING"]
    /\ exit = {} /\ registered = {}
    /\ tpc = "idle" /\ pending = {} /\ at = 0 /\ size = 0 /\ completed = {}
    /\ snap = NothingFetched
    /\ glitches = 0
    /\ bstat = [o \in Orders |-> "none"]
    /\ bfilled = [o \in Orders |-> 0]
    /\ queue = <<>>
    /\ qty = [k \in Keys |-> 0]
    /\ archived = {}
    /\ booked = [o \in Orders |-> 0]
    /\ tripped = FALSE /\ late = 0

PlaceStep ==
    \/ \E k \in Keys, lots \in Legs : StartLeg(k, lots)
    \/ MarginRejected
    \/ \E breach, trips \in BOOLEAN : RiskCheck(breach, trips)
    \/ Send
    \/ PlaceOk \/ PlaceRefused \/ PlaceLost

ScanStep ==
    \/ BeginScan
    \/ \E o \in Orders : ScanTerminal(o) \/ ScanOther(o)
    \/ EndScan
    \/ ScanBroken

BrokerStep ==
    /\ LoopFree
    /\ \E o \in Orders :
            \/ BrokerAccept(o)
            \/ \E lots \in 1..Abs(leg[o].lots) : BrokerFill(o, lots)
            \/ BrokerEnd(o)

Next ==
    \/ \E n \in {1, 2} : Signal(n)
    \/ PlaceStep
    \/ BookFill
    \/ OnReconnect
    \/ DailyReset
    \/ BrokerStep
    \/ Fetch
    \/ ScanStep

(* asyncio runs every ready task: both keep running, the dispatch task as  *)
(* often as the tracker leaves its loop; every await inside place_order    *)
(* ends, with an answer or a timeout; not every fetch of the order list    *)
(* fails.  Of the broker nothing is assumed.                               *)
Fairness == SF_vars(PlaceStep) /\ SF_vars(BookFill) /\ WF_vars(Fetch) /\ WF_vars(ScanStep)

Spec == Init /\ [][Next]_vars /\ Fairness
-----------------------------------------------------------------------------
DispatchTypes ==
    /\ pc \in {"idle", "leg", "margin", "submit", "sent"}
    /\ legs \in Nat /\ placed \in 0..MaxOrders
    /\ leg \in [Orders -> [key : Keys, lots : Legs] \cup {NoLeg}]
    /\ status \in [Orders -> {"PENDING", "VALIDATING", "SUBMITTED", "FILLED",
                              "REJECTED", "CANCELLED", "FAILED"}]
    /\ exit \subseteq Orders /\ registered \subseteq Orders

TrackerTypes ==
    /\ tpc \in {"idle", "reply", "scan", "publish"}
    /\ pending \subseteq Orders /\ completed \subseteq Orders
    /\ snap \in [Orders -> BrokerStatus]
    /\ at \in 0..MaxOrders /\ size \in Nat /\ glitches \in 0..MaxGlitches

BookTypes ==
    /\ bstat \in [Orders -> BrokerStatus] /\ bfilled \in [Orders -> Nat]
    /\ queue \in Seq(Orders)
    /\ qty \in [Keys -> Int] /\ archived \subseteq Keys
    /\ booked \in [Orders -> Nat]
    /\ tripped \in BOOLEAN /\ late \in Nat

(* The type of every variable.                                             *)
TypeOK == DispatchTypes /\ TrackerTypes /\ BookTypes

(* However polls, events and placements interleave, an order's fill enters *)
(* the book at most once, and only after the broker filled all of it.      *)
(* Holds without Redis; with Redis a scan that breaks off leaves orders it *)
(* has announced among the pending, and the next poll announces them again.*)
FillBookedOnce ==
    \A o \in Orders :
        /\ booked[o] <= 1
        /\ booked[o] > 0 => bstat[o] = "complete" /\ bfilled[o] = Abs(leg[o].lots)

(* The tracker watches every order that max_open_orders counts: one that   *)
(* is forgotten while it counts would use up a slot for good, and with     *)
(* enough of them even exits would be refused.                             *)
WatchedWhileOpen == OpenOrders \subseteq pending

(* max_open_orders holds although the count is taken several awaits before *)
(* the order is registered: the order on its way to the broker included.   *)
OpenOrdersBounded ==
    Cardinality(OpenOrders) + (IF pc \in {"submit", "sent"} THEN 1 ELSE 0)
        <= MaxOpenOrders

(* Once the breaker trips, at most one risk-increasing order still goes    *)
(* out: the one whose own gate check tripped it, the loss check being the  *)
(* last of the gate (manager.py:135), whatever signals are under way.      *)
LateEntryBounded == late <= 1

SignedFill(o) == IF leg[o].lots > 0 THEN bfilled[o] ELSE -bfilled[o]
FilledOn(k, S) == SumFunctionOnSet([o \in Orders |-> SignedFill(o)],
                                   {o \in S : leg[o].key = k})

(* With nothing in flight, the book differs from the broker's position by  *)
(* exactly the fills of the orders whose placement got no answer and of    *)
(* those cancelled after a partial fill.                                   *)
BookGapExplained ==
    pc = "idle" /\ tpc = "idle" /\ pending = {} /\ queue = <<>> =>
        \A k \in Keys :
            FilledOn(k, Orders) = qty[k]
                + FilledOn(k, {o \in Orders : o \notin registered \/ bstat[o] = "cancelled"})

(* Every order the broker confirmed and filled is booked in the end, also  *)
(* when it filled before place_order returned or was polled without data.  *)
FillEventuallyBooked ==
    \A o \in Orders :
        o \in registered /\ bstat[o] = "complete" ~> booked[o] > 0
-----------------------------------------------------------------------------
(* The inductive invariant behind these properties, in named parts.        *)

Placing == pc \in {"margin", "submit", "sent"}

(* Where place_order stands, and what it has already done to its order.    *)
DispatchInv ==
    /\ pc = "idle" => legs = 0
    /\ pc = "leg" => legs > 0 /\ placed + legs <= MaxOrders
    /\ Placing => legs > 0 /\ placed > 0 /\ placed + legs <= MaxOrders + 1
                   /\ placed \notin registered
    /\ pc \in {"margin", "submit"} => bstat[placed] = "none"
    /\ pc \in {"submit", "sent"} => status[placed] = "SUBMITTED"
    /\ registered \subseteq 1..placed
    /\ \A o \in Orders : bstat[o] # "none" => o <= placed
    /\ \A o \in 1..placed : leg[o] \in [key : Keys, lots : Legs]

(* What a scan has announced, it has visited and will pop.                 *)
TrackerInv ==
    /\ pending \subseteq registered
    /\ completed \subseteq pending
    /\ ~InLoop => completed = {}
    /\ \A o \in completed : o <= at /\ status[o] \in {"FILLED", "REJECTED", "CANCELLED"}
    /\ \A o \in Orders : snap[o] = "complete" => bstat[o] = "complete"
    /\ \A o \in Orders : bstat[o] = "complete" => bfilled[o] = Abs(leg[o].lots)
    /\ \A i \in 1..Len(queue) : queue[i] \in registered /\ bstat[queue[i]] = "complete"
    /\ \A o \in Orders : booked[o] > 0 => o \in registered /\ bstat[o] = "complete"

Announced(o) == booked[o] > 0 \/ \E i \in 1..Len(queue) : queue[i] = o

(* Without Redis no scan breaks off: an order that is announced is popped  *)
(* by the same scan, so that it is announced once.                         *)
OnceInv ==
    /\ tpc # "publish"
    /\ tpc = "scan" => Cardinality(pending) = size
    /\ \A o \in pending : Announced(o) => o \in completed
    /\ \A o \in pending \ completed : status[o] = "SUBMITTED"
    /\ \A i \in 1..Len(queue) : booked[queue[i]] = 0
    /\ \A i, j \in 1..Len(queue) : queue[i] = queue[j] => i = j
    /\ \A o \in Orders : booked[o] <= 1

(* The broker is done with order o, and the tracker has noticed.           *)
Settled(o) ==
    \/ bstat[o] = "complete" /\ Announced(o)
    \/ bstat[o] = "cancelled"
    \/ bstat[o] = "rejected" /\ bfilled[o] = 0

(* The book's quantity is that of the orders whose fill was booked, and an *)
(* order the tracker no longer watches is settled.                         *)
GapInv ==
    /\ \A k \in Keys :
           qty[k] = SumFunctionOnSet([o \in Orders |-> leg[o].lots],
                                     {o \in Orders : booked[o] > 0 /\ leg[o].key = k})
    /\ \A o \in (registered \ pending) \cup completed : Settled(o)
    /\ \A o \in Orders : snap[o] \in DOMAIN TerminalStatus => bstat[o] = snap[o]
    /\ \A o \in Orders : bstat[o] = "rejected" => bfilled[o] = 0

(* The order between the gate and the broker is the one late entry.        *)
LateInv ==
    /\ ~tripped => late = 0
    /\ pc = "submit" /\ placed \notin exit => late = 0
    /\ late <= 1
=============================================================================
