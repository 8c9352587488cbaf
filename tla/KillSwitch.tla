----------------------------- MODULE KillSwitch -----------------------------
(***************************************************************************)
(* The kill switch (risk/kill_switch.py) against a live account: activate()*)
(* runs as a task of the API, next to the dispatch task that may have an   *)
(* order on its way through the OMS, and to the broker, which fills what   *)
(* it has while both wait.                                                 *)
(*                                                                         *)
(* activate() awaits at each of its broker calls.  Its three parts are     *)
(* cancel the open orders, flatten the net positions in up to MaxRetries   *)
(* attempts a second apart, and halt the strategies.                       *)
(***************************************************************************)
EXTENDS Integers

CONSTANTS Keys,        \* instruments
          Holdings,    \* signed lots that may be held when the model starts
          OrderLots,   \* signed lots of an OMS order
          MaxRetries,  \* max_retries, 3
          MaxOrders    \* bound: OMS orders per behaviour

ASSUME KillAssumption ==
    /\ Keys # {}
    /\ Holdings \subseteq Int
    /\ OrderLots \subseteq Int \ {0}
    /\ MaxRetries \in Nat \ {0}
    /\ MaxOrders \in Nat

Orders == 1..MaxOrders
OrderState == {"none", "transit", "open", "gone"}

VARIABLES
    \* the kill switch
    activated,  \* _activated
    kpc,        \* "off", or where activate() awaits: "orders", "cancel",
                \* "positions", "close", "halt", "done"
    toCancel,   \* open orders in the fetched list not yet cancelled
    attempt,    \* 1..MaxRetries
    toClose,    \* toClose[k]: lots of k in the fetched positions not yet closed
    remaining,  \* did the last fetch show a position?
    errors,     \* is results["errors"] not empty?
    \* the OMS
    opc,        \* "idle", "gated" (past the risk gate), "sent"
    placed,     \* OMS orders so far
    order,      \* order[o]: instrument and signed lots still to fill
    \* the broker
    ostate,     \* ostate[o]: "transit" until it works, "open", "gone"
    net,        \* net[k]: net position
    closing,    \* closing[k]: lots of the kill switch's orders not yet filled
    \* history
    unseen,     \* unseen[k]: lots the OMS filled since positions were fetched
    lagged,     \* was an order of the kill switch not filled by the time its
                \* call returned?
    late        \* OMS orders sent since activation

killer  == <<activated, kpc, toCancel, attempt, toClose, remaining, errors>>
oms     == <<opc, placed, order>>
account == <<net, closing, unseen>>
vars    == <<killer, oms, ostate, account, lagged, late>>

NoOrder == [key |-> CHOOSE k \in Keys : TRUE, lots |-> 0]
Nothing == [k \in Keys |-> 0]
Unit(n) == IF n > 0 THEN 1 ELSE -1
-----------------------------------------------------------------------------
(* The OMS: place_order, one order at a time.                              *)

GateOpenBad == TRUE

(* validate_order raises KillSwitchActiveError, before anything else.      *)
GateOpen == ~activated

Gate(k, lots) ==
    /\ opc = "idle"
    /\ placed < MaxOrders
    /\ GateOpen
    /\ opc' = "gated"
    /\ placed' = placed + 1
    /\ order' = [order EXCEPT ![placed + 1] = [key |-> k, lots |-> lots]]
    /\ UNCHANGED <<killer, ostate, account, lagged, late>>

(* After the ORDER_PLACED event and the rate limit the request is sent.    *)
Send ==
    /\ opc = "gated"
    /\ opc' = "sent"
    /\ ostate' = [ostate EXCEPT ![placed] = "transit"]
    /\ late' = IF activated THEN late + 1 ELSE late
    /\ UNCHANGED <<killer, placed, order, account, lagged>>

(* The call returns: with an order id, or without, when the broker refuses *)
(* the order or its answer is lost.                                        *)
Return ==
    /\ opc = "sent"
    /\ opc' = "idle"
    /\ \/ UNCHANGED ostate
       \/ ostate[placed] = "transit" /\ ostate' = [ostate EXCEPT ![placed] = "gone"]
    /\ UNCHANGED <<killer, placed, order, account, lagged, late>>
-----------------------------------------------------------------------------
(* The broker.                                                             *)

(* An order that arrived is validated and works: only now its status is    *)
(* OPEN, TRIGGER PENDING or OPEN PENDING.                                  *)
Accept(o) ==
    /\ ostate[o] = "transit"
    /\ ostate' = [ostate EXCEPT ![o] = "open"]
    /\ UNCHANGED <<killer, oms, account, lagged, late>>

Fill(o) ==
    LET lot == Unit(order[o].lots)
        k   == order[o].key
    IN  /\ ostate[o] = "open"
        /\ order' = [order EXCEPT ![o].lots = @ - lot]
        /\ ostate' = IF order[o].lots = lot THEN [ostate EXCEPT ![o] = "gone"] ELSE ostate
        /\ net' = [net EXCEPT ![k] = @ + lot]
        /\ unseen' = [unseen EXCEPT ![k] = @ + lot]
        /\ UNCHANGED <<killer, opc, placed, closing, lagged, late>>

(* A market order of the kill switch that was left working fills.          *)
FillClose(k) ==
    LET lot == Unit(closing[k])
    IN  /\ closing[k] # 0
        /\ closing' = [closing EXCEPT ![k] = @ - lot]
        /\ net' = [net EXCEPT ![k] = @ + lot]
        /\ UNCHANGED <<killer, oms, ostate, unseen, lagged, late>>
-----------------------------------------------------------------------------
(* activate().                                                             *)

Activate ==
    /\ kpc = "off"
    /\ kpc' = "orders"
    /\ activated' = TRUE
    /\ UNCHANGED <<toCancel, attempt, toClose, remaining, errors,
                   oms, ostate, account, lagged, late>>

MayError == UNCHANGED errors \/ errors' = TRUE

(* get_orders: the list, of which those that work are to be cancelled, or  *)
(* an error.                                                               *)
FetchOrders ==
    /\ kpc = "orders"
    /\ kpc' = "cancel"
    /\ \/ toCancel' = {o \in Orders : ostate[o] = "open"} /\ UNCHANGED errors
       \/ toCancel' = {} /\ errors' = TRUE
    /\ UNCHANGED <<activated, attempt, toClose, remaining,
                   oms, ostate, account, lagged, late>>

(* cancel_order fails for an order that has filled, and for any reason.    *)
Cancel(o) ==
    /\ kpc = "cancel"
    /\ o \in toCancel
    /\ toCancel' = toCancel \ {o}
    /\ \/ /\ ostate[o] = "open"
          /\ ostate' = [ostate EXCEPT ![o] = "gone"]
          /\ UNCHANGED errors
       \/ errors' = TRUE /\ UNCHANGED ostate
    /\ UNCHANGED <<activated, kpc, attempt, toClose, remaining,
                   oms, account, lagged, late>>

CancelsDone ==
    /\ kpc = "cancel"
    /\ toCancel = {}
    /\ kpc' = "positions"
    /\ UNCHANGED <<activated, toCancel, attempt, toClose, remaining, errors,
                   oms, ostate, account, lagged, late>>

MoreAttemptsBad == attempt <= MaxRetries

MoreAttempts == attempt < MaxRetries

RetryBad == kpc' = "positions" /\ UNCHANGED attempt

(* The next attempt after a second's sleep, or on to the strategies.       *)
Retry ==
    \/ MoreAttempts /\ kpc' = "positions" /\ attempt' = attempt + 1
    \/ ~MoreAttempts /\ kpc' = "halt" /\ UNCHANGED attempt

FetchFailedBad == UNCHANGED errors

FetchFailed == errors' = TRUE

(* get_positions, for one attempt.                                         *)
FetchPositions ==
    /\ kpc = "positions"
    /\ \/ /\ kpc' = "close"
          /\ toClose' = net
          /\ remaining' = (net # Nothing)
          /\ unseen' = Nothing
          /\ UNCHANGED <<attempt, errors>>
       \/ /\ FetchFailed
          /\ Retry
          /\ UNCHANGED <<toClose, remaining, unseen>>
    /\ UNCHANGED <<activated, toCancel, oms, ostate, net, closing, lagged, late>>

(* place_order of the opposite side: filled by the time the call returns,  *)
(* left working, or refused.  A call that times out may have done either.  *)
Close(k) ==
    /\ kpc = "close"
    /\ toClose[k] # 0
    /\ toClose' = [toClose EXCEPT ![k] = 0]
    /\ \/ /\ net' = [net EXCEPT ![k] = @ - toClose[k]]
          /\ UNCHANGED <<closing, lagged>>
          /\ MayError
       \/ /\ closing' = [closing EXCEPT ![k] = @ - toClose[k]]
          /\ lagged' = TRUE
          /\ MayError
          /\ UNCHANGED net
       \/ errors' = TRUE /\ UNCHANGED <<net, closing, lagged>>
    /\ UNCHANGED <<activated, kpc, toCancel, attempt, remaining,
                   oms, ostate, unseen, late>>

(* The attempts end when a fetch showed nothing to close.                  *)
EndAttempt ==
    /\ kpc = "close"
    /\ toClose = Nothing
    /\ IF remaining THEN Retry ELSE kpc' = "halt" /\ UNCHANGED attempt
    /\ UNCHANGED <<activated, toCancel, toClose, remaining, errors,
                   oms, ostate, account, lagged, late>>

(* stop_all, the KILL_SWITCH event and the status.                         *)
Halt ==
    /\ kpc = "halt"
    /\ kpc' = "done"
    /\ MayError
    /\ UNCHANGED <<activated, toCancel, attempt, toClose, remaining,
                   oms, ostate, account, lagged, late>>
-----------------------------------------------------------------------------
Init ==
    /\ activated = FALSE /\ kpc = "off" /\ toCancel = {} /\ attempt = 1
    /\ toClose = Nothing /\ remaining = FALSE /\ errors = FALSE
    /\ opc = "idle" /\ placed = 0
    /\ order = [o \in Orders |-> NoOrder]
    /\ ostate = [o \in Orders |-> "none"]
    /\ net \in [Keys -> Holdings]
    /\ closing = Nothing /\ unseen = Nothing
    /\ lagged = FALSE /\ late = 0

OmsStep == (\E k \in Keys, lots \in OrderLots : Gate(k, lots)) \/ Send \/ Return

BrokerStep == (\E o \in Orders : Accept(o) \/ Fill(o)) \/ \E k \in Keys : FillClose(k)

KillStep ==
    \/ FetchOrders
    \/ \E o \in Orders : Cancel(o)
    \/ CancelsDone
    \/ FetchPositions
    \/ \E k \in Keys : Close(k)
    \/ EndAttempt
    \/ Halt

Next == OmsStep \/ BrokerStep \/ Activate \/ KillStep

(* Every await of activate() ends: a Kite call times out, the limiter's    *)
(* wait is bounded, the sleeps are a second.                               *)
Spec == Init /\ [][Next]_vars /\ WF_vars(KillStep)
-----------------------------------------------------------------------------
Success == kpc = "done" /\ ~errors     \* results["status"] = "success"

(* The type of every variable.                                             *)
TypeOK ==
    /\ activated \in BOOLEAN
    /\ kpc \in {"off", "orders", "cancel", "positions", "close", "halt", "done"}
    /\ toCancel \subseteq Orders
    /\ attempt \in 1..MaxRetries
    /\ toClose \in [Keys -> Int]
    /\ remaining \in BOOLEAN /\ errors \in BOOLEAN
    /\ opc \in {"idle", "gated", "sent"}
    /\ placed \in 0..MaxOrders
    /\ order \in [Orders -> [key : Keys, lots : Int]]
    /\ ostate \in [Orders -> OrderState]
    /\ net \in [Keys -> Int] /\ closing \in [Keys -> Int] /\ unseen \in [Keys -> Int]
    /\ lagged \in BOOLEAN /\ late \in Nat

(* If the kill switch reports success and each of its orders was filled by *)
(* the time its call returned, then all that is left of the positions is   *)
(* what OMS orders filled after the last look at them, however fetches and *)
(* closes failed and fills moved the positions meanwhile.                  *)
PromptSuccessFlat ==
    Success /\ ~lagged => \A k \in Keys : net[k] = unseen[k]

(* At most one OMS order goes out once the kill switch is activated: the   *)
(* one that had passed the gate.                                           *)
LateOrderBounded == late <= 1

(* An activated kill switch comes to an end and reports, whatever fails.   *)
KillCompletes == activated ~> kpc = "done"

Settled ==
    /\ opc = "idle" /\ closing = Nothing
    /\ \A o \in Orders : ostate[o] \in {"none", "gone"}

(* "Close ALL open positions at market": after a success, with nothing     *)
(* left working, the account is flat.  It fails: an attempt that finds a   *)
(* position unchanged closes it again although the last attempt's order    *)
(* is still working, and the last attempt is not looked after at all.      *)
FlatOnSuccess == Success /\ Settled => net = Nothing
=============================================================================
