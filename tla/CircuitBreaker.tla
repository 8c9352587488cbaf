--------------------------- MODULE CircuitBreaker ---------------------------
(***************************************************************************)
(* The circuit breaker (risk/circuit_breaker.py) with the two things that  *)
(* drive it: RiskManager.validate_order, which shows it the day's P&L when *)
(* an order comes as far as the end of the risk gate, and TickerManager,   *)
(* which publishes CONNECTION_LOST and CONNECTION_RESTORED.                *)
(*                                                                         *)
(* Every datetime the code keeps is held here as an age, the whole units   *)
(* of time since then, which stops growing at the first value past every   *)
(* threshold it is compared with.  A unit is one heartbeat interval or a   *)
(* fraction of it.  The bus delivers within a unit.                        *)
(***************************************************************************)
EXTENDS Integers, Sequences

CONSTANTS DayPnls,             \* the values the day's P&L may take
          MaxDayLoss, RapidLoss,
          Window,              \* rapid_loss_window
          HistoryLen,          \* maxlen of _pnl_snapshots
          DisconnectThreshold,
          HeartbeatTimeout,
          AutoReset            \* auto_reset_minutes, 0 for manual reset only

ASSUME BreakerAssumption ==
    /\ DayPnls \subseteq Int
    /\ MaxDayLoss \in Nat /\ RapidLoss \in Nat
    /\ Window \in Nat /\ AutoReset \in Nat
    /\ HistoryLen \in Nat \ {0}
    /\ DisconnectThreshold \in Nat
    /\ HeartbeatTimeout \in Nat \ {0}

None == -1      \* a datetime that is not set

VARIABLES
    state,      \* "CLOSED" or "OPEN"; half_open() has no caller
    tripAge,    \* age of _triggered_at
    snaps,      \* _pnl_snapshots: records of the age and the P&L
    since,      \* age of _disconnect_since
    \* the ticker
    link,       \* is the WebSocket up?
    tickAge,    \* age of _last_tick_time
    beat,       \* units until the heartbeat loop wakes
    down        \* history: age of the close of the link, None while it is up

pnlSide  == <<state, tripAge, snaps>>
connSide == <<since, link, tickAge, beat, down>>
vars == <<pnlSide, connSide>>

Older(age, limit) == IF age = None \/ age > limit THEN age ELSE age + 1

(* One unit of time passes; the heartbeat loop sleeps on.                  *)
Elapse ==
    /\ beat > 0
    /\ beat' = beat - 1
    /\ tripAge' = Older(tripAge, AutoReset)
    /\ snaps' = [i \in DOMAIN snaps |-> [snaps[i] EXCEPT !.age = Older(@, Window)]]
    /\ since' = Older(since, DisconnectThreshold)
    /\ tickAge' = Older(tickAge, HeartbeatTimeout)
    /\ down' = Older(down, DisconnectThreshold)
    /\ UNCHANGED <<state, link>>
-----------------------------------------------------------------------------
(* check_pnl, and what lets it run.                                        *)

(* _trip: a breaker that is open already keeps its time.                   *)
Trip == IF state = "OPEN" THEN UNCHANGED <<state, tripAge>>
                          ELSE state' = "OPEN" /\ tripAge' = 0

(* reset: nothing happens to a closed breaker, its snapshots included.     *)
Reset == IF state = "CLOSED" THEN UNCHANGED pnlSide
                             ELSE state' = "CLOSED" /\ tripAge' = None /\ snaps' = <<>>

ObservedBad(pnl) == Append(snaps, [age |-> 0, pnl |-> pnl])

(* The deque drops its oldest entry when it is full.                       *)
Observed(pnl) ==
    LET all == Append(snaps, [age |-> 0, pnl |-> pnl])
    IN  IF Len(all) > HistoryLen THEN Tail(all) ELSE all

RapidDropBad(seq, pnl) ==
    Len(seq) > 1 /\ seq[1].age <= Window /\ seq[1].pnl - pnl > RapidLoss

(* The P&L has dropped by more than RapidLoss from its peak in the window. *)
RapidDrop(seq, pnl) ==
    \E i \in 1..Len(seq) : seq[i].age <= Window /\ seq[i].pnl - pnl > RapidLoss

AutoResetDue == state = "OPEN" /\ AutoReset > 0 /\ tripAge # None /\ tripAge >= AutoReset

CheckPnl(pnl) ==
    IF AutoResetDue THEN Reset
    ELSE /\ snaps' = Observed(pnl)
         /\ IF pnl < -MaxDayLoss \/ RapidDrop(Observed(pnl), pnl)
            THEN Trip
            ELSE UNCHANGED <<state, tripAge>>

(* validate_order gets to check_pnl, its last statement, with every order  *)
(* that reduces a position, and with one that does not only while the      *)
(* breaker is closed and RiskLimits' own day loss limit, set to the same   *)
(* amount, is not breached.                                                *)
ReachesBreaker(pnl, reducing) == reducing \/ (state = "CLOSED" /\ pnl >= -MaxDayLoss)

ValidateOrder(pnl, reducing) ==
    /\ ReachesBreaker(pnl, reducing)
    /\ CheckPnl(pnl)
    /\ UNCHANGED connSide

(* daily_reset_task, each trading morning.                                 *)
DailyReset == Reset /\ UNCHANGED connSide
-----------------------------------------------------------------------------
(* The connection.                                                         *)

OnDisconnectBad == since' = IF since = None THEN 0 ELSE since

(* _on_disconnect notes the time of the latest CONNECTION_LOST.            *)
OnDisconnect == since' = 0

(* _on_reconnect, after an outage or none.                                 *)
OnReconnect ==
    /\ since' = None
    /\ IF since > DisconnectThreshold THEN Trip ELSE UNCHANGED <<state, tripAge>>

(* _on_ticks.                                                              *)
TickArrives ==
    /\ link
    /\ tickAge' = 0
    /\ UNCHANGED <<pnlSide, since, link, beat, down>>

(* _on_close: the WebSocket is lost.                                       *)
LinkCloses ==
    /\ link
    /\ link' = FALSE
    /\ down' = 0
    /\ OnDisconnect
    /\ UNCHANGED <<pnlSide, tickAge, beat>>

(* _on_connect: it is back.                                                *)
LinkOpens ==
    /\ ~link
    /\ link' = TRUE
    /\ down' = None
    /\ OnReconnect
    /\ UNCHANGED <<snaps, tickAge, beat>>

(* One round of _heartbeat_loop: CONNECTION_LOST again whenever the last   *)
(* tick is too old, whether the link is down, or only quiet.               *)
Heartbeat ==
    /\ beat = 0
    /\ beat' = HeartbeatTimeout
    /\ IF tickAge > HeartbeatTimeout THEN OnDisconnect ELSE UNCHANGED since
    /\ UNCHANGED <<pnlSide, link, tickAge, down>>
-----------------------------------------------------------------------------
(* The first connection is made, no tick has come.                         *)
Init ==
    /\ state = "CLOSED" /\ tripAge = None /\ snaps = <<>>
    /\ since = None /\ link = TRUE /\ tickAge = None
    /\ beat = HeartbeatTimeout /\ down = None

Next ==
    \/ Elapse
    \/ \E pnl \in DayPnls, reducing \in BOOLEAN : ValidateOrder(pnl, reducing)
    \/ DailyReset
    \/ TickArrives
    \/ LinkCloses
    \/ LinkOpens
    \/ Heartbeat

Spec == Init /\ [][Next]_vars
-----------------------------------------------------------------------------
Snapshot == [age : 0..Window + 1, pnl : DayPnls]

(* The type of every variable; the history keeps to the deque's maxlen.    *)
TypeOK ==
    /\ state \in {"CLOSED", "OPEN"}
    /\ tripAge \in {None} \cup 0..AutoReset + 1
    /\ snaps \in Seq(Snapshot) /\ Len(snaps) <= HistoryLen
    /\ since \in {None} \cup 0..DisconnectThreshold + 1
    /\ link \in BOOLEAN
    /\ tickAge \in {None} \cup 0..HeartbeatTimeout + 1
    /\ beat \in 0..HeartbeatTimeout
    /\ down \in {None} \cup 0..DisconnectThreshold + 1

(* "Rapid loss (X amount in Y minutes)": while the breaker is closed, no   *)
(* two of the P&Ls it kept that are still in the window show a drop of     *)
(* more than RapidLoss, in whatever order they recovered and fell, and     *)
(* across resets and the trimming of the history.                          *)
RapidLossCaught ==
    state = "CLOSED" =>
        \A i, j \in 1..Len(snaps) :
            i < j /\ snaps[i].age <= Window => snaps[i].pnl - snaps[j].pnl <= RapidLoss

(* Only a long outage trips the breaker on reconnection.  Heartbeats mark  *)
(* a merely quiet feed as lost and nothing takes that back when the ticks  *)
(* return, so a later short outage must not be measured from there.        *)
NoSpuriousTrip ==
    [][~link /\ link' /\ state = "CLOSED" /\ state' = "OPEN"
            => down > DisconnectThreshold]_vars

(* "Network disconnection lasting too long" trips the breaker when the     *)
(* connection is back.  It fails: each heartbeat of the outage publishes   *)
(* CONNECTION_LOST again, and _on_disconnect restarts the clock.           *)
LongOutageTrips ==
    [][~link /\ link' /\ down > DisconnectThreshold => state' = "OPEN"]_vars
=============================================================================
