----------------------------- MODULE Positions ------------------------------
(***************************************************************************)
(* The position book: PositionTracker (portfolio/positions.py) with the    *)
(* P&L that PnLCalculator (portfolio/pnl.py) reads from it.                *)
(*                                                                         *)
(* A position is opened by the first fill of a (strategy, instrument) key, *)
(* averaged up, reduced or reversed by later ones, and moved to an archive *)
(* of closed positions when its quantity returns to zero.  Readers see the *)
(* merge {**_positions, **_closed}, in which an archived entry wins.       *)
(***************************************************************************)
EXTENDS Integers, Sequences

CONSTANTS Strategies, Tokens,  \* strategy ids and instrument tokens
          Qtys,                \* fill quantities, positive
          Prices,              \* fill prices and LTPs, positive, in units small
                               \* enough for every average to be a whole number
          MaxClosed,           \* MAX_CLOSED_POSITIONS
          MaxFills             \* bound: fills per behaviour

ASSUME BookAssumption ==
    /\ Qtys \subseteq Nat \ {0}
    /\ Prices \subseteq Nat \ {0}
    /\ MaxClosed \in Nat \ {0}
    /\ MaxFills \in Nat

Keys == Strategies \X Tokens
Sides == {"BUY", "SELL"}

VARIABLES
    positions,    \* _positions: key -> position, open keys only
    closed,       \* _closed: key -> realised P&L of the archived position
    closedOrder,  \* the keys of _closed in the dict's insertion order
    \* history, read by the properties only
    cash,         \* cash[k]: money received less money paid since k was last flat
    banked,       \* banked[k]: cash of the round trips of k since the last reset
    last,         \* last[k]: cash of the last round trip of k, 0 before the first
    trips,        \* trips[k]: round trips of k completed since the last reset
    fills         \* fills so far

book == <<positions, closed, closedOrder>>
history == <<cash, banked, last, trips, fills>>
vars == <<book, history>>

Position == [qty : Int, avg : Int, pnl : Int, ltp : Int]

Abs(n) == IF n < 0 THEN -n ELSE n
Lesser(a, b) == IF a < b THEN a ELSE b
SignedQty(side, qty) == IF side = "BUY" THEN qty ELSE -qty
-----------------------------------------------------------------------------
(* update_from_fill, in the pieces the code computes it in.                *)

NewPosition == [qty |-> 0, avg |-> 0, pnl |-> 0, ltp |-> 0]

Held(k) == IF k \in DOMAIN positions THEN positions[k] ELSE NewPosition

Adds(pos, delta) == pos.qty # 0 /\ (pos.qty > 0 <=> delta > 0)
Reduces(pos, delta) == pos.qty # 0 /\ ~(pos.qty > 0 <=> delta > 0)

RealizedBad(pos, delta, price) ==
    IF Reduces(pos, delta)
    THEN (IF pos.qty > 0 THEN price - pos.avg ELSE pos.avg - price) * Abs(delta)
    ELSE 0

Realized(pos, delta, price) ==
    LET closeQty == Lesser(Abs(pos.qty), Abs(delta))
    IN  IF Reduces(pos, delta)
        THEN closeQty * (IF pos.qty > 0 THEN price - pos.avg ELSE pos.avg - price)
        ELSE 0

AverageBad(pos, delta, price) ==
    IF pos.qty = 0 THEN price
    ELSE IF Adds(pos, delta)
    THEN (Abs(pos.qty) * pos.avg + Abs(delta) * price) \div Abs(pos.qty + delta)
    ELSE IF pos.qty + delta = 0 THEN 0 ELSE pos.avg

Average(pos, delta, price) ==
    IF pos.qty = 0 THEN price
    ELSE IF Adds(pos, delta)
    THEN (Abs(pos.qty) * pos.avg + Abs(delta) * price) \div Abs(pos.qty + delta)
    ELSE IF pos.qty + delta = 0 THEN 0
    ELSE IF Abs(delta) > Abs(pos.qty) THEN price      \* reversed
    ELSE pos.avg

Filled(pos, delta, price) ==
    [qty |-> pos.qty + delta,
     avg |-> Average(pos, delta, price),
     pnl |-> pos.pnl + Realized(pos, delta, price),
     ltp |-> pos.ltp]

(* _closed[k] = pos: an entry that is already there keeps its place in the *)
(* dict, so a key closed again is not moved to the recent end.             *)
ArchiveOrder(k) ==
    IF k \in DOMAIN closed THEN closedOrder ELSE Append(closedOrder, k)

Archive(k, pos) ==
    LET order == ArchiveOrder(k)
        kept  == IF Len(order) > MaxClosed THEN Tail(order) ELSE order
        keys  == (DOMAIN closed \cup {k})
                    \ (IF Len(order) > MaxClosed THEN {Head(order)} ELSE {})
    IN  /\ closed' = [x \in keys |-> IF x = k THEN pos.pnl ELSE closed[x]]
        /\ closedOrder' = kept

UpdateFromFillBad(k, side, qty, price) ==
    LET delta == SignedQty(side, qty)
        pos   == Filled(Held(k), delta, price)
    IN  /\ positions' = [x \in DOMAIN positions \cup {k} |->
                            IF x = k THEN pos ELSE positions[x]]
        /\ IF pos.qty = 0 THEN Archive(k, pos) ELSE UNCHANGED <<closed, closedOrder>>

UpdateFromFillByToken(k, side, qty, price) ==
    LET pos == Filled(Held(k), SignedQty(side, qty), price)
    IN  /\ positions' = [x \in DOMAIN positions \cup {k[2]} |->
                            IF x = k[2] THEN pos ELSE positions[x]]
        /\ UNCHANGED <<closed, closedOrder>>

UpdateFromFill(k, side, qty, price) ==
    LET delta == SignedQty(side, qty)
        pos   == Filled(Held(k), delta, price)
    IN  IF pos.qty = 0
        THEN /\ positions' = [x \in DOMAIN positions \ {k} |-> positions[x]]
             /\ Archive(k, pos)
        ELSE /\ positions' = [x \in DOMAIN positions \cup {k} |->
                                IF x = k THEN pos ELSE positions[x]]
             /\ UNCHANGED <<closed, closedOrder>>

(* The money that changed hands, kept apart from the code's own arithmetic.*)
RecordFill(k, delta, price) ==
    LET flow == cash[k] - delta * price
        flat == Held(k).qty + delta = 0
    IN  /\ cash'   = [cash EXCEPT ![k] = IF flat THEN 0 ELSE flow]
        /\ banked' = [banked EXCEPT ![k] = IF flat THEN @ + flow ELSE @]
        /\ last'   = [last EXCEPT ![k] = IF flat THEN flow ELSE @]
        /\ trips'  = [trips EXCEPT ![k] = IF flat THEN @ + 1 ELSE @]
        /\ fills'  = fills + 1

(* _on_order_filled: one ORDER_FILLED event reaches the book.              *)
OnOrderFilled(k, side, qty, price) ==
    /\ fills < MaxFills
    /\ UpdateFromFill(k, side, qty, price)
    /\ RecordFill(k, SignedQty(side, qty), price)

(* update_ltp: a tick marks every open position of the instrument.         *)
UpdateLtp(token, ltp) ==
    /\ positions' = [k \in DOMAIN positions |->
                        IF k[2] = token THEN [positions[k] EXCEPT !.ltp = ltp]
                        ELSE positions[k]]
    /\ UNCHANGED <<closed, closedOrder, history>>

ResetDailyBad ==
    /\ positions' = [k \in {} |-> NewPosition]
    /\ closed' = [k \in {} |-> 0]
    /\ closedOrder' = <<>>
    /\ banked' = [k \in Keys |-> 0]
    /\ trips' = [k \in Keys |-> 0]
    /\ UNCHANGED <<cash, last, fills>>

(* reset_daily: the archive is dropped, open positions stay as they are.   *)
ResetDaily ==
    /\ closed' = [k \in {} |-> 0]
    /\ closedOrder' = <<>>
    /\ banked' = [k \in Keys |-> 0]
    /\ trips' = [k \in Keys |-> 0]
    /\ UNCHANGED <<positions, cash, last, fills>>

Init ==
    /\ positions = [k \in {} |-> NewPosition]
    /\ closed = [k \in {} |-> 0]
    /\ closedOrder = <<>>
    /\ cash = [k \in Keys |-> 0]
    /\ banked = [k \in Keys |-> 0]
    /\ last = [k \in Keys |-> 0]
    /\ trips = [k \in Keys |-> 0]
    /\ fills = 0

Next ==
    \/ \E k \in Keys, side \in Sides, qty \in Qtys, price \in Prices :
            OnOrderFilled(k, side, qty, price)
    \/ \E token \in Tokens, ltp \in Prices : UpdateLtp(token, ltp)
    \/ ResetDaily

Spec == Init /\ [][Next]_vars
-----------------------------------------------------------------------------
(* What readers see.                                                       *)

NetQuantity(k) == Held(k).qty                          \* get_net_quantity

(* get_positions: the archived entry of a key hides its open one.          *)
VisiblePnl(k) == IF k \in DOMAIN closed THEN closed[k] ELSE Held(k).pnl

(* get_pnl's mark-to-market of one open position.                          *)
Unrealized(pos) ==
    IF pos.qty > 0 THEN pos.qty * (pos.ltp - pos.avg)
                   ELSE Abs(pos.qty) * (pos.avg - pos.ltp)
-----------------------------------------------------------------------------
(* The type of every variable of the book.                                 *)
TypeOK ==
    /\ DOMAIN positions \subseteq Keys
    /\ \A k \in DOMAIN positions : positions[k] \in Position
    /\ DOMAIN closed \subseteq Keys
    /\ \A k \in DOMAIN closed : closed[k] \in Int
    /\ closedOrder \in Seq(Keys)
    /\ cash \in [Keys -> Int]
    /\ banked \in [Keys -> Int]
    /\ last \in [Keys -> Int]
    /\ trips \in [Keys -> Nat]
    /\ fills \in Nat

(* A key whose last fill took it to zero is not left open for get_position *)
(* with quantity 0; the archive's trimming order lists exactly the archived*)
(* keys, each once, and never more than MAX_CLOSED_POSITIONS of them,      *)
(* however often a key is closed and reopened.                             *)
BookConsistent ==
    /\ \A k \in DOMAIN positions : positions[k].qty # 0
    /\ \A k \in DOMAIN closed : \E i \in 1..Len(closedOrder) : closedOrder[i] = k
    /\ \A i \in 1..Len(closedOrder) : closedOrder[i] \in DOMAIN closed
    /\ \A i, j \in 1..Len(closedOrder) : closedOrder[i] = closedOrder[j] => i = j
    /\ Len(closedOrder) <= MaxClosed

(* No money appears or disappears in averaging, partial closes and         *)
(* reversals: realised plus unrealised P&L of an open position is the cash *)
(* that changed hands plus the value of what is held at the LTP.           *)
MarkToMarket ==
    \A k \in DOMAIN positions :
        positions[k].ltp > 0 =>
            positions[k].pnl + Unrealized(positions[k])
                = cash[k] + positions[k].qty * positions[k].ltp

(* However often a key is closed, reopened and trimmed on one day, readers *)
(* see for an archived key the money of its last round trip, whole: that   *)
(* of its earlier round trips is gone (positions.py:81), and what the key  *)
(* has made or lost since it was reopened is hidden (positions.py:109).    *)
LastTripPnl == \A k \in DOMAIN closed : VisiblePnl(k) = last[k]

Deltas == {SignedQty(side, qty) : side \in Sides, qty \in Qtys}

Net == INSTANCE NetPositions
           WITH net <- [k \in Keys |-> NetQuantity(k)]

(* get_net_quantity implements the abstract net ledger: fills move it by   *)
(* their signed quantity; ticks, archiving, trimming and the daily reset   *)
(* never do.                                                               *)
NetLedger == Net!Spec
=============================================================================
