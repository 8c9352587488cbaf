---------------------------- MODULE PaperBroker -----------------------------
(***************************************************************************)
(* PaperBrokerClient (broker/paper/client.py): orders are filled at once,  *)
(* at the given price or the last one set, and netted per trading symbol.  *)
(***************************************************************************)
EXTENDS Integers, Sequences, SequencesExt

CONSTANTS Symbols,     \* trading symbols
          Slip,        \* slippage: a market order pays one part in Slip more
          MaxHistory   \* MAX_TRADE_HISTORY

ASSUME PaperAssumption ==
    /\ Slip \in Nat /\ Slip > 1       \* less than the whole price
    /\ MaxHistory \in Nat \ {0}

VARIABLES
    ltps,      \* _ltp_cache: symbol -> price, 0 where none was set
    ledger,    \* _positions: symbol -> PaperPosition, flat where there is none
    trades     \* _trades, the newest last

paperVars == <<ltps, ledger, trades>>

Magnitude(n) == IF n < 0 THEN -n ELSE n
Signed(side, qty) == IF side = "BUY" THEN qty ELSE -qty
Flat == [qty |-> 0, avg |-> 0, pnl |-> 0]

PaperInit ==
    /\ ltps = [s \in Symbols |-> 0]
    /\ ledger = [s \in Symbols |-> Flat]
    /\ trades = <<>>
-----------------------------------------------------------------------------
(* Slippage always goes against the order.                                 *)
Slipped(side, price) == price + Signed(side, price \div Slip)

(* What place_order fills at; 0 where it raises for want of a price.       *)
FillPrice(symbol, side, price) ==
    Slipped(side, IF price > 0 THEN price ELSE ltps[symbol])

ReversedBad(pos, delta) == Magnitude(delta) > Magnitude(pos.qty + delta)
Reversed(pos, delta) == Magnitude(delta) > Magnitude(pos.qty)

(* _update_position, case by case.                                         *)
Opened(delta, price, pos) == [pos EXCEPT !.qty = delta, !.avg = price]

Added(delta, price, pos) ==
    LET value == Magnitude(pos.qty) * pos.avg + Magnitude(delta) * price
    IN  [pos EXCEPT !.qty = @ + delta,
                    !.avg = value \div Magnitude(pos.qty + delta)]

Reduced(delta, price, pos) ==
    LET closing == Min({Magnitude(pos.qty), Magnitude(delta)})
        gain == IF pos.qty > 0 THEN price - pos.avg ELSE pos.avg - price
    IN  [qty |-> pos.qty + delta,
         avg |-> IF pos.qty + delta = 0 THEN 0
                 ELSE IF Reversed(pos, delta) THEN price ELSE pos.avg,
         pnl |-> pos.pnl + closing * gain]

UpdatePositionBad(pos, delta, price) ==
    IF pos.qty = 0 THEN Opened(delta, price, pos)
    ELSE IF pos.qty > 0 <=> delta > 0 THEN Added(delta, price, pos)
    ELSE IF Reversed(pos, delta) THEN Reduced(-pos.qty, price, pos)
    ELSE Reduced(delta, price, pos)

UpdatePosition(pos, delta, price) ==
    IF pos.qty = 0 THEN Opened(delta, price, pos)
    ELSE IF pos.qty > 0 <=> delta > 0 THEN Added(delta, price, pos)
    ELSE Reduced(delta, price, pos)

RecentBad(history) == history

Recent(history) ==
    IF Len(history) > MaxHistory THEN Tail(history) ELSE history

SetLtps(prices) ==
    ltps' = [s \in Symbols |->
                IF s \in DOMAIN prices THEN prices[s] ELSE ltps[s]]

PlaceOrder(symbol, side, qty, price) ==
    LET fill == FillPrice(symbol, side, price)
    IN  /\ fill > 0
        /\ ledger' = [ledger EXCEPT ![symbol] =
                         UpdatePosition(@, Signed(side, qty), fill)]
        /\ trades' = Recent(Append(trades, [symbol |-> symbol, side |-> side,
                                            qty |-> qty, price |-> fill]))
=============================================================================
