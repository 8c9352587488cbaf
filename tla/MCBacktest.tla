----------------------------- MODULE MCBacktest -----------------------------
(* Two trading days and two strikes.  Date 1 is the last Tuesday of month  *)
(* 1, so that the expiry after it is one of month 2; date 8, the next      *)
(* Tuesday, is a holiday.  Prices are multiples of 2^2 * 100 * 2520, so    *)
(* that every average and every slippage of four fills is whole.           *)
EXTENDS Backtest

CONSTANTS k1, k2

MCDates == 0..30
MCMonthOf == [d \in MCDates |-> IF d <= 3 THEN 1 ELSE 2]
MCSymbols == {1, 2} \X {k1, k2}
MCPrices == {1008000, 2016000}
MCMarkets == {k1 :> 1008000, k1 :> 2016000, k1 :> 1008000 @@ k2 :> 1008000}
MCLevyOn == [side \in {"BUY", "SELL"} |-> IF side = "BUY" THEN 50 ELSE 20]

Leg(side, qty, tok) == [side |-> side, qty |-> qty, tok |-> tok]
MCSignals ==
    {<<>>,
     <<Leg("SELL", 1, k1), Leg("SELL", 1, k2)>>,
     <<Leg("BUY", 1, k1), Leg("BUY", 1, k2)>>,
     <<Leg("SELL", 1, k1)>>, <<Leg("BUY", 1, k1)>>,
     <<Leg("BUY", 2, k1)>>, <<Leg("SELL", 2, k1)>>}
=============================================================================
