------------------------------ MODULE Backtest ------------------------------
(***************************************************************************)
(* BacktestEngine.run (backtest/engine.py): a synthetic market replayed    *)
(* minute by minute through one strategy, whose orders the paper broker    *)
(* fills and the position book takes at once, with the daily results the   *)
(* engine reports, PnLCalculator's net P&L and the Reconciler's comparison *)
(* of the two books.                                                       *)
(*                                                                         *)
(* An instrument token stands for a strike, whatever the expiry; a trading *)
(* symbol names the strike and the month of the expiry, not its day.  The  *)
(* strategy is any that trades at the current symbols or at the one it     *)
(* opened a position under.                                                *)
(***************************************************************************)
EXTENDS PaperBroker, MarketClock, TLC

CONSTANTS
    Tokens,         \* one for every strike
    Markets,        \* what a minute may quote: prices of the strikes near ATM
    Signals,        \* what the strategy may send: sequences of legs
    Starts,         \* the start dates
    NumDays, Minutes,        \* trading days, and ticks of a day
    BrokerageCap, LevyOn,    \* brokerage per order at most; side -> levy, one
                             \* part in so many of the turnover
    Qtys, Prices, MaxClosed, MaxFills    \* as in Positions

S == "strategy"      \* the strategy's id
Key(tok) == <<S, tok>>
SymbolOf(month, tok) == <<month, tok>>

(* The legs a signal may have, and those legs under their trading symbols. *)
SignalLegs == [side : {"BUY", "SELL"}, qty : Qtys, tok : Tokens]
Orders == [side : {"BUY", "SELL"}, qty : Qtys, tok : Tokens, symbol : Symbols]

ASSUME BacktestAssumption ==
    /\ IsFiniteSet(Tokens)
    /\ BrokerageCap \in Nat /\ LevyOn \in [{"BUY", "SELL"} -> Nat \ {0}]
    /\ Qtys \subseteq Nat \ {0} /\ Prices \subseteq Nat \ {0}
    /\ MaxClosed \in Nat \ {0} /\ MaxFills \in Nat
    /\ \A m \in Markets : /\ DOMAIN m \subseteq Tokens
                          /\ \A tok \in DOMAIN m : m[tok] \in Prices
    /\ Signals \subseteq Seq(SignalLegs)
    /\ Symbols = {SymbolOf(MonthOf[d], tok) : d \in Dates, tok \in Tokens}
    /\ Starts \subseteq Dates
    /\ {NumDays, Minutes} \subseteq Nat \ {0}

VARIABLES
    positions, closed, closedOrder,
    cash, banked, last, trips, fills,  \* the book
    started,     \* the month whose symbol each open position has, 0 for none
    charges,     \* _total_charges of the strategy
    feed,        \* token -> last price, 0 before the first
    day, expiry, \* the simulated date and the current expiry
    minute,      \* ticks of the day so far
    legs,        \* legs of the strategy's signal still to execute
    dayStart,    \* length of the trade history when the day began
    running,     \* running_pnl
    report,      \* daily_results
    \* history, read by the properties only
    money,       \* money received at the book's prices, and charges paid
    paid,
    flow,        \* symbol -> money received at the paper broker's prices
    shorted,     \* symbols that were held short
    mixed,       \* tokens whose position took fills of another month
    clean        \* every day ended flat, no key traded in two round trips

bookVars == <<positions, closed, closedOrder, cash, banked, last, trips, fills>>
engineVars == <<feed, day, expiry, minute, legs, dayStart, running, report>>
pastVars == <<money, paid, flow, shorted, mixed, clean>>
vars == <<paperVars, bookVars, started, charges, engineVars, pastVars>>

Book == INSTANCE Positions
            WITH Strategies <- {S}

Init ==
    /\ PaperInit
    /\ Book!Init
    /\ started = [tok \in Tokens |-> 0]
    /\ charges = 0
    /\ feed = [tok \in Tokens |-> 0]
    /\ \E start \in Starts : day = NextTradingDay(start)
    /\ expiry = NextExpiry(day)
    /\ minute = 0 /\ legs = <<>> /\ dayStart = 0
    /\ running = 0 /\ report = <<>>
    /\ money = 0 /\ paid = 0
    /\ flow = [s \in Symbols |-> 0]
    /\ shorted = {} /\ mixed = {} /\ clean = TRUE
-----------------------------------------------------------------------------
(* calculate_charges: brokerage up to a cap, and what is proportional to   *)
(* the turnover and depends on the side (STT, stamp duty).                 *)
ChargesOf(turnover, side) ==
    Min({turnover \div 100, BrokerageCap}) + turnover \div LevyOn[side]

(* FillSimulator.simulate_fill with the engine's "fixed" model; the paper  *)
(* broker then slips the result a second time.                             *)
SimulateFill(price, side) ==
    IF side = "BUY" THEN price + price \div Slip ELSE price - price \div Slip

(* The symbol of a leg: that of the chain, or the one the strategy noted   *)
(* when it opened the position.                                            *)
LegSymbol(leg, kept) ==
    SymbolOf(IF kept /\ Key(leg.tok) \in DOMAIN positions
             THEN started[leg.tok] ELSE MonthOf[expiry], leg.tok)

(* _update_market, then on_tick: the strikes near the money are quoted,    *)
(* positions are marked at whatever the feed last had, and the strategy    *)
(* may answer with a signal.                                               *)
Minute(market, signal, kept) ==
    LET month  == MonthOf[expiry]
        quotes == [s \in {SymbolOf(month, tok) : tok \in DOMAIN market} |->
                      market[s[2]]]
    IN  /\ legs = <<>> /\ minute < Minutes
        /\ minute' = minute + 1
        /\ feed' = [tok \in Tokens |-> IF tok \in DOMAIN market THEN market[tok]
                                      ELSE feed[tok]]
        /\ SetLtps(quotes)
        /\ positions' = [k \in DOMAIN positions |->
                            IF feed'[k[2]] = 0 THEN positions[k]
                            ELSE [positions[k] EXCEPT !.ltp = feed'[k[2]]]]
        /\ legs' = [n \in DOMAIN signal |->
                       [side |-> signal[n].side, qty |-> signal[n].qty,
                        tok |-> signal[n].tok, symbol |-> LegSymbol(signal[n], kept)]]
        /\ UNCHANGED <<ledger, trades, closed, closedOrder, cash, banked,
                       last, trips, fills, started, charges, day, expiry, dayStart,
                       running, report, pastVars>>

(* order_callback for one leg: a leg without a price is passed over.       *)
SkipLeg ==
    /\ legs # <<>> /\ feed[Head(legs).tok] = 0
    /\ legs' = Tail(legs)
    /\ UNCHANGED <<paperVars, bookVars, started, charges, feed, day, expiry,
                   minute, dayStart, running, report, pastVars>>

RecordLeg(leg, price) ==
    LET delta == Signed(leg.side, leg.qty)
    IN  /\ money' = money - delta * price
        /\ paid' = paid + ChargesOf(leg.qty * price, leg.side)
        /\ flow' = [flow EXCEPT ![leg.symbol] =
                       @ - delta * FillPrice(leg.symbol, leg.side, price)]
        /\ shorted' = shorted \cup
                          {s \in {leg.symbol} : ledger'[s].qty < 0}
        /\ mixed' = mixed \cup
                        {tok \in {leg.tok} :
                            /\ Key(tok) \in DOMAIN positions
                            /\ started[tok] # leg.symbol[1]}
        /\ UNCHANGED clean

ExecuteLeg ==
    LET leg   == Head(legs)
        price == SimulateFill(feed[leg.tok], leg.side)
        month == leg.symbol[1]
    IN  /\ legs # <<>> /\ feed[leg.tok] > 0
        /\ legs' = Tail(legs)
        /\ SetLtps([s \in {leg.symbol} |-> price])
        /\ PlaceOrder(leg.symbol, leg.side, leg.qty, price)
        /\ Book!OnOrderFilled(Key(leg.tok), leg.side, leg.qty, price)
        /\ started' = [started EXCEPT ![leg.tok] =
                          IF Key(leg.tok) \notin DOMAIN positions' THEN 0
                          ELSE IF @ = 0 THEN month ELSE @]
        /\ charges' = charges + ChargesOf(leg.qty * price, leg.side)
        /\ RecordLeg(leg, price)
        /\ UNCHANGED <<feed, day, expiry, minute, dayStart, running, report>>
-----------------------------------------------------------------------------
(* PnLCalculator.get_pnl: an archived entry hides the open one of its key, *)
(* and a position is not marked before it was quoted.                      *)
Visible == DOMAIN positions \ DOMAIN closed

Marked(pos) == IF pos.ltp > 0 /\ pos.avg > 0 THEN Book!Unrealized(pos) ELSE 0

NetPnl ==
    SumFunctionOnSet(closed, DOMAIN closed)
    + SumFunctionOnSet([k \in Visible |-> positions[k].pnl + Marked(positions[k])],
                       Visible)
    - charges

(* The day's row of the results.                                           *)
EndDay ==
    /\ legs = <<>> /\ minute = Minutes
    /\ Len(report) < NumDays
    /\ running' = running + NetPnl
    /\ report' = Append(report, [pnl |-> NetPnl, equity |-> running',
                                 count |-> Len(trades) - dayStart])
    /\ minute' = Minutes + 1
    /\ clean' = (/\ clean /\ DOMAIN positions = {}
                 /\ \A k \in Book!Keys : trips[k] <= 1)
    /\ UNCHANGED <<paperVars, bookVars, started, charges, feed, day, expiry,
                   legs, dayStart, money, paid, flow, shorted, mixed>>

(* PortfolioManager.reset_daily; the open positions stay.                  *)
ResetDayBad == Book!ResetDaily /\ UNCHANGED charges
ResetDay    == Book!ResetDaily /\ charges' = 0

(* The next trading day; at 9:15 the expiry rolls over.                    *)
StartDay ==
    /\ minute = Minutes + 1 /\ Len(report) < NumDays
    /\ ResetDay
    /\ day' = NextTradingDay(day + 1)
    /\ expiry' = NextExpiry(day')
    /\ dayStart' = Len(trades)
    /\ minute' = 0
    /\ UNCHANGED <<paperVars, started, feed, legs, running, report, pastVars>>

Next ==
    \/ \E market \in Markets, signal \in Signals, kept \in BOOLEAN :
           Minute(market, signal, kept)
    \/ SkipLeg \/ ExecuteLeg
    \/ EndDay \/ StartDay

Spec == Init /\ [][Next]_vars
-----------------------------------------------------------------------------
(* Reconciler.reconcile: symbols on which broker and book disagree.        *)
Quantity == [k \in DOMAIN positions |-> positions[k].qty]

InternalBad(symbol) ==
    SumFunctionOnSet(Quantity,
        {k \in Visible : SymbolOf(MonthOf[expiry], k[2]) = symbol})

Internal(symbol) ==
    SumFunctionOnSet(Quantity,
        {k \in Visible : SymbolOf(started[k[2]], k[2]) = symbol})

Discrepancies == {s \in Symbols : ledger[s].qty # Internal(s)}

(* _compute_trade_pnls for one symbol: sales are matched with purchases,   *)
(* first in first out.                                                     *)
Matched(lots, qty, n) ==
    LET before == SumFunctionOnSet([m \in 1..n - 1 |-> lots[m].qty], 1..n - 1)
    IN  Min({lots[n].qty, Max({0, qty - before})})

Bought(match, trade) == [match EXCEPT !.lots = Append(@, trade)]

Sold(match, trade) ==
    LET N == DOMAIN match.lots
        took == [n \in N |-> Matched(match.lots, trade.qty, n)]
        gain == [n \in N |-> took[n] * (trade.price - match.lots[n].price)]
    IN  [lots |-> [n \in N |-> [match.lots[n] EXCEPT !.qty = @ - took[n]]],
         pnl |-> match.pnl + SumFunctionOnSet(gain, N)]

Take(symbol, match, trade) ==
    IF trade.symbol # symbol THEN match
    ELSE IF trade.side = "BUY" THEN Bought(match, trade)
    ELSE Sold(match, trade)

Matching(symbol, history) ==
    FoldLeft(LAMBDA match, trade : Take(symbol, match, trade),
             [lots |-> <<>>, pnl |-> 0], history)

TradePnl(symbol) == Matching(symbol, trades).pnl
-----------------------------------------------------------------------------
TypeOK ==
    /\ \A s \in Symbols : ledger[s].qty # 0 => ledger[s].avg > 0 /\ ltps[s] > 0
    /\ Len(trades) <= MaxHistory
    /\ Book!TypeOK
    /\ \A tok \in Tokens : started[tok] # 0 <=> Key(tok) \in DOMAIN positions
    /\ expiry \in Dates /\ day <= expiry
    /\ minute \in 0..Minutes + 1
    /\ Len(report) <= NumDays

(* Whatever was carried over whichever expiry, under whichever symbols,    *)
(* the two books hold the same quantity of a strike (client.py:224).       *)
LedgersAgree ==
    \A tok \in Tokens :
        Book!NetQuantity(Key(tok)) =
            SumFunctionOnSet([s \in Symbols |-> ledger[s].qty],
                             {s \in Symbols : s[2] = tok})

(* The paper broker's P&L is the money of its fills and what its holding   *)
(* cost; and the metrics' FIFO matching comes to the same once a symbol is *)
(* flat, if it never was short: a purchase that covers a short is not      *)
(* matched (metrics.py:111).  The whole trade history must still be there. *)
PaperPnl ==
    \A s \in Symbols :
        /\ ledger[s].pnl = flow[s] + ledger[s].qty * ledger[s].avg
        /\ ledger[s].qty = 0 /\ s \notin shorted /\ fills <= MaxHistory
               => TradePnl(s) = ledger[s].pnl

(* The results of a backtest whose days all ended flat, with one round     *)
(* trip a day in an instrument, are the money it made less the charges;    *)
(* with the trade history untrimmed the rows count every trade.            *)
ReportExact ==
    report # <<>> /\ minute = Minutes + 1 =>
        /\ clean => running = money - paid
        /\ fills <= MaxHistory =>
               fills = SumFunctionOnSet([n \in DOMAIN report |-> report[n].count],
                                        DOMAIN report)

(* Reconciliation finds a mismatch only for a position hidden by its       *)
(* archived entry, or one that took fills of two months (reconciliation.py *)
(* :43).                                                                   *)
ReconcileOk ==
    \A s \in Discrepancies :
        Key(s[2]) \in DOMAIN positions \cap DOMAIN closed \/ s[2] \in mixed
=============================================================================
