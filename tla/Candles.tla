------------------------------ MODULE Candles -------------------------------
(***************************************************************************)
(* Candle aggregation (market_data/aggregator.py): for every instrument    *)
(* and timeframe one candle being built, closed by the first tick past its *)
(* end.                                                                    *)
(***************************************************************************)
EXTENDS Integers, Sequences, SequencesExt, FiniteSets

CONSTANTS
    Tokens,        \* instruments
    Timeframes,    \* sequence of candle lengths
    MaxCandles     \* MAX_COMPLETED_CANDLES

ASSUME CandlesAssumption ==
    /\ Timeframes \in Seq(Nat \ {0})
    /\ MaxCandles \in Nat \ {0}

VARIABLES
    builder,       \* builder[tok][n]: the candle of timeframe n, or NoCandle
    completed      \* _completed_candles

candleVars == <<builder, completed>>

NoCandle == [start |-> -1]

Frames == DOMAIN Timeframes

CandlesInit ==
    /\ builder = [tok \in Tokens |-> [n \in Frames |-> NoCandle]]
    /\ completed = <<>>

Larger(a, b)  == IF a > b THEN a ELSE b
Smaller(a, b) == IF a < b THEN a ELSE b

Align(time, length) == time - (time % length)

(* CandleBuilder.update.  Volumes are cumulative over the day.             *)
NewCandle(t, n) ==
    [start |-> Align(t.time, Timeframes[n]), tok |-> t.tok, frame |-> n,
     open |-> t.ltp, high |-> t.ltp, low |-> t.ltp, close |-> t.ltp,
     first |-> t.volume, volume |-> 0]
Update(c, t) ==
    [c EXCEPT !.high = Larger(@, t.ltp), !.low = Smaller(@, t.ltp),
              !.close = t.ltp, !.volume = Larger(0, t.volume - c.first)]

ClosesBad(c, t) == c # NoCandle /\ t.time > c.start + Timeframes[c.frame]
ClosesLateBad(c, t) ==
    c # NoCandle /\ Align(t.time, Timeframes[c.frame]) # c.start
Closes(c, t) == c # NoCandle /\ t.time >= c.start + Timeframes[c.frame]

(* A late tick counts for the candle being built.                          *)
Built(c, t, n) ==
    IF c = NoCandle \/ Closes(c, t) THEN NewCandle(t, n) ELSE Update(c, t)

(* The candles a tick closes, in the order of the timeframes, published as *)
(* CANDLE_CLOSED.                                                          *)
Closing(t) == {n \in Frames : Closes(builder[t.tok][n], t)}
Closed(t) ==
    LET Nth(k) == CHOOSE n \in Closing(t) :
                      Cardinality({m \in Closing(t) : m <= n}) = k
    IN  [k \in 1..Cardinality(Closing(t)) |-> builder[t.tok][Nth(k)]]

NewestBad(candles) == candles
Newest(candles) ==
    SubSeq(candles, Larger(1, Len(candles) - MaxCandles + 1), Len(candles))

AddTick(t) ==
    /\ builder' = [builder EXCEPT ![t.tok] =
                      [n \in Frames |-> Built(@[n], t, n)]]
    /\ completed' = Newest(completed \o Closed(t))
=============================================================================
