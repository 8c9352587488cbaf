------------------------------ MODULE Pipeline ------------------------------
(***************************************************************************)
(* The market data pipeline as main.py wires it: ticks published by the    *)
(* Kite ticker or the simulator go over the event bus to the feed, the     *)
(* candle aggregator, the store and the strategy runner, while strategies  *)
(* are started and stopped over HTTP, until the application shuts down.    *)
(***************************************************************************)
EXTENDS EventBus, TickStore, Candles, Runner

CONSTANTS
    Tapes,         \* the sequences of ticks the exchange may send
    MaxEvents      \* bound: the events Delivered speaks of

VARIABLES
    tape,      \* the ticks still to come
    stage      \* of the shutdown: "up", "settle", "flush", "flushing",
               \* "stop bus", "stopping", "stop feeds", "down"

vars == <<busVars, storeVars, candleVars, runnerVars, tape, stage>>

ASSUME PipelineAssumption ==
    /\ UNION Wanted \subseteq Tokens
    /\ Tapes \subseteq Seq([tok : Tokens, time : Nat, ltp : Nat])
    /\ {MaxEvents, MaxStarts} \subseteq Nat
    /\ IsFiniteSet(Sids)

Init ==
    /\ BusInit /\ StoreInit /\ CandlesInit /\ RunnerInit
    /\ tape \in Tapes /\ stage = "up"

Go(from, to) == stage = from /\ stage' = to
-----------------------------------------------------------------------------
(* The volume of the day: one unit for every tick.                         *)
Traded == Cardinality({k \in DOMAIN sent : sent[k].type = "tick"})

TickEvent(t, volume) ==
    [type |-> "tick", tok |-> t.tok, time |-> t.time, ltp |-> t.ltp,
     volume |-> volume]

(* A tick from the ticker's thread or the simulator's task; exchange times *)
(* are those of the ticker, in whole seconds.  Either source publishes     *)
(* until the end of the shutdown stops it.                                 *)
PublishTick ==
    /\ loop # "none"
    /\ stage # "down"
    /\ tape # <<>>
    /\ tape' = Tail(tape)
    /\ Publish(TickEvent(Head(tape), Traded))
    /\ UNCHANGED <<storeVars, candleVars, runnerVars, stage>>

Announce(c) == [type |-> "candle", candle |-> c]
Event == IF queue = <<>> THEN Sentinel ELSE Head(queue)

(* A tick's turn: the aggregator, the store up to its flush, the runner up *)
(* to its first strategy.                                                  *)
HandleTick ==
    /\ Event.type = "tick"
    /\ AddTick(Event)
    /\ BufferTick(Event)
    /\ StartRound(Event.tok)
    /\ Dispatch([k \in DOMAIN Closed(Event) |-> Announce(Closed(Event)[k])],
                {"runner"} \cup {h \in {"store"} : Full(buffer')})
    /\ UNCHANGED <<tape, stage>>

(* No strategy overrides on_candle: only the store takes time.             *)
HandleCandle ==
    /\ Event.type = "candle"
    /\ Dispatch(<<>>, {"store"})
    /\ UNCHANGED <<storeVars, candleVars, runnerVars, tape, stage>>

CandleStored ==
    /\ loop = "handle"
    /\ Current.type = "candle"
    /\ Finish("store")
    /\ UNCHANGED <<storeVars, candleVars, runnerVars, tape, stage>>

FlushEnds(f) == Commit(f) \/ \E reached \in BOOLEAN : FlushFails(f, reached)

TicksStored ==
    /\ FlushEnds("dispatch")
    /\ Finish("store")
    /\ UNCHANGED <<candleVars, runnerVars, tape, stage>>

VisitStrategy ==
    /\ Visit
    /\ UNCHANGED <<busVars, storeVars, candleVars, tape, stage>>

RoundOver ==
    /\ EndRound
    /\ Finish("runner")
    /\ UNCHANGED <<storeVars, candleVars, tape, stage>>

StartBus ==
    /\ Start
    /\ UNCHANGED <<storeVars, candleVars, runnerVars, tape, stage>>
BreakLoop ==
    /\ Break
    /\ UNCHANGED <<storeVars, candleVars, runnerVars, tape, stage>>
-----------------------------------------------------------------------------
(* POST /strategies/{id}/start and /stop.                                  *)
HttpStart(sid, toks, starts) ==
    /\ stage = "up" /\ loop # "none"
    /\ AddStrategy(sid, toks, starts)
    /\ UNCHANGED <<busVars, storeVars, candleVars, tape, stage>>

HttpStop(sid) ==
    /\ stage = "up"
    /\ RemoveStrategy(sid)
    /\ UNCHANGED <<busVars, storeVars, candleVars, tape, stage>>
-----------------------------------------------------------------------------
(* The cleanup at the end of run().  The ticks go on until its last step.  *)
StopStrategies ==
    /\ loop # "none"
    /\ Go("up", "settle")
    /\ Drop(strategies)
    /\ UNCHANGED <<busVars, storeVars, candleVars, tape>>

(* The two seconds for pending orders, and the end of the order tracker.   *)
Settle ==
    /\ Go("settle", "flush")
    /\ UNCHANGED <<busVars, storeVars, candleVars, runnerVars, tape>>

FlushStoreBad ==
    /\ Go("flush", "stop bus")
    /\ StartFlush
    /\ UNCHANGED <<busVars, candleVars, runnerVars, tape>>
FlushStore ==
    /\ Go("flush", IF buffer = <<>> THEN "stop bus" ELSE "flushing")
    /\ StartFlush
    /\ UNCHANGED <<busVars, candleVars, runnerVars, tape>>

StoreFlushed ==
    /\ Go("flushing", "stop bus")
    /\ FlushEnds("shutdown")
    /\ UNCHANGED <<busVars, candleVars, runnerVars, tape>>

StopBus ==
    /\ Go("stop bus", "stopping")
    /\ Stop
    /\ UNCHANGED <<storeVars, candleVars, runnerVars, tape>>

BusStopped ==
    /\ loop = "over"
    /\ Go("stopping", "stop feeds")
    /\ UNCHANGED <<busVars, storeVars, candleVars, runnerVars, tape>>

StopFeeds ==
    /\ Go("stop feeds", "down")
    /\ UNCHANGED <<busVars, storeVars, candleVars, runnerVars, tape>>

Shutdown == \/ Settle \/ FlushStore \/ StoreFlushed \/ StopBus
            \/ BusStopped \/ StopFeeds

Handling == \/ StartBus \/ HandleTick \/ HandleCandle \/ CandleStored
            \/ TicksStored \/ VisitStrategy \/ RoundOver \/ BreakLoop

Next ==
    \/ PublishTick
    \/ Handling
    \/ \E sid \in Sids, toks \in Wanted, starts \in BOOLEAN :
           HttpStart(sid, toks, starts)
    \/ \E sid \in Sids : HttpStop(sid)
    \/ StopStrategies
    \/ Shutdown

(* The event loop gives every task its turn, a database call returns or    *)
(* raises, an order is placed or refused.  Nobody has to publish, start or *)
(* stop anything.                                                          *)
Fairness ==
    /\ WF_vars(StartBus) /\ WF_vars(HandleTick \/ HandleCandle \/ BreakLoop)
    /\ WF_vars(CandleStored \/ TicksStored)
    /\ WF_vars(VisitStrategy \/ RoundOver)
    /\ WF_vars(Shutdown)

Spec == Init /\ [][Next]_vars /\ Fairness
-----------------------------------------------------------------------------
TypeOK ==
    /\ running \in BOOLEAN
    /\ loop \in {"none", "get", "handle", "over"}
    /\ busy \subseteq {"store", "runner"}
    /\ Len(given) <= Len(sent)
    /\ Len(buffer) <= Len(given)
    /\ \A tok \in Tokens, n \in Frames :
           builder[tok][n] # NoCandle => builder[tok][n].frame = n
    /\ Len(completed) <= MaxCandles
    /\ strategies \subseteq Sids
    /\ Cardinality(tokens) <= Cardinality(Sids)
    /\ failures \in 0..MaxFailures

(* Events reach their handlers one at a time, in order, none skipped and   *)
(* none twice, and all of them before the bus is stopped (events.py:127).  *)
InOrder   == Channel!Safe
Delivered == Channel!Delivers(MaxEvents)

(* The ticks handled, those the table has, in the version that came first, *)
(* and those that are in neither buffer nor table.                         *)
TicksHandled == {t \in Range(given) : t.type = "tick"}
Stored(t) == \E r \in rows : Key(r) = Key(t) /\ r.volume <= t.volume
Lost == {t \in TicksHandled : t \notin Range(buffer) /\ ~Stored(t)}

(* Whatever commits fail, are reported failed or overlap, what leaves the  *)
(* buffer without reaching the table are ticks buffered after the          *)
(* shutdown's flush copied it, no more than it copied, and only if another *)
(* flush committed while it waited (store.py:88).                          *)
TicksKept ==
    /\ Lost \subseteq final.since
    /\ Lost # {} => final.phase = "overtaken"
    /\ Cardinality(Lost) <= final.copied

(* Once the shutdown is past its flush, and that did not fail, the table   *)
(* has every tick handled before it (main.py:497).                         *)
FlushedAtStop ==
    stage \in {"stop bus", "stopping", "stop feeds", "down"}
            /\ final.phase # "failed"
        => \A t \in TicksHandled \ final.since : Stored(t)

(* "Clear only after successful commit" (store.py:87): a tick that leaves  *)
(* the buffer has its row.  False: the flush cuts off as many ticks as it  *)
(* copied, and with another flush committed meanwhile those are others.    *)
ClearedAfterCommit ==
    [][\A t \in Range(buffer) \ Range(buffer') :
           \E r \in rows' : Key(r) = Key(t)]_buffer

(* The ticks handed to the handlers so far, by their place.                *)
Handled == {k \in DOMAIN given : given[k].type = "tick"}
HandledOf(tok) == {k \in Handled : given[k].tok = tok}
Interval(tok, n, start) ==
    {k \in HandledOf(tok) : Align(given[k].time, Timeframes[n]) = start}

(* Is c the candle that the ticks of one interval make?                    *)
Makes(K, c) ==
    /\ \E first, last \in K :
           /\ \A k \in K : first <= k /\ k <= last
           /\ c.open = given[first].ltp /\ c.close = given[last].ltp
           /\ c.first = given[first].volume
           /\ c.volume = given[last].volume - given[first].volume
    /\ \A k \in K : c.low <= given[k].ltp /\ given[k].ltp <= c.high
    /\ \E k \in K : c.low = given[k].ltp
    /\ \E k \in K : c.high = given[k].ltp

Ordered ==
    \A j, k \in Handled : j < k => given[j].time <= given[k].time

(* As long as no tick is late, the candle being built and the completed    *)
(* ones not yet trimmed are those of the ticks in their intervals, the     *)
(* last tick of an interval in the candle it belongs to (aggregator.py:139)*)
CandlesExact ==
    Ordered =>
        /\ \A tok \in Tokens, n \in Frames :
               LET c == builder[tok][n]
               IN  IF HandledOf(tok) = {} THEN c = NoCandle
                   ELSE /\ \A k \in HandledOf(tok) :
                              Align(given[k].time, Timeframes[n]) <= c.start
                        /\ Makes(Interval(tok, n, c.start), c)
        /\ \A c \in Range(completed) :
               Makes(Interval(c.tok, c.frame, c.start), c)

(* Late ticks or not, the candles of an instrument and a timeframe close   *)
(* in the order of their intervals, each once, and the newest are kept:    *)
(* get_completed_candles' last ones are the ones before the current.       *)
ClosedInOrder ==
    \A j \in DOMAIN completed :
        LET c == completed[j]
            Same(d) == d.tok = c.tok /\ d.frame = c.frame
        IN  /\ c.start < builder[c.tok][c.frame].start
            /\ \A k \in j + 1..Len(completed) :
                   Same(completed[k]) => c.start < completed[k].start

(* A tick's round calls every running strategy that wants it, unless one   *)
(* was started or stopped before the round was over (runner.py:155).       *)
Interested == {sid \in strategies : round.tok \in TokensOf(sid)}
EachTickOnce ==
    [][round # NoRound /\ round' = NoRound /\ round.calm
        => round.called = Interested]_round

(* The feed and the runner agree on the tokens of every strategy, but for  *)
(* what a failed start left (runner.py:91).                                *)
SubscriptionsAgree ==
    \A sid \in Sids :
        LET fed == {tok \in DOMAIN subs : sid \in subs[tok]}
        IN  /\ TokensOf(sid) \subseteq fed
            /\ sid \notin leftover => fed = TokensOf(sid)
            /\ sid \in strategies => Entry(sid) # {}

(* Once begun, the shutdown ends, whatever the ticker goes on publishing.  *)
ShutdownEnds == stage # "up" ~> stage = "down"
=============================================================================
