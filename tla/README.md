# F&O trading system: TLA+ specifications

This directory specifies the trading system in `src/src`: how ticks reach the
strategies, what the strategies decide and believe, how an order gets from a
signal to the broker and its fill back into the position book, the three
devices that are to keep a bad day from becoming a disaster (risk limits,
circuit breaker, kill switch), and the backtest that runs the same strategies
against a paper broker.  Every module is translated from the Python source;
`PROJECT.json` maps each definition to its lines.

    tlc -workers 2 -config MCPositions.cfg MCPositions.tla   # a run
    tlapm PositionsProofs.tla                                # the proofs of a module

## 1. The system

The program is one asyncio process.  Two facts shape every model here:

* **Tasks interleave at `await` only.**  What lies between two awaits is one
  atomic step.  The tasks are the event bus's dispatch task (which runs all
  handlers of one event and waits for them before it takes the next), the
  order tracker's poll loop, the heartbeat loop of the ticker, the daily reset,
  and one task per HTTP request.
* **The broker is another actor.**  Kite fills, rejects and cancels whenever it
  likes, answers late or not at all, and the answer to a request may be lost
  although the request was carried out.

### Components

| Component (under `src/src`) | State it keeps | Operations | Correct when | Hard parts |
|---|---|---|---|---|
| Position book: `portfolio/positions.py`, `pnl.py`, `manager.py` | open positions by (strategy, token), archive of closed ones, charges | fill, tick, daily reset, P&L | quantities and money balance; nothing is lost by averaging, reversing, closing, reopening, trimming | sequences of fills around zero |
| OMS: `oms/manager.py`, `executor.py`, `tracker.py` | orders, pending orders, statuses | place, track, poll | a fill reaches the book exactly once; an order is watched while it counts as open | polls against placements, lost answers, partial fills |
| Risk gate: `risk/manager.py`, `limits.py`, `greeks_risk.py` | none of its own | validate_order | limits hold at the broker and not only at the check; exits always pass the loss limits | the check and its use are several awaits apart |
| Circuit breaker: `risk/circuit_breaker.py` | state, trip time, P&L snapshots, start of the outage | check_pnl, trip, reset, disconnect, reconnect | it trips when its documented conditions hold and on no other | sliding window, repeated events, two resets |
| Ticker: `broker/zerodha/ticker.py` | link, time of last tick | link callbacks, heartbeat | an outage is reported once, with its length | a silent feed and a closed socket are told apart by nobody |
| Kill switch: `risk/kill_switch.py` | activated flag | activate | no new orders; positions flat if it says so; it always finishes | orders under way, retries, calls that fail |
| Event bus: `core/events.py` | queue, handlers | publish, dispatch, start, stop | events are handled in order, none is lost | stop with events queued; Redis |
| Runner and feed: `strategy/runner.py`, `market_data/feed.py` | strategies, subscriptions | add, remove, on_tick, on_order_update | every running strategy sees its ticks | changes while a tick is dispatched |
| Strategies: `strategy/base.py`, `strategy/implementations/*`, `adaptive.py` | entered / stopped / pending flags, chosen strikes, quantities | on_tick, on_order_update, reset_day_state | flags agree with what is held; one entry a day; out at the end of it | flags change at the signal, positions at the fill; refused legs, late confirmations, restarts |
| Paper broker: `broker/paper/client.py` | ledger by symbol, trades, margin | place (filled at once) | the same ledger as the book | averaging, reversing; symbols against tokens |
| Market data: `market_data/*` | candles, buffers, chains | on_tick, flush | no tick is lost or counted twice; a candle is its interval's ticks | overlapping flushes that fail; late ticks |
| Dedup, rate limiter: `oms/dedup.py`, `utils/rate_limiter.py` | recent hashes, tokens | check, acquire | a retry is let through, the rate is kept | waiters sharing a bucket |
| Backtest: `backtest/*` | simulated day, report | run: minute, leg, end and start of a day | the report is the money made | carried positions, daily reset, expiries sharing tokens |
| Options mathematics, charges, notifications, HTTP API, database models | - | - | numerics or I/O | - |

### How they interact

    ticker --TICK--> event bus --> runner --> strategy --signal--> order_callback
       |                |                                              |
       | CONNECTION_*   | ORDER_FILLED                          OrderManager.place_order
       v                v                                     validate, margin, risk gate
    circuit breaker   position book <-- read by risk gate         |            |
                        ^                                      executor     tracker.track
                        |                                         |            |
                        +----- event bus <----- tracker <--poll-- broker <-----+
    HTTP: kill switch --> broker directly, past OMS, tracker and book

Calls: signal to order to broker.  Events: broker to tracker to book.  Shared
state: the book is read at the gate; the tracker and the OMS share the `Order`
objects, so that a status the tracker writes is what `get_open_orders` counts.

## 2. The modules

| Module | What it is |
|---|---|
| `NetPositions` | abstract specification: a signed quantity per key, moved by fills and by nothing else |
| `Positions` | the position book, which implements it |
| `OrderFlow` | dispatch task, gate, executor, broker, tracker, bus and (by quantities) the book, composed |
| `CircuitBreaker` | the breaker, the gate in front of it and the ticker connection that drives it |
| `KillSwitch` | an activation against an OMS and a broker that carry on |
| `StrategyBase` | what the strategies share: the market they see, signals and the fate of their legs, days and restarts |
| `ShortStraddle`, `ShortStrangle`, `IronCondor`, `DeltaNeutral`, `Adaptive` | one strategy each, on `StrategyBase` |
| `Strategies` | any one of the five with the account its orders change; the properties |
| `EventChannel` | abstract specification: events are given in the order sent, one at a time, until the channel closes |
| `EventBus` | the bus, which implements it |
| `TickStore`, `Candles`, `Runner` | the market data store, the candle aggregator, the runner with the feed's subscriptions |
| `Pipeline` | bus, store, candles and runner composed, with HTTP start and stop and the shutdown of `main.py` |
| `PaperBroker`, `MarketClock` | the paper broker's ledger; the trading calendar |
| `Backtest` | the backtest engine: paper broker, calendar and `Positions` (by `INSTANCE`) composed, with the reconciliation |
| `Sums` | lemmas: least and greatest members, ranking, sums over finite sets; they do what induction would |
| `PositionsProofs`, `OrderFlowProofs`, `CircuitBreakerProofs`, `KillSwitchProofs`, `StrategiesProofs`, `PipelineProofs`, `BacktestProofs` | the theorems |
| `MCPositions`, `MCOrderFlow`, `MCCircuitBreaker`, `MCKillSwitch`, `MCStrategies`, `MCPipeline`, `MCBacktest` | values for the constants that a `.cfg` cannot write, symmetry |

A definition whose name ends in `Bad` (and `UpdateFromFillByToken`) is a
plausible mistake in the operation it stands before.  Nothing uses it; each
property has been seen to fail when the mistake replaces the operation.

### Positions

`positions` and `closed` are `_positions` and `_closed`; `closedOrder` is the
insertion order of the dict `_closed`, which decides which entry is trimmed (a
key filed again keeps its old place).  `UpdateFromFill` is `update_from_fill`
with its four cases, `UpdateLtp` a tick, `ResetDaily` the daily reset.  Prices
and the average are integers, and `Average` rounds down where the code's `Decimal`
rounds after 28 digits; the prices of the run have the divisors that make every
average whole, and the theorems about money say that they assume it.  `cash`,
`banked`, `last`, `trips` are history: the money that really changed hands, from
which the money properties are stated without using the book's own formulas.
Charges are left out, they are a sum beside the book.

Two things follow from filing by key, and no run shows them as failures.  A
key that is closed, reopened and closed again has its second position filed over
the first (`positions.py:81`): `LastTripPnl` says that the archive has the last
round trip, so that "Realized P&L from closed positions" (`pnl.py:17`) misses the
earlier ones, and while the key is open again its P&L is hidden
(`positions.py:109`).  The risk gate reads the same list, and does not recognize
the exit of a position so hidden.  And such a key keeps its old place in the dict,
so that it is trimmed before keys closed earlier, although the archive is to
"keep most recent" (`positions.py:87`): the properties do not say which entry is
trimmed.

### OrderFlow

`pc` says where the dispatch task awaits: between events (`idle`), before a leg
(`leg`), in the margin check (`margin`), between the gate and the request
(`submit`: the publication of ORDER_PLACED and the rate limiter are awaited
there) and waiting for the answer (`sent`).  One action per stretch between
two awaits: `StartLeg`, `RiskCheck`, `Send`, and one for each way the call may
end.  An exception that leaves `place_order` drops the remaining legs
(`Abort`): expired token, timeout, a tripped breaker, a duplicate.

`tpc` does the same for the tracker.  Its loop over the pending dict has no
await without Redis, so that nothing interleaves (`LoopFree`); with Redis
`publish` awaits in the loop, `place_order` runs there, and Python's dict
iterator raises if the dict has grown: `ScanBroken`.  `completed` and the
iterator are local to the call.

The broker holds `bstat` and `bfilled`, and moves at any time.  The bus keeps
the ORDER_FILLED events in order; ticks are not queued because a tick that
yields no signal changes nothing here and one that does may arrive at any time.
`tripped` is the breaker seen from the gate.

### CircuitBreaker

Time is kept as ages that saturate one past the limit they are compared with:
every comparison in the code is with a limit, so that nothing is lost and the
state space is finite with no bound on time.  `ValidateOrder` is the gate's
path to `check_pnl`: with the breaker open only a risk-reducing order gets
there, and a P&L beyond the day limit stops any other order before.  `link`,
`tickAge`, `beat` are the ticker; the bus delivers its events within a unit of
time.  `down` is history: how long the link has really been down.

### KillSwitch

`kpc` says where `activate()` awaits; each broker call is an action that may
fail (`errors`).  The OMS may have an order in any stage when it is activated,
and `GateOpen` closes at once.  The broker keeps filling.  `closing` are lots of
the kill switch's own orders that are still working: the code does not look at
them.  `lagged` is history, true once such an order was not filled when its
call returned; `unseen` counts OMS fills after the last look at the positions.
An OMS order the exchange rejects after accepting it is left out: it changes no
position.

### Strategies

`kind` says which strategy runs; `self` is its attributes as a record, the same
fields for all five (`leg` has the strikes of the tokens, `qty` the lots,
`entered` and `stopped` are `_entered` and `_stopped_for_day`).  `on_tick` is
synchronous, so that a tick is one action: exit, entry, or monitoring, with the
early returns in the code's order.  What it returns is `legs`; `order_callback`
works them off one by one (`FillLeg`, `RefuseLeg`), and an exception drops those
behind (`DropLegs`).  Confirmations of futures orders come later, through `news`.
`net` is the account.  Premiums are reduced to what each comparison with them
yields, a verdict per tick; strikes are counted in intervals, a strike that is 0
is a token not set.  `gaps` is history: the named reasons why the account may
differ from the strategy's belief.  `Restart` is HTTP stop and start: a new
instance, whose `load_state_data` nobody calls.

What the model shows of the code, beyond the properties:

* A strategy that has not entered before its exit time still enters after it,
  and leaves at the next tick.  The adaptive strategy, whose docstring says
  "Exit time: close everything" (`adaptive.py:53`), does not set a stop and goes
  on entering and leaving until the market closes.
* `max_switches_per_day` of the adaptive strategy (`adaptive.py:32`) never
  limits anything: what would count as a switch is taken by earlier returns
  (`NoCountedSwitch`, proved).
* A straddle adjusts only if `adjustment_threshold_pct` lies below its stop loss
  and its trailing stop; with the defaults the stop comes first.
* Hedge tokens and at-the-money tokens of an earlier entry are kept when the
  new ones are not quoted (`short_straddle.py:139`, `:330`).
* Options are registered at startup only: past their expiry no chain is found
  and nothing is entered (`expired`).
* An exit whose futures leg is refused is forgotten (`delta_neutral.py:414`).
  The next morning's hedges start from zero, so that the futures position may
  exceed `max_hedge_lots`: `HedgeWithinCap` is stated for one such gap at a time.
  It says nothing of a second hedge computed before the first is confirmed, nor of
  a refusal followed by a position carried overnight.
* `SettlesAfterClose` is about what the strategy believes.  After a restart the
  account may keep positions that the new instance knows nothing of
  (`base.py:308`).

### Pipeline

`queue`, `running`, `loop` and `busy` are the event bus: `Dispatch` is the turn in
which all handlers of an event start, `busy` those then suspended, and the loop
takes the next event when they are done.  `sent` and `given` are history and the
state of `EventChannel`.  In a tick's turn the aggregator closes candles, the
store buffers the tick (and suspends if it flushes), the runner begins its round.
Without Redis `publish` does not suspend.

`flushing[f]` is the slice a flusher copied before it awaited the database:
`Commit` clears as many ticks of the buffer as it copied; `FlushFails` keeps
them, whether or not the commit reached the table.  The table's key is (time,
token) and a second tick of the same second is dropped.  The dispatch task waits
for its flush, so that two flushes overlap only at the shutdown, whose flush
runs beside the dispatch task.  Ticks are lost there: if a tick fills the buffer
while the shutdown's flush waits, the dispatch's flush copies everything and, if
it commits first, empties the buffer; the shutdown's flush then cuts as many ticks
as it had copied off those that came since, which nobody has stored
(`store.py:88`).  `final` is history: how many ticks the shutdown's flush copied,
what has been buffered since, and whether another overtook it or it failed.
`TicksKept` says that nothing else is ever lost, whatever fails or overlaps, and
`FlushedAtStop` what the flush is for: if it does not fail, all that was handled
before it is in the table.

`round` is Python's iteration over the dict of strategies in `_on_tick`, which
awaits in its body: an insertion or deletion makes the iterator raise, the bus
logs it, and the remaining strategies miss the tick.  The dict, `tokens`, is a set
of items that carry the serial number of their insertion, which is the order it
is iterated in.  `leftover` are the ids whose start failed: they stay subscribed,
and HTTP stop does not find them.  The day's volume, which the simulator adds to
with each tick, is the number of ticks sent so far (`Traded`).

`stage` is the cleanup of `run()`: strategies, two seconds of grace, the store's
flush, the bus, then the sources of ticks.  Ticks go on arriving until the end;
those handled between the flush (`main.py:499`) and the end of the bus are buffered
and never stored, although the cleanup is "ordered to prevent data loss"
(`main.py:479`).  `FlushedAtStop` therefore speaks of the ticks handled before the
flush only.  Nor does it speak of a flush that fails: nothing tries again, and all
that is in the buffer goes with the process.  `stop()` does not wait for the queue.

### Backtest

The engine's loop: a minute quotes the strikes near the money and asks the
strategy for a signal, each leg is filled at once by the paper broker and booked
at once (`ExecuteLeg`), the day ends with a row of the report, the next day resets
the book.  The strategy is any: each signal is any of a set, a sequence of
legs under the chain's symbol or the one noted when the position was opened.
The metrics' pairing of the trade history (`Matching`) is a fold of `Take`, one
trade at a time, over the history.  `Book` is the module
`Positions` itself.  `ledger`, `trades` and `ltps` are the paper broker's;
`money`, `paid` and `flow` are history, the money that changed hands.

A token stands for a strike whatever the expiry, and a symbol names the month
only (`engine.py:395`).  Hence the book nets contracts of different expiries, the
paper broker those of one month, and a reconciliation after a change of month
finds mismatches (`ReconcileOk` says when it may; `LedgersAgree` sums over the
months and does not speak of it).  The futures leg's symbol is named by the
simulated day's month, not the expiry's (`engine.py:440`); `LegSymbol` does not
follow that, and no property depends on it.  Slippage is applied twice, by
the fill simulator and by the paper broker; a position carried overnight is
counted in the P&L of every day it is carried, which is why `ReportExact` speaks
of days that ended flat.  Purchases that cover a short are not paired in the
metrics (`metrics.py:111`); the curve passed to them holds daily and not
cumulative values (`engine.py:331`, against `metrics.py:17`); and an expiry on a
Tuesday that is a holiday is skipped rather than moved to the previous trading day
unless it is the month's last (`clock.py:98`).

## 3. The runs

| Run | Bounds | Checks |
|---|---|---|
| `positions` | 1 strategy, 2 tokens, 2 quantities, 2 prices, archive of 1, 5 fills | `TypeOK`, `BookConsistent`, `MarkToMarket`, `LastTripPnl`, and `NetLedger`: the book implements `NetPositions` |
| `orderflow` | 1 key, 3 orders, lots of 1 and 2, 2 open orders, no Redis | `TypeOK`, `FillBookedOnce`, `OpenOrdersBounded`, `BookGapExplained` |
| `orderflow_redis` | 2 orders, 1 fill polled without data, Redis | `WatchedWhileOpen`; `FillEventuallyBooked` under fairness |
| `orderflow_twice` | 3 orders, Redis | `FillBookedOnce` fails |
| `breaker` | thresholds of 1 to 4 units, history of 3 | `TypeOK`, `RapidLossCaught`, `NoSpuriousTrip` |
| `breaker_outage` | the same | `LongOutageTrips` fails |
| `killswitch` | 2 instruments, 2 orders, 2 attempts | `TypeOK`, `PromptSuccessFlat`, `LateOrderBounded`; `KillCompletes` under fairness |
| `killswitch_flat` | 1 instrument, no OMS orders, 3 attempts | `FlatOnSuccess` fails |
| `strategies` | 6 strikes, 2 spot prices, lots of 2, 8 market conditions, 2 sets of quotes, 2 rolls, a hedge cap of 1, days and faults together 2 | `TypeOK`, `HeldAsBelieved`, `OneEntryPerDay`, `RollsCapped`, `HedgeWithinCap`, `NoCountedSwitch`; `SettlesAfterClose` under fairness |
| `pipeline` | 3 tapes of 3 ticks of 2 instruments, 2 timeframes, history of 2 candles, buffer of 2, 1 failing commit, 2 strategy ids and starts | `TypeOK`, `TicksKept`, `FlushedAtStop`, `CandlesExact`, `ClosedInOrder`, `SubscriptionsAgree`, `EachTickOnce`, `InOrder`: the bus implements `EventChannel`; `Delivered`, `ShutdownEnds` under fairness |
| `pipeline_overlap` | the same | `ClearedAfterCommit` fails |
| `backtest` | 2 strikes, 2 days of 2 ticks, 4 fills, lots of 1 and 2, history of 3, an expiry and a change of month between the days | `TypeOK`, `LedgersAgree`, `PaperPnl`, `ReportExact`, `ReconcileOk` |

Why the bounds are enough to be worth running: five fills open, add to, partly
close, reverse, close and reopen a key, and two tokens overflow an archive of
one.  Three orders are one more than `MaxOpenOrders`, and allow an order being
placed while one is polled and one is in the bus; a leg of two lots can be
filled in part.  The heartbeat (1) against the threshold (4) keeps the ratio of
the code's 30 s and 120 s.  Two attempts are a retry and the last one.
`killswitch` does not check for deadlock: an account with the switch
activated and everything filled really stops.  Nor do `strategies`, `pipeline`
and `backtest`: the last day ends, the application shuts down.

In `strategies` a second day (or a fault in its place) is what it takes for a
position carried overnight, a lapsed chain, a leg refused in the middle of an
adjustment and a restart; the spot moves by one strike so that both sides are
adjusted and wings are on the grid; two lots are halved by a high VIX.  A run
with a third day or fault, 3.3 million states of its safety properties, found the
exception named under `HedgeWithinCap` and no other.  In `pipeline` the tapes
hold a late tick, two ticks of one second and ticks on an interval's end; three
ticks overflow a buffer of two while its flush is suspended, which is enough for
the loss described above (a tick copied, one that fills the buffer, one that is
lost), and close more candles than are kept.  In `backtest` four fills make two round trips, or a
position that is opened on one day, carried over the expiry, reversed and closed.

### What the failing runs show

* `orderflow_twice`: with Redis a placement during a poll breaks the scan off
  after it has published a fill and before it has popped the order.  The next
  poll publishes the fill again and the book takes it twice.
* `breaker_outage`: heartbeats restart the outage clock every 30 s, the
  threshold is 120 s, so that a long outage never trips the breaker.
* `killswitch_flat`: a closing order still working when the positions are
  fetched again is sent a second time and reverses the position, with status
  "success".
* `pipeline_overlap`: "Clear only after successful commit" (`store.py:87`) holds of
  as many ticks as were committed, not of those ticks: the shutdown's flush,
  overtaken by the dispatch's, clears ticks that came after both copied.

### Fairness

`OrderFlow`: weak fairness of the tracker's steps, strong fairness of the dispatch
task's, because the tracker's loop shuts it out again and again but not for
ever.  asyncio's ready queue is first in, first out; every await in
`place_order` has a timeout or an answer; a failing fetch is retried every
second.  Nothing is assumed of the broker: `FillEventuallyBooked` speaks of
orders it has completed.  `KillSwitch`: weak fairness of the activation, whose
calls all end or time out.  `Positions`, `CircuitBreaker` and `Backtest` make no
liveness claim.

`Strategies`: weak fairness of ticks and of the legs being placed; strong
fairness of the clock, which in the program runs on whatever happens but in the
model passes between signals only.  Nothing obliges a leg to be filled or a
confirmation to come.  `Pipeline`: weak fairness of the dispatch task, of each
suspended handler and of the shutdown, all of which asyncio resumes once what
they await is done, and the database answers or raises.  Nobody has to publish,
start or stop anything, and a flush may fail (once, the bound).

## 4. What is proved

Every safety and action property a passing run checks is a theorem, and besides
them `LateEntryBounded`, which no run checks.  Each holds for every value of the
constants that the modules' assumptions allow: the models' bounds (fills, orders,
ticks, days) may be any numbers.  The assumptions are little more
than types.  `BookAssumption`, `FlowAssumption`, `BreakerAssumption`, `KillAssumption`,
`StrategyAssumption`, `StoreAssumption`, `CandlesAssumption`, `PipelineAssumption`,
`BacktestAssumption`, `CalendarAssumption`: sets are finite where something is summed
over them or counted, quantities and prices are positive, a month is not the 0
that marks a symbol not known.  `PaperAssumption`: slippage is less than the price.
A theorem that needs more has it in its statement:

| Assumed | By | Why |
|---|---|---|
| `~RedisBus` | `FillsBookedOnce`, `GapsExplained` | with Redis fills are booked twice (`orderflow_twice`) |
| `~RedisBus` | `OpenOrdersStayBounded` | with Redis an order announced by a scan that broke off is polled again; polled without fill data it goes back to SUBMITTED (`tracker.py:130`) and takes up a slot that has been given away |
| `[][ExactAverages]_vars` | `MoneyConserved`, `TripPnlReported` | averages of the behaviour are whole numbers |
| `[]WholeAverages` | `ReportAddsUp`, `PaperBrokerPnl` | the same, of both ledgers of the backtest |
| `[]CalendarLasts` | the theorems of `BacktestProofs` | the simulated day is a trading day of the calendar and an expiry follows: `Dates` is finite, the code's calendar is not |
| `Cardinality(Tokens) <= MaxClosed` | `ReportAddsUp` | the archive (500 entries) trims nothing; the P&L of a trimmed entry is lost to the day's report |

The runs `positions` and `backtest` are instances that satisfy all of them in
every state or step.

* **Positions.**  `TypeCorrect`, `BookStaysConsistent`: the two are inductive
  together, with the archive's order a duplicate-free listing of its keys; the
  lemma on trimming says that removing the head of the listing and its key
  keeps it one.  `NetLedgerRefined`: with the mapping net = `get_net_quantity`,
  a fill is a step of `NetPositions` and every other action a stutter.
  `MoneyConserved`, `TripPnlReported`: by `MoneyInv`, in which the realized P&L of an
  open position less the cost of what is held is the key's cash, a flat key has
  none, and the archive has what a key's last round trip earned.  A fill is taken
  in its four cases (open, add, reduce, reverse), each a lemma on integers with
  the products as terms of their own, because the solver does not multiply.
* **OrderFlow.**  The invariant has the parts named at the end of the module:
  `DispatchInv` (where the order in hand stands), `TrackerInv` (what a scan has
  announced it has visited), `LateInv`.  From them `TypeCorrect`,
  `LateEntriesBounded` and, with or without Redis, `OpenOrdersWatched`.
  `FillsBookedOnce` adds `OnceInv`: without an await in the loop the dict cannot
  grow, no scan breaks off, and what is announced is popped by the same scan.
  `OpenOrdersStayBounded` counts: only a placement adds an open order, and the
  gate let it through below the limit with nothing placed since.
  `GapsExplained` goes by `GapInv`: the book's quantity is a sum over the orders
  booked, and an order nobody watches is settled, so that the two sums of the
  property differ by orders that are lost or cancelled only.
* **CircuitBreaker.**  `TypeCorrect`; `RapidLossAlwaysCaught`, whose property is
  inductive with the types (each new P&L is compared with the peak of the
  window, and the pairs already there were checked when they came);
  `ReconnectTripsSound` through `ClockInv`: while the link is down the recorded
  start of the outage is never older than the outage itself.
* **KillSwitch.**  `TypeCorrect`; `SuccessIsFlat` through `FlatInv`: as long as
  nothing failed or lagged, what is held is what the OMS filled since the last
  look plus what this attempt has yet to close; `LateOrdersBounded` through
  `LateInv`: the one late order is the one between gate and broker.
* **Strategies.**  `EntersOncePerDay`, `RollsStayCapped`, `SwitchesNeverCounted`, by one
  invariant of three parts: the record of attributes keeps its fields (`Shape`),
  who has entered today is in or stopped (`OnceInv`), the rolls of today are among
  those counted for today (`RollInv`).  Most steps are shown `Plain` (they leave the
  day's account alone, enter, or leave), and a plain step keeps the invariant.
  `StrategiesTypeCorrect`, `HoldsAsBelieved`, `HedgesWithinCap` rest on `BookInv`.  Its
  part `OptionsInv`: with no gap, the account and the legs still to be placed make
  up what the attributes say, for every instrument and each of the five
  strategies; what an order of up to four legs trades is written out as four
  terms.  Its part `FuturesInv` says where a hedge may stand: `Synced`, `Hedging` (its
  leg not yet placed), `Confirming` (its news not yet come), `Leaving` (an exit under
  way) or `Lost`; in each the position, with what is pending, is within the cap.
  It holds for one kind of gap at a time (`OneGap`), as the property does.
* **Pipeline.**  `EventsInOrder`: every behaviour of the pipeline implements
  `EventChannel`.  `BusInv` says that while the dispatch task runs the queue up to
  a sentinel is what was sent and not yet given, in order, and that a sentinel
  is there only once the bus was stopped; each action of the pipeline is one of
  the bus or leaves it alone.  `PipeInv` adds what the bus carries (`StreamInv`:
  volumes rise along the queue), `StoreInv`, `CandleInv`, `RunnerInv` and `RoundInv` (a round that nothing
  disturbed has called exactly the strategies up to the one it stands at, and
  as many are left as the dict's size says).  From it `PipelineTypeCorrect`,
  `LossConfined`, `FlushStores`, `CandlesCloseInOrder`, `FeedAndRunnerAgree`,
  `RoundsCallAll`.
  `StoreInv` has three phases.  Until the shutdown's flush has ended nothing is
  lost and the dispatch's flush has copied the whole buffer (`Whole`); while it
  waits, what it copied is still the buffer's beginning or, once it is
  overtaken, has its rows, and the buffer holds only what came since (`Waits`);
  when it ends, that decides between no loss and a loss of at most as many ticks
  as it copied; afterwards a flush of the dispatch may hold more than the buffer
  and can only give ticks back (`Landed`).  A row is never younger than a tick of
  its key that waits (`StoreTimely`), so that an insert, which keeps the first
  row of a key, stores what it is given.
  `CandlesAreExact` needs `ExactInv` besides: the ticks handled have volumes below
  those queued, so that, as long as no tick is late, a candle's extremes, volume
  and closing price are those of the ticks of its interval that were handled.
* **Backtest.**  `BacktestTypeCorrect`; `LedgersAlwaysAgree` and `ReconciliationExplained`
  by `ShapeInv` and `UnmixedInv` (a strike traded under one symbol only has all its
  lots there).  The book inside is `Positions`, whose lemmas are taken over by
  `BookFacts == INSTANCE PositionsProofs`: a leg is a fill, and keeps its book and
  its money.  `ReportAddsUp` by `CountInv` and `ReportInv`: the rows written count all
  trades but today's, and the running total is the money made less the charges,
  but for what the book still holds, a sum over its keys.  `PaperBrokerPnl` by
  `PaperInv`: realized P&L is money received plus the cost of what is held, case by
  case (`EntryAccount`); and, of a symbol never short, the lots that the metrics'
  pairing has not yet sold sum to what is held, their cost and the paired profit
  to the money (`Sound`).  A purchase appends a lot; a sale takes the first lots,
  all of each before the next (`TakenUpto`), and never more than there are.

**In place of induction.**  The library's induction theorems take an operator as
a parameter, which the installed provers cannot instantiate; its theorems on
well-founded relations do not.  `Sums` takes from those that a set of numbers has
a least member and a set of subsets of a finite set a minimal one.  A statement
about all finite sets, or all lengths, is then proved by considering a minimal
set, or least number, at which it fails.  In this way sums over finite sets are
unfolded from the library's definition of a fold (a function chosen to satisfy
its equation: that one exists, and that any two agree, is proved first), then
split, compared, added and scaled; and the fold that pairs the trades is
unfolded by one trade (`MatchEmpty`, `MatchAppend`).

Only model-checked: the liveness properties `FillEventuallyBooked`, `KillCompletes`,
`SettlesAfterClose`, `Delivered`, `ShutdownEnds`, because the prover has no rules for
fairness and none for ENABLED.  The four properties of the runs that expect a
violation are false; their runs show why.

## 5. What is not modelled

* Numerics: option mathematics, the chain's analytics, the Greeks limits, the
  regime detector's arithmetic and the filters' (their answers are choices), the
  random walk of the simulator, the rates of the charges, the metrics other than
  the pairing of trades, reports.
* Output and I/O: notifications, the dashboard and the read-only HTTP routes, the
  live feed's broadcast, login, instrument download, field mapping, the database
  models but for the key of the tick table, the candle table (written, never read).
* The validator's format checks, the window of the deduplication (an exception
  that drops legs, `DropLegs` and `Abort`, is its effect) and the rate limiter (a
  wait before a request).
* What nothing in the program calls: `place_multi_leg`, `cancel_order`,
  `cancel_all`, `KillSwitch.reset`, `CircuitBreaker.half_open`, `utils/retry.py`,
  `load_state_data`; `on_candle`, which no strategy overrides.
* The P&L and Greeks limits are a verdict of the environment in `OrderFlow`; the
  day's P&L is any value of a set in `CircuitBreaker`.
* Publishing with Redis is in `OrderFlow` only; STRATEGY_STARTED and
  STRATEGY_STOPPED, which only notifications read, are not in `Pipeline`.  A dict
  that compacts its entries while it is iterated is left out of `Runner`.

## 6. Plan

Modelled so far: everything of the first plan but the rate limiter, the
deduplication and a second activation of the kill switch.  Next, in this order:

1. Theorems: the money of the position book and of the backtest without the
   assumption that averages are whole, as a bound on what rounding loses per
   fill; `OpenOrdersBounded` with Redis, as far as it holds; the paper broker's
   ledger as an implementation of `NetPositions`.
2. `Dedup` and `RateLimiter` in front of `OrderFlow`'s submit step: a retry after a
   rejection, the rate in every window.
3. A second activation of the kill switch, and the kill switch composed with
   the tracker and the book.
4. A crash and restart between the broker and an empty book, with the
   reconciliation at startup.
