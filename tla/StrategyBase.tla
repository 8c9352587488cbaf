---------------------------- MODULE StrategyBase ----------------------------
(***************************************************************************)
(* What the option-selling strategies share (strategy/base.py, context.py, *)
(* signals.py, params.py): one running strategy, the market it looks at,   *)
(* and the way its signals become orders (strategy/runner.py, the          *)
(* order_callback of main.py).                                             *)
(*                                                                         *)
(* on_tick is synchronous up to its return; the runner then awaits         *)
(* order_callback leg by leg, and gives the strategy no other tick before  *)
(* that ends.  Fills and rejections come back as events, handled later.    *)
(* A market order changes the account's position when its leg is worked    *)
(* off: positions add up, so a later fill would change no total.  What the *)
(* market does meanwhile, the next tick finds.                             *)
(*                                                                         *)
(* Strikes are counted in strike intervals; 0 is a token not set.  What a  *)
(* tick finds is an input of the action that reads it: the spot price,     *)
(* whether an interval has elapsed, and the verdict of the premiums: how   *)
(* their sum compares with that of the entry and with the lowest since.    *)
(***************************************************************************)
EXTENDS Integers, Sequences, SequencesExt

CONSTANTS
    Strikes,       \* strikes with a registered option, an interval of Nat
    Spots,         \* spot prices, each the strike it is nearest to
    QuoteSets,     \* sets of options that may have ticked so far
    Moods,         \* market conditions the entry filters may find
    Lots,          \* quantity_lots
    Width,         \* hedge_offset_strikes, wing_width_strikes
    PcrFilterEnabled, MaxPainFilterEnabled,
    MaxRolls,      \* MAX_ADJUSTMENTS_PER_DAY
    MaxHedge,      \* max_hedge_lots
    MaxTrouble,    \* bound: trading days, plus faults: legs that are not
                   \* simply filled, and restarts
    MaxNews,       \* bound: order events waiting when a hedge is sent
    MaxEntries     \* bound: entries the adaptive strategy makes in a day

Options == {"CE", "PE"} \X Strikes
FUT == <<"FUT", 0>>
Instruments == Options \cup {FUT}

(* What the entry filters and the regime detector read: the VIX (up to 13, *)
(* 18, 22, 25 or more), and whether the put-call ratio, the max pain and   *)
(* the move from the open are out of range.                                *)
Markets == [vix : {"low", "normal", "high", "severe", "extreme"},
            pcr : BOOLEAN, pain : BOOLEAN, trend : BOOLEAN]

ASSUME StrategyAssumption ==
    /\ Strikes \subseteq Nat \ {0}
    /\ Spots \subseteq Strikes
    /\ QuoteSets \subseteq SUBSET Options
    /\ Moods \subseteq Markets
    /\ {Lots, Width, MaxTrouble} \subseteq Nat \ {0}
    /\ {MaxRolls, MaxHedge, MaxNews, MaxEntries} \subseteq Nat
    /\ {PcrFilterEnabled, MaxPainFilterEnabled} \subseteq BOOLEAN

VARIABLES
    kind,      \* which strategy runs
    self,      \* its attributes
    legs,      \* legs of the signal in order_callback, still to be placed
    news,      \* order events of its futures orders, not yet dispatched
    net,       \* net[i]: the account's position in i, in lots
    quoted,    \* options in the chain: those that have ticked
    phase,     \* "pre" entry time, "day", "late" (from 14:15), "close" (from
               \* exit_time)
    day,       \* trading day
    expired,   \* did the registered options expire yesterday?
    \* history
    gaps,      \* what made the account differ from the strategy's belief
    faults,    \* legs not simply filled, and restarts
    entries,   \* entries today
    rolls      \* rolls today

market  == <<quoted, phase, day, expired>>
history == <<gaps, faults, entries, rolls>>
vars    == <<kind, self, legs, news, net, quoted, phase, day, expired,
             gaps, faults, entries, rolls>>

Kinds == {"straddle", "strangle", "condor", "adaptive",
          "hedged straddle", "hedged strangle"}

Roles == {"ce", "pe", "lce", "lpe"}     \* short legs, and hedges or wings
Right == [ce |-> "CE", pe |-> "PE", lce |-> "CE", lpe |-> "PE"]
NoLegs == [r \in Roles |-> 0]

(* __init__ of the five classes.                                           *)
Fresh == [entered |-> FALSE, stopped |-> FALSE, leg |-> NoLegs,
          atm |-> 0, qty |-> Lots,
          priced |-> FALSE,     \* is _entry_premium (_entry_credit) > 0?
          adjusts |-> 0, adjustDay |-> 0,
          hedge |-> 0, pend |-> 0, fut |-> FALSE,
          stype |-> "", regime |-> "unknown", switches |-> 0]
-----------------------------------------------------------------------------
(* The market as the strategy sees it.                                     *)

(* get_option_chain of the strategy's expiry.  Past the expiry,            *)
(* _check_expiry_rollover, at the head of every on_tick, has moved on to   *)
(* one whose options nothing registered.                                   *)
Chain == IF expired THEN {} ELSE quoted

Quoted(right, s) == <<right, s>> \in Chain

(* get_spot_price, 0 until the spot has ticked.                            *)
Prices == IF quoted = {} THEN Spots \cup {0} ELSE Spots

Distance(a, b) == IF a < b THEN b - a ELSE a - b

(* The option whose delta is closest to the target, which one strike out   *)
(* of the money has; the lower strike wins a tie.  0 if there is none:     *)
(* without a spot price no option has a delta.                             *)
Nearest(right, target) ==
    LET S == {s \in Strikes : Quoted(right, s)}
        Closer(s, t) == \/ Distance(s, target) < Distance(t, target)
                        \/ /\ Distance(s, target) = Distance(t, target)
                           /\ s <= t
    IN  IF S = {} THEN 0 ELSE CHOOSE s \in S : \A t \in S : Closer(s, t)
Short(r, spot) == IF r = "ce" THEN Nearest("CE", spot + 1)
                              ELSE Nearest("PE", spot - 1)

(* _check_vix_filter, _check_pcr_filter, _check_max_pain_filter: without a *)
(* chain the last two let the entry pass.                                  *)
Filtered(m) ==
    \/ m.vix = "extreme"
    \/ /\ Chain # {}
       /\ \/ PcrFilterEnabled /\ m.pcr
          \/ MaxPainFilterEnabled /\ m.pain

(* _check_trend_filter                                                     *)
Trending(m, spot) == spot > 0 /\ m.trend

(* _get_vix_adjusted_lots                                                  *)
AdjustedLots(m) ==
    IF m.vix \in {"low", "normal"} \/ Lots = 1 THEN Lots ELSE Lots \div 2

(* The combined premium against that of the entry: decayed to the profit   *)
(* target, risen past the stop loss, bounced from the lowest by more than  *)
(* the trailing stop, risen past the adjustment threshold, none of these.  *)
Verdicts == {"profit", "stop", "trail", "moved", "quiet"}
-----------------------------------------------------------------------------
(* Legs: make_leg with the order side as the sign of the lots.             *)
Leg(right, s, lots) == [ins |-> <<right, s>>, lots |-> lots]
Sell(s, r) == Leg(Right[r], s.leg[r], 0 - s.qty)
Buy(s, r)  == Leg(Right[r], s.leg[r], s.qty)
At(s, r, strike) == [s EXCEPT !.leg[r] = strike]
IfSet(s, r, leg) == IF s.leg[r] # 0 THEN <<leg>> ELSE <<>>
-----------------------------------------------------------------------------
(* Ticks.  A tick reaches a running strategy whose last signal was placed. *)

Ticks(kinds) == kind \in kinds /\ legs = <<>>

ExitTimeBad == FALSE
ExitTime == phase = "close"

(* Nothing bounds the entry from above: a strategy that has not entered    *)
(* before its exit time still enters after it.                             *)
MayEnterBad == ~self.entered /\ phase # "pre"
MayEnter == ~self.entered /\ ~self.stopped /\ phase # "pre"

Monitors == self.entered /\ ~ExitTime

(* A tick's outcome: None, an entry signal, or an adjust or exit signal.   *)
Keep(next) == self' = next /\ UNCHANGED <<legs, gaps, entries, rolls>>
Signals(next, order) ==
    self' = next /\ legs' = order /\ UNCHANGED <<gaps, entries, rolls>>
Enters(next, order) ==
    /\ self' = [next EXCEPT !.entered = TRUE]
    /\ legs' = order
    /\ entries' = entries + 1
    /\ UNCHANGED rolls

Leave(s) == [s EXCEPT !.entered = FALSE, !.stopped = TRUE]

TickFrame == UNCHANGED <<kind, market, news, net, faults>>
-----------------------------------------------------------------------------
(* order_callback: the legs of a signal, one place_order after another.    *)

Lot(i, lots) == net' = [net EXCEPT ![i] = @ + lots]
News(status) ==
    news' = IF Head(legs).ins = FUT THEN Append(news, status) ELSE news
OrderFrame == UNCHANGED <<kind, market, self, entries, rolls>>

FillLeg ==
    /\ legs # <<>>
    /\ Lot(Head(legs).ins, Head(legs).lots)
    /\ News("filled")
    /\ legs' = Tail(legs)
    /\ UNCHANGED <<gaps, faults>>
    /\ OrderFrame

Fault == day + faults < MaxTrouble /\ faults' = faults + 1

(* Refused by the validator, the margin check, a risk limit or the broker: *)
(* place_order returns, and the legs behind are placed all the same.       *)
RefuseLeg ==
    /\ legs # <<>>
    /\ Fault
    /\ News("rejected")
    /\ legs' = Tail(legs)
    /\ gaps' = gaps \cup {"refused"}
    /\ UNCHANGED net
    /\ OrderFrame

(* place_order raises (duplicate, kill switch, circuit breaker, broker     *)
(* connection): the runner logs it and drops the legs behind, which no     *)
(* event reports.  reached: the broker had the order already.              *)
DropLegs(reached) ==
    /\ legs # <<>>
    /\ Fault
    /\ IF reached THEN Lot(Head(legs).ins, Head(legs).lots)
                  ELSE UNCHANGED net
    /\ legs' = <<>>
    /\ gaps' = gaps \cup {"dropped"}
    /\ UNCHANGED news
    /\ OrderFrame

PlaceLeg == FillLeg \/ RefuseLeg \/ \E reached \in BOOLEAN : DropLegs(reached)
-----------------------------------------------------------------------------
(* The world around the strategy.                                          *)

(* OptionChainBuilder.on_tick: an entry appears when its option ticks.     *)
Quotes(Q) ==
    /\ legs = <<>>
    /\ quoted \subseteq Q
    /\ quoted # Q
    /\ quoted' = Q
    /\ UNCHANGED <<kind, self, legs, news, net, phase, day, expired, history>>

Clock ==
    /\ legs = <<>>
    /\ phase # "close"
    /\ phase' = CASE phase = "pre"  -> "day"
                  [] phase = "day"  -> "late"
                  [] phase = "late" -> "close"
    /\ UNCHANGED <<kind, self, legs, news, net, quoted, day, expired,
                   history>>

(* The next morning, lapse if past the options' expiry.  At 9:10           *)
(* reset_strategies_daily clears _entered and _stopped_for_day, whatever   *)
(* the strategy still holds.                                               *)
ResetDayState(s) == [s EXCEPT !.entered = FALSE, !.stopped = FALSE]

NextDay(lapse) ==
    /\ phase = "close"
    /\ legs = <<>>
    /\ day + faults < MaxTrouble
    /\ day' = day + 1
    /\ phase' = "pre"
    /\ expired' = (expired \/ lapse)
    /\ self' = ResetDayState(self)
    /\ gaps' = IF \E i \in Instruments : net[i] # 0
               THEN gaps \cup {"overnight"} ELSE gaps
    /\ entries' = 0
    /\ rolls' = 0
    /\ UNCHANGED <<kind, quoted, legs, news, net, faults>>

(* POST /strategies/{id}/stop, then /start: a new instance, on which       *)
(* nobody calls load_state_data.                                           *)
Restart ==
    /\ legs = <<>>
    /\ Fault
    /\ self' = Fresh
    /\ gaps' = gaps \cup {"restart"}
    /\ UNCHANGED <<kind, market, legs, news, net, entries, rolls>>

World ==
    \/ \E Q \in QuoteSets : Quotes(Q)
    \/ Clock
    \/ \E lapse \in BOOLEAN : NextDay(lapse)
    \/ Restart

BaseInit ==
    /\ kind \in Kinds
    /\ expired = FALSE
    /\ self = Fresh
    /\ legs = <<>>
    /\ news = <<>>
    /\ net = [i \in Instruments |-> 0]
    /\ quoted = {}
    /\ phase = "pre"
    /\ day = 1
    /\ gaps = {}
    /\ faults = 0
    /\ entries = 0
    /\ rolls = 0
=============================================================================
