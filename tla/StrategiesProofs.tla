-------------------------- MODULE StrategiesProofs --------------------------
(***************************************************************************)
(* What holds of the strategies for any strikes, quotes, lots and bounds,  *)
(* over any number of days, faults and restarts.                           *)
(*                                                                         *)
(* Inv has three parts.  Shape: the record self keeps its fields, so that  *)
(* the fields an action does not name keep their values.  OnceInv: who has *)
(* entered today is still in, or stopped for the day.  RollInv: the rolls  *)
(* of a day are among those the strategy has counted for that day.         *)
(*                                                                         *)
(* BookInv, in the second half, is about positions.  TypeInv: every        *)
(* attribute in its range, and a token under every leg a strategy that is  *)
(* in believes it holds.  OptionsInv: what the account holds and what the  *)
(* legs in hand are still to trade add up to what the strategy believes.   *)
(* FuturesInv: where a hedge is between the tick that sends it and the     *)
(* news that confirms it.                                                  *)
(***************************************************************************)
EXTENDS Strategies, Sums, SequenceTheorems, TLAPS

Fields == {"entered", "stopped", "leg", "atm", "qty", "priced", "adjusts",
           "adjustDay", "hedge", "pend", "fut", "stype", "regime", "switches"}

Shape ==
    /\ DOMAIN self = Fields
    /\ self.switches = 0
    /\ self.adjusts \in Nat
    /\ entries \in Nat
    /\ rolls \in Nat

OnceInv ==
    kind # "adaptive" /\ "restart" \notin gaps =>
        /\ entries <= 1
        /\ entries = 0 \/ self.entered \/ self.stopped

RollInv ==
    "restart" \notin gaps =>
        /\ rolls <= MaxRolls
        /\ rolls > 0 => self.adjustDay = day /\ rolls <= self.adjusts

Inv == Shape /\ OnceInv /\ RollInv

(* Attributes a strategy keeps when it looks for strikes, sizes a position *)
(* or notes an order event.                                                *)
Counts(s, t) ==
    /\ DOMAIN t = Fields
    /\ t.switches = s.switches
    /\ t.adjusts = s.adjusts
    /\ t.adjustDay = s.adjustDay

Stays(s, t) ==
    /\ Counts(s, t)
    /\ t.entered = s.entered
    /\ t.stopped = s.stopped
-----------------------------------------------------------------------------
(* The helpers of the strategies keep the counters and the flags.          *)
LEMMA HelpersStay ==
    ASSUME NEW s, DOMAIN s = Fields
    PROVE  /\ Stays(s, s)
           /\ \A q : Stays(s, [s EXCEPT !.qty = q])
           /\ \A q, a : Stays(s, [s EXCEPT !.qty = q, !.atm = a])
           /\ \A q, r : Stays(s, [s EXCEPT !.regime = r, !.qty = q])
           /\ \A r : Stays(s, [s EXCEPT !.regime = r])
           /\ \A p : Stays(s, [s EXCEPT !.priced = p])
           /\ \A l : Stays(s, [s EXCEPT !.leg = l])
           /\ \A l, p : Stays(s, [s EXCEPT !.leg = l, !.priced = p])
BY DEF Stays, Counts, Fields

(* So do the operators that choose legs and note news.                     *)
LEMMA OperatorsStay ==
    ASSUME NEW s, DOMAIN s = Fields, NEW r, NEW spot, NEW priced, NEW listed
    PROVE  /\ Stays(s, Shift(s, r, spot, priced))
           /\ Stays(s, Shorts(s, spot, priced))
           /\ Stays(s, WithWings(s, spot))
           /\ Stays(s, Spread(s, r, spot, priced))
           /\ Stays(s, Resolve(s, listed))
           /\ Stays(s, HedgeNews(s, r))
           /\ Stays(s, Found(s, spot))
<1>1. Stays(s, Shift(s, r, spot, priced))
  BY DEF Stays, Counts, Fields, Shift
<1>2. \A p : Stays(s, Shorts(s, spot, p))
  BY DEF Stays, Counts, Fields, Shorts
<1>3. Stays(s, WithWings(s, spot))
  BY DEF Stays, Counts, Fields, WithWings
<1>4. Stays(s, Spread(s, r, spot, priced))
  BY DEF Stays, Counts, Fields, Spread
<1>5. Stays(s, Resolve(s, listed))
  BY DEF Stays, Counts, Fields, Resolve
<1>6. Stays(s, HedgeNews(s, r))
  BY DEF Stays, Counts, Fields, HedgeNews
<1>7. Stays(s, Found(s, spot))
  <2>1. \A l : Stays(s, [s EXCEPT !.leg = l])
    BY HelpersStay
  <2>2. \/ Found(s, spot) = s
        \/ \E p : Found(s, spot) = Shorts(s, spot, p)
        \/ \E l : Found(s, spot) = [s EXCEPT !.leg = l]
    BY DEF Found
  <2> QED BY <1>2, <2>1, <2>2, HelpersStay
<1> QED BY <1>1, <1>2, <1>3, <1>4, <1>5, <1>6, <1>7
-----------------------------------------------------------------------------
(* What a step does to the day's account: nothing, an entry, or an exit.   *)
Quiet == Stays(self, self') /\ UNCHANGED <<entries, rolls, day>>
Entered ==
    /\ Counts(self, self')
    /\ ~self.entered /\ ~(kind # "adaptive" /\ self.stopped)
    /\ self'.entered
    /\ entries' = entries + 1
    /\ UNCHANGED <<rolls, day>>
Left ==
    /\ Counts(self, self')
    /\ kind = "adaptive" \/ self'.stopped
    /\ UNCHANGED <<entries, rolls, day>>

Plain == kind' = kind /\ gaps \subseteq gaps' /\ (Quiet \/ Entered \/ Left)

(* A step of one of these kinds keeps the day's account.                   *)
LEMMA PlainKeeps ==
    ASSUME Inv, Plain
    PROVE  Inv'
<1> USE DEF Inv, Shape, OnceInv, RollInv, Plain, Counts, Stays
<1>1. CASE Quiet
  BY <1>1 DEF Quiet
<1>2. CASE Entered
  BY <1>2 DEF Entered
<1>3. CASE Left
  BY <1>3 DEF Left
<1> QED BY <1>1, <1>2, <1>3

(* The outcomes of a tick are of these kinds.                              *)
LEMMA KeepPlain ==
    ASSUME NEW t, Stays(self, t), Keep(t), TickFrame
    PROVE  Plain
BY DEF Keep, TickFrame, market, Plain, Quiet

(* A tick that enters.                                                     *)
LEMMA EntersPlain ==
    ASSUME NEW t, NEW order, Stays(self, t), Enters(t, order), TickFrame,
           ~self.entered, ~(kind # "adaptive" /\ self.stopped),
           gaps \subseteq gaps'
    PROVE  Plain
<1>1. Counts(self, self') /\ self'.entered
  BY DEF Enters, Stays, Counts, Fields
<1> QED BY <1>1 DEF Enters, TickFrame, market, Plain, Entered

(* A tick that leaves for the day, or, of the adaptive strategy, for its   *)
(* next regime.                                                            *)
LEMMA LeavesPlain ==
    ASSUME DOMAIN self = Fields, NEW order, TickFrame,
           \/ Signals(Leave(self), order)
           \/ kind = "adaptive" /\ Signals(Out(self), order)
    PROVE  Plain
<1>1. Counts(self, self') /\ (kind = "adaptive" \/ self'.stopped)
  BY DEF Signals, Leave, Out, Counts, Fields
<1> QED BY <1>1 DEF Signals, TickFrame, market, Plain, Left

(* A tick that only trades legs.                                           *)
LEMMA SignalsPlain ==
    ASSUME NEW t, NEW order, Stays(self, t), Signals(t, order), TickFrame
    PROVE  Plain
BY DEF Signals, TickFrame, market, Plain, Quiet
-----------------------------------------------------------------------------
(* The short straddle's tick keeps the day's account.                      *)
LEMMA StraddleStep ==
    ASSUME Inv, StraddleTick
    PROVE  Plain
<1> USE DEF Inv, Shape
<1>1. CASE StraddleExit
  BY <1>1, LeavesPlain DEF StraddleExit
<1>2. ASSUME NEW spot, NEW priced, NEW m, StraddleEntry(m, spot, priced)
      PROVE  Plain
  <2> DEFINE sized == [self EXCEPT !.qty = AdjustedLots(m), !.atm = spot]
             found == [sized EXCEPT !.leg = AtmLegs(sized.leg, spot)]
             next  == [found EXCEPT !.leg = HedgeLegs(found.leg, spot),
                                    !.priced = priced]
             order == <<Sell(next, "ce"), Sell(next, "pe")>>
                      \o HedgeOrder(next, spot)
  <2>1. Stays(self, sized)
    BY HelpersStay
  <2>2. Stays(sized, found) /\ Stays(found, next)
    BY <2>1, HelpersStay DEF Stays, Counts
  <2>3. Stays(self, found) /\ Stays(self, next)
    BY <2>1, <2>2 DEF Stays, Counts
  <2>4. TickFrame /\ MayEnter
    BY <1>2 DEF StraddleEntry
  <2>5. \/ Keep(sized) \/ Keep(found)
        \/ Enters(next, order) /\ gaps \subseteq gaps'
    <3> HIDE DEF order
    <3> QED BY <1>2 DEF StraddleEntry, order
  <2> HIDE DEF sized, found, next, order
  <2> QED BY <2>1, <2>3, <2>4, <2>5, KeepPlain, EntersPlain DEF MayEnter
<1>3. ASSUME NEW verdict, NEW r, NEW spot, NEW priced,
             StraddleMonitor(verdict, r, spot, priced)
      PROVE  Plain
  <2>1. TickFrame
    BY <1>3 DEF StraddleMonitor
  <2>2. \/ Signals(Leave(self), StraddleExitOrder(self))
        \/ Signals(Shift(self, r, spot, priced),
                   <<Buy(self, r), Sell(At(self, r, spot), r)>>)
    BY <1>3 DEF StraddleMonitor
  <2>3. Stays(self, Shift(self, r, spot, priced))
    BY OperatorsStay
  <2> QED BY <2>1, <2>2, <2>3, LeavesPlain, SignalsPlain
<1> QED BY <1>1, <1>2, <1>3 DEF StraddleTick

(* The iron condor's tick keeps the day's account.                         *)
LEMMA CondorStep ==
    ASSUME Inv, CondorTick
    PROVE  Plain
<1> USE DEF Inv, Shape
<1>1. CASE CondorExit
  BY <1>1, LeavesPlain DEF CondorExit
<1>2. ASSUME NEW spot, NEW priced, NEW m, CondorEntry(m, spot, priced)
      PROVE  Plain
  <2> DEFINE sized == [self EXCEPT !.qty = AdjustedLots(m)]
             short == Shorts(sized, spot, self.priced)
             found == WithWings(short, spot)
             next  == [found EXCEPT !.priced = priced]
  <2>1. Stays(self, sized)
    BY HelpersStay
  <2>2. Stays(sized, short)
    <3> HIDE DEF sized
    <3> QED BY <2>1, OperatorsStay DEF Stays, Counts
  <2>3. Stays(short, found)
    BY <2>2, OperatorsStay DEF Stays, Counts
  <2>4. Stays(found, next)
    BY <2>3, HelpersStay DEF Stays, Counts
  <2>5. Stays(self, found) /\ Stays(self, next)
    BY <2>1, <2>2, <2>3, <2>4 DEF Stays, Counts
  <2>6. TickFrame /\ MayEnter
    BY <1>2 DEF CondorEntry
  <2>7. \/ Keep(sized) \/ Keep(found)
        \/ Enters(next, CondorOrder(next)) /\ gaps \subseteq gaps'
    BY <1>2 DEF CondorEntry
  <2> HIDE DEF sized, short, found, next
  <2> QED BY <2>1, <2>5, <2>6, <2>7, KeepPlain, EntersPlain DEF MayEnter
<1>3. ASSUME NEW verdict, NEW hot, NEW due, NEW spot, NEW priced,
             CondorMonitor(verdict, hot, due, spot, priced)
      PROVE  Plain
  <2>1. TickFrame
    BY <1>3 DEF CondorMonitor
  <2>2. \/ Signals(Leave(self), CondorExitOrder(self))
        \/ \E r, strike, order :
               Signals(Spread(self, r, strike, priced), order)
    BY <1>3 DEF CondorMonitor, AdjustSide
  <2>3. \A r, strike : Stays(self, Spread(self, r, strike, priced))
    BY OperatorsStay
  <2> QED BY <2>1, <2>2, <2>3, LeavesPlain, SignalsPlain
<1> QED BY <1>1, <1>2, <1>3 DEF CondorTick

(* A delta-hedged strategy's tick keeps the day's account.                 *)
LEMMA HedgedStep ==
    ASSUME Inv, HedgedTick
    PROVE  Plain
<1> USE DEF Inv, Shape
<1>1. ASSUME HedgedLeaves PROVE Plain
  <2>1. Counts(self, self') /\ self'.stopped
    BY <1>1 DEF HedgedLeaves, Leave, Counts, Fields
  <2>2. gaps \subseteq gaps'
    BY <1>1 DEF HedgedLeaves, Unconfirmed
  <2> QED BY <1>1, <2>1, <2>2
      DEF HedgedLeaves, TickFrame, market, Plain, Left
<1>2. CASE HedgedExit \/ HedgedStop
  BY <1>1, <1>2 DEF HedgedExit, HedgedStop
<1>3. ASSUME NEW m, NEW listed, NEW spot, NEW priced,
             HedgedEntry(m, listed, spot, priced)
      PROVE  Plain
  <2> DEFINE sized == [self EXCEPT !.qty = AdjustedLots(m)]
             found == Found(sized, spot)
             known == Resolve(found, listed)
             next  == [known EXCEPT !.priced = priced]
  <2>1. Stays(self, sized)
    BY HelpersStay
  <2>2. Stays(sized, found)
    <3> HIDE DEF sized
    <3> QED BY <2>1, OperatorsStay DEF Stays, Counts
  <2>3. Stays(found, known)
    BY <2>2, OperatorsStay DEF Stays, Counts
  <2>4. Stays(known, next)
    BY <2>3, HelpersStay DEF Stays, Counts
  <2>5. Stays(self, found) /\ Stays(self, next)
    BY <2>1, <2>2, <2>3, <2>4 DEF Stays, Counts
  <2>6. TickFrame /\ MayEnter
    BY <1>3 DEF HedgedEntry
  <2>7. \/ Keep(sized) \/ Keep(found)
        \/ Enters(next, ShortOrder(next)) /\ gaps \subseteq gaps'
    BY <1>3 DEF HedgedEntry
  <2> HIDE DEF sized, found, known, next
  <2> QED BY <2>1, <2>5, <2>6, <2>7, KeepPlain, EntersPlain DEF MayEnter
<1>4. ASSUME NEW want, NEW listed, Hedge(want, listed) PROVE Plain
  <2>1. Stays(self, Resolve(self, listed))
    BY OperatorsStay
  <2>2. Stays(Resolve(self, listed),
              [Resolve(self, listed) EXCEPT !.pend = Capped(want)])
    BY <2>1 DEF Stays, Counts, Fields
  <2>3. Stays(self, self')
    BY <1>4, <2>1, <2>2 DEF Hedge, Stays, Counts
  <2>4. gaps \subseteq gaps'
    BY <1>4 DEF Hedge, Unconfirmed
  <2> QED BY <1>4, <2>3, <2>4 DEF Hedge, TickFrame, market, Plain, Quiet
<1> QED BY <1>2, <1>3, <1>4 DEF HedgedTick

(* HandleRegime's third case never applies: the regimes that count as a    *)
(* switch are among those that sit out.                                    *)
LEMMA AdaptiveStep ==
    ASSUME Inv, AdaptiveTick
    PROVE  Plain
<1> USE DEF Inv, Shape
<1>0. kind = "adaptive"
  BY DEF AdaptiveTick, Ticks
<1>1. CASE AdaptiveExit
  BY <1>0, <1>1, LeavesPlain DEF AdaptiveExit
<1>2. ASSUME NEW s, NEW spot, NEW priced, Stays(self, s), TickFrame,
             ~self.entered,
             EnterCondor(s, spot, priced) \/ EnterStrangle(s, spot, priced)
      PROVE  Plain
  <2> DEFINE short == Shorts(s, spot, priced)
             winged == WithWings(short, spot)
             condor == [winged EXCEPT !.stype = "iron_condor"]
             strangle == [short EXCEPT !.leg.lce = 0, !.leg.lpe = 0,
                                       !.stype = "short_strangle"]
  <2>1. Stays(s, short)
    BY <1>2, OperatorsStay DEF Stays, Counts
  <2>2. Stays(short, winged)
    <3> HIDE DEF short
    <3> QED BY <2>1, OperatorsStay DEF Stays, Counts
  <2>3. Stays(winged, condor) /\ Stays(short, strangle)
    <3> HIDE DEF short, winged
    <3> QED BY <2>1, <2>2 DEF Stays, Counts, Fields
  <2>4. Stays(self, condor) /\ Stays(self, strangle)
    BY <1>2, <2>1, <2>2, <2>3 DEF Stays, Counts
  <2>5. \/ Keep(s)
        \/ Enters(condor, CondorOrder(condor)) /\ gaps \subseteq gaps'
        \/ Enters(strangle, ShortOrder(strangle)) /\ gaps \subseteq gaps'
    BY <1>2 DEF EnterCondor, EnterStrangle
  <2> HIDE DEF short, winged, condor, strangle
  <2> QED BY <1>0, <1>2, <2>4, <2>5, KeepPlain, EntersPlain
<1>3. ASSUME NEW m, NEW spot, NEW priced, AdaptiveAssess(m, spot, priced)
      PROVE  Plain
  <2> DEFINE regime == Assess(m, spot)
             sized == [self EXCEPT !.regime = regime,
                                   !.qty = RegimeLots(regime)]
             out == [self EXCEPT !.regime = regime]
  <2>1. Stays(self, sized) /\ Stays(self, out)
    BY HelpersStay
  <2>2. TickFrame
    BY <1>3 DEF AdaptiveAssess
  <2>3. regime \in SitOut \/ ~Shifts(self.regime, regime)
    BY DEF Shifts, SitOut
  <2>4. \/ Signals(Out(self), AdaptiveExitOrder(self))
        \/ Keep(out)
        \/ /\ ~self.entered
           /\ \/ EnterCondor(sized, spot, priced)
              \/ EnterStrangle(sized, spot, priced)
    <3> HIDE DEF regime
    <3> QED BY <1>3, <2>3 DEF AdaptiveAssess, HandleRegime, regime
  <2> HIDE DEF regime, sized, out
  <2> QED BY <1>0, <1>2, <2>1, <2>2, <2>4, KeepPlain, LeavesPlain
<1>4. ASSUME NEW verdict, AdaptiveStop(verdict) PROVE Plain
  BY <1>0, <1>4, LeavesPlain DEF AdaptiveStop
<1> QED BY <1>1, <1>3, <1>4 DEF AdaptiveTick

(* Order placement and order updates keep the day's account.               *)
LEMMA OrderStep ==
    ASSUME Inv, PlaceLeg \/ OnOrderUpdate
    PROVE  Plain
<1> USE DEF Inv, Shape
<1>1. CASE PlaceLeg
  <2>1. /\ UNCHANGED <<kind, market, self, entries, rolls>>
        /\ gaps \subseteq gaps'
    BY <1>1 DEF PlaceLeg, FillLeg, RefuseLeg, DropLegs, OrderFrame
  <2> QED BY <2>1, HelpersStay DEF market, Plain, Quiet
<1>2. CASE OnOrderUpdate
  <2>1. Stays(self, self')
    BY <1>2, OperatorsStay, HelpersStay DEF OnOrderUpdate
  <2> QED BY <1>2, <2>1 DEF OnOrderUpdate, market, history, Plain, Quiet
<1> QED BY <1>1, <1>2

(* The clock, the quotes, the next morning and a restart.                  *)
LEMMA WorldStep ==
    ASSUME Inv, World
    PROVE  Inv'
<1> USE DEF Inv, Shape
<1>1. CASE Clock \/ \E Q \in QuoteSets : Quotes(Q)
  <2>1. UNCHANGED <<kind, self, day, history>>
    BY <1>1 DEF Clock, Quotes
  <2> QED BY <2>1 DEF history, OnceInv, RollInv
<1>2. ASSUME NEW lapse, NextDay(lapse) PROVE Inv'
  <2>1. Counts(self, self')
    BY <1>2 DEF NextDay, ResetDayState, Counts, Fields
  <2>2. kind' = kind /\ gaps \subseteq gaps' /\ entries' = 0 /\ rolls' = 0
    BY <1>2 DEF NextDay
  <2> QED BY <2>1, <2>2, StrategyAssumption DEF Counts, OnceInv, RollInv
<1>3. CASE Restart
  <2>1. Shape'
    BY <1>3 DEF Restart, Fresh, Fields
  <2>2. "restart" \in gaps'
    BY <1>3 DEF Restart
  <2> QED BY <2>1, <2>2 DEF OnceInv, RollInv
<1> QED BY <1>1, <1>2, <1>3 DEF World

(* The strangle counts: a roll is allowed while fewer than MaxRolls have   *)
(* been counted on that day, and is counted.                               *)
LEMMA CountedKeeps ==
    ASSUME Inv
    PROVE  LET s == Counted(self)
           IN  /\ DOMAIN s = Fields
               /\ s.switches = 0
               /\ s.entered = self.entered /\ s.stopped = self.stopped
               /\ s.adjusts \in Nat
               /\ "restart" \notin gaps /\ rolls > 0
                      => s.adjustDay = day /\ rolls <= s.adjusts
               /\ s.adjustDay = day
BY DEF Inv, Shape, RollInv, Counted, Fields

(* A strangle's roll is counted before it is made.                         *)
LEMMA RollKeeps ==
    ASSUME Inv, NEW r, NEW spot, NEW priced,
           Roll(Counted(self), r, spot, priced),
           Counted(self).adjusts < MaxRolls, TickFrame
    PROVE  Inv'
<1> DEFINE s == Counted(self)
           strike == Short(r, spot)
<1>1. /\ DOMAIN s = Fields /\ s.switches = 0
      /\ s.entered = self.entered /\ s.stopped = self.stopped
      /\ s.adjusts \in Nat
      /\ "restart" \notin gaps /\ rolls > 0 => rolls <= s.adjusts
      /\ s.adjustDay = day
  BY CountedKeeps
<1>2. UNCHANGED <<kind, day, gaps, entries>>
  BY DEF TickFrame, market, Roll, Keep
<1>3. CASE Keep(s)
  <2> HIDE DEF s
  <2> QED BY <1>1, <1>2, <1>3
      DEF Keep, Inv, Shape, OnceInv, RollInv
<1>4. CASE self' = Rolled(s, r, strike, priced) /\ rolls' = rolls + 1
  <2> HIDE DEF s, strike
  <2>1. /\ DOMAIN self' = Fields /\ self'.switches = 0
        /\ self'.entered = self.entered /\ self'.stopped = self.stopped
        /\ self'.adjusts = s.adjusts + 1 /\ self'.adjustDay = day
    BY <1>1, <1>4 DEF Rolled, Fields
  <2>2. s.adjusts < MaxRolls
    BY DEF s
  <2>3. rolls \in Nat /\ MaxRolls \in Nat
    BY StrategyAssumption DEF Inv, Shape
  <2>4. "restart" \notin gaps => rolls + 1 <= s.adjusts + 1
    BY <1>1, <2>3
  <2> QED BY <1>1, <1>2, <1>4, <2>1, <2>2, <2>3, <2>4
      DEF Inv, Shape, OnceInv, RollInv
<1> QED BY <1>3, <1>4 DEF Roll

(* The short strangle's tick keeps the day's account.                      *)
LEMMA StrangleStep ==
    ASSUME Inv, StrangleTick
    PROVE  Inv'
<1>1. CASE StrangleExit
  BY <1>1, LeavesPlain, PlainKeeps DEF StrangleExit, Inv, Shape
<1>2. ASSUME NEW spot, NEW priced, NEW m, StrangleEntry(m, spot, priced)
      PROVE  Inv'
  <2> USE DEF Inv, Shape
  <2> DEFINE sized == [self EXCEPT !.qty = AdjustedLots(m)]
             next  == Shorts(sized, spot, priced)
  <2>1. Stays(self, sized)
    BY HelpersStay
  <2>2. Stays(sized, next)
    <3> HIDE DEF sized
    <3> QED BY <2>1, OperatorsStay DEF Stays, Counts
  <2>3. Stays(self, next)
    BY <2>1, <2>2 DEF Stays, Counts
  <2>4. TickFrame /\ MayEnter
    BY <1>2 DEF StrangleEntry
  <2>5. \/ Keep(sized)
        \/ Enters(next, ShortOrder(next)) /\ gaps \subseteq gaps'
    BY <1>2 DEF StrangleEntry
  <2> HIDE DEF sized, next
  <2>6. Plain
    BY <2>1, <2>3, <2>4, <2>5, KeepPlain, EntersPlain DEF MayEnter
  <2> QED BY <2>6, PlainKeeps
<1>3. ASSUME NEW verdict, NEW hot, NEW due, NEW spot, NEW priced,
             StrangleMonitor(verdict, hot, due, spot, priced)
      PROVE  Inv'
  <2> DEFINE s == Counted(self)
  <2>1. /\ DOMAIN s = Fields /\ s.switches = 0
        /\ s.entered = self.entered /\ s.stopped = self.stopped
        /\ s.adjusts \in Nat
        /\ "restart" \notin gaps /\ rolls > 0
               => s.adjustDay = day /\ rolls <= s.adjusts
    BY CountedKeeps
  <2>2. TickFrame
    BY <1>3 DEF StrangleMonitor
  <2>3. \/ Signals(Leave(self), CoverOrder(self))
        \/ Keep(s)
        \/ s.adjusts < MaxRolls /\ \E r : Roll(s, r, spot, priced)
    <3>1. MaxRolls \in Nat
      BY StrategyAssumption
    <3> HIDE DEF s
    <3> QED BY <1>3, <2>1, <3>1 DEF StrangleMonitor, s
  <2>4. CASE Signals(Leave(self), CoverOrder(self))
    BY <2>2, <2>4, LeavesPlain, PlainKeeps DEF Inv, Shape
  <2>5. CASE Keep(s)
    <3> HIDE DEF s
    <3> QED BY <2>1, <2>2, <2>5
        DEF Keep, TickFrame, market, Inv, Shape, OnceInv, RollInv
  <2>6. CASE s.adjusts < MaxRolls /\ \E r : Roll(s, r, spot, priced)
    BY <2>2, <2>6, RollKeeps
  <2> QED BY <2>3, <2>4, <2>5, <2>6
<1> QED BY <1>1, <1>2, <1>3 DEF StrangleTick
-----------------------------------------------------------------------------
(* A new day's account is empty.                                           *)
LEMMA Initially == Init => Inv
<1> SUFFICES ASSUME Init PROVE Inv
  OBVIOUS
<1>1. Shape
  BY DEF Init, BaseInit, Fresh, Shape, Fields
<1> QED BY <1>1, StrategyAssumption
    DEF Init, BaseInit, Inv, OnceInv, RollInv

(* Every step keeps the day's account.                                     *)
LEMMA Step == Inv /\ [Next]_vars => Inv'
<1> SUFFICES ASSUME Inv, [Next]_vars PROVE Inv'
  OBVIOUS
<1>1. CASE Tick
  BY <1>1, StraddleStep, StrangleStep, CondorStep, HedgedStep, AdaptiveStep,
     PlainKeeps DEF Tick
<1>2. CASE OnOrderUpdate \/ PlaceLeg
  BY <1>2, OrderStep, PlainKeeps
<1>3. CASE World
  BY <1>3, WorldStep
<1>4. CASE UNCHANGED vars
  BY <1>4 DEF vars, Inv, Shape, OnceInv, RollInv
<1> QED BY <1>1, <1>2, <1>3, <1>4 DEF Next

(* The day's account is right in every state.                              *)
LEMMA Invariant == Spec => []Inv
<1> QED BY Initially, Step, PTL DEF Spec

(* No strategy but the adaptive one enters twice on a day, unless it was   *)
(* started anew: _stopped_for_day is set on every way out.                 *)
THEOREM EntersOncePerDay == Spec => []OneEntryPerDay
<1>1. Inv => OneEntryPerDay
  BY DEF Inv, OnceInv, OneEntryPerDay
<1> QED BY <1>1, Invariant, PTL

(* The strangle rolls at most MAX_ADJUSTMENTS_PER_DAY legs a day.          *)
THEOREM RollsStayCapped == Spec => []RollsCapped
<1>1. Inv => RollsCapped
  BY DEF Inv, RollInv, RollsCapped
<1> QED BY <1>1, Invariant, PTL

(* The adaptive strategy never counts a switch of regime, so that          *)
(* max_switches_per_day never limits it.                                   *)
THEOREM SwitchesNeverCounted == Spec => []NoCountedSwitch
<1>1. Inv => NoCountedSwitch
  BY DEF Inv, Shape, NoCountedSwitch
<1> QED BY <1>1, Invariant, PTL
-----------------------------------------------------------------------------
(* The fields of self, of an order, and of the rest of the state.          *)
LegSet == [ins : Instruments, lots : Int]
IsOrder(o) == o \in Seq(LegSet) /\ Len(o) <= 4

Typed(s) ==
    /\ DOMAIN s = Fields
    /\ s.leg \in [Roles -> Strikes \cup {0}]
    /\ s.atm \in Spots \cup {0}
    /\ s.qty \in 1..(2 * Lots)
    /\ s.adjusts \in 0..MaxRolls
    /\ s.pend \in -MaxHedge..MaxHedge
    /\ s.hedge \in Int
    /\ s.entered \in BOOLEAN /\ s.stopped \in BOOLEAN
    /\ s.priced \in BOOLEAN /\ s.fut \in BOOLEAN

(* The options a strategy that is in sold, and its wings, have tokens.     *)
Winged(s) == \/ kind = "condor"
             \/ kind = "adaptive" /\ s.stype = "iron_condor"
Tokened(s) ==
    s.entered => /\ s.leg["ce"] \in Strikes /\ s.leg["pe"] \in Strikes
                 /\ Winged(s) => /\ s.leg["lce"] \in Strikes
                                 /\ s.leg["lpe"] \in Strikes

MarketOK ==
    /\ expired \in BOOLEAN
    /\ quoted \in QuoteSets \cup {{}}
    /\ phase \in {"pre", "day", "late", "close"}
    /\ day \in Nat /\ faults \in Nat /\ day >= 1 /\ day + faults <= MaxTrouble

TypeInv ==
    /\ Typed(self) /\ Tokened(self)
    /\ kind \in Kinds
    /\ IsOrder(legs)
    /\ news \in Seq({"filled", "rejected"})
    /\ net \in [Instruments -> Int]
    /\ MarketOK

(* Lots of instrument i that the legs of order o are still to trade.       *)
LotsAt(l, i) == IF l.ins = i THEN l.lots ELSE 0
Nth(o, n, i) == IF n <= Len(o) THEN LotsAt(o[n], i) ELSE 0
Due4(o, i) == Nth(o, 1, i) + Nth(o, 2, i) + Nth(o, 3, i) + Nth(o, 4, i)

(* With no gap, the account holds what the strategy believes, but for the  *)
(* legs it is still to place.                                              *)
OptionsInv ==
    gaps = {} => \A i \in Options : net[i] + Due4(legs, i) = OptionLots(self, i)

NoFuture(o) == \A n \in 1..Len(o) : o[n].ins # FUT
-----------------------------------------------------------------------------
(* The lots an order of up to four legs trades.                            *)
LEMMA Orders ==
    /\ IsOrder(<<>>)
    /\ \A i : Due4(<<>>, i) = 0
    /\ \A a \in LegSet :
          /\ IsOrder(<<a>>)
          /\ \A i : Due4(<<a>>, i) = LotsAt(a, i)
    /\ \A a, b \in LegSet :
          /\ IsOrder(<<a, b>>)
          /\ \A i : Due4(<<a, b>>, i) = LotsAt(a, i) + LotsAt(b, i)
    /\ \A a, b, c \in LegSet :
          /\ IsOrder(<<a, b, c>>)
          /\ \A i : Due4(<<a, b, c>>, i) =
                        LotsAt(a, i) + LotsAt(b, i) + LotsAt(c, i)
    /\ \A a, b, c, d \in LegSet :
          /\ IsOrder(<<a, b, c, d>>)
          /\ \A i : Due4(<<a, b, c, d>>, i) =
                        LotsAt(a, i) + LotsAt(b, i) + LotsAt(c, i) + LotsAt(d, i)
<1>0. \A a \in LegSet : \A i : LotsAt(a, i) \in Int
  BY DEF LegSet, LotsAt
<1>1. IsOrder(<<>>) /\ \A i : Due4(<<>>, i) = 0
  BY DEF IsOrder, Due4, Nth
<1>2. ASSUME NEW a \in LegSet
      PROVE  /\ IsOrder(<<a>>)
             /\ \A i : Due4(<<a>>, i) = LotsAt(a, i)
  BY <1>0 DEF IsOrder, Due4, Nth
<1>3. ASSUME NEW a \in LegSet, NEW b \in LegSet
      PROVE  /\ IsOrder(<<a, b>>)
             /\ \A i : Due4(<<a, b>>, i) = LotsAt(a, i) + LotsAt(b, i)
  BY <1>0 DEF IsOrder, Due4, Nth
<1>4. ASSUME NEW a \in LegSet, NEW b \in LegSet, NEW c \in LegSet
      PROVE  /\ IsOrder(<<a, b, c>>)
             /\ \A i : Due4(<<a, b, c>>, i) =
                        LotsAt(a, i) + LotsAt(b, i) + LotsAt(c, i)
  BY <1>0 DEF IsOrder, Due4, Nth
<1>5. ASSUME NEW a \in LegSet, NEW b \in LegSet, NEW c \in LegSet, NEW d \in LegSet
      PROVE  /\ IsOrder(<<a, b, c, d>>)
             /\ \A i : Due4(<<a, b, c, d>>, i) =
                        LotsAt(a, i) + LotsAt(b, i) + LotsAt(c, i) + LotsAt(d, i)
  BY <1>0 DEF IsOrder, Due4, Nth
<1> QED BY <1>1, <1>2, <1>3, <1>4, <1>5

(* The assumptions on the constants, one by one.                           *)
LEMMA Constants ==
    /\ Strikes \subseteq Nat \ {0}
    /\ Spots \subseteq Strikes /\ Spots \subseteq Nat
    /\ Lots \in Nat /\ Lots >= 1 /\ Width \in Nat /\ Width >= 1
    /\ MaxTrouble \in Nat /\ MaxTrouble >= 1
    /\ MaxRolls \in Nat /\ MaxHedge \in Nat
    /\ QuoteSets \subseteq SUBSET Options
<1>1. {Lots, Width, MaxTrouble} \subseteq Nat \ {0}
  BY StrategyAssumption
<1>2. {MaxRolls, MaxHedge} \subseteq Nat
  BY StrategyAssumption
<1>3. /\ Strikes \subseteq Nat \ {0}
      /\ Spots \subseteq Strikes
      /\ QuoteSets \subseteq SUBSET Options
  BY StrategyAssumption
<1> QED BY <1>1, <1>2, <1>3

(* A strike that is quoted is one of the strikes.                          *)
LEMMA ChainTyped ==
    ASSUME MarketOK, NEW right, NEW s, Quoted(right, s)
    PROVE  s \in Strikes /\ right \in {"CE", "PE"}
<1>1. quoted \subseteq Options
  BY StrategyAssumption DEF MarketOK
<1> QED BY <1>1 DEF Quoted, Chain, Options

(* The strike nearest to a target is listed, or none is quoted.            *)
LEMMA NearestTyped ==
    ASSUME MarketOK, NEW right, NEW target \in Int
    PROVE  Nearest(right, target) \in Strikes \cup {0}
<1> DEFINE S == {s \in Strikes : Quoted(right, s)}
           Closer(s, t) == \/ Distance(s, target) < Distance(t, target)
                           \/ /\ Distance(s, target) = Distance(t, target)
                              /\ s <= t
<1>1. CASE S = {}
  BY <1>1 DEF Nearest
<1>2. CASE S # {}
  <2>1. S \subseteq Nat
    BY StrategyAssumption
  <2>2. \A s \in S : Distance(s, target) \in Nat
    BY <2>1 DEF Distance
  <2> DEFINE D == {Distance(s, target) : s \in S}
  <2>3. PICK d \in D : \A e \in D : d <= e
    <3>1. D \subseteq Nat /\ D # {}
      BY <1>2, <2>2
    <3> HIDE DEF D
    <3> QED BY <3>1, Least
  <2> DEFINE N == {s \in S : Distance(s, target) = d}
  <2>4. PICK n \in N : \A t \in N : n <= t
    <3>1. N \subseteq Nat /\ N # {}
      BY <2>1, <2>3
    <3> HIDE DEF N
    <3> QED BY <3>1, Least
  <2>5. \A t \in S : Closer(n, t)
    <3> SUFFICES ASSUME NEW t \in S PROVE Closer(n, t)
      OBVIOUS
    <3>1. Distance(n, target) = d /\ d <= Distance(t, target)
      BY <2>3, <2>4
    <3>2. Distance(t, target) \in Nat /\ d \in Nat
      BY <2>2, <2>3
    <3>3. CASE Distance(t, target) = d
      BY <3>3, <2>4
    <3>4. CASE Distance(t, target) # d
      BY <3>1, <3>2, <3>4
    <3> QED BY <3>3, <3>4
  <2>6. n \in S
    BY <2>4
  <2>7. Nearest(right, target) = CHOOSE s \in S : \A t \in S : Closer(s, t)
    BY <1>2 DEF Nearest
  <2> HIDE DEF S, Closer
  <2>8. Nearest(right, target) \in S
    BY <2>5, <2>6, <2>7
  <2> QED BY <2>8 DEF S
<1> QED BY <1>1, <1>2

(* The strike to sell is listed, or none is quoted.                        *)
LEMMA ShortTyped ==
    ASSUME MarketOK, NEW r, NEW spot \in Prices
    PROVE  /\ spot \in Nat /\ spot \in Spots \cup {0}
           /\ Short(r, spot) \in Strikes \cup {0}
<1>1. spot \in Nat /\ spot \in Spots \cup {0}
  <2>1. spot \in Spots \cup {0}
    BY DEF Prices
  <2>2. Spots \subseteq Nat
    BY Constants
  <2> QED BY <2>1, <2>2
<1>2. spot + 1 \in Int /\ spot - 1 \in Int
  BY <1>1
<1> QED BY <1>1, <1>2, NearestTyped DEF Short
-----------------------------------------------------------------------------
(* The legs of the strategies' orders, and what a leg adds to the account. *)
LEMMA LegTyped ==
    ASSUME NEW s, Typed(s), NEW r \in Roles, s.leg[r] \in Strikes
    PROVE  /\ Sell(s, r) \in LegSet /\ Buy(s, r) \in LegSet
           /\ Sell(s, r).ins # FUT /\ Buy(s, r).ins # FUT
<1>1. <<Right[r], s.leg[r]>> \in Options /\ <<Right[r], s.leg[r]>> # FUT
  BY DEF Roles, Right, Options, FUT
<1>2. s.qty \in Int /\ 0 - s.qty \in Int
  BY Constants DEF Typed
<1> QED BY <1>1, <1>2 DEF Sell, Buy, Leg, LegSet, Instruments

(* A leg trades the position's quantity at its own strike.                 *)
LEMMA LegLots ==
    ASSUME NEW s, NEW r, NEW i
    PROVE  /\ LotsAt(Sell(s, r), i) =
                  IF <<Right[r], s.leg[r]>> = i THEN 0 - s.qty ELSE 0
           /\ LotsAt(Buy(s, r), i) =
                  IF <<Right[r], s.leg[r]>> = i THEN s.qty ELSE 0
BY DEF LotsAt, Sell, Buy, Leg

(* The volatility adjustment trades at least a lot.                        *)
LEMMA AdjustedTyped ==
    ASSUME NEW m
    PROVE  AdjustedLots(m) \in 1..(2 * Lots)
<1>1. CASE Lots = 1
  BY <1>1, Constants DEF AdjustedLots
<1>2. CASE Lots # 1
  <2>1. Lots \in Nat /\ Lots >= 2
    BY <1>2, Constants
  <2>2. Lots \div 2 \in 1..(2 * Lots) /\ Lots \in 1..(2 * Lots)
    BY <2>1
  <2> QED BY <2>2 DEF AdjustedLots
<1> QED BY <1>1, <1>2

(* So does the regime's adjustment.                                        *)
LEMMA RegimeTyped ==
    ASSUME NEW regime
    PROVE  RegimeLots(regime) \in 1..(2 * Lots)
<1>1. Lots \in Nat /\ Lots >= 1
  BY Constants
<1>2. /\ (3 * Lots) \div 2 \in 1..(2 * Lots)
      /\ 1 \in 1..(2 * Lots) /\ Lots \in 1..(2 * Lots)
      /\ Lots > 1 => Lots \div 2 \in 1..(2 * Lots)
  BY <1>1
<1>3. \/ RegimeLots(regime) = (3 * Lots) \div 2
      \/ RegimeLots(regime) = 1 \/ RegimeLots(regime) = Lots
      \/ Lots > 1 /\ RegimeLots(regime) = Lots \div 2
  BY DEF RegimeLots
<1> QED BY <1>2, <1>3

(* What setting an attribute keeps.                                        *)
LEMMA SetTyped ==
    ASSUME NEW s, Typed(s)
    PROVE  /\ \A q \in 1..(2 * Lots) : Typed([s EXCEPT !.qty = q])
           /\ \A a \in Spots \cup {0} : Typed([s EXCEPT !.atm = a])
           /\ \A l \in [Roles -> Strikes \cup {0}] :
                  Typed([s EXCEPT !.leg = l])
           /\ \A p \in BOOLEAN : Typed([s EXCEPT !.priced = p])
           /\ \A p \in BOOLEAN : Typed([s EXCEPT !.fut = p])
           /\ \A p : Typed([s EXCEPT !.regime = p])
           /\ \A p : Typed([s EXCEPT !.stype = p])
           /\ Typed(Leave(s)) /\ Typed(Out(s))
           /\ Typed([s EXCEPT !.entered = TRUE])
BY DEF Typed, Fields, Leave, Out
-----------------------------------------------------------------------------
(* The lots under the token of role r, if the token is that of option i.   *)
LotsOf(s, r, i) == IF <<Right[r], s.leg[r]>> = i THEN s.qty ELSE 0

(* The lots of a leg, bought or sold.                                      *)
LEMMA LotsOfInt ==
    ASSUME NEW s, Typed(s), NEW r, NEW i
    PROVE  LotsOf(s, r, i) \in Int /\ LotsAt(Buy(s, r), i) = LotsOf(s, r, i)
           /\ LotsAt(Sell(s, r), i) = 0 - LotsOf(s, r, i)
<1>1. s.qty \in Int
  BY DEF Typed
<1> QED BY <1>1, LegLots DEF LotsOf

(* A strategy that is out believes it holds nothing; one that is in, that  *)
(* it is short the straddle or strangle, and long the hedges or wings.     *)
Covered(s) == kind = "straddle" \/ Winged(s)

(* Out of the market, a strategy believes it holds nothing.                *)
LEMMA BelievesNothing ==
    ASSUME NEW s, ~s.entered, NEW i
    PROVE  OptionLots(s, i) = 0
<1>1. \A r \in Roles : Position(s, r) = 0
  BY DEF Position
<1>2. \A r \in Roles : Held(s, r, i) = 0
  BY <1>1 DEF Held
<1> QED BY <1>2 DEF OptionLots, Roles

(* With its shorts alone it believes it is short both.                     *)
LEMMA BelievesShorts ==
    ASSUME NEW s, Typed(s), s.entered, ~Covered(s), kind \in Kinds, NEW i
    PROVE  OptionLots(s, i) = (0 - LotsOf(s, "ce", i)) - LotsOf(s, "pe", i)
<1>1. s.qty \in Int
  BY DEF Typed
<1>2. /\ Position(s, "ce") = 0 - s.qty /\ Position(s, "pe") = 0 - s.qty
      /\ Position(s, "lce") = 0 /\ Position(s, "lpe") = 0
  BY DEF Position, Covered, Winged, Kinds, Hedged
<1>3. /\ Held(s, "ce", i) = 0 - LotsOf(s, "ce", i)
      /\ Held(s, "pe", i) = 0 - LotsOf(s, "pe", i)
      /\ Held(s, "lce", i) = 0 /\ Held(s, "lpe", i) = 0
  BY <1>1, <1>2 DEF Held, LotsOf
<1>4. LotsOf(s, "ce", i) \in Int /\ LotsOf(s, "pe", i) \in Int
  BY LotsOfInt
<1> QED BY <1>3, <1>4 DEF OptionLots

(* With its wings it believes it is long them as well.                     *)
LEMMA BelievesWings ==
    ASSUME NEW s, Typed(s), s.entered, Covered(s), NEW i
    PROVE  OptionLots(s, i) = (0 - LotsOf(s, "ce", i)) - LotsOf(s, "pe", i)
                              + LotsOf(s, "lce", i) + LotsOf(s, "lpe", i)
<1>1. s.qty \in Int
  BY DEF Typed
<1>2. /\ Position(s, "ce") = 0 - s.qty /\ Position(s, "pe") = 0 - s.qty
      /\ Position(s, "lce") = s.qty /\ Position(s, "lpe") = s.qty
  BY DEF Position, Covered, Winged, Hedged
<1>3. /\ Held(s, "ce", i) = 0 - LotsOf(s, "ce", i)
      /\ Held(s, "pe", i) = 0 - LotsOf(s, "pe", i)
      /\ Held(s, "lce", i) = LotsOf(s, "lce", i)
      /\ Held(s, "lpe", i) = LotsOf(s, "lpe", i)
  BY <1>1, <1>2 DEF Held, LotsOf
<1>4. /\ LotsOf(s, "ce", i) \in Int /\ LotsOf(s, "pe", i) \in Int
      /\ LotsOf(s, "lce", i) \in Int /\ LotsOf(s, "lpe", i) \in Int
  BY LotsOfInt
<1> QED BY <1>3, <1>4 DEF OptionLots

(* Two sequences joined, given the result place by place.                  *)
LEMMA Adjoined ==
    ASSUME NEW S, NEW s \in Seq(S), NEW t \in Seq(S), NEW u \in Seq(S),
           Len(u) = Len(s) + Len(t),
           \A i \in 1..Len(u) :
               u[i] = IF i <= Len(s) THEN s[i] ELSE t[i - Len(s)]
    PROVE  s \o t = u
<1>1. /\ s \o t \in Seq(S)
      /\ Len(s \o t) = Len(s) + Len(t)
      /\ \A i \in 1..(Len(s) + Len(t)) :
             (s \o t)[i] = IF i <= Len(s) THEN s[i] ELSE t[i - Len(s)]
  BY ConcatProperties
<1> DEFINE v == s \o t
<1>2. v \in Seq(S) /\ Len(v) = Len(u) /\ \A i \in 1..Len(v) : v[i] = u[i]
  BY <1>1
<1> HIDE DEF v
<1>3. v = u
  BY <1>2, SeqEqual
<1> QED BY <1>3 DEF v

(* The orders the strategies put together: two legs and two.               *)
LEMMA Join22 ==
    ASSUME NEW a, NEW b, NEW c, NEW d
    PROVE  <<a, b>> \o <<c, d>> = <<a, b, c, d>>
<1> DEFINE S == {a, b, c, d}
           s == <<a, b>>
           t == <<c, d>>
           u == <<a, b, c, d>>
<1>1. s \in Seq(S) /\ t \in Seq(S) /\ u \in Seq(S)
  OBVIOUS
<1>2. Len(u) = Len(s) + Len(t)
  OBVIOUS
<1>3. \A i \in 1..Len(u) :
          u[i] = IF i <= Len(s) THEN s[i] ELSE t[i - Len(s)]
  OBVIOUS
<1> HIDE DEF S, s, t, u
<1>4. s \o t = u
  BY <1>1, <1>2, <1>3, Adjoined
<1> QED BY <1>4 DEF s, t, u

(* Two legs and one.                                                       *)
LEMMA Join21 ==
    ASSUME NEW a, NEW b, NEW c
    PROVE  <<a, b>> \o <<c>> = <<a, b, c>>
<1> DEFINE S == {a, b, c}
           s == <<a, b>>
           t == <<c>>
           u == <<a, b, c>>
<1>1. s \in Seq(S) /\ t \in Seq(S) /\ u \in Seq(S)
  OBVIOUS
<1>2. Len(u) = Len(s) + Len(t)
  OBVIOUS
<1>3. \A i \in 1..Len(u) :
          u[i] = IF i <= Len(s) THEN s[i] ELSE t[i - Len(s)]
  OBVIOUS
<1> HIDE DEF S, s, t, u
<1>4. s \o t = u
  BY <1>1, <1>2, <1>3, Adjoined
<1> QED BY <1>4 DEF s, t, u

(* One leg and one.                                                        *)
LEMMA Join11 ==
    ASSUME NEW a, NEW b
    PROVE  <<a>> \o <<b>> = <<a, b>>
<1> DEFINE S == {a, b}
           s == <<a>>
           t == <<b>>
           u == <<a, b>>
<1>1. s \in Seq(S) /\ t \in Seq(S) /\ u \in Seq(S)
  OBVIOUS
<1>2. Len(u) = Len(s) + Len(t)
  OBVIOUS
<1>3. \A i \in 1..Len(u) :
          u[i] = IF i <= Len(s) THEN s[i] ELSE t[i - Len(s)]
  OBVIOUS
<1> HIDE DEF S, s, t, u
<1>4. s \o t = u
  BY <1>1, <1>2, <1>3, Adjoined
<1> QED BY <1>4 DEF s, t, u

(* Three legs and one.                                                     *)
LEMMA Join31 ==
    ASSUME NEW a, NEW b, NEW c, NEW d
    PROVE  <<a, b, c>> \o <<d>> = <<a, b, c, d>>
<1> DEFINE S == {a, b, c, d}
           s == <<a, b, c>>
           t == <<d>>
           u == <<a, b, c, d>>
<1>1. s \in Seq(S) /\ t \in Seq(S) /\ u \in Seq(S)
  OBVIOUS
<1>2. Len(u) = Len(s) + Len(t)
  OBVIOUS
<1>3. \A i \in 1..Len(u) :
          u[i] = IF i <= Len(s) THEN s[i] ELSE t[i - Len(s)]
  OBVIOUS
<1> HIDE DEF S, s, t, u
<1>4. s \o t = u
  BY <1>1, <1>2, <1>3, Adjoined
<1> QED BY <1>4 DEF s, t, u

(* Two legs and none.                                                      *)
LEMMA Join20 ==
    ASSUME NEW a, NEW b
    PROVE  <<a, b>> \o <<>> = <<a, b>> /\ <<>> \o <<a, b>> = <<a, b>>
<1> DEFINE S == {a, b}
<1>1. <<a, b>> \in Seq(S)
  OBVIOUS
<1> HIDE DEF S
<1> QED BY <1>1, ConcatEmptySeq

(* One leg and none.                                                       *)
LEMMA Join10 ==
    ASSUME NEW a
    PROVE  <<a>> \o <<>> = <<a>> /\ <<>> \o <<a>> = <<a>>
<1> DEFINE S == {a}
<1>1. <<a>> \in Seq(S)
  OBVIOUS
<1> HIDE DEF S
<1> QED BY <1>1, ConcatEmptySeq

(* Three legs and none.                                                    *)
LEMMA Join30 ==
    ASSUME NEW a, NEW b, NEW c
    PROVE  <<a, b, c>> \o <<>> = <<a, b, c>> /\ <<>> \o <<a, b, c>> = <<a, b, c>>
<1> DEFINE S == {a, b, c}
<1>1. <<a, b, c>> \in Seq(S)
  OBVIOUS
<1> HIDE DEF S
<1> QED BY <1>1, ConcatEmptySeq

(* The orders that sell and cover, with and without wings.                 *)
LEMMA ShortOrders ==
    ASSUME NEW s, Typed(s),
           s.leg["ce"] \in Strikes, s.leg["pe"] \in Strikes
    PROVE  /\ IsOrder(ShortOrder(s)) /\ IsOrder(CoverOrder(s))
           /\ NoFuture(ShortOrder(s)) /\ NoFuture(CoverOrder(s))
           /\ \A i : /\ Due4(ShortOrder(s), i) =
                           (0 - LotsOf(s, "ce", i)) - LotsOf(s, "pe", i)
                     /\ Due4(CoverOrder(s), i) =
                           LotsOf(s, "ce", i) + LotsOf(s, "pe", i)
<1>1. \A r \in {"ce", "pe"} : /\ Sell(s, r) \in LegSet /\ Buy(s, r) \in LegSet
                             /\ Sell(s, r).ins # FUT /\ Buy(s, r).ins # FUT
  BY LegTyped DEF Roles
<1>2. NoFuture(ShortOrder(s)) /\ NoFuture(CoverOrder(s))
  BY <1>1 DEF NoFuture, ShortOrder, CoverOrder
<1>3. IsOrder(ShortOrder(s)) /\ IsOrder(CoverOrder(s))
  BY <1>1, Orders DEF ShortOrder, CoverOrder
<1>4. ASSUME NEW i
      PROVE  /\ Due4(ShortOrder(s), i) =
                      LotsAt(Sell(s, "ce"), i) + LotsAt(Sell(s, "pe"), i)
             /\ Due4(CoverOrder(s), i) =
                      LotsAt(Buy(s, "ce"), i) + LotsAt(Buy(s, "pe"), i)
  BY <1>1, Orders DEF ShortOrder, CoverOrder
<1> QED BY <1>2, <1>3, <1>4, LotsOfInt

(* The condor's orders trade the four legs, each way.                      *)
LEMMA CondorOrders ==
    ASSUME NEW s, Typed(s), \A r \in Roles : s.leg[r] \in Strikes
    PROVE  /\ IsOrder(CondorOrder(s)) /\ IsOrder(CondorExitOrder(s))
           /\ NoFuture(CondorOrder(s)) /\ NoFuture(CondorExitOrder(s))
           /\ \A i : /\ Due4(CondorOrder(s), i) =
                           (0 - LotsOf(s, "ce", i)) - LotsOf(s, "pe", i)
                           + LotsOf(s, "lce", i) + LotsOf(s, "lpe", i)
                     /\ Due4(CondorExitOrder(s), i) =
                           LotsOf(s, "ce", i) + LotsOf(s, "pe", i)
                           - LotsOf(s, "lce", i) - LotsOf(s, "lpe", i)
<1>1. \A r \in Roles : /\ Sell(s, r) \in LegSet /\ Buy(s, r) \in LegSet
                        /\ Sell(s, r).ins # FUT /\ Buy(s, r).ins # FUT
  BY LegTyped
<1>2. /\ CondorOrder(s) = <<Sell(s, "ce"), Sell(s, "pe"),
                            Buy(s, "lce"), Buy(s, "lpe")>>
      /\ CondorExitOrder(s) = <<Buy(s, "ce"), Buy(s, "pe"),
                                Sell(s, "lce"), Sell(s, "lpe")>>
  <2>1. \A a, b, c, d : <<a, b>> \o <<c, d>> = <<a, b, c, d>>
    BY Join22, Zenon
  <2> QED BY <2>1, Zenon
       DEF CondorOrder, CondorExitOrder, ShortOrder, CoverOrder
<1>3. NoFuture(CondorOrder(s)) /\ NoFuture(CondorExitOrder(s))
  BY <1>1, <1>2 DEF NoFuture, Roles
<1>4. IsOrder(CondorOrder(s)) /\ IsOrder(CondorExitOrder(s))
  BY <1>1, <1>2, Orders DEF Roles
<1>5. ASSUME NEW i
      PROVE  /\ Due4(CondorOrder(s), i) =
                      LotsAt(Sell(s, "ce"), i) + LotsAt(Sell(s, "pe"), i)
                      + LotsAt(Buy(s, "lce"), i) + LotsAt(Buy(s, "lpe"), i)
             /\ Due4(CondorExitOrder(s), i) =
                      LotsAt(Buy(s, "ce"), i) + LotsAt(Buy(s, "pe"), i)
                      + LotsAt(Sell(s, "lce"), i) + LotsAt(Sell(s, "lpe"), i)
  BY <1>1, <1>2, Orders DEF Roles
<1>6. ASSUME NEW i
      PROVE  /\ Due4(CondorOrder(s), i) =
                  (0 - LotsOf(s, "ce", i)) - LotsOf(s, "pe", i)
                  + LotsOf(s, "lce", i) + LotsOf(s, "lpe", i)
             /\ Due4(CondorExitOrder(s), i) =
                  LotsOf(s, "ce", i) + LotsOf(s, "pe", i)
                  - LotsOf(s, "lce", i) - LotsOf(s, "lpe", i)
  <2>1. \A r \in Roles :
            /\ LotsOf(s, r, i) \in Int
            /\ LotsAt(Buy(s, r), i) = LotsOf(s, r, i)
            /\ LotsAt(Sell(s, r), i) = 0 - LotsOf(s, r, i)
    BY LotsOfInt
  <2> QED BY <1>5, <2>1 DEF Roles
<1> QED BY <1>3, <1>4, <1>6

(* An option under a token that is not set is no option at all.            *)
LEMMA NoToken ==
    ASSUME NEW s, NEW r, s.leg[r] = 0, NEW i \in Options
    PROVE  LotsOf(s, r, i) = 0
BY Constants DEF LotsOf, Options

(* Two legs, and two more that may be left out.                            *)
May(x, leg) == IF x THEN <<leg>> ELSE <<>>
TwoAndMore(a, b, x, c, y, d) ==
    IF x THEN IF y THEN <<a, b, c, d>> ELSE <<a, b, c>>
    ELSE IF y THEN <<a, b, d>> ELSE <<a, b>>

(* Two shorts, and the hedges that are wanted.                             *)
LEMMA Optional ==
    ASSUME NEW a, NEW b, NEW x, NEW c, NEW y, NEW d
    PROVE  /\ (<<a, b>> \o May(x, c)) \o May(y, d) = TwoAndMore(a, b, x, c, y, d)
           /\ <<a, b>> \o (May(x, c) \o May(y, d)) = TwoAndMore(a, b, x, c, y, d)
<1>1. /\ <<a, b>> \o <<c, d>> = <<a, b, c, d>>
      /\ <<a, b>> \o <<c>> = <<a, b, c>>
      /\ <<a, b>> \o <<d>> = <<a, b, d>>
      /\ <<a, b>> \o <<>> = <<a, b>>
      /\ <<c>> \o <<d>> = <<c, d>>
      /\ <<c>> \o <<>> = <<c>>
      /\ <<>> \o <<d>> = <<d>>
      /\ <<a, b, c>> \o <<>> = <<a, b, c>>
      /\ <<a, b, c>> \o <<d>> = <<a, b, c, d>>
  <2>1. <<a, b>> \o <<c, d>> = <<a, b, c, d>>
    BY Join22, Zenon
  <2>2. <<a, b>> \o <<c>> = <<a, b, c>> /\ <<a, b>> \o <<d>> = <<a, b, d>>
    BY Join21, Zenon
  <2>3. <<a, b>> \o <<>> = <<a, b>>
    BY Join20, Zenon
  <2>4. <<c>> \o <<d>> = <<c, d>>
    BY Join11, Zenon
  <2>5. <<c>> \o <<>> = <<c>> /\ <<>> \o <<d>> = <<d>>
    BY Join10, Zenon
  <2>6. <<a, b, c>> \o <<>> = <<a, b, c>>
    BY Join30, Zenon
  <2>7. <<a, b, c>> \o <<d>> = <<a, b, c, d>>
    BY Join31, Zenon
  <2> QED BY <2>1, <2>2, <2>3, <2>4, <2>5, <2>6, <2>7
<1>2. <<>> \o <<>> = <<>>
  OBVIOUS
<1>3. CASE x /\ y
  BY <1>1, <1>3, Zenon DEF May, TwoAndMore
<1>4. CASE x /\ ~y
  BY <1>1, <1>4, Zenon DEF May, TwoAndMore
<1>5. CASE ~x /\ y
  BY <1>1, <1>5, Zenon DEF May, TwoAndMore
<1>6. CASE ~x /\ ~y
  BY <1>1, <1>2, <1>6, Zenon DEF May, TwoAndMore
<1> QED BY <1>3, <1>4, <1>5, <1>6, Zenon

(* Such an order trades the legs it has.                                   *)
LEMMA OptionalLegs ==
    ASSUME NEW a \in LegSet, NEW b \in LegSet, NEW c, NEW d, NEW x, NEW y,
           a.ins # FUT, b.ins # FUT,
           x => c \in LegSet /\ c.ins # FUT, y => d \in LegSet /\ d.ins # FUT
    PROVE  LET order == TwoAndMore(a, b, x, c, y, d)
           IN  /\ IsOrder(order) /\ NoFuture(order)
               /\ \A i : Due4(order, i) = LotsAt(a, i) + LotsAt(b, i)
                                        + (IF x THEN LotsAt(c, i) ELSE 0)
                                        + (IF y THEN LotsAt(d, i) ELSE 0)
<1>0. \A e \in LegSet : \A i : LotsAt(e, i) \in Int
  BY DEF LegSet, LotsAt
<1>1. CASE x /\ y
  <2>1. NoFuture(<<a, b, c, d>>)
    BY <1>1 DEF NoFuture
  <2> QED BY <1>0, <1>1, <2>1, Orders DEF TwoAndMore
<1>2. CASE x /\ ~y
  <2>1. NoFuture(<<a, b, c>>)
    BY <1>2 DEF NoFuture
  <2> QED BY <1>0, <1>2, <2>1, Orders DEF TwoAndMore
<1>3. CASE ~x /\ y
  <2>1. NoFuture(<<a, b, d>>)
    BY <1>3 DEF NoFuture
  <2> QED BY <1>0, <1>3, <2>1, Orders DEF TwoAndMore
<1>4. CASE ~x /\ ~y
  <2>1. NoFuture(<<a, b>>)
    BY <1>4 DEF NoFuture
  <2> QED BY <1>0, <1>4, <2>1, Orders DEF TwoAndMore
<1> QED BY <1>1, <1>2, <1>3, <1>4

(* The straddle's entry buys the hedges that are quoted.                   *)
LEMMA HedgeOrders ==
    ASSUME NEW s, Typed(s), NEW spot,
           s.leg["ce"] \in Strikes, s.leg["pe"] \in Strikes,
           \A r \in Hedges(spot) : s.leg[r] \in Strikes
    PROVE  LET order == <<Sell(s, "ce"), Sell(s, "pe")>> \o HedgeOrder(s, spot)
           IN  /\ IsOrder(order) /\ NoFuture(order)
               /\ \A i : Due4(order, i) =
                    (0 - LotsOf(s, "ce", i)) - LotsOf(s, "pe", i)
                    + (IF "lpe" \in Hedges(spot) THEN LotsOf(s, "lpe", i) ELSE 0)
                    + (IF "lce" \in Hedges(spot) THEN LotsOf(s, "lce", i) ELSE 0)
<1> DEFINE a == Sell(s, "ce")
           b == Sell(s, "pe")
           c == Buy(s, "lpe")
           d == Buy(s, "lce")
           x == "lpe" \in Hedges(spot)
           y == "lce" \in Hedges(spot)
           H == HedgeOrder(s, spot)
           order == <<a, b>> \o H
<1>1. \A r \in {"ce", "pe"} \cup Hedges(spot) :
          /\ Sell(s, r) \in LegSet /\ Buy(s, r) \in LegSet
          /\ Sell(s, r).ins # FUT /\ Buy(s, r).ins # FUT
  BY LegTyped DEF Roles, Hedges
<1>2. /\ a \in LegSet /\ b \in LegSet /\ a.ins # FUT /\ b.ins # FUT
      /\ x => c \in LegSet /\ c.ins # FUT
      /\ y => d \in LegSet /\ d.ins # FUT
  BY <1>1
<1>3. \A i : /\ LotsAt(a, i) = 0 - LotsOf(s, "ce", i)
             /\ LotsAt(b, i) = 0 - LotsOf(s, "pe", i)
             /\ LotsAt(c, i) = LotsOf(s, "lpe", i)
             /\ LotsAt(d, i) = LotsOf(s, "lce", i)
             /\ LotsOf(s, "ce", i) \in Int /\ LotsOf(s, "pe", i) \in Int
             /\ LotsOf(s, "lce", i) \in Int /\ LotsOf(s, "lpe", i) \in Int
  BY LotsOfInt
<1>4. H = May(x, c) \o May(y, d)
  BY Zenon DEF HedgeOrder, May
<1> HIDE DEF a, b, c, d, x, y, H
<1>5. order = TwoAndMore(a, b, x, c, y, d)
  BY <1>4, Optional
<1> HIDE DEF order
<1>6. /\ IsOrder(order) /\ NoFuture(order)
      /\ \A i : Due4(order, i) = LotsAt(a, i) + LotsAt(b, i)
                    + (IF x THEN LotsAt(c, i) ELSE 0)
                    + (IF y THEN LotsAt(d, i) ELSE 0)
  BY <1>2, <1>5, OptionalLegs
<1>7. ASSUME NEW i
      PROVE  Due4(order, i) =
                    (0 - LotsOf(s, "ce", i)) - LotsOf(s, "pe", i)
                    + (IF x THEN LotsOf(s, "lpe", i) ELSE 0)
                    + (IF y THEN LotsOf(s, "lce", i) ELSE 0)
  BY <1>3, <1>6
<1> QED BY <1>6, <1>7, Zenon DEF order, a, b, x, y, H

(* The straddle's exit sells every hedge that has a token.                 *)
LEMMA StraddleExitOrders ==
    ASSUME NEW s, Typed(s),
           s.leg["ce"] \in Strikes, s.leg["pe"] \in Strikes
    PROVE  /\ IsOrder(StraddleExitOrder(s)) /\ NoFuture(StraddleExitOrder(s))
           /\ \A i \in Options : Due4(StraddleExitOrder(s), i) =
                  LotsOf(s, "ce", i) + LotsOf(s, "pe", i)
                  - LotsOf(s, "lce", i) - LotsOf(s, "lpe", i)
<1> DEFINE a == Buy(s, "ce")
           b == Buy(s, "pe")
           c == Sell(s, "lce")
           d == Sell(s, "lpe")
           x == s.leg["lce"] # 0
           y == s.leg["lpe"] # 0
           order == StraddleExitOrder(s)
<1>0. \A r \in Roles : s.leg[r] \in Strikes \/ s.leg[r] = 0
  BY DEF Typed
<1>1. \A r \in Roles : s.leg[r] # 0 =>
          /\ Sell(s, r) \in LegSet /\ Buy(s, r) \in LegSet
          /\ Sell(s, r).ins # FUT /\ Buy(s, r).ins # FUT
  BY <1>0, LegTyped
<1>2. /\ a \in LegSet /\ b \in LegSet /\ a.ins # FUT /\ b.ins # FUT
      /\ x => c \in LegSet /\ c.ins # FUT
      /\ y => d \in LegSet /\ d.ins # FUT
  BY <1>1, Constants DEF Roles
<1>3. \A i : /\ LotsAt(a, i) = LotsOf(s, "ce", i)
             /\ LotsAt(b, i) = LotsOf(s, "pe", i)
             /\ LotsAt(c, i) = 0 - LotsOf(s, "lce", i)
             /\ LotsAt(d, i) = 0 - LotsOf(s, "lpe", i)
             /\ LotsOf(s, "ce", i) \in Int /\ LotsOf(s, "pe", i) \in Int
             /\ LotsOf(s, "lce", i) \in Int /\ LotsOf(s, "lpe", i) \in Int
  BY LotsOfInt
<1>4. \A i \in Options : /\ ~x => LotsOf(s, "lce", i) = 0
                         /\ ~y => LotsOf(s, "lpe", i) = 0
  BY NoToken
<1>5. order = (<<a, b>> \o May(x, c))
              \o May(y, d)
  BY Zenon DEF StraddleExitOrder, IfSet, May
<1> HIDE DEF a, b, c, d, x, y, order
<1>6. order = TwoAndMore(a, b, x, c, y, d)
  BY <1>5, Optional
<1>7. /\ IsOrder(order) /\ NoFuture(order)
      /\ \A i : Due4(order, i) = LotsAt(a, i) + LotsAt(b, i)
                    + (IF x THEN LotsAt(c, i) ELSE 0)
                    + (IF y THEN LotsAt(d, i) ELSE 0)
  BY <1>2, <1>6, OptionalLegs
<1>8. ASSUME NEW i \in Options
      PROVE  Due4(order, i) = LotsOf(s, "ce", i) + LotsOf(s, "pe", i)
                              - LotsOf(s, "lce", i) - LotsOf(s, "lpe", i)
  BY <1>3, <1>4, <1>7
<1> QED BY <1>7, <1>8, Zenon DEF order

-----------------------------------------------------------------------------
(* What a tick of a strategy that has no order left to place may do: its   *)
(* attributes stay typed, its order is one, and the order trades what it   *)
(* will believe it holds against what it believes now.                     *)
Pays(t, o) == \A i \in Options :
    Due4(o, i) = OptionLots(t, i) - OptionLots(self, i)
TickOK ==
    /\ Typed(self') /\ Tokened(self') /\ IsOrder(legs')
    /\ gaps' = {} => Pays(self', legs')
    /\ gaps \subseteq gaps'

(* Nothing about futures changes, but that their token may be found.       *)
Steady ==
    /\ NoFuture(legs')
    /\ self'.hedge = self.hedge /\ self'.pend = self.pend
    /\ self.fut => self'.fut

SameHedge(s, t) ==
    t.hedge = s.hedge /\ t.pend = s.pend /\ (s.fut => t.fut)

(* A signal that is not sent: in the market, only the counters change.     *)
LEMMA KeepTick ==
    ASSUME TypeInv, legs = <<>>, NEW t, Typed(t), t.entered = self.entered,
           self.entered => /\ t.leg = self.leg /\ t.qty = self.qty
                           /\ t.stype = self.stype,
           SameHedge(self, t), Keep(t)
    PROVE  TickOK /\ Steady
<1>1. self' = t /\ legs' = <<>> /\ gaps' = gaps
  BY DEF Keep
<1>2. Tokened(t)
  BY DEF TypeInv, Tokened, Winged
<1>3. \A i : OptionLots(t, i) \in Int /\ OptionLots(t, i) = OptionLots(self, i)
  <2> SUFFICES ASSUME NEW i PROVE OptionLots(t, i) \in Int
                                  /\ OptionLots(t, i) = OptionLots(self, i)
    OBVIOUS
  <2>1. CASE ~self.entered
    BY <2>1, BelievesNothing
  <2>2. CASE self.entered
    <3>1. \A r : Held(t, r, i) = Held(self, r, i)
      BY <2>2 DEF Held, Position
    <3>2. \A r : Held(self, r, i) \in Int
      BY DEF TypeInv, Typed, Held, Position
    <3> QED BY <3>1, <3>2 DEF OptionLots
  <2> QED BY <2>1, <2>2
<1>4. Pays(t, <<>>)
  BY <1>3, Orders DEF Pays
<1>5. NoFuture(<<>>)
  BY DEF NoFuture
<1> QED BY <1>1, <1>2, <1>4, <1>5, Orders DEF TickOK, Steady, SameHedge

(* An entry: from nothing, to what the order trades.                       *)
LEMMA EntersTick ==
    ASSUME TypeInv, ~self.entered, NEW t, NEW o, Typed(t), IsOrder(o),
           Enters(t, o), gaps \subseteq gaps',
           Tokened([t EXCEPT !.entered = TRUE]),
           gaps' = {} => \A i \in Options :
               Due4(o, i) = OptionLots([t EXCEPT !.entered = TRUE], i),
           NoFuture(o), SameHedge(self, t)
    PROVE  TickOK /\ Steady
<1> DEFINE n == [t EXCEPT !.entered = TRUE]
<1>1. self' = n /\ legs' = o
  BY DEF Enters
<1>2. Typed(n) /\ SameHedge(self, n)
  BY SetTyped DEF Typed, Fields, SameHedge
<1>3. \A i : OptionLots(self, i) = 0
  BY BelievesNothing
<1>4. \A i : OptionLots(n, i) \in Int
  BY <1>2 DEF Typed, Held, Position, OptionLots
<1>0. gaps' = {} => \A i \in Options : Due4(o, i) = OptionLots(n, i)
  OBVIOUS
<1>6. Tokened(n)
  OBVIOUS
<1> HIDE DEF n
<1>5. gaps' = {} => Pays(n, o)
  BY <1>0, <1>3, <1>4 DEF Pays
<1> QED BY <1>1, <1>2, <1>5, <1>6 DEF TickOK, Steady, SameHedge

(* A way out: the order trades away what is believed.                      *)
LEMMA LeavesTick ==
    ASSUME TypeInv, NEW t, NEW o, Typed(t), ~t.entered, IsOrder(o), Signals(t, o),
           \A i \in Options : Due4(o, i) = 0 - OptionLots(self, i),
           NoFuture(o), SameHedge(self, t)
    PROVE  TickOK /\ Steady
<1>1. self' = t /\ legs' = o /\ gaps' = gaps
  BY DEF Signals
<1>2. Tokened(t)
  BY DEF Tokened
<1>3. \A i : OptionLots(t, i) = 0
  BY BelievesNothing
<1>4. \A i : OptionLots(self, i) \in Int
  BY DEF TypeInv, Typed, Held, Position, OptionLots
<1>5. Pays(t, o)
  BY <1>3, <1>4 DEF Pays
<1> QED BY <1>1, <1>2, <1>5 DEF TickOK, Steady, SameHedge

(* Legs replaced by others of the same strategy, in the same quantity.     *)
LEMMA SignalsTick ==
    ASSUME TypeInv, NEW t, NEW o, Typed(t), Tokened(t), IsOrder(o),
           self' = t, legs' = o, gaps' = gaps,
           self.entered, t.entered, t.qty = self.qty, t.stype = self.stype,
           NoFuture(o), SameHedge(self, t),
           \A i \in Options : Due4(o, i) =
               LotsOf(self, "ce", i) - LotsOf(t, "ce", i)
               + LotsOf(self, "pe", i) - LotsOf(t, "pe", i)
               - (IF Covered(self)
                  THEN LotsOf(self, "lce", i) - LotsOf(t, "lce", i)
                       + LotsOf(self, "lpe", i) - LotsOf(t, "lpe", i)
                  ELSE 0)
    PROVE  TickOK /\ Steady
<1>2. kind \in Kinds
  BY DEF TypeInv
<1>5. \A i : /\ LotsOf(self, "ce", i) \in Int /\ LotsOf(self, "pe", i) \in Int
             /\ LotsOf(self, "lce", i) \in Int /\ LotsOf(self, "lpe", i) \in Int
             /\ LotsOf(t, "ce", i) \in Int /\ LotsOf(t, "pe", i) \in Int
             /\ LotsOf(t, "lce", i) \in Int /\ LotsOf(t, "lpe", i) \in Int
  BY LotsOfInt DEF TypeInv
<1>3. CASE Covered(self)
  <2>1. Covered(t)
    BY <1>3 DEF Covered, Winged
  <2>2. \A i : OptionLots(self, i) =
            (0 - LotsOf(self, "ce", i)) - LotsOf(self, "pe", i)
            + LotsOf(self, "lce", i) + LotsOf(self, "lpe", i)
    BY <1>3, BelievesWings DEF TypeInv
  <2>3. \A i : OptionLots(t, i) =
            (0 - LotsOf(t, "ce", i)) - LotsOf(t, "pe", i)
            + LotsOf(t, "lce", i) + LotsOf(t, "lpe", i)
    BY <2>1, BelievesWings
  <2>4. Pays(t, o)
    BY <1>5, <1>3, <2>2, <2>3 DEF Pays
  <2> QED BY <2>4 DEF TickOK, Steady, SameHedge
<1>4. CASE ~Covered(self)
  <2>1. ~Covered(t)
    BY <1>4 DEF Covered, Winged
  <2>2. \A i : OptionLots(self, i) =
            (0 - LotsOf(self, "ce", i)) - LotsOf(self, "pe", i)
    BY <1>2, <1>4, BelievesShorts DEF TypeInv
  <2>3. \A i : OptionLots(t, i) =
            (0 - LotsOf(t, "ce", i)) - LotsOf(t, "pe", i)
    BY <1>2, <2>1, BelievesShorts
  <2>4. Pays(t, o)
    BY <1>5, <1>4, <2>2, <2>3 DEF Pays
  <2> QED BY <2>4 DEF TickOK, Steady, SameHedge
<1> QED BY <1>3, <1>4
-----------------------------------------------------------------------------
LegMap == [Roles -> Strikes \cup {0}]

(* The tokens the straddle finds are those of registered options.          *)
LEMMA AtmTyped ==
    ASSUME MarketOK, NEW leg \in LegMap, NEW spot
    PROVE  /\ AtmLegs(leg, spot) \in LegMap
           /\ \A r \in {"lce", "lpe"} : AtmLegs(leg, spot)[r] = leg[r]
<1>1. Quoted("CE", spot) \/ Quoted("PE", spot) => spot \in Strikes
  BY ChainTyped
<1> QED BY <1>1 DEF AtmLegs, LegMap, Roles

(* The hedges a straddle wants have strikes of their own.                  *)
LEMMA HedgesTyped ==
    ASSUME MarketOK, NEW leg \in LegMap, NEW spot
    PROVE  /\ HedgeLegs(leg, spot) \in LegMap
           /\ Hedges(spot) \subseteq {"lce", "lpe"}
           /\ \A r \in Hedges(spot) : HedgeLegs(leg, spot)[r] \in Strikes
           /\ \A r \in Roles \ Hedges(spot) : HedgeLegs(leg, spot)[r] = leg[r]
<1>1. \A r \in Hedges(spot) : HedgeAt(r, spot) \in Strikes
  BY ChainTyped DEF Hedges
<1>2. Hedges(spot) \subseteq Roles
  BY DEF Hedges, Roles
<1> QED BY <1>1, <1>2 DEF HedgeLegs, LegMap, Hedges

(* The straddle's entry keeps belief and account together.                 *)
LEMMA StraddleEntryTick ==
    ASSUME TypeInv, legs = <<>>, kind = "straddle", NEW spot \in Prices,
           NEW m, NEW priced \in BOOLEAN, StraddleEntry(m, spot, priced)
    PROVE  TickOK /\ Steady
<1> DEFINE sized == [self EXCEPT !.qty = AdjustedLots(m), !.atm = spot]
           found == [sized EXCEPT !.leg = AtmLegs(@, spot)]
           next == [found EXCEPT !.leg = HedgeLegs(@, spot), !.priced = priced]
           final == [next EXCEPT !.entered = TRUE]
           order == <<Sell(next, "ce"), Sell(next, "pe")>>
                    \o HedgeOrder(next, spot)
           A == AtmLegs(self.leg, spot)
           L == HedgeLegs(A, spot)
<1>0. Typed(self) /\ MarketOK /\ ~self.entered /\ kind \in Kinds
  BY DEF TypeInv, StraddleEntry, MayEnter
<1>1. spot \in Nat /\ spot \in Spots \cup {0}
  BY <1>0, ShortTyped
<1>2. /\ Typed(sized) /\ SameHedge(self, sized)
      /\ sized.entered = self.entered /\ sized.leg = self.leg
  BY <1>0, <1>1, AdjustedTyped DEF Typed, Fields, SameHedge
<1>3. /\ A \in LegMap /\ L \in LegMap
      /\ A["lce"] = self.leg["lce"] /\ A["lpe"] = self.leg["lpe"]
      /\ Hedges(spot) \subseteq {"lce", "lpe"}
      /\ \A r \in Hedges(spot) : L[r] \in Strikes
      /\ \A r \in Roles \ Hedges(spot) : L[r] = A[r]
  BY <1>0, AtmTyped, HedgesTyped DEF Typed, LegMap
<1> HIDE DEF A, L
<1>4. /\ Typed(found) /\ SameHedge(self, found)
      /\ found.entered = self.entered /\ found.leg = A
  BY <1>2, <1>3 DEF Typed, Fields, SameHedge, LegMap, A
<1>5. CASE Keep(sized)
  BY <1>0, <1>2, <1>5, KeepTick
<1>6. CASE Keep(found)
  BY <1>0, <1>4, <1>6, KeepTick
<1>7. CASE /\ 0 \notin {found.leg.ce, found.leg.pe}
           /\ Enters(next, order)
           /\ gaps' = IF StaleHedge(spot) THEN gaps \cup {"hedge"} ELSE gaps
  <2>1. /\ Typed(next) /\ SameHedge(self, next) /\ next.leg = L
    BY <1>3, <1>4 DEF Typed, Fields, SameHedge, LegMap, L
  <2>2. /\ Typed(final) /\ final.entered /\ final.leg = L
        /\ final.qty = next.qty
    BY <2>1 DEF Typed, Fields
  <2>3. /\ A["ce"] \in Strikes /\ A["pe"] \in Strikes
    BY <1>3, <1>4, <1>7 DEF LegMap, Roles
  <2>4. L["ce"] \in Strikes /\ L["pe"] \in Strikes
    BY <1>3, <2>3 DEF Roles
  <2> HIDE DEF next, found, sized
  <2>5. /\ IsOrder(order) /\ NoFuture(order)
        /\ \A i : Due4(order, i) =
                (0 - LotsOf(next, "ce", i)) - LotsOf(next, "pe", i)
                + (IF "lpe" \in Hedges(spot) THEN LotsOf(next, "lpe", i) ELSE 0)
                + (IF "lce" \in Hedges(spot) THEN LotsOf(next, "lce", i) ELSE 0)
    BY <1>3, <2>1, <2>4, HedgeOrders
  <2> HIDE DEF order
  <2>6. \A r, i : LotsOf(final, r, i) = LotsOf(next, r, i)
    BY <2>1, <2>2 DEF LotsOf
  <2> HIDE DEF final
  <2>7. Covered(final) /\ ~Winged(final)
    BY DEF Covered, Winged
  <2>8. Tokened(final)
    BY <2>2, <2>4, <2>7 DEF Tokened
  <2>9. ASSUME gaps' = {}, NEW i \in Options
        PROVE  Due4(order, i) = OptionLots(final, i)
    <3>1. ~StaleHedge(spot)
      BY <1>7, <2>9
    <3>2. \A r \in {"lce", "lpe"} \ Hedges(spot) : next.leg[r] = 0
      BY <1>3, <2>1, <3>1 DEF StaleHedge, Roles
    <3>3. /\ "lce" \notin Hedges(spot) => LotsOf(next, "lce", i) = 0
          /\ "lpe" \notin Hedges(spot) => LotsOf(next, "lpe", i) = 0
      BY <3>2, NoToken
    <3>4. /\ LotsOf(next, "ce", i) \in Int /\ LotsOf(next, "pe", i) \in Int
          /\ LotsOf(next, "lce", i) \in Int /\ LotsOf(next, "lpe", i) \in Int
      BY <2>1, LotsOfInt
    <3>5. OptionLots(final, i) =
              (0 - LotsOf(next, "ce", i)) - LotsOf(next, "pe", i)
              + LotsOf(next, "lce", i) + LotsOf(next, "lpe", i)
      BY <2>2, <2>6, <2>7, BelievesWings
    <3> QED BY <2>5, <3>3, <3>4, <3>5
  <2>10. gaps \subseteq gaps'
    BY <1>7
  <2> QED BY <1>0, <1>7, <2>1, <2>5, <2>8, <2>9, <2>10, EntersTick DEF final
<1>8. \/ Keep(sized) \/ Keep(found)
      \/ /\ 0 \notin {found.leg.ce, found.leg.pe}
         /\ Enters(next, order)
         /\ gaps' = IF StaleHedge(spot) THEN gaps \cup {"hedge"} ELSE gaps
  BY DEF StraddleEntry
<1> QED BY <1>5, <1>6, <1>7, <1>8

(* So does its exit.                                                       *)
LEMMA StraddleLeaves ==
    ASSUME TypeInv, kind = "straddle", self.entered,
           Signals(Leave(self), StraddleExitOrder(self))
    PROVE  TickOK /\ Steady
<1>1. Typed(self) /\ self.leg["ce"] \in Strikes /\ self.leg["pe"] \in Strikes
  BY DEF TypeInv, Tokened
<1>2. /\ Typed(Leave(self)) /\ ~Leave(self).entered
      /\ SameHedge(self, Leave(self))
  BY <1>1 DEF Typed, Fields, Leave, SameHedge
<1>3. Covered(self)
  BY DEF Covered
<1>4. \A i : OptionLots(self, i) =
          (0 - LotsOf(self, "ce", i)) - LotsOf(self, "pe", i)
          + LotsOf(self, "lce", i) + LotsOf(self, "lpe", i)
  BY <1>1, <1>3, BelievesWings
<1>5. \A i : /\ LotsOf(self, "ce", i) \in Int /\ LotsOf(self, "pe", i) \in Int
             /\ LotsOf(self, "lce", i) \in Int /\ LotsOf(self, "lpe", i) \in Int
  BY <1>1, LotsOfInt
<1>6. \A i \in Options :
          Due4(StraddleExitOrder(self), i) = 0 - OptionLots(self, i)
  BY <1>1, <1>4, <1>5, StraddleExitOrders
<1> QED BY <1>1, <1>2, <1>6, StraddleExitOrders, LeavesTick

(* A short leg closed, and opened again at another strike.                 *)
LEMMA LegReplaced ==
    ASSUME TypeInv, self.entered, NEW r \in {"ce", "pe"}, NEW strike \in Strikes,
           NEW t, Typed(t), t.entered = self.entered, t.qty = self.qty,
           t.stype = self.stype, t.leg = [self.leg EXCEPT ![r] = strike],
           SameHedge(self, t),
           self' = t, gaps' = gaps,
           legs' = <<Buy(self, r), Sell(At(self, r, strike), r)>>
    PROVE  TickOK /\ Steady
<1> DEFINE a == Buy(self, r)
           b == Sell(At(self, r, strike), r)
<1>1. /\ Typed(self) /\ Tokened(self)
      /\ self.leg \in [Roles -> Strikes \cup {0}]
      /\ self.leg["ce"] \in Strikes /\ self.leg["pe"] \in Strikes
  BY DEF TypeInv, Tokened, Typed
<1>2. b = Sell(t, r)
  BY <1>1 DEF At, Sell, Leg, Typed, Fields
<1>3. /\ t.leg[r] \in Strikes
      /\ \A q \in Roles \ {r} : t.leg[q] = self.leg[q]
  BY <1>1 DEF Roles
<1>4. a \in LegSet /\ b \in LegSet /\ a.ins # FUT /\ b.ins # FUT
  BY <1>1, <1>2, <1>3, LegTyped DEF Roles
<1>5. \A i : LotsAt(a, i) = LotsOf(self, r, i) /\ LotsAt(b, i) = 0 - LotsOf(t, r, i)
  BY <1>1, <1>2, LotsOfInt
<1>6. \A q \in Roles \ {r} : \A i : LotsOf(t, q, i) = LotsOf(self, q, i)
  BY <1>3 DEF LotsOf
<1>7. \A i : /\ LotsOf(self, "ce", i) \in Int /\ LotsOf(self, "pe", i) \in Int
             /\ LotsOf(self, "lce", i) \in Int /\ LotsOf(self, "lpe", i) \in Int
             /\ LotsOf(t, "ce", i) \in Int /\ LotsOf(t, "pe", i) \in Int
             /\ LotsOf(t, "lce", i) \in Int /\ LotsOf(t, "lpe", i) \in Int
  BY <1>1, LotsOfInt
<1> HIDE DEF a, b
<1>8. /\ IsOrder(<<a, b>>) /\ NoFuture(<<a, b>>)
      /\ \A i : Due4(<<a, b>>, i) = LotsAt(a, i) + LotsAt(b, i)
  BY <1>4, Orders DEF NoFuture
<1>9. Tokened(t)
  BY <1>1, <1>3 DEF Tokened, Winged, Roles
<1>10. legs' = <<a, b>>
  BY DEF a, b
<1>11. ASSUME NEW i
       PROVE Due4(<<a, b>>, i) =
               LotsOf(self, "ce", i) - LotsOf(t, "ce", i)
               + LotsOf(self, "pe", i) - LotsOf(t, "pe", i)
               - (IF Covered(self)
                  THEN LotsOf(self, "lce", i) - LotsOf(t, "lce", i)
                       + LotsOf(self, "lpe", i) - LotsOf(t, "lpe", i)
                  ELSE 0)
  <2>1. /\ LotsOf(t, "lce", i) = LotsOf(self, "lce", i)
        /\ LotsOf(t, "lpe", i) = LotsOf(self, "lpe", i)
    BY <1>6 DEF Roles
  <2>2. CASE r = "ce"
    <3>1. LotsOf(t, "pe", i) = LotsOf(self, "pe", i)
      BY <1>6, <2>2 DEF Roles
    <3> QED BY <1>5, <1>7, <1>8, <2>1, <2>2, <3>1
  <2>3. CASE r = "pe"
    <3>1. LotsOf(t, "ce", i) = LotsOf(self, "ce", i)
      BY <1>6, <2>3 DEF Roles
    <3> QED BY <1>5, <1>7, <1>8, <2>1, <2>3, <3>1
  <2> QED BY <2>2, <2>3
<1> QED BY <1>8, <1>9, <1>10, <1>11, SignalsTick

(* So does every tick of the straddle.                                     *)
LEMMA StraddleTicks ==
    ASSUME TypeInv, StraddleTick
    PROVE  TickOK /\ Steady
<1>1. kind = "straddle" /\ legs = <<>>
  BY DEF StraddleTick, Ticks
<1>2. CASE StraddleExit
  BY <1>1, <1>2, StraddleLeaves DEF StraddleExit
<1>3. ASSUME NEW spot \in Prices, NEW priced \in BOOLEAN, NEW m,
             StraddleEntry(m, spot, priced)
      PROVE  TickOK /\ Steady
  BY <1>1, <1>3, StraddleEntryTick
<1>4. ASSUME NEW spot \in Prices, NEW priced \in BOOLEAN, NEW verdict,
             NEW r \in {"ce", "pe"}, StraddleMonitor(verdict, r, spot, priced)
      PROVE  TickOK /\ Steady
  <2>1. CASE Signals(Leave(self), StraddleExitOrder(self))
    BY <1>1, <1>4, <2>1, StraddleLeaves DEF StraddleMonitor, Monitors
  <2>2. CASE /\ MayShift(r, spot)
             /\ Signals(Shift(self, r, spot, priced),
                        <<Buy(self, r), Sell(At(self, r, spot), r)>>)
    <3> DEFINE t == Shift(self, r, spot, priced)
    <3>1. MarketOK /\ Typed(self) /\ self.entered
      BY <1>4 DEF TypeInv, StraddleMonitor, Monitors
    <3>2. spot \in Strikes /\ spot \in Spots \cup {0}
      BY <2>2, <3>1, ChainTyped, ShortTyped DEF MayShift
    <3>3. /\ Typed(t) /\ t.entered = self.entered /\ t.qty = self.qty
          /\ t.stype = self.stype /\ SameHedge(self, t)
          /\ t.leg = [self.leg EXCEPT ![r] = spot]
      BY <3>1, <3>2 DEF Shift, Typed, Fields, SameHedge, Roles
    <3>4. /\ self' = t /\ gaps' = gaps
          /\ legs' = <<Buy(self, r), Sell(At(self, r, spot), r)>>
      BY <2>2 DEF Signals
    <3> HIDE DEF t
    <3> QED BY <3>1, <3>2, <3>3, <3>4, LegReplaced
  <2> QED BY <1>4, <2>1, <2>2 DEF StraddleMonitor
<1> QED BY <1>2, <1>3, <1>4 DEF StraddleTick
-----------------------------------------------------------------------------
(* Entries and exits of a strategy without and with wings.                 *)
LEMMA ShortsEnter ==
    ASSUME TypeInv, ~self.entered, NEW t, Typed(t), SameHedge(self, t),
           ~Covered(t), t.leg["ce"] \in Strikes, t.leg["pe"] \in Strikes,
           Enters(t, ShortOrder(t)), gaps' = gaps
    PROVE  TickOK /\ Steady
<1> DEFINE n == [t EXCEPT !.entered = TRUE]
           o == ShortOrder(t)
<1>1. /\ Typed(n) /\ n.entered /\ n.leg = t.leg /\ n.qty = t.qty
      /\ n.stype = t.stype
  BY DEF Typed, Fields
<1> HIDE DEF n
<1>2. ~Covered(n) /\ kind \in Kinds
  BY <1>1 DEF Covered, Winged, TypeInv
<1>3. Tokened(n)
  BY <1>1, <1>2 DEF Tokened, Covered
<1>4. \A i : OptionLots(n, i) = (0 - LotsOf(n, "ce", i)) - LotsOf(n, "pe", i)
  BY <1>1, <1>2, BelievesShorts
<1>5. \A r, i : LotsOf(n, r, i) = LotsOf(t, r, i)
  BY <1>1 DEF LotsOf
<1>6. /\ IsOrder(o) /\ NoFuture(o)
      /\ \A i : Due4(o, i) = (0 - LotsOf(t, "ce", i)) - LotsOf(t, "pe", i)
  BY ShortOrders
<1> HIDE DEF o
<1>7. \A i \in Options : Due4(o, i) = OptionLots(n, i)
  BY <1>4, <1>5, <1>6
<1> QED BY <1>3, <1>6, <1>7, EntersTick DEF n, o

(* Entering a condor keeps belief and account together.                    *)
LEMMA CondorEnter ==
    ASSUME TypeInv, ~self.entered, NEW t, Typed(t), SameHedge(self, t),
           Covered(t), \A r \in Roles : t.leg[r] \in Strikes,
           Enters(t, CondorOrder(t)), gaps' = gaps
    PROVE  TickOK /\ Steady
<1> DEFINE n == [t EXCEPT !.entered = TRUE]
           o == CondorOrder(t)
<1>1. /\ Typed(n) /\ n.entered /\ n.leg = t.leg /\ n.qty = t.qty
      /\ n.stype = t.stype
  BY DEF Typed, Fields
<1> HIDE DEF n
<1>2. Covered(n)
  BY <1>1 DEF Covered, Winged
<1>3. Tokened(n)
  BY <1>1 DEF Tokened, Roles
<1>4. \A i : OptionLots(n, i) = (0 - LotsOf(n, "ce", i)) - LotsOf(n, "pe", i)
                                + LotsOf(n, "lce", i) + LotsOf(n, "lpe", i)
  BY <1>1, <1>2, BelievesWings
<1>5. \A r, i : LotsOf(n, r, i) = LotsOf(t, r, i)
  BY <1>1 DEF LotsOf
<1>6. /\ IsOrder(o) /\ NoFuture(o)
      /\ \A i : Due4(o, i) = (0 - LotsOf(t, "ce", i)) - LotsOf(t, "pe", i)
                             + LotsOf(t, "lce", i) + LotsOf(t, "lpe", i)
  BY CondorOrders
<1> HIDE DEF o
<1>7. \A i \in Options : Due4(o, i) = OptionLots(n, i)
  BY <1>4, <1>5, <1>6
<1> QED BY <1>3, <1>6, <1>7, EntersTick DEF n, o

(* Covering a pair of shorts does too.                                     *)
LEMMA ShortsLeave ==
    ASSUME TypeInv, self.entered, ~Covered(self), NEW t, Typed(t), ~t.entered,
           SameHedge(self, t), Signals(t, CoverOrder(self))
    PROVE  TickOK /\ Steady
<1>1. /\ Typed(self) /\ self.leg["ce"] \in Strikes /\ self.leg["pe"] \in Strikes
      /\ kind \in Kinds
  BY DEF TypeInv, Tokened
<1>2. \A i : OptionLots(self, i) =
          (0 - LotsOf(self, "ce", i)) - LotsOf(self, "pe", i)
  BY <1>1, BelievesShorts
<1>3. \A i : LotsOf(self, "ce", i) \in Int /\ LotsOf(self, "pe", i) \in Int
  BY <1>1, LotsOfInt
<1>4. \A i \in Options : Due4(CoverOrder(self), i) = 0 - OptionLots(self, i)
  BY <1>1, <1>2, <1>3, ShortOrders
<1> QED BY <1>1, <1>4, ShortOrders, LeavesTick

(* Leaving a condor does too.                                              *)
LEMMA CondorLeaves ==
    ASSUME TypeInv, self.entered, Winged(self), NEW t, Typed(t), ~t.entered,
           SameHedge(self, t), Signals(t, CondorExitOrder(self))
    PROVE  TickOK /\ Steady
<1>1. /\ Typed(self) /\ Covered(self)
      /\ \A r \in Roles : self.leg[r] \in Strikes
  BY DEF TypeInv, Tokened, Covered, Roles
<1>2. \A i : OptionLots(self, i) =
          (0 - LotsOf(self, "ce", i)) - LotsOf(self, "pe", i)
          + LotsOf(self, "lce", i) + LotsOf(self, "lpe", i)
  BY <1>1, BelievesWings
<1>3. \A i : /\ LotsOf(self, "ce", i) \in Int /\ LotsOf(self, "pe", i) \in Int
             /\ LotsOf(self, "lce", i) \in Int /\ LotsOf(self, "lpe", i) \in Int
  BY <1>1, LotsOfInt
<1>4. \A i \in Options : Due4(CondorExitOrder(self), i) = 0 - OptionLots(self, i)
  BY <1>1, <1>2, <1>3, CondorOrders
<1> QED BY <1>1, <1>4, CondorOrders, LeavesTick

(* What selling the nearest options sets.                                  *)
LEMMA ShortsTyped ==
    ASSUME MarketOK, NEW s, Typed(s), NEW spot \in Prices, NEW priced \in BOOLEAN
    PROVE  LET t == Shorts(s, spot, priced)
           IN  /\ Typed(t) /\ SameHedge(s, t)
               /\ t.entered = s.entered /\ t.qty = s.qty /\ t.stype = s.stype
               /\ t.leg["ce"] = Short("ce", spot) /\ t.leg["pe"] = Short("pe", spot)
               /\ t.leg["lce"] = s.leg["lce"] /\ t.leg["lpe"] = s.leg["lpe"]
               /\ ~NoShorts(spot) => t.leg["ce"] \in Strikes /\ t.leg["pe"] \in Strikes
<1>1. Short("ce", spot) \in Strikes \cup {0} /\ Short("pe", spot) \in Strikes \cup {0}
  BY ShortTyped
<1>2. s.leg \in [Roles -> Strikes \cup {0}] /\ {"ce", "pe", "lce", "lpe"} = Roles
  BY DEF Typed, Roles
<1> QED BY <1>1, <1>2 DEF Shorts, Typed, Fields, SameHedge, NoShorts

(* Counting an adjustment changes the counters only.                       *)
LEMMA CountedTyped ==
    ASSUME NEW s, Typed(s)
    PROVE  LET t == Counted(s)
           IN  /\ Typed(t) /\ SameHedge(s, t) /\ t.leg = s.leg /\ t.qty = s.qty
               /\ t.entered = s.entered /\ t.stype = s.stype
BY Constants DEF Counted, Typed, Fields, SameHedge

(* Every tick of the strangle keeps belief and account together.           *)
LEMMA StrangleTicks ==
    ASSUME TypeInv, StrangleTick
    PROVE  TickOK /\ Steady
<1>1. /\ kind = "strangle" /\ legs = <<>> /\ MarketOK
      /\ Typed(self) /\ Tokened(self)
  BY DEF StrangleTick, Ticks, TypeInv
<1>2. \A s : ~Covered(s)
  BY <1>1 DEF Covered, Winged
<1>3. ASSUME Signals(Leave(self), CoverOrder(self)), self.entered
      PROVE  TickOK /\ Steady
  <2>1. /\ Typed(Leave(self)) /\ ~Leave(self).entered
        /\ SameHedge(self, Leave(self))
    BY <1>1 DEF Typed, Fields, Leave, SameHedge
  <2> QED BY <1>2, <1>3, <2>1, ShortsLeave
<1>4. CASE StrangleExit
  BY <1>3, <1>4 DEF StrangleExit
<1>5. ASSUME NEW spot \in Prices, NEW priced \in BOOLEAN, NEW m,
             StrangleEntry(m, spot, priced)
      PROVE  TickOK /\ Steady
  <2> DEFINE sized == [self EXCEPT !.qty = AdjustedLots(m)]
             next == Shorts(sized, spot, priced)
  <2>1. /\ Typed(sized) /\ SameHedge(self, sized)
        /\ sized.entered = self.entered /\ sized.leg = self.leg
    BY <1>1, AdjustedTyped DEF Typed, Fields, SameHedge
  <2>2. ~self.entered
    BY <1>5 DEF StrangleEntry, MayEnter
  <2>3. CASE Keep(sized)
    BY <1>1, <2>1, <2>2, <2>3, KeepTick
  <2>4. CASE ~NoShorts(spot) /\ Enters(next, ShortOrder(next)) /\ gaps' = gaps
    <3>1. /\ Typed(next) /\ SameHedge(sized, next)
          /\ next.leg["ce"] \in Strikes /\ next.leg["pe"] \in Strikes
      BY <1>1, <2>1, <2>4, ShortsTyped
    <3>2. SameHedge(self, next)
      BY <2>1, <3>1 DEF SameHedge
    <3> HIDE DEF next
    <3> QED BY <1>2, <2>2, <2>4, <3>1, <3>2, ShortsEnter
  <2> QED BY <1>5, <2>3, <2>4 DEF StrangleEntry
<1>6. ASSUME NEW spot \in Prices, NEW priced \in BOOLEAN, NEW verdict,
             NEW hot \in SUBSET {"ce", "pe"}, NEW due,
             StrangleMonitor(verdict, hot, due, spot, priced)
      PROVE  TickOK /\ Steady
  <2> DEFINE s == Counted(self)
             r == IF "ce" \in hot THEN "ce" ELSE "pe"
             strike == Short(r, spot)
             t == Rolled(s, r, strike, priced)
  <2>1. self.entered
    BY <1>6 DEF StrangleMonitor, Monitors
  <2>2. /\ Typed(s) /\ SameHedge(self, s) /\ s.leg = self.leg /\ s.qty = self.qty
        /\ s.entered = self.entered /\ s.stype = self.stype
    BY <1>1, CountedTyped
  <2>3. CASE Signals(Leave(self), CoverOrder(self))
    BY <1>3, <2>1, <2>3
  <2>4. CASE Keep(s)
    BY <1>1, <2>2, <2>4, KeepTick
  <2>5. CASE /\ s.adjusts < MaxRolls /\ strike \notin {0, s.leg[r]}
             /\ self' = t /\ gaps' = gaps
             /\ legs' = <<Buy(s, r), Sell(At(s, r, strike), r)>>
    <3>1. strike \in Strikes /\ r \in {"ce", "pe"}
      BY <1>1, <2>5, ShortTyped
    <3> HIDE DEF r, strike, s
    <3>2. s.adjusts + 1 \in 0..MaxRolls
      BY <2>2, <2>5, Constants DEF Typed
    <3>3. /\ Typed(t) /\ SameHedge(self, t) /\ t.entered = self.entered
          /\ t.qty = self.qty /\ t.stype = self.stype
          /\ t.leg = [self.leg EXCEPT ![r] = strike]
      BY <2>2, <3>1, <3>2 DEF Rolled, Typed, Fields, SameHedge, Roles
    <3>4. Buy(s, r) = Buy(self, r)
      BY <2>2 DEF Buy, Leg
    <3>5. Sell(At(s, r, strike), r) = Sell(At(self, r, strike), r)
      BY <1>1, <2>2 DEF At, Sell, Leg, Typed, Fields
    <3>6. legs' = <<Buy(self, r), Sell(At(self, r, strike), r)>>
      BY <2>5, <3>4, <3>5
    <3> HIDE DEF t
    <3> QED BY <2>1, <2>5, <3>1, <3>3, <3>6, LegReplaced
  <2>6. s.adjusts \in Int /\ MaxRolls \in Int
    BY <2>2, Constants DEF Typed
  <2>7. \/ Signals(Leave(self), CoverOrder(self)) \/ Keep(s)
        \/ s.adjusts < MaxRolls /\ Roll(s, r, spot, priced)
    <3> HIDE DEF r, s
    <3> QED BY <1>6, <2>6 DEF StrangleMonitor, r, s
  <2>8. Roll(s, r, spot, priced) =>
          \/ Keep(s)
          \/ /\ strike \notin {0, s.leg[r]}
             /\ self' = t /\ gaps' = gaps
             /\ legs' = <<Buy(s, r), Sell(At(s, r, strike), r)>>
    BY DEF Roll
  <2> QED BY <2>3, <2>4, <2>5, <2>7, <2>8
<1> QED BY <1>4, <1>5, <1>6 DEF StrangleTick
-----------------------------------------------------------------------------
(* The wings found are options that are quoted.                            *)
LEMMA WingsTyped ==
    ASSUME MarketOK, NEW s, Typed(s), NEW spot
    PROVE  LET t == WithWings(s, spot)
           IN  /\ Typed(t) /\ SameHedge(s, t)
               /\ t.entered = s.entered /\ t.qty = s.qty /\ t.stype = s.stype
               /\ t.leg["ce"] = s.leg["ce"] /\ t.leg["pe"] = s.leg["pe"]
               /\ ~NoCondor(spot) => /\ t.leg["lce"] \in Strikes
                                     /\ t.leg["lpe"] \in Strikes
<1>1. \A r \in Wings(spot) : WingAt(r, Short(r, spot)) \in Strikes
  BY ChainTyped DEF Wings, HasWing
<1>2. s.leg \in [Roles -> Strikes \cup {0}] /\ {"ce", "pe", "lce", "lpe"} = Roles
  BY DEF Typed, Roles
<1> QED BY <1>1, <1>2 DEF WithWings, Typed, Fields, SameHedge, NoCondor

(* Every tick of the condor does.                                          *)
LEMMA CondorTicks ==
    ASSUME TypeInv, CondorTick
    PROVE  TickOK /\ Steady
<1>1. /\ kind = "condor" /\ legs = <<>> /\ MarketOK
      /\ Typed(self) /\ Tokened(self)
  BY DEF CondorTick, Ticks, TypeInv
<1>2. \A s : Covered(s) /\ Winged(s)
  BY <1>1 DEF Covered, Winged
<1>3. ASSUME Signals(Leave(self), CondorExitOrder(self)), self.entered
      PROVE  TickOK /\ Steady
  <2>1. /\ Typed(Leave(self)) /\ ~Leave(self).entered
        /\ SameHedge(self, Leave(self))
    BY <1>1 DEF Typed, Fields, Leave, SameHedge
  <2> QED BY <1>2, <1>3, <2>1, CondorLeaves
<1>4. CASE CondorExit
  BY <1>3, <1>4 DEF CondorExit
<1>5. ASSUME NEW spot \in Prices, NEW priced \in BOOLEAN, NEW m,
             CondorEntry(m, spot, priced)
      PROVE  TickOK /\ Steady
  <2> DEFINE sized == [self EXCEPT !.qty = AdjustedLots(m)]
             sold == Shorts(sized, spot, self.priced)
             found == WithWings(sold, spot)
             next == [found EXCEPT !.priced = priced]
  <2>1. /\ Typed(sized) /\ SameHedge(self, sized)
        /\ sized.entered = self.entered /\ sized.leg = self.leg
        /\ self.priced \in BOOLEAN
    BY <1>1, AdjustedTyped DEF Typed, Fields, SameHedge
  <2>2. ~self.entered
    BY <1>5 DEF CondorEntry, MayEnter
  <2>3. /\ Typed(sold) /\ SameHedge(sized, sold) /\ sold.entered = sized.entered
        /\ ~NoShorts(spot) => /\ sold.leg["ce"] \in Strikes
                              /\ sold.leg["pe"] \in Strikes
    BY <1>1, <2>1, ShortsTyped
  <2> HIDE DEF sized, sold
  <2>4. /\ Typed(found) /\ SameHedge(sold, found) /\ found.entered = sold.entered
        /\ ~NoCondor(spot) => \A r \in Roles : found.leg[r] \in Strikes
    <3>1. /\ Typed(found) /\ SameHedge(sold, found) /\ found.entered = sold.entered
          /\ found.leg["ce"] = sold.leg["ce"] /\ found.leg["pe"] = sold.leg["pe"]
          /\ ~NoCondor(spot) => /\ found.leg["lce"] \in Strikes
                                /\ found.leg["lpe"] \in Strikes
      BY <1>1, <2>3, WingsTyped
    <3> HIDE DEF found
    <3> QED BY <2>3, <3>1 DEF NoCondor, Roles
  <2>5. SameHedge(self, found) /\ found.entered = self.entered
    BY <2>1, <2>3, <2>4 DEF SameHedge
  <2> HIDE DEF found
  <2>6. CASE Keep(sized)
    BY <1>1, <2>1, <2>2, <2>6, KeepTick
  <2>7. CASE Keep(found)
    BY <1>1, <2>2, <2>4, <2>5, <2>7, KeepTick
  <2>8. CASE ~NoCondor(spot) /\ Enters(next, CondorOrder(next)) /\ gaps' = gaps
    <3>1. /\ Typed(next) /\ SameHedge(self, next) /\ next.leg = found.leg
      BY <2>4, <2>5 DEF Typed, Fields, SameHedge
    <3> HIDE DEF next
    <3> QED BY <1>2, <2>2, <2>4, <2>8, <3>1, CondorEnter
  <2> QED BY <1>5, <2>6, <2>7, <2>8 DEF CondorEntry, sized, sold, found
<1>6. ASSUME NEW r \in {"ce", "pe"}, NEW spot \in Prices, NEW priced \in BOOLEAN,
             AdjustSide(r, spot, priced), self.entered
      PROVE  TickOK /\ Steady
  <2> DEFINE strike == Short(r, spot)
             w == Wing[r]
             wing == WingAt(r, strike)
             t == Spread(self, r, strike, priced)
             a == Buy(self, r)
             b == Sell(self, w)
             c == Sell(At(self, r, strike), r)
             d == Buy(At(self, w, wing), w)
  <2>1. strike \in Strikes
    BY <1>1, <1>6, ShortTyped DEF AdjustSide
  <2>2. wing \in Strikes
    BY <1>1, <1>6, ChainTyped DEF AdjustSide, Wings, HasWing
  <2>3. /\ w \in {"lce", "lpe"} /\ r \in Roles /\ w \in Roles /\ r # w
        /\ (r = "ce") = (w = "lce") /\ (r = "pe") = (w = "lpe")
    BY <1>6 DEF Wing, Roles
  <2>4. \A q \in Roles : self.leg[q] \in Strikes
    BY <1>1, <1>2, <1>6 DEF Tokened, Roles
  <2>5. t = [self EXCEPT !.leg[r] = strike, !.leg[w] = wing, !.priced = priced]
    BY DEF Spread
  <2>6. legs' = <<a, b, c, d>> /\ self' = t /\ gaps' = gaps
    BY <1>6 DEF AdjustSide, Signals
  <2> HIDE DEF strike, w, wing, t
  <2>7. /\ Typed(t) /\ SameHedge(self, t) /\ t.entered = self.entered
        /\ t.qty = self.qty /\ t.stype = self.stype
        /\ t.leg[r] = strike /\ t.leg[w] = wing
        /\ \A q \in Roles \ {r, w} : t.leg[q] = self.leg[q]
    BY <1>1, <2>1, <2>2, <2>3, <2>5 DEF Typed, Fields, SameHedge
  <2>8. c = Sell(t, r) /\ d = Buy(t, w)
    BY <1>1, <2>3, <2>7 DEF At, Sell, Buy, Leg, Typed, Fields
  <2>9. /\ a \in LegSet /\ b \in LegSet /\ c \in LegSet /\ d \in LegSet
        /\ a.ins # FUT /\ b.ins # FUT /\ c.ins # FUT /\ d.ins # FUT
    BY <1>1, <2>1, <2>2, <2>3, <2>4, <2>7, <2>8, LegTyped
  <2>10. \A i : /\ LotsAt(a, i) = LotsOf(self, r, i)
                /\ LotsAt(b, i) = 0 - LotsOf(self, w, i)
                /\ LotsAt(c, i) = 0 - LotsOf(t, r, i)
                /\ LotsAt(d, i) = LotsOf(t, w, i)
    BY <1>1, <2>7, <2>8, LotsOfInt
  <2>11. \A q \in Roles \ {r, w} : \A i : LotsOf(t, q, i) = LotsOf(self, q, i)
    BY <2>7 DEF LotsOf
  <2>12. \A i : /\ LotsOf(self, "ce", i) \in Int /\ LotsOf(self, "pe", i) \in Int
                /\ LotsOf(self, "lce", i) \in Int /\ LotsOf(self, "lpe", i) \in Int
                /\ LotsOf(t, "ce", i) \in Int /\ LotsOf(t, "pe", i) \in Int
                /\ LotsOf(t, "lce", i) \in Int /\ LotsOf(t, "lpe", i) \in Int
    BY <1>1, <2>7, LotsOfInt
  <2>13. Tokened(t)
    BY <2>1, <2>2, <2>4, <2>7 DEF Tokened, Roles
  <2> HIDE DEF a, b, c, d
  <2>14. /\ IsOrder(<<a, b, c, d>>) /\ NoFuture(<<a, b, c, d>>)
         /\ \A i : Due4(<<a, b, c, d>>, i) =
                LotsAt(a, i) + LotsAt(b, i) + LotsAt(c, i) + LotsAt(d, i)
    BY <2>9, Orders DEF NoFuture
  <2>15. ASSUME NEW i
         PROVE Due4(<<a, b, c, d>>, i) =
               LotsOf(self, "ce", i) - LotsOf(t, "ce", i)
               + LotsOf(self, "pe", i) - LotsOf(t, "pe", i)
               - (IF Covered(self)
                  THEN LotsOf(self, "lce", i) - LotsOf(t, "lce", i)
                       + LotsOf(self, "lpe", i) - LotsOf(t, "lpe", i)
                  ELSE 0)
    <3>0. Covered(self)
      BY <1>2
    <3>1. CASE r = "ce"
      <4>1. /\ w = "lce" /\ LotsOf(t, "pe", i) = LotsOf(self, "pe", i)
            /\ LotsOf(t, "lpe", i) = LotsOf(self, "lpe", i)
        BY <2>3, <2>11, <3>1 DEF Roles
      <4> QED BY <2>10, <2>12, <2>14, <3>0, <3>1, <4>1
    <3>2. CASE r = "pe"
      <4>1. /\ w = "lpe" /\ LotsOf(t, "ce", i) = LotsOf(self, "ce", i)
            /\ LotsOf(t, "lce", i) = LotsOf(self, "lce", i)
        BY <2>3, <2>11, <3>2 DEF Roles
      <4> QED BY <2>10, <2>12, <2>14, <3>0, <3>2, <4>1
    <3> QED BY <3>1, <3>2
  <2> QED BY <1>6, <2>6, <2>7, <2>13, <2>14, <2>15, SignalsTick
<1>7. ASSUME NEW spot \in Prices, NEW priced \in BOOLEAN, NEW verdict,
             NEW hot \in SUBSET {"ce", "pe"}, NEW due,
             CondorMonitor(verdict, hot, due, spot, priced)
      PROVE  TickOK /\ Steady
  BY <1>3, <1>6, <1>7 DEF CondorMonitor, Monitors
<1> QED BY <1>4, <1>5, <1>7 DEF CondorTick
-----------------------------------------------------------------------------
(* The adaptive strategy's exit does, whatever it was in.                  *)
LEMMA AdaptiveLeaves ==
    ASSUME TypeInv, kind = "adaptive", self.entered, NEW t, Typed(t), ~t.entered,
           SameHedge(self, t), Signals(t, AdaptiveExitOrder(self))
    PROVE  TickOK /\ Steady
<1>1. CASE self.stype = "iron_condor"
  <2>1. Winged(self) /\ self.leg["lce"] \in Strikes
    BY <1>1 DEF TypeInv, Tokened, Winged
  <2>2. AdaptiveExitOrder(self) = CondorExitOrder(self)
    BY <1>1, <2>1, Constants DEF AdaptiveExitOrder
  <2> QED BY <2>1, <2>2, CondorLeaves
<1>2. CASE self.stype # "iron_condor"
  <2>1. ~Covered(self)
    BY <1>2 DEF Covered, Winged
  <2>2. AdaptiveExitOrder(self) = CoverOrder(self)
    BY <1>2 DEF AdaptiveExitOrder
  <2> QED BY <2>1, <2>2, ShortsLeave
<1> QED BY <1>1, <1>2

(* Every tick of the adaptive strategy does.                               *)
LEMMA AdaptiveTicks ==
    ASSUME TypeInv, AdaptiveTick
    PROVE  TickOK /\ Steady
<1>1. /\ kind = "adaptive" /\ legs = <<>> /\ MarketOK
      /\ Typed(self) /\ Tokened(self)
  BY DEF AdaptiveTick, Ticks, TypeInv
<1>2. /\ Typed(Out(self)) /\ ~Out(self).entered /\ SameHedge(self, Out(self))
  BY <1>1 DEF Typed, Fields, Out, SameHedge
<1>3. ASSUME Signals(Out(self), AdaptiveExitOrder(self)), self.entered
      PROVE  TickOK /\ Steady
  BY <1>1, <1>2, <1>3, AdaptiveLeaves
<1>4. CASE AdaptiveExit
  BY <1>3, <1>4 DEF AdaptiveExit
<1>5. ASSUME NEW verdict, AdaptiveStop(verdict) PROVE TickOK /\ Steady
  BY <1>3, <1>5 DEF AdaptiveStop, Monitors
<1>6. ASSUME NEW s, Typed(s), SameHedge(self, s), s.entered = self.entered,
             ~self.entered, NEW spot \in Prices, NEW priced \in BOOLEAN,
             EnterCondor(s, spot, priced)
      PROVE  TickOK /\ Steady
  <2> DEFINE sold == Shorts(s, spot, priced)
             found == WithWings(sold, spot)
             next == [found EXCEPT !.stype = "iron_condor"]
  <2>1. CASE Keep(s)
    BY <1>1, <1>6, <2>1, KeepTick
  <2>2. CASE ~NoCondor(spot) /\ Enters(next, CondorOrder(next)) /\ gaps' = gaps
    <3>1. /\ Typed(sold) /\ SameHedge(s, sold)
          /\ sold.leg["ce"] \in Strikes /\ sold.leg["pe"] \in Strikes
      BY <1>1, <1>6, <2>2, ShortsTyped DEF NoCondor
    <3> HIDE DEF sold
    <3>2. /\ Typed(found) /\ SameHedge(sold, found)
          /\ found.leg["ce"] = sold.leg["ce"] /\ found.leg["pe"] = sold.leg["pe"]
          /\ found.leg["lce"] \in Strikes /\ found.leg["lpe"] \in Strikes
      BY <1>1, <2>2, <3>1, WingsTyped
    <3> HIDE DEF found
    <3>3. /\ Typed(next) /\ SameHedge(found, next) /\ next.leg = found.leg
          /\ next.stype = "iron_condor"
      BY <3>2 DEF Typed, Fields, SameHedge
    <3> HIDE DEF next
    <3>4. SameHedge(self, next) /\ Covered(next)
      BY <1>1, <1>6, <3>1, <3>2, <3>3 DEF SameHedge, Covered, Winged
    <3>5. \A r \in Roles : next.leg[r] \in Strikes
      BY <3>1, <3>2, <3>3 DEF Roles
    <3> QED BY <1>6, <2>2, <3>3, <3>4, <3>5, CondorEnter
  <2> QED BY <1>6, <2>1, <2>2 DEF EnterCondor
<1>7. ASSUME NEW s, Typed(s), SameHedge(self, s), s.entered = self.entered,
             ~self.entered, NEW spot \in Prices, NEW priced \in BOOLEAN,
             EnterStrangle(s, spot, priced)
      PROVE  TickOK /\ Steady
  <2> DEFINE sold == Shorts(s, spot, priced)
             next == [sold EXCEPT !.leg.lce = 0, !.leg.lpe = 0,
                                  !.stype = "short_strangle"]
  <2>1. CASE Keep(s)
    BY <1>1, <1>7, <2>1, KeepTick
  <2>2. CASE ~NoShorts(spot) /\ Enters(next, ShortOrder(next)) /\ gaps' = gaps
    <3>1. /\ Typed(sold) /\ SameHedge(s, sold)
          /\ sold.leg["ce"] \in Strikes /\ sold.leg["pe"] \in Strikes
      BY <1>1, <1>7, <2>2, ShortsTyped
    <3> HIDE DEF sold
    <3>2. /\ Typed(next) /\ SameHedge(sold, next)
          /\ next.leg["ce"] = sold.leg["ce"] /\ next.leg["pe"] = sold.leg["pe"]
          /\ next.stype = "short_strangle"
      BY <3>1 DEF Typed, Fields, SameHedge, Roles
    <3> HIDE DEF next
    <3>3. SameHedge(self, next) /\ ~Covered(next)
      BY <1>1, <1>7, <3>1, <3>2 DEF SameHedge, Covered, Winged
    <3> QED BY <1>7, <2>2, <3>1, <3>2, <3>3, ShortsEnter
  <2> QED BY <1>7, <2>1, <2>2 DEF EnterStrangle
<1>8. ASSUME NEW regime, NEW spot \in Prices, NEW priced \in BOOLEAN,
             HandleRegime(regime, spot, priced)
      PROVE  TickOK /\ Steady
  <2> DEFINE sized == [self EXCEPT !.regime = regime, !.qty = RegimeLots(regime)]
             noted == [self EXCEPT !.regime = regime]
             left == [Out(self) EXCEPT !.switches = @ + 1, !.regime = regime]
  <2>1. /\ Typed(sized) /\ SameHedge(self, sized) /\ sized.entered = self.entered
    BY <1>1, RegimeTyped DEF Typed, Fields, SameHedge
  <2>2. /\ Typed(noted) /\ SameHedge(self, noted) /\ noted.entered = self.entered
    BY <1>1 DEF Typed, Fields, SameHedge
  <2>3. /\ Typed(left) /\ SameHedge(self, left) /\ ~left.entered
    BY <1>2 DEF Typed, Fields, SameHedge
  <2> HIDE DEF sized, noted, left
  <2>4. \/ self.entered /\ Signals(Out(self), AdaptiveExitOrder(self))
        \/ ~self.entered /\ Keep(noted)
        \/ ~self.entered /\ EnterCondor(sized, spot, priced)
        \/ ~self.entered /\ EnterStrangle(sized, spot, priced)
        \/ self.entered /\ Signals(left, AdaptiveExitOrder(self))
    BY <1>8 DEF HandleRegime, sized, noted, left
  <2>5. CASE ~self.entered /\ Keep(noted)
    BY <1>1, <2>2, <2>5, KeepTick
  <2>6. CASE self.entered /\ Signals(left, AdaptiveExitOrder(self))
    BY <1>1, <2>3, <2>6, AdaptiveLeaves
  <2> QED BY <1>3, <1>6, <1>7, <2>1, <2>4, <2>5, <2>6
<1>9. ASSUME NEW m, NEW spot \in Prices, NEW priced \in BOOLEAN,
             AdaptiveAssess(m, spot, priced)
      PROVE  TickOK /\ Steady
  BY <1>8, <1>9 DEF AdaptiveAssess
<1> QED BY <1>4, <1>5, <1>9 DEF AdaptiveTick
-----------------------------------------------------------------------------
(* A leg in futures trades no option.                                      *)
LEMMA FutureTyped ==
    ASSUME NEW lots \in Int
    PROVE  /\ FutureLeg(lots) \in LegSet /\ FutureLeg(lots).ins = FUT
           /\ FutureLeg(lots).lots = lots
           /\ \A i \in Options : LotsAt(FutureLeg(lots), i) = 0
BY DEF FutureLeg, LegSet, Instruments, Options, FUT, LotsAt

(* The exit of a hedged strategy: the options it sold, and last the        *)
(* futures it knows of.                                                    *)
LEMMA HedgedExitOrders ==
    ASSUME NEW s, Typed(s),
           s.leg["ce"] \in Strikes, s.leg["pe"] \in Strikes
    PROVE  LET order == HedgedExitOrder(s)
           IN  /\ IsOrder(order) /\ order # <<>>
               /\ \A i \in Options : Due4(order, i) =
                      LotsOf(s, "ce", i) + LotsOf(s, "pe", i)
               /\ s.hedge = 0 \/ ~s.fut => NoFuture(order)
               /\ s.hedge # 0 /\ s.fut =>
                      /\ order[Len(order)] = FutureLeg(0 - s.hedge)
                      /\ \A n \in 1..(Len(order) - 1) : order[n].ins # FUT
<1> DEFINE a == Buy(s, "ce")
           b == Buy(s, "pe")
           f == FutureLeg(0 - s.hedge)
           order == HedgedExitOrder(s)
<1>1. /\ a \in LegSet /\ b \in LegSet /\ a.ins # FUT /\ b.ins # FUT
  BY LegTyped DEF Roles
<1>2. \A i : /\ LotsAt(a, i) = LotsOf(s, "ce", i)
             /\ LotsAt(b, i) = LotsOf(s, "pe", i)
             /\ LotsOf(s, "ce", i) \in Int /\ LotsOf(s, "pe", i) \in Int
  BY LotsOfInt
<1>3. /\ f \in LegSet /\ f.ins = FUT
      /\ \A i \in Options : LotsAt(f, i) = 0
  BY FutureTyped DEF Typed
<1>4. /\ <<a, b>> \o <<f>> = <<a, b, f>>
      /\ <<a, b>> \o <<>> = <<a, b>>
  <2>1. <<a, b>> \o <<f>> = <<a, b, f>>
    BY Join21, Zenon
  <2>2. <<a, b>> \o <<>> = <<a, b>>
    BY Join20, Zenon
  <2> QED BY <2>1, <2>2
<1>5. order = <<a, b>> \o (IF s.hedge # 0 /\ s.fut THEN <<f>> ELSE <<>>)
  BY Zenon DEF HedgedExitOrder, CoverOrder
<1> HIDE DEF a, b, f, order
<1>6. CASE s.hedge # 0 /\ s.fut
  <2>1. order = <<a, b, f>>
    BY <1>4, <1>5, <1>6, Zenon
  <2>2. /\ IsOrder(<<a, b, f>>)
        /\ \A i : Due4(<<a, b, f>>, i) = LotsAt(a, i) + LotsAt(b, i) + LotsAt(f, i)
    BY <1>1, <1>3, Orders
  <2>3. order # <<>> /\ order[Len(order)] = f
        /\ \A n \in 1..(Len(order) - 1) : order[n].ins # FUT
    BY <1>1, <2>1
  <2>4. \A i \in Options : Due4(order, i) = LotsOf(s, "ce", i) + LotsOf(s, "pe", i)
    BY <1>2, <1>3, <2>1, <2>2
  <2>5. IsOrder(order)
    BY <2>1, <2>2
  <2> QED BY <1>6, <2>3, <2>4, <2>5 DEF order, f
<1>7. CASE ~(s.hedge # 0 /\ s.fut)
  <2>1. order = <<a, b>>
    BY <1>4, <1>5, <1>7, Zenon
  <2>2. /\ IsOrder(<<a, b>>)
        /\ \A i : Due4(<<a, b>>, i) = LotsAt(a, i) + LotsAt(b, i)
    BY <1>1, Orders
  <2>3. order # <<>> /\ NoFuture(order)
    BY <1>1, <2>1 DEF NoFuture
  <2>4. \A i \in Options : Due4(order, i) = LotsOf(s, "ce", i) + LotsOf(s, "pe", i)
    BY <1>2, <2>1, <2>2
  <2>5. IsOrder(order)
    BY <2>1, <2>2
  <2> QED BY <1>7, <2>3, <2>4, <2>5 DEF order
<1> QED BY <1>6, <1>7

Within(n) == n \in -MaxHedge..MaxHedge

(* _check_delta_hedge caps the hedge: added to what is confirmed, it stays *)
(* within max_hedge_lots.                                                  *)
LEMMA CappedWithin ==
    ASSUME Typed(self), NEW want \in Int
    PROVE  /\ Capped(want) \in -MaxHedge..MaxHedge /\ Capped(want) \in Int
           /\ Within(self.hedge) => Within(self.hedge + Capped(want))
<1> DEFINE held == Distance(self.hedge, 0)
           size == Distance(want, 0)
           most == IF size < Capacity THEN size ELSE Capacity
<1>1. self.hedge \in Int /\ MaxHedge \in Nat
  BY Constants DEF Typed
<1>2. /\ held \in Nat /\ size \in Nat
      /\ held = self.hedge \/ held = 0 - self.hedge
  BY <1>1 DEF Distance
<1>3. Capacity = IF held < MaxHedge THEN MaxHedge - held ELSE 0
  BY DEF Capacity
<1> HIDE DEF held, size
<1>4. /\ Capacity \in Nat /\ Capacity <= MaxHedge
      /\ held <= MaxHedge => Capacity = MaxHedge - held
  BY <1>1, <1>2, <1>3
<1>5. most \in Nat /\ most <= Capacity
  BY <1>2, <1>4
<1>6. Capped(want) = IF want < 0 THEN 0 - most ELSE most
  BY DEF Capped, size
<1> HIDE DEF most
<1> QED BY <1>1, <1>2, <1>4, <1>5, <1>6 DEF Within

(* The entry of a delta-hedged strategy does.                              *)
LEMMA HedgedEntryTick ==
    ASSUME TypeInv, legs = <<>>, kind \in Hedged, NEW spot \in Prices, NEW m,
           NEW priced \in BOOLEAN, NEW listed \in BOOLEAN,
           HedgedEntry(m, listed, spot, priced)
    PROVE  TickOK /\ Steady
<1> DEFINE sized == [self EXCEPT !.qty = AdjustedLots(m)]
           found == Found(sized, spot)
           next == [Resolve(found, listed) EXCEPT !.priced = priced]
<1>1. /\ Typed(self) /\ MarketOK /\ ~self.entered /\ kind \in Kinds
  BY DEF TypeInv, HedgedEntry, MayEnter
<1>2. \A s : ~Covered(s)
  BY DEF Covered, Winged, Hedged
<1>3. /\ Typed(sized) /\ SameHedge(self, sized)
      /\ sized.entered = self.entered /\ sized.priced \in BOOLEAN
  BY <1>1, AdjustedTyped DEF Typed, Fields, SameHedge
<1> HIDE DEF sized
<1>4. /\ Typed(found) /\ SameHedge(sized, found) /\ found.entered = sized.entered
      /\ CanSell(found, spot) => /\ found.leg["ce"] \in Strikes
                                 /\ found.leg["pe"] \in Strikes
  <2>1. CASE kind = "hedged straddle"
    <3> DEFINE A == IF spot > 0 THEN AtmLegs(sized.leg, spot) ELSE sized.leg
    <3>1. A \in LegMap
      BY <1>1, <1>3, AtmTyped DEF Typed, LegMap
    <3>2. found = [sized EXCEPT !.leg = A]
      BY <2>1 DEF Found
    <3> HIDE DEF A, found
    <3>3. /\ Typed(found) /\ SameHedge(sized, found)
          /\ found.entered = sized.entered /\ found.leg = A
      BY <1>3, <3>1, <3>2 DEF Typed, Fields, SameHedge, LegMap
    <3> QED BY <2>1, <3>1, <3>3 DEF CanSell, LegMap, Roles
  <2>2. CASE kind # "hedged straddle" /\ NoShorts(spot)
    BY <1>3, <2>2 DEF Found, CanSell, SameHedge
  <2>3. CASE kind # "hedged straddle" /\ ~NoShorts(spot)
    <3>1. found = Shorts(sized, spot, sized.priced)
      BY <2>3 DEF Found
    <3> HIDE DEF found
    <3> QED BY <1>1, <1>3, <2>3, <3>1, ShortsTyped
  <2> QED BY <2>1, <2>2, <2>3
<1>5. SameHedge(self, found) /\ ~found.entered
  BY <1>1, <1>3, <1>4 DEF SameHedge
<1>6. CASE Keep(sized)
  BY <1>1, <1>3, <1>6, KeepTick
<1>7. CASE Keep(found)
  BY <1>1, <1>4, <1>5, <1>7, <1>3, KeepTick
<1>8. CASE CanSell(found, spot) /\ Enters(next, ShortOrder(next)) /\ gaps' = gaps
  <2> HIDE DEF found
  <2>1. /\ Typed(next) /\ SameHedge(found, next) /\ next.leg = found.leg
    BY <1>4 DEF Resolve, Typed, Fields, SameHedge
  <2>2. SameHedge(self, next)
    BY <1>5, <2>1 DEF SameHedge
  <2> HIDE DEF next
  <2> QED BY <1>1, <1>2, <1>4, <1>8, <2>1, <2>2, ShortsEnter
<1> QED BY <1>6, <1>7, <1>8 DEF HedgedEntry, sized

(* The exit of a hedged strategy.                                          *)
LEMMA HedgedLeavesTick ==
    ASSUME TypeInv, kind \in Hedged, self.entered, HedgedLeaves
    PROVE  TickOK
<1> DEFINE t == [Leave(self) EXCEPT !.hedge = 0]
           o == HedgedExitOrder(self)
<1>1. /\ Typed(self) /\ self.leg["ce"] \in Strikes /\ self.leg["pe"] \in Strikes
      /\ kind \in Kinds
  BY DEF TypeInv, Tokened
<1>2. ~Covered(self)
  BY DEF Covered, Winged, Hedged
<1>3. /\ Typed(t) /\ ~t.entered
  BY <1>1 DEF Typed, Fields, Leave
<1>4. self' = t /\ legs' = o /\ gaps \subseteq gaps'
  BY DEF HedgedLeaves, Unconfirmed
<1> HIDE DEF t
<1>5. Tokened(t) /\ \A i : OptionLots(t, i) = 0
  BY <1>3, BelievesNothing DEF Tokened
<1>6. \A i : OptionLots(self, i) =
          (0 - LotsOf(self, "ce", i)) - LotsOf(self, "pe", i)
  BY <1>1, <1>2, BelievesShorts
<1>7. \A i : LotsOf(self, "ce", i) \in Int /\ LotsOf(self, "pe", i) \in Int
  BY <1>1, LotsOfInt
<1>8. /\ IsOrder(o)
      /\ \A i \in Options : Due4(o, i) = LotsOf(self, "ce", i) + LotsOf(self, "pe", i)
  BY <1>1, HedgedExitOrders
<1> HIDE DEF o
<1>9. Pays(t, o)
  BY <1>5, <1>6, <1>7, <1>8 DEF Pays
<1> QED BY <1>3, <1>4, <1>5, <1>8, <1>9 DEF TickOK

(* A hedge.                                                                *)
LEMMA HedgeTick ==
    ASSUME TypeInv, NEW want \in -MaxHedge..MaxHedge, NEW listed \in BOOLEAN,
           Hedge(want, listed)
    PROVE  TickOK
<1> DEFINE t == [Resolve(self, listed) EXCEPT !.pend = Capped(want)]
           f == FutureLeg(Capped(want))
<1>1. Typed(self) /\ Tokened(self)
  BY DEF TypeInv
<1>2. Capped(want) \in -MaxHedge..MaxHedge /\ Capped(want) \in Int
  <2>1. want \in Int
    BY Constants
  <2> QED BY <1>1, <2>1, CappedWithin
<1>3. self' = t /\ legs' = <<f>> /\ gaps \subseteq gaps'
  BY DEF Hedge, Unconfirmed
<1>4. /\ Typed(t) /\ t.entered = self.entered /\ t.leg = self.leg
      /\ t.qty = self.qty /\ t.stype = self.stype
  BY <1>1, <1>2 DEF Resolve, Typed, Fields
<1> HIDE DEF t
<1>5. Tokened(t)
  BY <1>1, <1>4 DEF Tokened, Winged
<1>6. \A i : OptionLots(t, i) \in Int /\ OptionLots(t, i) = OptionLots(self, i)
  <2>1. \A r, i : Held(t, r, i) = Held(self, r, i)
    BY <1>4 DEF Held, Position
  <2>2. \A r, i : Held(self, r, i) \in Int
    BY <1>1 DEF Typed, Held, Position
  <2> QED BY <2>1, <2>2 DEF OptionLots
<1>7. f \in LegSet /\ \A i \in Options : LotsAt(f, i) = 0
  BY <1>2, FutureTyped
<1> HIDE DEF f
<1>8. IsOrder(<<f>>) /\ \A i \in Options : Due4(<<f>>, i) = 0
  BY <1>7, Orders
<1>9. Pays(t, <<f>>)
  BY <1>6, <1>8 DEF Pays
<1> QED BY <1>3, <1>4, <1>5, <1>8, <1>9 DEF TickOK
-----------------------------------------------------------------------------
(* Every tick leaves the account, the market and the news alone.           *)
LEMMA TickFramed ==
    ASSUME Tick
    PROVE  UNCHANGED <<kind, quoted, phase, day, expired, news, net, faults>>
<1>1. TickFrame
  <2>1. StraddleTick => TickFrame
    <3>1. \A m, spot, priced : StraddleEntry(m, spot, priced) => TickFrame
      BY DEF StraddleEntry
    <3>2. \A v, r, spot, priced : StraddleMonitor(v, r, spot, priced) => TickFrame
      BY DEF StraddleMonitor
    <3> QED BY <3>1, <3>2 DEF StraddleTick, StraddleExit
  <2>2. StrangleTick => TickFrame
    BY DEF StrangleTick, StrangleExit, StrangleEntry, StrangleMonitor
  <2>3. CondorTick => TickFrame
    BY DEF CondorTick, CondorExit, CondorEntry, CondorMonitor
  <2>4. HedgedTick => TickFrame
    BY DEF HedgedTick, HedgedExit, HedgedStop, HedgedEntry, HedgedLeaves, Hedge
  <2>5. AdaptiveTick => TickFrame
    BY DEF AdaptiveTick, AdaptiveExit, AdaptiveAssess, AdaptiveStop
  <2> QED BY <2>1, <2>2, <2>3, <2>4, <2>5 DEF Tick
<1> QED BY <1>1 DEF TickFrame, market

(* Every tick of a delta-hedged strategy does, but for its futures: these  *)
(* are left to FuturesInv.                                                 *)
LEMMA HedgedTicks ==
    ASSUME TypeInv, HedgedTick
    PROVE  /\ TickOK
           /\ \/ Steady
              \/ self.entered /\ HedgedLeaves
              \/ \E want \in -MaxHedge..MaxHedge, listed \in BOOLEAN :
                    Hedge(want, listed)
<1>1. kind \in Hedged /\ legs = <<>>
  BY DEF HedgedTick, Ticks
<1>2. CASE HedgedExit \/ HedgedStop
  <2>1. self.entered /\ HedgedLeaves
    BY <1>2 DEF HedgedExit, HedgedStop, Monitors
  <2> QED BY <1>1, <2>1, HedgedLeavesTick
<1>3. ASSUME NEW listed \in BOOLEAN, NEW m, NEW spot \in Prices,
             NEW priced \in BOOLEAN, HedgedEntry(m, listed, spot, priced)
      PROVE  TickOK /\ Steady
  BY <1>1, <1>3, HedgedEntryTick
<1>4. ASSUME NEW listed \in BOOLEAN, NEW want \in -MaxHedge..MaxHedge,
             Hedge(want, listed)
      PROVE  TickOK
  BY <1>4, HedgeTick
<1> QED BY <1>2, <1>3, <1>4 DEF HedgedTick

(* The tick of any strategy keeps the types and the options.               *)
LEMMA AnyTick ==
    ASSUME TypeInv, Tick
    PROVE  TickOK
BY StraddleTicks, StrangleTicks, CondorTicks, HedgedTicks, AdaptiveTicks DEF Tick

(* Whatever an order is to trade in an instrument is a whole number.       *)
LEMMA DueTyped ==
    ASSUME NEW o, IsOrder(o), NEW i
    PROVE  Due4(o, i) \in Int
<1>1. o \in Seq(LegSet) /\ Len(o) \in Nat
  BY DEF IsOrder
<1>2. \A n \in 1..Len(o) : o[n] \in LegSet
  BY <1>1
<1>3. \A e \in LegSet : LotsAt(e, i) \in Int
  BY DEF LegSet, LotsAt
<1>4. \A n \in 1..4 : Nth(o, n, i) \in Int
  BY <1>1, <1>2, <1>3 DEF Nth
<1>5. /\ Nth(o, 1, i) \in Int /\ Nth(o, 2, i) \in Int
      /\ Nth(o, 3, i) \in Int /\ Nth(o, 4, i) \in Int
  BY <1>4
<1> QED BY <1>5 DEF Due4

(* Placing the first leg of an order.                                      *)
LEMMA TailDue ==
    ASSUME NEW o, IsOrder(o), o # <<>>
    PROVE  /\ IsOrder(Tail(o)) /\ Head(o) \in LegSet /\ Len(o) \in 1..4
           /\ Len(Tail(o)) = Len(o) - 1 /\ Head(o) = o[1]
           /\ \A n \in 1..(Len(o) - 1) : Tail(o)[n] = o[n + 1]
           /\ \A i : /\ LotsAt(Head(o), i) \in Int /\ Due4(Tail(o), i) \in Int
                     /\ Due4(o, i) = LotsAt(Head(o), i) + Due4(Tail(o), i)
<1> DEFINE t == Tail(o)
<1>0. o \in Seq(LegSet) /\ Len(o) <= 4 /\ Len(o) \in Nat
  BY DEF IsOrder
<1>1. /\ o \in Seq(LegSet) /\ Len(o) \in 1..4
  <2>1. Len(o) # 0
    BY <1>0, EmptySeq
  <2>2. \A n \in Nat : n <= 4 /\ n # 0 => n \in 1..4
    OBVIOUS
  <2> QED BY <1>0, <2>1, <2>2
<1>2. /\ t \in Seq(LegSet) /\ Len(t) = Len(o) - 1
      /\ \A n \in 1..(Len(o) - 1) : t[n] = o[n + 1]
      /\ Head(o) = o[1]
  BY <1>1
<1>3. \A n \in 1..Len(o) : o[n] \in LegSet
  BY <1>1
<1>4. \A e \in LegSet : \A i : LotsAt(e, i) \in Int
  BY DEF LegSet, LotsAt
<1> HIDE DEF t
<1>5. \A n \in 1..3 : \A i : Nth(t, n, i) = Nth(o, n + 1, i)
  BY <1>1, <1>2 DEF Nth
<1>6. \A i : Nth(t, 4, i) = 0 /\ Nth(o, 1, i) = LotsAt(Head(o), i)
  BY <1>1, <1>2 DEF Nth
<1>7. \A n \in 1..4 : \A i : Nth(o, n, i) \in Int
  BY <1>1, <1>3, <1>4 DEF Nth
<1>8. ASSUME NEW i
      PROVE  /\ LotsAt(Head(o), i) \in Int /\ Due4(t, i) \in Int
             /\ Due4(o, i) = LotsAt(Head(o), i) + Due4(t, i)
  <2>1. /\ Nth(t, 1, i) = Nth(o, 2, i) /\ Nth(t, 2, i) = Nth(o, 3, i)
        /\ Nth(t, 3, i) = Nth(o, 4, i)
    BY <1>5
  <2>2. /\ Nth(o, 1, i) \in Int /\ Nth(o, 2, i) \in Int
        /\ Nth(o, 3, i) \in Int /\ Nth(o, 4, i) \in Int
    BY <1>7
  <2> QED BY <1>6, <2>1, <2>2 DEF Due4
<1>9. IsOrder(t)
  BY <1>1, <1>2 DEF IsOrder
<1> QED BY <1>1, <1>2, <1>3, <1>8, <1>9 DEF t

(* Before the first tick.                                                  *)
LEMMA TypeInit == Init => TypeInv /\ OptionsInv
<1> SUFFICES ASSUME Init PROVE TypeInv /\ OptionsInv
  OBVIOUS
<1>1. Typed(Fresh) /\ Tokened(Fresh) /\ ~Fresh.entered
  BY Constants DEF Fresh, Typed, Tokened, Fields, NoLegs, Roles
<1>2. TypeInv
  <2>1. /\ kind \in Kinds /\ self = Fresh /\ legs = <<>> /\ news = <<>>
        /\ net = [i \in Instruments |-> 0] /\ quoted = {} /\ expired = FALSE
        /\ phase = "pre" /\ day = 1 /\ faults = 0
    BY DEF Init, BaseInit
  <2>2. MarketOK
    <3>1. day \in Nat /\ faults \in Nat /\ day >= 1 /\ day + faults <= MaxTrouble
      BY <2>1, Constants
    <3>2. expired \in BOOLEAN /\ quoted \in QuoteSets \cup {{}}
      BY <2>1
    <3> QED BY <2>1, <3>1, <3>2 DEF MarketOK
  <2>3. news \in Seq({"filled", "rejected"}) /\ net \in [Instruments -> Int]
    BY <2>1
  <2> QED BY <1>1, <2>1, <2>2, <2>3, Orders DEF TypeInv
<1>3. \A i : OptionLots(self, i) = 0
  BY <1>1, BelievesNothing DEF Init, BaseInit
<1>4. OptionsInv
  BY <1>3, Orders DEF Init, BaseInit, OptionsInv, Instruments
<1> QED BY <1>2, <1>4

(* The type invariant, and the options part of HeldAsBelieved, step by     *)
(* step.                                                                   *)
LEMMA TypeStep == TypeInv /\ OptionsInv /\ [Next]_vars => TypeInv' /\ OptionsInv'
<1> SUFFICES ASSUME TypeInv, OptionsInv, [Next]_vars
             PROVE  TypeInv' /\ OptionsInv'
  OBVIOUS
<1>0. \A i \in Options : /\ net[i] \in Int /\ Due4(legs, i) \in Int
                         /\ OptionLots(self, i) \in Int
  <2>2. \A i : Due4(legs, i) \in Int
    BY DueTyped DEF TypeInv
  <2>3. \A i : OptionLots(self, i) \in Int
    BY DEF TypeInv, Typed, Held, Position, OptionLots
  <2> QED BY <2>2, <2>3 DEF TypeInv, Instruments
<1>1. CASE Tick
  <2>1. TickOK /\ legs = <<>>
    BY <1>1, AnyTick DEF Tick, StraddleTick, StrangleTick, CondorTick,
       HedgedTick, AdaptiveTick, Ticks
  <2>2. UNCHANGED <<kind, quoted, phase, day, expired, news, net, faults>>
    BY <1>1, TickFramed
  <2>3. TypeInv'
    BY <2>1, <2>2 DEF TypeInv, MarketOK, TickOK, Typed, Tokened, Winged
  <2>4. ASSUME gaps' = {}, NEW i \in Options
        PROVE  net'[i] + Due4(legs', i) = OptionLots(self, i)'
    <3>1. gaps = {} /\ Due4(legs', i) = OptionLots(self', i) - OptionLots(self, i)
      BY <2>1, <2>4 DEF TickOK, Pays
    <3>2. net[i] = OptionLots(self, i)
      BY <1>0, <2>1, <3>1, Orders DEF OptionsInv
    <3>3. OptionLots(self', i) = OptionLots(self, i)'
      BY <2>2 DEF OptionLots, Held, Position
    <3>4. OptionLots(self', i) \in Int
      BY <2>1 DEF TickOK, Typed, Held, Position, OptionLots
    <3> QED BY <1>0, <2>2, <3>1, <3>2, <3>3, <3>4
  <2> QED BY <2>3, <2>4 DEF OptionsInv
<1>2. CASE PlaceLeg
  <2>1. /\ legs # <<>> /\ IsOrder(legs)
        /\ UNCHANGED <<kind, quoted, phase, day, expired, self>>
    BY <1>2 DEF PlaceLeg, FillLeg, RefuseLeg, DropLegs, OrderFrame, market, TypeInv
  <2>2. /\ Head(legs) \in LegSet /\ IsOrder(Tail(legs))
        /\ Head(legs).lots \in Int
    BY <2>1, TailDue DEF LegSet
  <2>3. IsOrder(legs') /\ net' \in [Instruments -> Int]
    <3>1. legs' = Tail(legs) \/ legs' = <<>>
      BY <1>2 DEF PlaceLeg, FillLeg, RefuseLeg, DropLegs
    <3>2. \/ net' = net
          \/ net' = [net EXCEPT ![Head(legs).ins] = @ + Head(legs).lots]
      BY <1>2, Zenon DEF PlaceLeg, FillLeg, RefuseLeg, DropLegs, Lot
    <3>3. Head(legs).lots \in Int /\ net \in [Instruments -> Int]
      BY <2>2 DEF TypeInv
    <3> DEFINE h == Head(legs)
    <3> HIDE DEF h
    <3>4. net' \in [Instruments -> Int]
      BY <3>2, <3>3 DEF h
    <3> QED BY <2>2, <3>1, <3>4, Orders
  <2>4. news' \in Seq({"filled", "rejected"})
    <3>1. \/ news' = news \/ news' = Append(news, "filled")
          \/ news' = Append(news, "rejected")
      BY <1>2, Zenon DEF PlaceLeg, FillLeg, RefuseLeg, DropLegs, News
    <3> QED BY <3>1 DEF TypeInv
  <2>5. faults' \in Nat /\ day + faults' <= MaxTrouble
    BY <1>2, Constants
       DEF PlaceLeg, FillLeg, RefuseLeg, DropLegs, Fault, TypeInv, MarketOK
  <2>6. TypeInv'
    BY <2>1, <2>3, <2>4, <2>5 DEF TypeInv, MarketOK, Typed, Tokened, Winged
  <2>7. ASSUME FillLeg, gaps = {}, NEW i \in Options
        PROVE  net'[i] + Due4(legs', i) = OptionLots(self, i)'
    <3>1. net'[i] = net[i] + LotsAt(Head(legs), i)
      BY <1>0, <2>2, <2>7 DEF FillLeg, Lot, LotsAt, TypeInv, LegSet, Instruments
    <3>2. /\ legs' = Tail(legs) /\ Due4(legs, i) = LotsAt(Head(legs), i) + Due4(legs', i)
          /\ LotsAt(Head(legs), i) \in Int /\ Due4(legs', i) \in Int
      BY <2>1, <2>7, TailDue DEF FillLeg
    <3>3. net[i] + Due4(legs, i) = OptionLots(self, i)
      BY <2>7 DEF OptionsInv
    <3>4. OptionLots(self, i)' = OptionLots(self, i)
      BY <2>1 DEF OptionLots, Held, Position
    <3> QED BY <1>0, <3>1, <3>2, <3>3, <3>4
  <2>8. gaps' = {} => FillLeg /\ gaps = {}
    BY <1>2 DEF PlaceLeg, FillLeg, RefuseLeg, DropLegs
  <2> QED BY <2>6, <2>7, <2>8 DEF OptionsInv
<1>3. CASE OnOrderUpdate
  <2>1. UNCHANGED <<kind, quoted, phase, day, expired, legs, net, faults, gaps>>
    BY <1>3 DEF OnOrderUpdate, market, history
  <2>2. /\ Typed(self') /\ self'.entered = self.entered /\ self'.leg = self.leg
        /\ self'.qty = self.qty /\ self'.stype = self.stype
    BY <1>3, Constants DEF OnOrderUpdate, HedgeNews, Typed, Fields, TypeInv
  <2>3. news' \in Seq({"filled", "rejected"})
    BY <1>3 DEF OnOrderUpdate, TypeInv
  <2>4. TypeInv'
    BY <2>1, <2>2, <2>3 DEF TypeInv, MarketOK, Typed, Tokened, Winged
  <2>5. \A i : OptionLots(self, i)' = OptionLots(self, i)
    BY <2>1, <2>2 DEF OptionLots, Held, Position
  <2> QED BY <2>1, <2>4, <2>5 DEF OptionsInv
<1>4. CASE Clock \/ \E Q \in QuoteSets : Quotes(Q)
  <2>1. UNCHANGED <<kind, self, legs, news, net, day, expired, faults, gaps>>
    BY <1>4 DEF Clock, Quotes, history
  <2>2. /\ quoted' \in QuoteSets \cup {{}}
        /\ phase' \in {"pre", "day", "late", "close"}
    BY <1>4 DEF Clock, Quotes, TypeInv, MarketOK
  <2>3. TypeInv'
    BY <2>1, <2>2 DEF TypeInv, MarketOK, Typed, Tokened, Winged
  <2>4. \A i : OptionLots(self, i)' = OptionLots(self, i)
    BY <2>1 DEF OptionLots, Held, Position
  <2> QED BY <2>1, <2>3, <2>4 DEF OptionsInv
<1>5. ASSUME NEW lapse \in BOOLEAN, NextDay(lapse)
      PROVE  TypeInv' /\ OptionsInv'
  <2>1. /\ UNCHANGED <<kind, quoted, legs, news, net, faults>>
        /\ day' = day + 1 /\ day + faults < MaxTrouble
        /\ phase' = "pre" /\ expired' \in BOOLEAN /\ legs = <<>>
    BY <1>5 DEF NextDay, TypeInv, MarketOK
  <2>2. Typed(self') /\ ~self'.entered
    BY <1>5 DEF NextDay, ResetDayState, Typed, Fields, TypeInv
  <2>3. TypeInv'
    BY <2>1, <2>2, Constants DEF TypeInv, MarketOK, Typed, Tokened, Winged
  <2>4. \A i : OptionLots(self', i) = 0 /\ OptionLots(self', i) = OptionLots(self, i)'
    BY <2>1, <2>2, BelievesNothing DEF OptionLots, Held, Position
  <2>5. gaps' = {} => \A i \in Options : net[i] = 0
    BY <1>5 DEF NextDay, Instruments
  <2> QED BY <2>1, <2>3, <2>4, <2>5, Orders DEF OptionsInv
<1>6. CASE Restart
  <2>1. /\ UNCHANGED <<kind, quoted, phase, day, expired, legs, news, net>>
        /\ faults' = faults + 1 /\ day + faults < MaxTrouble
        /\ self' = Fresh /\ gaps' # {}
    BY <1>6 DEF Restart, Fault, market
  <2>2. Typed(Fresh) /\ Tokened(Fresh) /\ ~Fresh.entered
    BY Constants DEF Fresh, Typed, Tokened, Fields, NoLegs, Roles
  <2>3. Typed(self)' /\ Tokened(self)'
    BY <2>1, <2>2 DEF Typed, Tokened
  <2>4. MarketOK' /\ net' \in [Instruments -> Int]
    BY <2>1, Constants DEF TypeInv, MarketOK
  <2>5. TypeInv'
    BY <2>1, <2>2, <2>3, <2>4 DEF TypeInv, Winged
  <2> QED BY <2>1, <2>5 DEF OptionsInv
<1>7. CASE UNCHANGED vars
  <2>1. UNCHANGED <<kind, self, legs, news, net, quoted, phase, day, expired,
                    gaps, faults>>
    BY <1>7 DEF vars
  <2> QED BY <2>1 DEF TypeInv, MarketOK, Typed, Tokened, Winged, OptionsInv,
          OptionLots, Held, Position
<1> QED BY <1>1, <1>2, <1>3, <1>4, <1>5, <1>6, <1>7 DEF Next, World
-----------------------------------------------------------------------------
(* The futures of a hedged strategy: it knows what it holds; or a hedge is *)
(* to be placed, or placed and not yet confirmed; or it is leaving, and    *)
(* what it holds is the last leg of its order; or that leg was refused.    *)
held == net[FUT]
Synced ==
    /\ NoFuture(legs) /\ news = <<>>
    /\ self.pend = 0 /\ held = self.hedge /\ Within(held)
    /\ held # 0 => self.fut
Hedging ==
    /\ legs = <<FutureLeg(self.pend)>> /\ news = <<>> /\ self.fut
    /\ held = self.hedge /\ Within(held) /\ Within(held + self.pend)
Confirming ==
    /\ NoFuture(legs) /\ Within(held) /\ self.fut
    /\ \/ news = <<"filled">> /\ held = self.hedge + self.pend
       \/ news = <<"rejected">> /\ held = self.hedge
Leaving ==
    /\ legs # <<>> /\ legs[Len(legs)] = FutureLeg(0 - held)
    /\ \A n \in 1..(Len(legs) - 1) : legs[n].ins # FUT
    /\ news = <<>> /\ self.fut
    /\ self.hedge = 0 /\ self.pend = 0 /\ held # 0 /\ Within(held)
    /\ ~self.entered /\ self.stopped
Lost ==
    /\ gaps = {"refused"} /\ ~self.entered /\ self.stopped
    /\ self.hedge = 0 /\ self.pend = 0 /\ held # 0 /\ Within(held)
    /\ legs = <<>> /\ news \in {<<>>, <<"rejected">>}

(* A strategy that does not hedge never trades futures.                    *)
Futureless ==
    /\ NoFuture(legs) /\ news = <<>> /\ held = 0
    /\ self.hedge = 0 /\ self.pend = 0

OneGap == gaps \in {{}, {"refused"}, {"overnight"}}
FuturesInv ==
    OneGap => IF kind \in Hedged
              THEN Synced \/ Hedging \/ Confirming \/ Leaving \/ Lost
              ELSE Futureless

(* A gap not there yet was not there before.                               *)
LEMMA FewerGaps ==
    ASSUME gaps \subseteq gaps', OneGap'
    PROVE  OneGap
BY DEF OneGap

(* A tick that sends no futures order.                                     *)
LEMMA SteadyFutures ==
    ASSUME TypeInv, FuturesInv, legs = <<>>, Steady, OneGap',
           gaps \subseteq gaps', UNCHANGED <<kind, net, news>>,
           gaps = {"refused"} /\ ~self.entered /\ self.stopped =>
               gaps' = gaps /\ ~self'.entered /\ self'.stopped /\ legs' = <<>>
    PROVE  FuturesInv'
<1>1. OneGap
  BY FewerGaps
<1>2. ~Hedging /\ ~Leaving
  BY DEF Hedging, Leaving
<1>3. CASE kind \notin Hedged
  BY <1>1, <1>3 DEF FuturesInv, Futureless, Steady, held
<1>4. CASE kind \in Hedged
  <2>1. CASE Synced
    BY <1>4, <2>1 DEF FuturesInv, Synced, Steady, held
  <2>2. CASE Confirming
    BY <1>4, <2>2 DEF FuturesInv, Confirming, Steady, held
  <2>3. CASE Lost
    <3>1. Lost'
      BY <2>3 DEF Lost, Steady, held
    <3> QED BY <1>4, <3>1 DEF FuturesInv
  <2> QED BY <1>1, <1>2, <1>4, <2>1, <2>2, <2>3 DEF FuturesInv
<1> QED BY <1>3, <1>4

(* A hedged strategy that leaves sells what futures it has.                *)
LEMMA LeavesFutures ==
    ASSUME TypeInv, FuturesInv, legs = <<>>, kind \in Hedged, self.entered,
           HedgedLeaves, OneGap', UNCHANGED <<kind, net, news>>
    PROVE  FuturesInv'
<1>1. /\ gaps \subseteq gaps' /\ news = <<>>
  BY DEF HedgedLeaves, Unconfirmed, OneGap
<1>2. OneGap
  BY <1>1, FewerGaps
<1>3. Synced
  BY <1>1, <1>2 DEF FuturesInv, Hedging, Confirming, Leaving, Lost
<1>4. /\ Typed(self) /\ self.leg["ce"] \in Strikes /\ self.leg["pe"] \in Strikes
  BY DEF TypeInv, Tokened
<1>5. /\ self'.hedge = 0 /\ self'.pend = self.pend /\ self'.fut = self.fut
      /\ ~self'.entered /\ self'.stopped
      /\ legs' = HedgedExitOrder(self)
  BY <1>4 DEF HedgedLeaves, Leave, Typed, Fields
<1>6. CASE self.hedge = 0
  <2>1. NoFuture(legs')
    BY <1>4, <1>5, <1>6, HedgedExitOrders
  <2>2. Synced'
    BY <1>1, <1>3, <1>5, <1>6, <2>1 DEF Synced, held
  <2> QED BY <2>2 DEF FuturesInv
<1>7. CASE self.hedge # 0
  <2>1. /\ self.fut /\ held = self.hedge /\ self.pend = 0 /\ Within(held)
    BY <1>3, <1>7 DEF Synced
  <2>2. /\ legs' # <<>> /\ legs'[Len(legs')] = FutureLeg(0 - self.hedge)
        /\ \A n \in 1..(Len(legs') - 1) : legs'[n].ins # FUT
    BY <1>4, <1>5, <1>7, <2>1, HedgedExitOrders
  <2>3. Leaving'
    BY <1>1, <1>5, <1>7, <2>1, <2>2 DEF Leaving, held
  <2> QED BY <2>3 DEF FuturesInv
<1> QED BY <1>6, <1>7

(* A hedge trades the difference to the position it has, and that position *)
(* is within the cap.                                                      *)
LEMMA HedgeFutures ==
    ASSUME TypeInv, FuturesInv, legs = <<>>, kind \in Hedged,
           NEW want \in -MaxHedge..MaxHedge, NEW listed \in BOOLEAN,
           Hedge(want, listed), OneGap', UNCHANGED <<kind, net, news>>
    PROVE  FuturesInv'
<1>1. /\ gaps \subseteq gaps' /\ news = <<>> /\ self.entered
  <2>1. gaps' = Unconfirmed /\ self.entered
    BY DEF Hedge, Monitors
  <2>2. "unconfirmed" \notin gaps'
    BY DEF OneGap
  <2> QED BY <2>1, <2>2 DEF Unconfirmed
<1>2. OneGap
  BY <1>1, FewerGaps
<1>3. Synced
  BY <1>1, <1>2 DEF FuturesInv, Hedging, Confirming, Leaving, Lost
<1>4. Typed(self) /\ want \in Int
  BY Constants DEF TypeInv
<1>5. /\ self'.hedge = self.hedge /\ self'.pend = Capped(want) /\ self'.fut
      /\ legs' = <<FutureLeg(Capped(want))>>
  BY <1>4 DEF Hedge, Resolve, Typed, Fields
<1>6. Within(self.hedge + Capped(want))
  BY <1>3, <1>4, CappedWithin DEF Synced
<1>7. Hedging'
  BY <1>1, <1>3, <1>5, <1>6 DEF Hedging, Synced, held
<1> QED BY <1>7 DEF FuturesInv

(* Every tick keeps the futures where the strategy thinks.                 *)
LEMMA TickFutures ==
    ASSUME TypeInv, FuturesInv, Tick
    PROVE  FuturesInv'
<1> SUFFICES ASSUME OneGap' PROVE FuturesInv'
  BY DEF FuturesInv
<1>1. UNCHANGED <<kind, net, news>>
  BY TickFramed
<1>2. TickOK /\ gaps \subseteq gaps'
  BY AnyTick DEF TickOK
<1>3. legs = <<>>
  BY DEF Tick, StraddleTick, StrangleTick, CondorTick,
     HedgedTick, AdaptiveTick, Ticks
<1>4. CASE StraddleTick \/ StrangleTick \/ CondorTick \/ AdaptiveTick
  <2>1. Steady
    BY <1>4, StraddleTicks, StrangleTicks, CondorTicks, AdaptiveTicks
  <2>2. kind \notin Hedged
    BY <1>4 DEF StraddleTick, StrangleTick, CondorTick, AdaptiveTick, Ticks, Hedged
  <2>3. Futureless
    BY <1>2, <2>2, FewerGaps DEF FuturesInv
  <2>4. Futureless'
    BY <1>1, <2>1, <2>3 DEF Futureless, Steady, held
  <2> QED BY <1>1, <2>2, <2>4 DEF FuturesInv
<1>5. CASE HedgedTick
  <2>0. kind \in Hedged
    BY <1>5 DEF HedgedTick, Ticks
  <2>1. CASE self.entered /\ HedgedLeaves
    BY <1>1, <1>3, <2>0, <2>1, LeavesFutures
  <2>2. ASSUME NEW want \in -MaxHedge..MaxHedge, NEW listed \in BOOLEAN,
               Hedge(want, listed)
        PROVE  FuturesInv'
    BY <1>1, <1>3, <2>0, <2>2, HedgeFutures
  <2>3. CASE Steady /\ ~(self.entered /\ HedgedLeaves)
             /\ ~\E want \in -MaxHedge..MaxHedge, listed \in BOOLEAN :
                    Hedge(want, listed)
    <3>1. self.entered \/ ~self.stopped
      BY <1>5, <2>3 DEF HedgedTick, HedgedExit, HedgedStop, HedgedEntry, MayEnter,
         Monitors
    <3> QED BY <1>1, <1>2, <1>3, <2>3, <3>1, SteadyFutures
  <2> QED BY <1>5, <2>1, <2>2, <2>3, HedgedTicks
<1> QED BY <1>4, <1>5 DEF Tick

(* Placing a leg: options change no futures; the hedge is filled, or       *)
(* refused, and the news of it waits.                                      *)
LEMMA PlaceFutures ==
    ASSUME TypeInv, FuturesInv, PlaceLeg
    PROVE  FuturesInv'
<1> SUFFICES ASSUME OneGap' PROVE FuturesInv'
  BY DEF FuturesInv
<1> DEFINE h == Head(legs)
<1>1. /\ IsOrder(legs) /\ legs # <<>> /\ UNCHANGED <<kind, self>>
      /\ FillLeg \/ RefuseLeg
  <2>1. "dropped" \notin gaps'
    BY DEF OneGap
  <2>2. FillLeg \/ RefuseLeg
    BY <2>1 DEF PlaceLeg, DropLegs
  <2>3. legs # <<>> /\ UNCHANGED <<kind, self>>
    BY <2>2 DEF FillLeg, RefuseLeg, OrderFrame
  <2> QED BY <2>2, <2>3 DEF TypeInv
<1>2. /\ h \in LegSet /\ Len(legs) \in 1..4 /\ h = legs[1]
      /\ Len(Tail(legs)) = Len(legs) - 1
      /\ \A n \in 1..(Len(legs) - 1) : Tail(legs)[n] = legs[n + 1]
  BY <1>1, TailDue
<1>3. gaps \subseteq gaps' /\ legs' = Tail(legs)
  BY <1>1 DEF FillLeg, RefuseLeg
<1>4. OneGap
  BY <1>3, FewerGaps
<1>5. /\ FillLeg /\ h.ins # FUT => held' = held /\ news' = news
      /\ FillLeg /\ h.ins = FUT => /\ held' = held + h.lots
                                   /\ news' = Append(news, "filled")
  BY <1>2 DEF FillLeg, Lot, News, held, TypeInv, LegSet, Instruments
<1>6. RefuseLeg => /\ held' = held /\ gaps' = {"refused"}
                   /\ h.ins # FUT => news' = news
                   /\ h.ins = FUT => news' = Append(news, "rejected")
  BY DEF RefuseLeg, News, held, OneGap
<1>7. NoFuture(legs) => h.ins # FUT /\ NoFuture(legs')
  BY <1>2, <1>3 DEF NoFuture
<1> HIDE DEF h
<1>8. CASE kind \notin Hedged
  <2>1. Futureless
    BY <1>4, <1>8 DEF FuturesInv
  <2>2. Futureless'
    BY <1>1, <1>5, <1>6, <1>7, <2>1 DEF Futureless
  <2> QED BY <1>1, <1>8, <2>2 DEF FuturesInv
<1>9. CASE kind \in Hedged
  <2>1. ~Lost
    BY <1>1 DEF Lost
  <2>2. CASE Synced
    <3>1. Synced'
      BY <1>1, <1>5, <1>6, <1>7, <2>2 DEF Synced
    <3> QED BY <1>1, <1>9, <3>1 DEF FuturesInv
  <2>3. CASE Confirming
    <3>1. Confirming'
      BY <1>1, <1>5, <1>6, <1>7, <2>3 DEF Confirming
    <3> QED BY <1>1, <1>9, <3>1 DEF FuturesInv
  <2>4. CASE Hedging
    <3>1. self.pend \in Int
      BY Constants DEF TypeInv, Typed
    <3>2. Len(legs) = 1 /\ h = FutureLeg(self.pend)
      BY <1>2, <2>4 DEF Hedging
    <3>3. h.ins = FUT /\ h.lots = self.pend
      BY <3>1, <3>2, FutureTyped
    <3>4. NoFuture(legs')
      BY <1>2, <1>3, <3>2 DEF NoFuture
    <3>5. news' = <<"filled">> \/ news' = <<"rejected">>
      BY <1>1, <1>5, <1>6, <2>4, <3>3 DEF Hedging
    <3>6. \/ news' = <<"filled">> /\ held' = held + self.pend
          \/ news' = <<"rejected">> /\ held' = held
      BY <1>1, <1>5, <1>6, <2>4, <3>3 DEF Hedging
    <3>7. Confirming'
      BY <1>1, <2>4, <3>4, <3>6 DEF Confirming, Hedging
    <3> QED BY <1>1, <1>9, <3>7 DEF FuturesInv
  <2>5. CASE Leaving
    <3>1. held \in Int /\ 0 - held \in Int
      BY DEF TypeInv, held, Instruments
    <3>2. CASE Len(legs) = 1
      <4>1. h = FutureLeg(0 - held)
        BY <1>2, <2>5, <3>2 DEF Leaving
      <4>2. h.ins = FUT /\ h.lots = 0 - held
        BY <3>1, <4>1, FutureTyped
      <4>3. legs' = <<>> /\ NoFuture(legs')
        <5>1. legs' \in Seq(LegSet) /\ Len(legs') = 0
          BY <1>1, <1>2, <1>3, <3>2, TailDue DEF IsOrder
        <5>2. legs' = <<>>
          BY <5>1, EmptySeq
        <5> QED BY <5>2 DEF NoFuture
      <4>4. CASE FillLeg
        <5>1. held' = 0 /\ news' = <<"filled">>
          BY <1>5, <2>5, <3>1, <4>2, <4>4 DEF Leaving
        <5>2. Within(0)
          BY Constants DEF Within
        <5>3. Confirming'
          BY <1>1, <2>5, <4>3, <5>1, <5>2 DEF Confirming, Leaving
        <5> QED BY <1>1, <1>9, <5>3 DEF FuturesInv
      <4>5. CASE RefuseLeg
        <5>1. held' = held /\ news' = <<"rejected">> /\ gaps' = {"refused"}
          BY <1>6, <2>5, <4>2, <4>5 DEF Leaving
        <5>2. Lost'
          BY <1>1, <2>5, <4>3, <5>1 DEF Lost, Leaving
        <5> QED BY <1>1, <1>9, <5>2 DEF FuturesInv
      <4> QED BY <1>1, <4>4, <4>5
    <3>3. CASE Len(legs) # 1
      <4>1. Len(legs) - 1 \in 1..3 /\ Len(legs') = Len(legs) - 1
        BY <1>2, <1>3, <3>3
      <4>2. h.ins # FUT
        BY <1>2, <2>5, <4>1 DEF Leaving
      <4>3. legs'[Len(legs')] = legs[Len(legs)]
        <5> DEFINE k == Len(legs) - 1
        <5>1. k \in 1..(Len(legs) - 1) /\ k + 1 = Len(legs) /\ Len(legs') = k
          BY <1>2, <4>1
        <5> HIDE DEF k
        <5>2. legs'[k] = legs[k + 1]
          BY <1>2, <1>3, <5>1
        <5> QED BY <5>1, <5>2
      <4>4. \A n \in 1..(Len(legs') - 1) : legs'[n].ins # FUT
        BY <1>2, <1>3, <2>5, <4>1 DEF Leaving
      <4>5. legs' # <<>>
        BY <4>1
      <4>6. Leaving'
        BY <1>1, <1>5, <1>6, <2>5, <4>2, <4>3, <4>4, <4>5 DEF Leaving
      <4> QED BY <1>1, <1>9, <4>6 DEF FuturesInv
    <3> QED BY <3>2, <3>3
  <2> QED BY <1>4, <1>9, <2>1, <2>2, <2>3, <2>4, <2>5 DEF FuturesInv
<1> QED BY <1>8, <1>9

(* The last leg of an order.                                               *)
LEMMA OneLeft ==
    ASSUME NEW x
    PROVE  Head(<<x>>) = x /\ Tail(<<x>>) = <<>>
<1>1. Tail(<<x>>) \in Seq({x}) /\ Len(Tail(<<x>>)) = 0
  OBVIOUS
<1> QED BY <1>1, EmptySeq

(* The news of the hedge is handled.                                       *)
LEMMA NewsFutures ==
    ASSUME TypeInv, FuturesInv, OnOrderUpdate
    PROVE  FuturesInv'
<1> SUFFICES ASSUME OneGap' PROVE FuturesInv'
  BY DEF FuturesInv
<1>1. /\ legs = <<>> /\ news # <<>> /\ news' = Tail(news)
      /\ UNCHANGED <<kind, legs, net, gaps>>
  BY DEF OnOrderUpdate, history
<1>2. OneGap
  BY <1>1 DEF OneGap
<1>3. kind \in Hedged
  BY <1>1, <1>2 DEF FuturesInv, Futureless
<1>4. Typed(self)
  BY DEF TypeInv
<1>5. CASE Confirming
  <2>1. self' = HedgeNews(self, Head(news))
    BY <1>5 DEF OnOrderUpdate, Confirming
  <2>2. /\ self'.pend = 0 /\ self'.fut
        /\ self'.hedge = IF Head(news) = "filled" THEN self.hedge + self.pend
                         ELSE self.hedge
    BY <1>4, <1>5, <2>1 DEF HedgeNews, Typed, Fields, Confirming
  <2>0. \/ news = <<"filled">> /\ held = self.hedge + self.pend
        \/ news = <<"rejected">> /\ held = self.hedge
    BY <1>5 DEF Confirming
  <2>3. news' = <<>> /\ self'.hedge = held
    <3>1. Head(<<"filled">>) = "filled" /\ Tail(<<"filled">>) = <<>>
      BY OneLeft, Zenon
    <3>2. Head(<<"rejected">>) = "rejected" /\ Tail(<<"rejected">>) = <<>>
      BY OneLeft, Zenon
    <3> QED BY <1>1, <2>0, <2>2, <3>1, <3>2
  <2>4. Synced'
    BY <1>1, <1>5, <2>2, <2>3 DEF Synced, Confirming, held
  <2> QED BY <1>1, <1>3, <2>4 DEF FuturesInv
<1>6. CASE Lost
  <2>0. Head(<<"rejected">>) = "rejected" /\ Tail(<<"rejected">>) = <<>>
    BY OneLeft, Zenon
  <2>1. news = <<"rejected">> /\ news' = <<>>
    BY <1>1, <1>6, <2>0, Zenon DEF Lost
  <2>2. self' = self \/ self' = HedgeNews(self, "rejected")
    BY <2>0, <2>1 DEF OnOrderUpdate
  <2>3. /\ self'.hedge = 0 /\ self'.pend = 0
        /\ self'.entered = self.entered /\ self'.stopped = self.stopped
    BY <1>4, <1>6, <2>2 DEF HedgeNews, Typed, Fields, Lost
  <2>4. Lost'
    BY <1>1, <1>6, <2>1, <2>3 DEF Lost, held
  <2> QED BY <1>1, <1>3, <2>4 DEF FuturesInv
<1> QED BY <1>1, <1>2, <1>3, <1>5, <1>6
        DEF FuturesInv, Synced, Hedging, Leaving

(* So does what happens around the strategy: days, faults, restarts.       *)
LEMMA WorldFutures ==
    ASSUME TypeInv, FuturesInv, World
    PROVE  FuturesInv'
<1> SUFFICES ASSUME OneGap' PROVE FuturesInv'
  BY DEF FuturesInv
<1>1. CASE Clock \/ \E Q \in QuoteSets : Quotes(Q)
  <2>1. UNCHANGED <<kind, self, legs, news, net, gaps>>
    BY <1>1 DEF Clock, Quotes, history
  <2> QED BY <2>1 DEF FuturesInv, OneGap, Synced, Hedging, Confirming, Leaving,
          Lost, Futureless, held
<1>2. ASSUME NEW lapse, NextDay(lapse) PROVE FuturesInv'
  <2>1. /\ UNCHANGED <<kind, legs, news, net>> /\ legs = <<>>
        /\ gaps \subseteq gaps'
        /\ held # 0 => "overnight" \in gaps'
    BY <1>2 DEF NextDay, held, Instruments
  <2>2. /\ self'.hedge = self.hedge /\ self'.pend = self.pend
        /\ self'.fut = self.fut
    BY <1>2 DEF NextDay, ResetDayState, TypeInv, Typed, Fields
  <2>3. OneGap
    BY <2>1, FewerGaps
  <2>4. ~Lost /\ ~Hedging /\ ~Leaving
    BY <2>1 DEF Lost, OneGap, Hedging, Leaving
  <2>5. CASE kind \in Hedged /\ Synced
    BY <2>1, <2>2, <2>5 DEF FuturesInv, Synced, held
  <2>6. CASE kind \in Hedged /\ Confirming
    BY <2>1, <2>2, <2>6 DEF FuturesInv, Confirming, held
  <2>7. CASE kind \notin Hedged /\ Futureless
    BY <2>1, <2>2, <2>7 DEF FuturesInv, Futureless, held
  <2> QED BY <2>3, <2>4, <2>5, <2>6, <2>7 DEF FuturesInv
<1>3. ~Restart
  BY DEF Restart, OneGap
<1> QED BY <1>1, <1>2, <1>3 DEF World

(* The invariant of positions and futures.                                 *)
BookInv == TypeInv /\ OptionsInv /\ FuturesInv

(* No position, no belief.                                                 *)
LEMMA BookInit == Init => BookInv
<1> SUFFICES ASSUME Init PROVE BookInv
  OBVIOUS
<1>1. TypeInv /\ OptionsInv
  BY TypeInit
<1>2. /\ legs = <<>> /\ news = <<>> /\ held = 0
      /\ self.hedge = 0 /\ self.pend = 0
  BY DEF Init, BaseInit, Fresh, held, Instruments
<1>3. Within(0) /\ NoFuture(<<>>)
  BY Constants DEF Within, NoFuture
<1>4. Synced /\ Futureless
  BY <1>2, <1>3 DEF Synced, Futureless
<1> QED BY <1>1, <1>4 DEF BookInv, FuturesInv

(* Every step keeps the book's invariant.                                  *)
LEMMA BookStep == BookInv /\ [Next]_vars => BookInv'
<1> SUFFICES ASSUME BookInv, [Next]_vars PROVE BookInv'
  OBVIOUS
<1>1. TypeInv /\ OptionsInv /\ FuturesInv
  BY DEF BookInv
<1>2. TypeInv' /\ OptionsInv'
  BY <1>1, TypeStep
<1>3. CASE UNCHANGED vars
  <2>1. UNCHANGED <<kind, self, legs, news, net, gaps>>
    BY <1>3 DEF vars
  <2>2. FuturesInv'
    BY <1>1, <2>1 DEF FuturesInv, OneGap, Synced, Hedging, Confirming, Leaving,
       Lost, Futureless, held
  <2> QED BY <1>2, <2>2 DEF BookInv
<1>4. CASE Next
  BY <1>1, <1>2, <1>4, TickFutures, PlaceFutures, NewsFutures, WorldFutures
     DEF BookInv, Next
<1> QED BY <1>3, <1>4

(* The book's invariant holds in every state.                              *)
LEMMA BookInvariant == Spec => []BookInv
<1> QED BY BookInit, BookStep, PTL DEF Spec

(* Every attribute stays in its range: among them the quantity, at most    *)
(* twice quantity_lots, and the adjustments counted, at most MaxRolls.     *)
THEOREM StrategiesTypeCorrect == Spec => []TypeOK
<1>1. BookInv => TypeOK
  <2> SUFFICES ASSUME BookInv PROVE TypeOK
    OBVIOUS
  <2>1. TypeInv
    BY DEF BookInv
  <2>2. Len(legs) <= 4 /\ \A l \in {legs[n] : n \in DOMAIN legs} : l.ins \in Instruments
    <3>1. legs \in Seq(LegSet) /\ Len(legs) <= 4
      BY <2>1 DEF TypeInv, IsOrder
    <3>2. \A n \in DOMAIN legs : legs[n] \in LegSet
      BY <3>1
    <3> QED BY <3>1, <3>2 DEF LegSet
  <2>3. day \in 1..MaxTrouble
    BY <2>1, Constants DEF TypeInv, MarketOK
  <2> QED BY <2>1, <2>2, <2>3 DEF TypeInv, Typed, MarketOK, TypeOK
<1> QED BY <1>1, BookInvariant, PTL

(* Between two signals, with none of the named gaps, the account holds     *)
(* what the strategy believes it holds, instrument by instrument, whatever *)
(* entries, shifts, rolls, hedges and exits came before.                   *)
THEOREM HoldsAsBelieved == Spec => []HeldAsBelieved
<1>1. BookInv => HeldAsBelieved
  <2> SUFFICES ASSUME BookInv, Idle, gaps = {}, NEW i \in Instruments
               PROVE  net[i] = Believed(i)
    BY DEF HeldAsBelieved
  <2>1. TypeInv /\ OptionsInv /\ FuturesInv /\ legs = <<>> /\ news = <<>>
    BY DEF BookInv, Idle
  <2>2. CASE i = FUT
    <3>1. held = self.hedge
      BY <2>1 DEF FuturesInv, OneGap, Synced, Hedging, Confirming, Leaving, Lost,
         Futureless
    <3> QED BY <2>2, <3>1 DEF Believed, held
  <2>3. CASE i # FUT
    <3>1. i \in Options
      BY <2>3 DEF Instruments
    <3>2. net[i] + Due4(legs, i) = OptionLots(self, i) /\ net[i] \in Int
      BY <2>1, <3>1 DEF OptionsInv, TypeInv
    <3>3. Due4(legs, i) = 0
      BY <2>1, Orders
    <3> QED BY <2>3, <3>2, <3>3 DEF Believed
  <2> QED BY <2>2, <2>3
<1> QED BY <1>1, BookInvariant, PTL

(* The futures of a hedged strategy stay within max_hedge_lots, as long as *)
(* every hedge is confirmed before the next one is decided on.             *)
THEOREM HedgesWithinCap == Spec => []HedgeWithinCap
<1>1. BookInv => HedgeWithinCap
  <2> SUFFICES ASSUME BookInv, OneGap PROVE net[FUT] \in -MaxHedge..MaxHedge
    BY DEF HedgeWithinCap, OneGap
  <2>1. FuturesInv
    BY DEF BookInv
  <2>2. Within(0)
    BY Constants DEF Within
  <2>3. Within(held)
    BY <2>1, <2>2 DEF FuturesInv, Synced, Hedging, Confirming, Leaving, Lost,
       Futureless
  <2> QED BY <2>3 DEF Within, held
<1> QED BY <1>1, BookInvariant, PTL
=============================================================================
