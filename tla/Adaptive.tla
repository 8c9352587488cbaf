------------------------------ MODULE Adaptive ------------------------------
(***************************************************************************)
(* strategy/adaptive.py and strategy/regime.py: enters a strangle or an    *)
(* iron condor according to the market's regime, and leaves when the       *)
(* regime says to sit out.  It has no _stopped_for_day.                    *)
(***************************************************************************)
EXTENDS IronCondor

(* RegimeDetector.assess: the first that applies.                          *)
Assess(m, spot) ==
    CASE spot = 0                       -> "pre_market"
      [] m.vix \in {"severe", "extreme"} -> "extreme_vol"
      [] m.trend                        -> "trending"
      [] m.vix = "high"                 -> "high_vol_range"
      [] m.vix = "normal"               -> "normal_range"
      [] m.vix = "low"                  -> "low_vol_range"

SitOutBad == {"pre_market", "extreme_vol"}
SitOut == {"pre_market", "extreme_vol", "trending"}

RegimeLotsBad(regime) == IF regime = "low_vol_range" THEN 3 * Lots ELSE Lots
RegimeLots(regime) ==
    CASE regime = "high_vol_range" -> IF Lots > 1 THEN Lots \div 2 ELSE 1
      [] regime = "normal_range"   -> Lots
      [] regime = "low_vol_range"  -> (3 * Lots) \div 2
      [] OTHER                     -> 1

(* _create_exit_signal: the wings of an iron condor only.                  *)
AdaptiveExitOrder(s) ==
    IF s.stype = "iron_condor" /\ s.leg.lce # 0
    THEN CondorExitOrder(s) ELSE CoverOrder(s)
Out(s) == [s EXCEPT !.entered = FALSE]

AdaptiveExit ==
    /\ ExitTime /\ self.entered
    /\ Signals(Out(self), AdaptiveExitOrder(self))
    /\ TickFrame

(* _enter_iron_condor changes nothing before both wings are found.         *)
EnterCondor(s, spot, priced) ==
    LET next == [WithWings(Shorts(s, spot, priced), spot)
                    EXCEPT !.stype = "iron_condor"]
    IN  IF NoCondor(spot) THEN Keep(s)
        ELSE Enters(next, CondorOrder(next)) /\ UNCHANGED gaps

EnterStrangle(s, spot, priced) ==
    LET next == [Shorts(s, spot, priced)
                    EXCEPT !.leg.lce = 0, !.leg.lpe = 0,
                           !.stype = "short_strangle"]
    IN  IF NoShorts(spot) THEN Keep(s)
        ELSE Enters(next, ShortOrder(next)) /\ UNCHANGED gaps

(* The regime shift that would count as a switch.                          *)
Shifts(old, new) ==
    /\ old \in {"low_vol_range", "normal_range", "high_vol_range"}
    /\ new \in {"trending", "extreme_vol"}

MaxSwitches == 2    \* max_switches_per_day

(* _handle_regime: leaving because the regime says to sit out comes before *)
(* the switch and is not one; the regime of the entry is then kept.        *)
HandleRegime(regime, spot, priced) ==
    LET sized == [self EXCEPT !.regime = regime, !.qty = RegimeLots(regime)]
    IN  IF regime \in SitOut
        THEN IF self.entered THEN Signals(Out(self), AdaptiveExitOrder(self))
             ELSE Keep([self EXCEPT !.regime = regime])
        ELSE IF ~self.entered
        THEN /\ entries < MaxEntries
             /\ IF regime = "high_vol_range"
                THEN EnterCondor(sized, spot, priced)
                ELSE EnterStrangle(sized, spot, priced)
        ELSE /\ Shifts(self.regime, regime) /\ self.switches < MaxSwitches
             /\ Signals([Out(self) EXCEPT !.switches = @ + 1,
                                          !.regime = regime],
                        AdaptiveExitOrder(self))

(* on_tick after entry time: the regime is assessed on every tick while    *)
(* out of the market, and every reassess_interval_minutes while in it.     *)
AdaptiveAssess(m, spot, priced) ==
    /\ phase # "pre"
    /\ ~(ExitTime /\ self.entered)
    /\ HandleRegime(Assess(m, spot), spot, priced)
    /\ TickFrame

(* _check_position: the trailing stop is the strangle's.                   *)
AdaptiveStop(verdict) ==
    /\ Monitors
    /\ self.priced
    /\ \/ verdict = "stop"
       \/ verdict = "trail" /\ self.stype = "short_strangle"
    /\ Signals(Out(self), AdaptiveExitOrder(self))
    /\ TickFrame

AdaptiveTick ==
    /\ Ticks({"adaptive"})
    /\ \/ AdaptiveExit
       \/ \E m \in Moods, spot \in Prices, priced \in BOOLEAN :
             AdaptiveAssess(m, spot, priced)
       \/ \E verdict \in Verdicts : AdaptiveStop(verdict)
=============================================================================
