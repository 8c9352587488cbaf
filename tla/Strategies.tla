----------------------------- MODULE Strategies -----------------------------
(***************************************************************************)
(* Any one of the option-selling strategies, over several trading days,    *)
(* with the orders its signals become and the account they change.         *)
(***************************************************************************)
EXTENDS ShortStraddle, IronCondor, DeltaNeutral, Adaptive

Init == BaseInit

Tick == StraddleTick \/ StrangleTick \/ CondorTick \/ HedgedTick \/ AdaptiveTick

Next == Tick \/ OnOrderUpdate \/ PlaceLeg \/ World

(* Spot and VIX ticks arrive as long as the market is open; a leg's        *)
(* place_order returns or raises.  The clock runs on whatever happens: the *)
(* model lets it pass between signals only, hence strong fairness.         *)
Fairness ==
    /\ WF_vars(Tick) /\ WF_vars(PlaceLeg)
    /\ SF_vars(Clock) /\ SF_vars(\E lapse \in BOOLEAN : NextDay(lapse))

Spec == Init /\ [][Next]_vars /\ Fairness
-----------------------------------------------------------------------------
TypeOK ==
    /\ kind \in Kinds
    /\ expired \in BOOLEAN
    /\ self.leg \in [Roles -> Strikes \cup {0}]
    /\ self.atm \in Spots \cup {0}
    /\ self.qty \in 1..(2 * Lots)
    /\ self.adjusts \in 0..MaxRolls
    /\ self.pend \in -MaxHedge..MaxHedge
    /\ self.hedge \in Int
    /\ {self.entered, self.stopped, self.priced, self.fut} \subseteq BOOLEAN
    /\ Len(legs) <= 4
    /\ \A l \in {legs[n] : n \in DOMAIN legs} : l.ins \in Instruments
    /\ net \in [Instruments -> Int]
    /\ quoted \in QuoteSets \cup {{}}
    /\ phase \in {"pre", "day", "late", "close"}
    /\ day \in 1..MaxTrouble

(* What the tokens, quantity and hedge of a strategy s say it holds.       *)
Position(s, r) ==
    IF ~s.entered THEN 0
    ELSE IF r \in {"ce", "pe"} THEN 0 - s.qty
    ELSE IF \/ kind = "adaptive" /\ s.stype # "iron_condor"
            \/ kind \in {"strangle"} \cup Hedged
    THEN 0
    ELSE s.qty
Held(s, r, i) == IF <<Right[r], s.leg[r]>> = i THEN Position(s, r) ELSE 0
OptionLots(s, i) == Held(s, "ce", i) + Held(s, "pe", i)
                    + Held(s, "lce", i) + Held(s, "lpe", i)
Believed(i) == IF i = FUT THEN self.hedge ELSE OptionLots(self, i)

Idle == legs = <<>> /\ news = <<>>

(* Through entries, shifts, rolls, hedges and exits, between two signals   *)
(* the account holds what the strategy believes, and nothing once it is    *)
(* out, unless one of the named gaps occurred: a leg refused or dropped, a *)
(* position carried overnight, a restart, a hedge token left over, or an   *)
(* exit or a second hedge before the last hedge was confirmed.             *)
HeldAsBelieved ==
    Idle /\ gaps = {} => \A i \in Instruments : net[i] = Believed(i)

(* The stop for the day keeps a strategy from entering twice in one day,   *)
(* exit time included (short_straddle.py:75).                              *)
OneEntryPerDay ==
    kind # "adaptive" /\ "restart" \notin gaps => entries <= 1

(* MAX_ADJUSTMENTS_PER_DAY caps the rolls of a day, whichever legs roll.   *)
RollsCapped == "restart" \notin gaps => rolls <= MaxRolls

(* The futures position stays within max_hedge_lots as long as every hedge *)
(* is confirmed before the next decision, refused or not.  One forgotten   *)
(* gap at a time: after an exit whose futures leg was refused, the next    *)
(* morning's hedges start from zero again (delta_neutral.py:414).          *)
HedgeWithinCap ==
    gaps \in {{}, {"refused"}, {"overnight"}}
        => net[FUT] \in -MaxHedge..MaxHedge

(* Sitting out takes every case that would count as a switch of regime, so *)
(* max_switches_per_day never limits anything (adaptive.py:157).           *)
NoCountedSwitch == self.switches = 0

(* A strategy that stops for the day ends the last one out of the market   *)
(* with its signals placed, whatever was refused (short_straddle.py:75).   *)
(* The adaptive strategy, which does not, enters and leaves for ever.      *)
SettlesAfterClose ==
    kind # "adaptive" => <>[](~self.entered /\ legs = <<>>)
=============================================================================
