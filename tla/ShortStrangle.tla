--------------------------- MODULE ShortStrangle ----------------------------
(***************************************************************************)
(* strategy/implementations/short_strangle.py: sells the call and the put  *)
(* whose deltas are nearest to the targets, and rolls a threatened leg     *)
(* back to the target, at most MaxRolls times a day.                       *)
(***************************************************************************)
EXTENDS StrategyBase

(* Selling the options nearest to the target deltas.                       *)
Shorts(s, spot, priced) ==
    [s EXCEPT !.leg.ce = Short("ce", spot), !.leg.pe = Short("pe", spot),
              !.priced = priced]
ShortOrder(s) == <<Sell(s, "ce"), Sell(s, "pe")>>
CoverOrder(s) == <<Buy(s, "ce"), Buy(s, "pe")>>
NoShorts(spot) == 0 \in {Short("ce", spot), Short("pe", spot)}

(* _try_entry                                                              *)
StrangleEntry(m, spot, priced) ==
    /\ MayEnter
    /\ ~Filtered(m) /\ ~Trending(m, spot)
    /\ Chain # {}
    /\ LET sized == [self EXCEPT !.qty = AdjustedLots(m)]
           next  == Shorts(sized, spot, priced)
       IN  IF NoShorts(spot) THEN Keep(sized)
           ELSE Enters(next, ShortOrder(next)) /\ UNCHANGED gaps
    /\ TickFrame

StrangleExit ==
    /\ ExitTime /\ self.entered
    /\ Signals(Leave(self), CoverOrder(self))
    /\ TickFrame

(* The counter of adjustments starts afresh on the first check of a day.   *)
Counted(s) ==
    IF s.adjustDay = day THEN s
    ELSE [s EXCEPT !.adjusts = 0, !.adjustDay = day]

(* _roll_leg                                                               *)
RolledBad(s, r, strike, priced) ==
    [s EXCEPT !.leg[r] = strike, !.priced = priced]
Rolled(s, r, strike, priced) ==
    [s EXCEPT !.leg[r] = strike, !.priced = priced, !.adjusts = @ + 1]

Roll(s, r, spot, priced) ==
    LET strike == Short(r, spot) IN
    IF strike \in {0, s.leg[r]} THEN Keep(s)
    ELSE /\ self' = Rolled(s, r, strike, priced)
         /\ legs' = <<Buy(s, r), Sell(At(s, r, strike), r)>>
         /\ rolls' = rolls + 1
         /\ UNCHANGED <<gaps, entries>>

(* _check_adjustments: hot are the legs whose delta is past the threshold, *)
(* the call first, a put not looked at when the call cannot be rolled;     *)
(* due if the last adjustment is 30 seconds back.                          *)
StrangleMonitor(verdict, hot, due, spot, priced) ==
    /\ Monitors
    /\ self.priced
    /\ LET s == Counted(self)
       IN  IF verdict \in {"profit", "stop", "trail"}
           THEN Signals(Leave(self), CoverOrder(self))
           ELSE IF s.adjusts >= MaxRolls \/ ~due \/ Chain = {} \/ hot = {}
           THEN Keep(s)
           ELSE Roll(s, IF "ce" \in hot THEN "ce" ELSE "pe", spot, priced)
    /\ TickFrame

StrangleTick ==
    /\ Ticks({"strangle"})
    /\ \/ StrangleExit
       \/ \E spot \in Prices, priced \in BOOLEAN :
             \/ \E m \in Moods : StrangleEntry(m, spot, priced)
             \/ \E verdict \in Verdicts, hot \in SUBSET {"ce", "pe"},
                   due \in BOOLEAN :
                   StrangleMonitor(verdict, hot, due, spot, priced)
=============================================================================
