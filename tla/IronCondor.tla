----------------------------- MODULE IronCondor -----------------------------
(***************************************************************************)
(* strategy/implementations/iron_condor.py: a strangle whose wings, Width  *)
(* strikes further out, are bought after it is sold; a threatened side is  *)
(* closed and opened again at the current strikes.  The premium is the net *)
(* credit.                                                                 *)
(***************************************************************************)
EXTENDS ShortStrangle

Wing == [ce |-> "lce", pe |-> "lpe"]
WingAt(r, strike) == IF r = "ce" THEN strike + Width ELSE strike - Width
HasWing(r, strike) == Quoted(Right[r], WingAt(r, strike))
Wings(spot) == {r \in {"ce", "pe"} : HasWing(r, Short(r, spot))}

(* The short tokens are set before the wings are looked up, and a wing     *)
(* that is found is set though the other is missing.                       *)
WithWings(s, spot) ==
    [s EXCEPT !.leg.lce = IF "ce" \in Wings(spot)
                          THEN WingAt("ce", Short("ce", spot)) ELSE @,
              !.leg.lpe = IF "pe" \in Wings(spot)
                          THEN WingAt("pe", Short("pe", spot)) ELSE @]
NoCondor(spot) == NoShorts(spot) \/ Wings(spot) # {"ce", "pe"}

CondorOrder(s) == ShortOrder(s) \o <<Buy(s, "lce"), Buy(s, "lpe")>>
CondorExitOrder(s) == CoverOrder(s) \o <<Sell(s, "lce"), Sell(s, "lpe")>>

(* _try_entry                                                              *)
CondorEntry(m, spot, priced) ==
    /\ MayEnter
    /\ ~Filtered(m)
    /\ Chain # {}
    /\ LET sized == [self EXCEPT !.qty = AdjustedLots(m)]
           found == WithWings(Shorts(sized, spot, self.priced), spot)
           next  == [found EXCEPT !.priced = priced]
       IN  IF NoShorts(spot) THEN Keep(sized)
           ELSE IF NoCondor(spot) THEN Keep(found)
           ELSE Enters(next, CondorOrder(next)) /\ UNCHANGED gaps
    /\ TickFrame

CondorExit ==
    /\ ExitTime /\ self.entered
    /\ Signals(Leave(self), CondorExitOrder(self))
    /\ TickFrame

(* _adjust_threatened_side: both new strikes are found before anything     *)
(* changes; the old short is bought first and the new wing last.           *)
Spread(s, r, strike, priced) ==
    [s EXCEPT !.leg[r] = strike, !.leg[Wing[r]] = WingAt(r, strike),
              !.priced = priced]

AdjustSide(r, spot, priced) ==
    LET strike == Short(r, spot) IN
    /\ strike # 0
    /\ r \in Wings(spot)
    /\ Signals(Spread(self, r, strike, priced),
               <<Buy(self, r), Sell(self, Wing[r]),
                 Sell(At(self, r, strike), r),
                 Buy(At(self, Wing[r], WingAt(r, strike)), Wing[r])>>)

(* _check_adjustments: hot are the sides that cost too much to close, the  *)
(* call first; due if the last adjustment is 30 seconds back.  No side is  *)
(* adjusted within an hour of the close.                                   *)
CondorMonitor(verdict, hot, due, spot, priced) ==
    /\ Monitors
    /\ self.priced
    /\ IF verdict \in {"profit", "stop"}
       THEN Signals(Leave(self), CondorExitOrder(self))
       ELSE /\ due /\ phase # "late" /\ Chain # {} /\ hot # {}
            /\ AdjustSide(IF "ce" \in hot THEN "ce" ELSE "pe", spot, priced)
    /\ TickFrame

CondorTick ==
    /\ Ticks({"condor"})
    /\ \/ CondorExit
       \/ \E spot \in Prices, priced \in BOOLEAN :
             \/ \E m \in Moods : CondorEntry(m, spot, priced)
             \/ \E verdict \in {"profit", "stop", "quiet"},
                   hot \in SUBSET {"ce", "pe"}, due \in BOOLEAN :
                   CondorMonitor(verdict, hot, due, spot, priced)
=============================================================================
