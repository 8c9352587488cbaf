--------------------------- MODULE ShortStraddle ----------------------------
(***************************************************************************)
(* strategy/implementations/short_straddle.py: sells the call and the put  *)
(* at the money, buys far hedges, and shifts the losing leg after the spot.*)
(***************************************************************************)
EXTENDS StrategyBase

(* The tokens of the ATM lookup: a leg whose option is not quoted keeps    *)
(* the token it had.                                                       *)
AtmLegs(leg, spot) ==
    [leg EXCEPT !.ce = IF Quoted("CE", spot) THEN spot ELSE @,
                !.pe = IF Quoted("PE", spot) THEN spot ELSE @]

(* _create_hedge_legs: a hedge that is not quoted is not bought, and its   *)
(* token stays.  The chain is in the order of the strikes.                 *)
HedgeAt(r, spot) == IF r = "lce" THEN spot + Width ELSE spot - Width
Hedges(spot) == {r \in {"lce", "lpe"} : Quoted(Right[r], HedgeAt(r, spot))}
HedgeLegs(leg, spot) ==
    [r \in Roles |-> IF r \in Hedges(spot) THEN HedgeAt(r, spot) ELSE leg[r]]
HedgeOrder(s, spot) ==
    (IF "lpe" \in Hedges(spot) THEN <<Buy(s, "lpe")>> ELSE <<>>)
    \o (IF "lce" \in Hedges(spot) THEN <<Buy(s, "lce")>> ELSE <<>>)

(* A hedge token of an earlier entry that this one does not buy.           *)
StaleHedge(spot) ==
    \E r \in {"lce", "lpe"} \ Hedges(spot) : self.leg[r] # 0

(* _try_entry: quantity and ATM strike are set before the chain is read.   *)
StraddleEntry(m, spot, priced) ==
    /\ MayEnter
    /\ ~Filtered(m) /\ ~Trending(m, spot)
    /\ spot > 0
    /\ LET sized == [self EXCEPT !.qty = AdjustedLots(m), !.atm = spot]
           found == [sized EXCEPT !.leg = AtmLegs(@, spot)]
           next  == [found EXCEPT !.leg = HedgeLegs(@, spot),
                                  !.priced = priced]
       IN  IF expired THEN Keep(sized)
           ELSE IF 0 \in {found.leg.ce, found.leg.pe} THEN Keep(found)
           ELSE /\ Enters(next, <<Sell(next, "ce"), Sell(next, "pe")>>
                                \o HedgeOrder(next, spot))
                /\ gaps' = IF StaleHedge(spot) THEN gaps \cup {"hedge"}
                           ELSE gaps
    /\ TickFrame

(* _create_exit_signal: every hedge that has a token is sold.              *)
StraddleExitOrder(s) ==
    <<Buy(s, "ce"), Buy(s, "pe")>>
    \o IfSet(s, "lce", Sell(s, "lce")) \o IfSet(s, "lpe", Sell(s, "lpe"))

StraddleExit ==
    /\ ExitTime /\ self.entered
    /\ Signals(Leave(self), StraddleExitOrder(self))
    /\ TickFrame

(* _adjust_losing_leg, r being the dearer leg: the new strike must be      *)
(* quoted before anything changes.                                         *)
MayShift(r, spot) == spot > 0 /\ spot # self.atm /\ Quoted(Right[r], spot)

ShiftBad(s, r, spot, priced) == [s EXCEPT !.atm = spot, !.priced = priced]
Shift(s, r, spot, priced) ==
    [s EXCEPT !.atm = spot, !.leg[r] = spot, !.priced = priced]

(* _check_adjustments                                                      *)
StraddleMonitor(verdict, r, spot, priced) ==
    /\ Monitors
    /\ self.priced
    /\ IF verdict \in {"profit", "stop", "trail"}
       THEN Signals(Leave(self), StraddleExitOrder(self))
       ELSE /\ verdict = "moved" /\ MayShift(r, spot)
            /\ Signals(Shift(self, r, spot, priced),
                       <<Buy(self, r), Sell(At(self, r, spot), r)>>)
    /\ TickFrame

StraddleTick ==
    /\ Ticks({"straddle"})
    /\ \/ StraddleExit
       \/ \E spot \in Prices, priced \in BOOLEAN :
             \/ \E m \in Moods : StraddleEntry(m, spot, priced)
             \/ \E verdict \in Verdicts, r \in {"ce", "pe"} :
                   StraddleMonitor(verdict, r, spot, priced)
=============================================================================
