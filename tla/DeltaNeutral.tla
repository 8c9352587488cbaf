---------------------------- MODULE DeltaNeutral ----------------------------
(***************************************************************************)
(* strategy/implementations/delta_neutral.py: a straddle or a strangle     *)
(* whose delta is offset with futures.  The quantity of futures held is    *)
(* learned from order events: a hedge is pending from the tick that sends  *)
(* it to the event that confirms it.                                       *)
(***************************************************************************)
EXTENDS ShortStraddle, ShortStrangle

Hedged == {"hedged straddle", "hedged strangle"}

(* _resolve_futures_instrument: listed if the future has ticked.  A token  *)
(* found once is kept.                                                     *)
Resolve(s, listed) == [s EXCEPT !.fut = @ \/ listed]

(* _enter_straddle keeps stale tokens like the straddle, _enter_strangle   *)
(* needs both options.                                                     *)
Found(s, spot) ==
    IF kind = "hedged straddle"
    THEN [s EXCEPT !.leg = IF spot > 0 THEN AtmLegs(@, spot) ELSE @]
    ELSE IF NoShorts(spot) THEN s ELSE Shorts(s, spot, s.priced)
CanSell(s, spot) ==
    IF kind = "hedged straddle"
    THEN spot > 0 /\ 0 \notin {s.leg.ce, s.leg.pe}
    ELSE ~NoShorts(spot)

(* _try_entry and _finalize_entry: the quantity is set before the chain is *)
(* looked for.                                                             *)
HedgedEntry(m, listed, spot, priced) ==
    /\ MayEnter
    /\ ~Filtered(m)
    /\ LET sized == [self EXCEPT !.qty = AdjustedLots(m)]
           found == Found(sized, spot)
           next  == [Resolve(found, listed) EXCEPT !.priced = priced]
       IN  IF Chain = {} THEN Keep(sized)
           ELSE IF ~CanSell(found, spot) THEN Keep(found)
           ELSE Enters(next, ShortOrder(next)) /\ UNCHANGED gaps
    /\ TickFrame

(* _create_exit_signal: what it knows of the hedge is closed and forgotten,*)
(* a pending quantity is not.                                              *)
FutureLeg(lots) == [ins |-> FUT, lots |-> lots]
HedgedExitOrder(s) ==
    CoverOrder(s) \o IF s.hedge # 0 /\ s.fut
                     THEN <<FutureLeg(0 - s.hedge)>> ELSE <<>>

Unconfirmed == IF news # <<>> THEN gaps \cup {"unconfirmed"} ELSE gaps

HedgedLeaves ==
    /\ self' = [Leave(self) EXCEPT !.hedge = 0]
    /\ legs' = HedgedExitOrder(self)
    /\ gaps' = Unconfirmed
    /\ UNCHANGED <<entries, rolls>>
    /\ TickFrame

HedgedExit ==
    /\ ExitTime /\ self.entered
    /\ HedgedLeaves

(* The stop loss on the option premium.                                    *)
HedgedStop ==
    /\ Monitors
    /\ self.priced
    /\ HedgedLeaves

(* _check_delta_hedge: want is the hedge the delta asks for.  The cap is   *)
(* on what is confirmed, whatever is pending and whichever way want goes.  *)
CapacityBad == MaxHedge
Capacity == LET held == Distance(self.hedge, 0)
            IN  IF held < MaxHedge THEN MaxHedge - held ELSE 0
Capped(want) == LET size == Distance(want, 0)
                    most == IF size < Capacity THEN size ELSE Capacity
                IN  IF want < 0 THEN 0 - most ELSE most

Hedge(want, listed) ==
    /\ Monitors
    /\ Chain # {}
    /\ Capped(want) # 0
    /\ self.fut \/ listed
    /\ Len(news) <= MaxNews
    /\ self' = [Resolve(self, listed) EXCEPT !.pend = Capped(want)]
    /\ legs' = <<FutureLeg(Capped(want))>>
    /\ gaps' = Unconfirmed
    /\ UNCHANGED <<entries, rolls>>
    /\ TickFrame

(* on_order_update.  After a restart the future's token is not known.      *)
HedgeNews(s, status) ==
    [s EXCEPT !.hedge = IF status = "filled" THEN @ + s.pend ELSE @,
              !.pend = 0]

OnOrderUpdate ==
    /\ legs = <<>>
    /\ news # <<>>
    /\ self' = IF self.fut THEN HedgeNews(self, Head(news)) ELSE self
    /\ news' = Tail(news)
    /\ UNCHANGED <<kind, market, legs, net, history>>

HedgedTick ==
    /\ Ticks(Hedged)
    /\ \/ HedgedExit
       \/ HedgedStop
       \/ \E listed \in BOOLEAN :
             \/ \E m \in Moods, spot \in Prices, priced \in BOOLEAN :
                   HedgedEntry(m, listed, spot, priced)
             \/ \E want \in -MaxHedge..MaxHedge : Hedge(want, listed)
=============================================================================
