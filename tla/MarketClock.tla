---------------------------- MODULE MarketClock -----------------------------
(***************************************************************************)
(* The calendar part of MarketClock (core/clock.py): trading days and the  *)
(* expiry dates of an underlying.  A date is a number, date 0 a Monday.    *)
(***************************************************************************)
EXTENDS Integers, FiniteSets, FiniteSetsExt

CONSTANTS Dates,      \* the dates the calendar is asked about
          MonthOf,    \* the month of each date
          Holidays,   \* NSE_HOLIDAYS
          HasWeekly   \* EXPIRY_SCHEDULE: are there weekly expiries?

ASSUME CalendarAssumption ==
    /\ IsFiniteSet(Dates) /\ Dates \subseteq Nat
    /\ MonthOf \in [Dates -> Nat \ {0}]
    /\ Holidays \subseteq Dates
    /\ HasWeekly \in BOOLEAN

Weekday(dt) == dt % 7
Tuesday == 1
Saturday == 5

IsTradingHoliday(dt) == Weekday(dt) >= Saturday \/ dt \in Holidays

LastTuesday(month) ==
    Max({dt \in Dates : MonthOf[dt] = month /\ Weekday(dt) = Tuesday})

IsExpiryDay(dt) ==
    \/ HasWeekly /\ Weekday(dt) = Tuesday /\ ~IsTradingHoliday(dt)
    \/ dt = LastTuesday(MonthOf[dt])

PreviousTradingDay(dt) == Max({d \in Dates : d < dt /\ ~IsTradingHoliday(d)})

NextExpiry(dt) ==
    LET found == Min({d \in Dates : d >= dt /\ IsExpiryDay(d)})
    IN  IF IsTradingHoliday(found) THEN PreviousTradingDay(found) ELSE found

(* The step of _trading_days from one trading day to the next.             *)
NextTradingDay(dt) == Min({d \in Dates : d >= dt /\ ~IsTradingHoliday(d)})
=============================================================================
