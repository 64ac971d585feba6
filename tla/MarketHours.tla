------------------------------ MODULE MarketHours ------------------------------
(***************************************************************************)
(* domain/market_hours.py: when trades are let in.  An instant is a day,   *)
(* counted from a Monday, and a time of that day in seconds, both in UTC.  *)
(***************************************************************************)
EXTENDS Integers

DaySeconds == 86400
TimeOfDay == 0..(DaySeconds - 1)

IsSunday(day) == day % 7 = 6

(* The half-open window [opens, closes); it wraps past midnight unless it   *)
(* opens before it closes.                                                  *)
InWindow(t, opens, closes) ==
    IF opens < closes THEN opens <= t /\ t < closes
    ELSE t >= opens \/ t < closes

IsMarketOpen(day, t, opens, closes, sundayAllowed) ==
    /\ IsSunday(day) => sundayAllowed
    /\ InWindow(t, opens, closes)

(* _check_market_open: all that a trade asks of an instant. *)
KindOfTime(day, t, opens, closes) ==
    IF ~InWindow(t, opens, closes) THEN "closed"
    ELSE IF IsSunday(day) THEN "sunday"
    ELSE "open"
=============================================================================
