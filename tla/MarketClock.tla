---------------------------- MODULE MarketClock ----------------------------
(***************************************************************************)
(* The market clock (app/scheduling/clock.py) and the cadence table        *)
(* (app/scheduling/schedule.py).  A moment is the kind of its day and a    *)
(* second of that day in New York; the calendar of holidays and early      *)
(* closes is the kind: "dark" (weekend or holiday), "full" or "early".     *)
(***************************************************************************)
EXTENDS Integers

DayKind == {"full", "early", "dark"}

Hour == 3600
Minute == 60
ClockAt(h, m) == h * Hour + m * Minute

IsTradingDay(kind) == kind # "dark"

CloseTime(kind) == IF kind = "early" THEN ClockAt(13, 0) ELSE ClockAt(16, 0)

(* The half-hour after the close, with the carry into the next hour. *)
PostEnd(kind) == CloseTime(kind) + 30 * Minute

Sessions == {"overnight", "pre_market", "final_pre_open", "opening", "primary", "midday",
             "afternoon", "power_hour", "post_close", "earnings", "closed"}

(* session(): the first matching range wins, so the order of the branches  *)
(* is the order of the code's returns.                                     *)
Session(kind, t) ==
  LET close == CloseTime(kind)
      within(a, b) == a <= t /\ t < b
  IN  CASE ~IsTradingDay(kind) ->
             IF within(ClockAt(7, 0), ClockAt(20, 0)) THEN "closed" ELSE "overnight"
        [] IsTradingDay(kind) ->
             IF within(ClockAt(7, 0), ClockAt(9, 0)) THEN "pre_market"
             ELSE IF within(ClockAt(9, 0), ClockAt(9, 30)) THEN "final_pre_open"
             ELSE IF within(ClockAt(9, 30), ClockAt(9, 45)) THEN "opening"
             ELSE IF within(ClockAt(9, 45), ClockAt(11, 0)) THEN "primary"
             ELSE IF within(ClockAt(11, 0), close) /\ t < ClockAt(14, 0) THEN "midday"
             ELSE IF close > ClockAt(14, 0) /\ within(ClockAt(14, 0), ClockAt(15, 0)) THEN "afternoon"
             ELSE IF close > ClockAt(14, 0) /\ within(ClockAt(15, 0), close) THEN "power_hour"
             ELSE IF within(close, PostEnd(kind)) THEN "post_close"
             ELSE IF within(PostEnd(kind), ClockAt(20, 0)) THEN "earnings"
             ELSE "overnight"

IsMarketOpen(kind, t) == IsTradingDay(kind) /\ ClockAt(9, 30) <= t /\ t < CloseTime(kind)

(* _market_is_dark(): when the simple scheduler idles. *)
MarketIsDark(kind, t) == Session(kind, t) \in {"closed", "overnight"}

BROAD == 1
WATCHLIST == 2
CANDIDATES == 3
POSITIONS == 4
Tier == BROAD .. POSITIONS

Off == 0

(* DEFAULT_SCHEDULE as one row of four cadences per session, in the order  *)
(* of the tiers; Off is a tier the session does not list.                  *)
DefaultSchedule ==
  [ overnight      |-> <<3600, Off, Off, 1800>>,
    pre_market     |-> <<900, 900, Off, 300>>,
    final_pre_open |-> <<300, 300, Off, 300>>,
    opening        |-> <<Off, 60, 60, 45>>,
    primary        |-> <<300, 60, 30, 20>>,
    midday         |-> <<720, 240, 45, 45>>,
    afternoon      |-> <<300, 120, 30, 20>>,
    power_hour     |-> <<600, 60, 30, 15>>,
    post_close     |-> <<Off, Off, Off, 120>>,
    earnings       |-> <<300, 300, Off, 300>>,
    closed         |-> <<3600, Off, Off, Off>> ]

(* cadence(): a missing, zero or negative entry means the tier is off. *)
Cadence(session, tier) ==
  LET secs == DefaultSchedule[session][tier] IN IF secs > 0 THEN secs ELSE Off

(* active_tiers() *)
ActiveTiers(session) == {k \in Tier : Cadence(session, k) # Off}
=============================================================================
