----------------------------- MODULE SessionBars -----------------------------
(***************************************************************************)
(* What is read off a symbol's intraday bars: session levels (app/         *)
(* shortduration/levels.py), relative volume against a profile of earlier  *)
(* sessions (volume_profile.py) and the share of the watchlist above its   *)
(* VWAP (breadth.py).                                                      *)
(*                                                                         *)
(* A bar is [day, min, high, low, close, vol], min counted from 09:30 of   *)
(* its day; a moment is [day, min] likewise.  Prices are tenths of a cent, *)
(* ratios hundredths.  Calendar gives the kind of each day.                *)
(***************************************************************************)
EXTENDS MarketClock, ShortSettings, TLC, SequencesExt

CONSTANT Calendar

Unread == -1

\* A quotient cut off towards zero.
Over(x, d) == IF x < 0 THEN -((-x) \div d) ELSE x \div d

Before(a, b) == a.day < b.day \/ (a.day = b.day /\ a.min < b.min)
Volume(bars) == FoldLeft(LAMBDA sum, b : sum + b.vol, 0, bars)

\* The bars that are wanted, in the order they came.
Among(bars, wanted) ==
  LET kept[i \in 0 .. Len(bars)] ==
        IF i = 0 THEN <<>>
        ELSE IF bars[i] \in wanted THEN Append(kept[i - 1], bars[i]) ELSE kept[i - 1]
  IN  kept[Len(bars)]

\* Sorted by time: bars that are in order stay as they are.
Chronological(bars) ==
  IF \A i \in 1 .. Len(bars) - 1 : ~Before(bars[i + 1], bars[i]) THEN bars ELSE SortSeq(bars, Before)

-----------------------------------------------------------------------------
(* Levels of one session. *)

RthBars(bars) == Chronological(Among(bars, {b \in ToSet(bars) : 0 <= b.min /\ b.min < 390}))

Vwap(bars) ==
  IF Volume(bars) > 0
  THEN FoldLeft(LAMBDA sum, b : sum + (b.high + b.low + b.close) * b.vol, 0, bars)
         \div (3 * Volume(bars))
  ELSE Unread

NoRange == [high |-> Unread, low |-> Unread]

\* No range until a bar at or after the end of the window has been seen.
OpeningRange(bars, minutes, day) ==
  LET window == {b \in ToSet(bars) : b.day = day /\ b.min < minutes}
  IN  IF window = {} \/ Before(Last(bars), [day |-> day, min |-> minutes]) THEN NoRange
      ELSE [high |-> Max({b.high : b \in window}), low |-> Min({b.low : b \in window})]

\* The session the bars end in; the day of the moment when there are none.
SessionOf(rth, now) == IF rth = <<>> THEN now.day ELSE Last(rth).day
\* Mutant: only the opening range is filtered by day.
AllSessions(rth, day) == rth
OneSession(rth, day) == Among(rth, {b \in ToSet(rth) : b.day = day})

SessionLevels(session, day, range, reading) ==
  [day |-> day, bars |-> Len(session),
   last |-> IF session = <<>> THEN Unread ELSE Last(session).close,
   vwap |-> Vwap(session), high |-> range.high, low |-> range.low,
   relvol |-> reading.value, estimated |-> reading.estimated,
   method |-> IF session = <<>> THEN "none" ELSE reading.method]
LevelsOfDay(session, day, reading) ==
  SessionLevels(session, day, OpeningRange(session, OpeningRangeMinutes, day), reading)
LevelsOfRth(rth, day, reading) == LevelsOfDay(OneSession(rth, day), day, reading)
LevelsOf(bars, reading, now) == LevelsOfRth(RthBars(bars), SessionOf(RthBars(bars), now), reading)

NoLevels == [day |-> Unread, bars |-> 0, last |-> Unread, vwap |-> Unread, high |-> Unread,
             low |-> Unread, relvol |-> Unread, estimated |-> FALSE, method |-> "none"]

\* "none" where a side of the comparison is not established.
Posture(last, level) ==
  IF last = Unread \/ level = Unread THEN "none" ELSE IF last > level THEN "above" ELSE "below"
AboveVwap(levels) == Posture(levels.last, levels.vwap)
AboveOpeningRange(levels) == Posture(levels.last, levels.high)

\* Only symbols with a decisive reading vote; per 1000.
Participation(levels) ==
  LET share(posture) ==
        LET votes == {s \in DOMAIN levels : posture[s] # "none"}
        IN  IF votes = {} THEN Unread
            ELSE (1000 * Cardinality({s \in votes : posture[s] = "above"})) \div Cardinality(votes)
  IN  [considered |-> Cardinality(DOMAIN levels),
       aboveVwap |-> share([s \in DOMAIN levels |-> AboveVwap(levels[s])]),
       aboveRange |-> share([s \in DOMAIN levels |-> AboveOpeningRange(levels[s])])]

-----------------------------------------------------------------------------
(* The time-of-day volume profile. *)

CloseMinute(day) == (CloseTime(Calendar[day]) - ClockAt(9, 30)) \div Minute

SessionBar(b) == IsTradingDay(Calendar[b.day]) /\ 0 <= b.min /\ b.min < CloseMinute(b.day)

\* day |-> minute of the session |-> volume so far
SessionCumulative(bars) ==
  LET kept == {b \in ToSet(bars) : SessionBar(b)}
  IN  [d \in {b.day : b \in kept} |->
        [m \in {b.min : b \in {x \in kept : x.day = d}} |->
          Volume(SelectSeq(bars, LAMBDA b : SessionBar(b) /\ b.day = d /\ b.min <= m))]]

Median(values) ==
  LET s == SortSeq(values, LAMBDA a, b : a < b)
      n == Len(s)
  IN  IF n % 2 = 1 THEN s[n \div 2 + 1] ELSE (s[n \div 2] + s[n \div 2 + 1]) \div 2
Mean(values) == FoldLeft(+, 0, values) \div Len(values)

\* How far back the feed is asked, in calendar days.
Lookback == 2 * Profile.sessions + 14
\* Mutant: today, still trading, is asked for with the rest.
HistoryThroughToday(history, today) ==
  Among(history, {b \in ToSet(history) : today - Lookback <= b.day /\ b.day <= today})
\* The calendar window before today.
HistoryWindow(history, today) ==
  Among(history, {b \in ToSet(history) : today - Lookback <= b.day /\ b.day <= today - 1})

\* The volumes up to a minute, over the days that have it.
VolumesAt(cum, days, m) ==
  LET having == SelectSeq(days, LAMBDA d : m \in DOMAIN cum[d])
  IN  [i \in DOMAIN having |-> cum[having[i]][m]]
Middle(values) == IF Profile.useMedian THEN Median(values) ELSE Mean(values)
Ascending(days) ==
  [k \in 1 .. Cardinality(days) |-> CHOOSE d \in days : Cardinality({e \in days : e <= d}) = k]
\* The last n of the days.
LastDays(cum, n) ==
  LET days == Ascending(DOMAIN cum)
  IN  SubSeq(days, Max({1, Len(days) - n + 1}), Len(days))
ProfileOf(cum, used, today) ==
  [asOf |-> today, days |-> ToSet(used), estimated |-> Len(used) < Profile.minSessions,
   base |-> [m \in UNION {DOMAIN cum[d] : d \in ToSet(used)} |-> Middle(VolumesAt(cum, used, m))]]
ProfileFrom(cum, today) == ProfileOf(cum, LastDays(cum, Profile.sessions), today)
BuildProfile(history, today) == ProfileFrom(SessionCumulative(HistoryWindow(history, today)), today)

\* The nearest earlier minute that has a baseline.
Baseline(profile, minute) ==
  LET earlier == {m \in DOMAIN profile.base : m <= minute /\ profile.base[m] > 0}
  IN  IF earlier = {} THEN Unread ELSE profile.base[Max(earlier)]

NoProfile == [asOf |-> Unread, days |-> {}, estimated |-> TRUE, base |-> <<>>]
NoEntry == [at |-> [day |-> Unread, min |-> Unread], profile |-> NoProfile]

\* Calendar minutes from one moment to another.
MinutesFrom(a, b) == (b.day - a.day) * 1440 + b.min - a.min

\* A cached profile serves for the rest of its day, for six hours.
CacheHit(entry, now) ==
  /\ entry # NoEntry
  /\ MinutesFrom(entry.at, now) < Profile.cacheMinutes
  /\ entry.profile.asOf = now.day

\* The entry after a read: a feed that fails leaves it alone.
ProfileEntry(entry, history, now, up) ==
  IF CacheHit(entry, now) \/ ~up THEN entry
  ELSE [at |-> now, profile |-> BuildProfile(history, now.day)]
ProfileRead(entry, now, up) ==
  IF CacheHit(entry, now) \/ up THEN entry.profile ELSE NoProfile

Reading(profile, base, actual, expected) ==
  CASE base > 0 -> [value |-> (100 * actual) \div base, method |-> "profile",
                    estimated |-> FALSE, days |-> profile.days, asOf |-> profile.asOf]
    [] base <= 0 /\ Profile.fallback /\ expected > 0 ->
         [value |-> (39000 * actual) \div expected, method |-> "flat_estimate",
          estimated |-> TRUE, days |-> {}, asOf |-> Unread]
    [] OTHER -> [value |-> Unread, method |-> "unavailable", estimated |-> TRUE,
                 days |-> {}, asOf |-> Unread]
RelativeVolume(profile, actual, minute, average) ==
  Reading(profile,
          IF Cardinality(profile.days) >= Profile.minSessions THEN Baseline(profile, minute) ELSE Unread,
          actual, average * Min({390, Max({1, minute})}))

\* The volume of every regular-hours bar the feed returned counts as today's,
\* and the minute is the last bar's.
RelativeVolumeNow(profile, rth, average) ==
  RelativeVolume(profile, Volume(rth), IF rth = <<>> THEN 0 ELSE Last(rth).min, average)

\* The average of a window of daily candles that have a volume.
AverageVolume(candles) ==
  LET some == SelectSeq(candles, LAMBDA c : c.vol > 0)
  IN  IF some = <<>> THEN Unread ELSE Volume(some) \div Len(some)
=============================================================================
