---------------------------- MODULE MarketRegime ----------------------------
(***************************************************************************)
(* The intraday regime (app/shortduration/regime.py), its inputs as the    *)
(* service gathers them (service.py) and the composite of market internals *)
(* it prefers to the watchlist's own breadth (app/providers/internals.py). *)
(*                                                                         *)
(* Changes are per 10000, shares and scores per 1000.                      *)
(***************************************************************************)
EXTENDS SessionBars, FiniteSets

Majors == {"SPY", "QQQ", "IWM"}

RegimeConfig ==
  [highVol |-> 600, lowVol |-> 350, strong |-> 600, weak |-> 400, trendMin |-> 10,
   blackout |-> 15, caution |-> 60]

Size(x) == Max({x, -x})

\* A signed reading that was not taken.
Unknown == -1000000

Regimes == {"macro_event_driven", "high_vol_chop", "low_vol_compression", "range_bound",
            "high_vol_trend", "bull_trend", "bear_trend"}

-----------------------------------------------------------------------------
(* What the service reads. *)

\* Per 10000 of yesterday's close.
ChangePct(quote) ==
  IF quote.prev > 0 THEN Over((quote.px - quote.prev) * 10000, quote.prev) ELSE Unknown

\* One symbol of the sweep: a failed feed of bars or quotes leaves neither
\* levels nor a change, a failed history only takes the average volume away.
SymbolLevels(bars, quote, candles, profile, now, up) ==
  IF ~({"intraday", "quote"} \subseteq up) THEN [levels |-> NoLevels, change |-> Unknown]
  ELSE LET average == IF "daily" \in up THEN AverageVolume(candles) ELSE Unread
       IN  [levels |-> LevelsOf(bars, RelativeVolumeNow(profile, RthBars(bars), average), now),
            change |-> ChangePct(quote)]

\* The first scheduled event that is still to come, if any: events are
\* [at, high], at a moment.
NextEvent(events, now, up) ==
  LET ahead == {e \in events : MinutesFrom(now, e.at) >= 0}
  IN  IF "events" \notin up \/ ahead = {} THEN {}
      ELSE {CHOOSE e \in ahead : \A f \in ahead : ~Before(f.at, e.at)}

-----------------------------------------------------------------------------
(* Market internals: whichever of the three parts the feeds gave. *)

TideDirection(call, put) ==
  LET size == Size(call) + Size(put)
  IN  IF size = 0 THEN Unknown ELSE Over((call - Size(put)) * 1000, size)

BreadthScore(parts) ==
  IF parts = <<>> THEN Unread ELSE FoldLeft(+, 0, parts) \div Len(parts)

\* feed is [sectors, advancing, call, put, flows, heavy]; a count of zero is a
\* feed that answered nothing.
TidePart(tide) == IF tide # Unknown THEN <<(tide + 1000) \div 2>> ELSE <<>>
MarketInternals(feed, up) ==
  BreadthScore((IF "sectors" \in up /\ feed.sectors > 0 THEN <<(1000 * feed.advancing) \div feed.sectors>> ELSE <<>>)
               \o (IF "flow" \in up THEN TidePart(TideDirection(feed.call, feed.put)) ELSE <<>>)
               \o (IF "flow" \in up /\ feed.flows > 0 THEN <<(1000 * feed.heavy) \div feed.flows>> ELSE <<>>))

-----------------------------------------------------------------------------
(* The regime. *)

\* An index votes with a change of a tenth of a percent that its VWAP does not
\* contradict.
IndexVote(change, levels) ==
  LET above == AboveVwap(levels)
  IN  CASE change = Unknown -> 0
        [] change # Unknown /\ change >= RegimeConfig.trendMin /\ above # "below" -> 1
        [] change # Unknown /\ change <= -RegimeConfig.trendMin /\ above # "above" -> -1
        [] OTHER -> 0

\* Only real internals may tighten the gate.
BreadthGate(internals, proxy) ==
  IF internals = Unread THEN [bull |-> TRUE, bear |-> TRUE]
  ELSE [bull |-> internals >= RegimeConfig.strong, bear |-> internals <= RegimeConfig.weak]

Classify(bulls, bears, gate, highVol, lowVol, blackout) ==
  LET net == bulls - bears
  IN  CASE blackout -> "macro_event_driven"
        [] ~blackout /\ bulls + bears = 0 ->
             IF highVol THEN "high_vol_chop" ELSE IF lowVol THEN "low_vol_compression" ELSE "range_bound"
        [] OTHER ->
             IF net >= 2 /\ gate.bull THEN (IF highVol THEN "high_vol_trend" ELSE "bull_trend")
             ELSE IF net <= -2 /\ gate.bear THEN (IF highVol THEN "high_vol_trend" ELSE "bear_trend")
             ELSE IF bulls > 0 /\ bears > 0 /\ highVol THEN "high_vol_chop"
             ELSE "range_bound"

Confidence(regime, net, internals, proxy) ==
  LET bonus == IF internals # Unread THEN 150 ELSE IF proxy # Unread THEN 50 ELSE 0
      raw == Min({1000, 350 + (500 * Size(net)) \div 3 + bonus})
      capped == IF internals = Unread THEN Min({raw, 600}) ELSE raw
  IN  IF regime \in {"range_bound", "high_vol_chop"} THEN Min({capped, 500}) ELSE capped

RegimeState(regime, bulls, bears, proxy, internals, highVol, blackout, caution) ==
  [regime |-> regime, confidence |-> Confidence(regime, bulls - bears, internals, proxy), allow |-> ~blackout,
   reduce |-> highVol \/ regime \in {"high_vol_chop", "macro_event_driven"} \/ caution,
   bulls |-> bulls, bears |-> bears, proxy |-> proxy, internals |-> internals]
RegimeOfVotes(bulls, bears, proxy, internals, highVol, lowVol, blackout, caution) ==
  RegimeState(Classify(bulls, bears, BreadthGate(internals, proxy), highVol, lowVol, blackout),
              bulls, bears, proxy, internals, highVol, blackout, caution)

\* A high-impact event so many minutes ahead at most.
Within(event, minutes, now) == \E e \in event : e.high /\ MinutesFrom(now, e.at) <= minutes

\* changes and levels by symbol; proxy and internals are shares above VWAP.
ComputeRegime(changes, levels, proxy, internals, vol, event, now) ==
  LET votes(side) == Cardinality({s \in Majors \cap DOMAIN changes : IndexVote(changes[s], levels[s]) = side})
  IN  RegimeOfVotes(votes(1), votes(-1), proxy, internals,
                    vol # Unread /\ vol >= RegimeConfig.highVol, vol # Unread /\ vol <= RegimeConfig.lowVol,
                    Within(event, RegimeConfig.blackout, now), Within(event, RegimeConfig.caution, now))
=============================================================================
