----------------------------- MODULE ThesisPlan -----------------------------
(***************************************************************************)
(* What is written down with a scored setup: the directional thesis (app/  *)
(* shortduration/thesis.py), the structure-aware exit plan (exit_plan.py), *)
(* the odds and the spread tax of its contract (detection.py), the state   *)
(* it is filed in, the board it belongs on and its rank there (ranking.py).*)
(***************************************************************************)
EXTENDS SetupScoring

-----------------------------------------------------------------------------
(* The thesis. *)

\* A daily close counts once there are fifty of them.
CurrentPrice(ctx) ==
  IF ctx.levels.last # Unread THEN ctx.levels.last
  ELSE IF ctx.quote.px > 0 THEN ctx.quote.px
  ELSE IF Len(ctx.daily) >= 50 THEN Last(ctx.daily).close ELSE Unread

\* Yesterday's mean settles a trade over days, VWAP one over the day.
SettlesAt(bucket, mean, vwap) == IF bucket # "0dte" /\ mean # Unread THEN mean ELSE vwap
InvalidationPrice(bucket, ctx) == SettlesAt(bucket, PriceAction(Closes(ctx.daily)).mean, ctx.levels.vwap)

\* Per 10000 of the price.
Distance(price, settles) ==
  IF price = Unread \/ settles = Unread THEN Unread ELSE (Size(settles - price) * 10000) \div price

ReversalReasons(distance, change, bullish, news) ==
  {r \in {"counter_move", "near_invalidation", "news"} :
     \/ /\ r = "counter_move" /\ change # Unknown
        /\ Aligned(change, ~bullish) /\ Size(change) >= ThesisRule.counterMove
     \/ r = "near_invalidation" /\ distance # Unread /\ distance <= ThesisRule.nearInvalidation
     \/ r = "news" /\ NewsTotal(news) >= ThesisRule.newsMin}

ReversalRisk(reasons) ==
  CASE Cardinality(reasons) >= 2 -> "high" [] Cardinality(reasons) = 1 -> "elevated" [] OTHER -> "low"

\* Measured against the track's horizon, whatever contract is chosen.
StructuralWarnings(bucket, strategy, earnings) ==
  (IF strategy = "trend_continuation" /\ Horizon(bucket) < ThesisRule.swingMinDte
   THEN {"horizon_mismatch"} ELSE {})
  \cup (IF earnings \in 0 .. Horizon(bucket) THEN {"earnings_before_expiry"} ELSE {})

\* The providers a claim of the thesis rests on; only news about the symbol
\* itself is quoted.
SourcesUsed(ctx) ==
  (IF Len(ctx.daily) >= 50 \/ ctx.change # Unknown \/ ctx.earnings # Missing THEN {"fmp"} ELSE {})
  \cup (IF ctx.flow # <<>> THEN {"unusual_whales"} ELSE {})
  \cup (IF \E i \in DOMAIN ctx.news : ctx.news[i].about = "symbol" THEN {"benzinga"} ELSE {})

ThesisOf(bucket, ctx, det, news, settles, distance) ==
  [settles |-> settles, distance |-> distance,
   risk |-> ReversalRisk(ReversalReasons(distance, ctx.change, det.bullish, news)),
   warnings |-> StructuralWarnings(bucket, det.strategy, ctx.earnings), sources |-> SourcesUsed(ctx)]
ThesisAbout(bucket, ctx, det, news, settles) ==
  ThesisOf(bucket, ctx, det, news, settles, Distance(CurrentPrice(ctx), settles))
Thesis(bucket, ctx, det, news) == ThesisAbout(bucket, ctx, det, news, InvalidationPrice(bucket, ctx))

\* Is the thesis settled within five days, going by the volatility?  The root
\* of 5/365 is 0.117; a question that cannot be asked is answered no.
ShortHorizonViable(distance, iv) == distance # Unread /\ iv > 0 /\ distance * 100 <= iv * 1170

IsSwing(strategy) == strategy = "trend_continuation"

-----------------------------------------------------------------------------
(* The exit plan. *)

StructuralLevels(det, levels) ==
  LET range == IF det.level # Unread THEN det.level ELSE IF det.bullish THEN levels.high ELSE levels.low
  IN  CASE det.strategy = "opening_range_breakout" -> [primary |-> range, secondary |-> levels.vwap]
        [] det.strategy = "vwap_trend_continuation" -> [primary |-> levels.vwap, secondary |-> range]
        [] OTHER -> [primary |-> IF range # Unread THEN range ELSE levels.vwap, secondary |-> levels.vwap]

\* The premium marks of the sized plan, if there is one; 0DTE is flat by the
\* clock, the others by a number of days to expiry.
ExitOf(bucket, level, plan, marks) ==
  [primary |-> level.primary, secondary |-> level.secondary, stop |-> marks.stop, targets |-> marks.takes,
   flattenAt |-> IF bucket = "0dte" THEN ExitRule.flattenAt ELSE Missing,
   timeStop |-> IF bucket = "0dte" THEN Missing
                ELSE IF plan # NoPlan /\ plan.timeStop \notin {0, Missing} THEN plan.timeStop
                ELSE ExitRule.timeStopDte,
   maxLoss |-> IF plan = NoPlan THEN Missing ELSE plan.maxLoss]
ShortExitPlan(bucket, det, levels, plan) ==
  ExitOf(bucket, StructuralLevels(det, levels), plan,
         IF plan = NoPlan THEN [stop |-> Missing, takes |-> <<>>] ELSE ExitPlan(plan))

-----------------------------------------------------------------------------
(* The odds and the tax. *)

\* The volatility of the contract nearest the money at the traded expiry.
TradedExpiryIv(chain, plan, spot) ==
  LET near == {i \in Listed(chain) : chain.list[i].dte = plan.dte /\ chain.list[i].iv > 0}
  IN  IF plan = NoPlan \/ spot <= 0 \/ near = {} THEN Missing
      ELSE chain.list[Nearest(near, [i \in near |-> Abs(chain.list[i].k - spot)])].iv

\* On the breakeven nearest the spot; Missing on the day of expiry, where the
\* lognormal has no width.
NearestTo(levels, spot) == levels[Nearest(DOMAIN levels, [i \in DOMAIN levels |-> Abs(levels[i] - spot)])]
Chance(above, bullish) == IF bullish THEN above ELSE 10000 - above
OddsAt(levels, plan, bullish, spot, iv) ==
  IF levels = <<>> THEN Missing ELSE Chance(ProbAbove(spot, NearestTo(levels, spot), iv, plan.dte), bullish)
CandidateOdds(plan, bullish, spot, iv) ==
  IF plan = NoPlan \/ spot <= 0 \/ iv <= 0 \/ plan.dte <= 0 THEN Missing
  ELSE OddsAt(Breakevens(plan.strategy, plan.legs), plan, bullish, spot, iv)

\* The round trip through the quotes of every leg, per 10000 of the largest
\* loss; Missing unless each leg has a spread.
CostDrag(plan, chain) ==
  LET quote(leg) == {i \in Listed(chain) : LET c == chain.list[i] IN
                       /\ c.k = leg.k /\ c.call = leg.call /\ c.dte = plan.dte
                       /\ Quoted(c) /\ c.ask > c.bid}
      spread(leg) == LET c == chain.list[Max(quote(leg))] IN c.ask - c.bid
      trip == SumOf([i \in DOMAIN plan.legs |-> spread(plan.legs[i])]) * plan.contracts
  IN  IF plan = NoPlan THEN Missing
      ELSE IF \E i \in DOMAIN plan.legs : quote(plan.legs[i]) = {} THEN Missing
      ELSE (trip * 10000) \div plan.maxLoss

-----------------------------------------------------------------------------
(* The state a row is filed in. *)

\* Why an arming is withheld: no odds to speak of, 0DTE, or a bucket that is
\* only watched.
ArmBlocked(bucket, card) ==
  \/ ~card.pop
  \/ bucket = "0dte" /\ ~ScoreBar.zeroConviction
  \/ bucket \in Capture.observed

FiledState(bucket, card, tradeable) ==
  CASE ~tradeable -> "REJECTED"
    [] tradeable /\ card.abstained -> "EVALUATING"
    [] tradeable /\ ~card.abstained /\ card.score >= ScoreBar.arm /\ ~ArmBlocked(bucket, card) -> "ARMED"
    [] OTHER -> IF card.score >= ScoreBar.watch THEN "WATCHLIST" ELSE "EVALUATING"

-----------------------------------------------------------------------------
(* Boards and picks. *)

\* 0DTE stays; a structure beyond five days is not filed as 1-5DTE.
BoardFor(bucket, plan) ==
  IF bucket = "0dte" \/ plan = NoPlan \/ plan.dte <= MaxDte THEN bucket ELSE "medium"

ActionBucket(row) ==
  CASE row.state \in {"ARMED", "TRIGGERED"} -> IF row.allowed THEN 0 ELSE 1
    [] row.state = "WATCHLIST" -> 2
    [] row.state = "REJECTED" -> 5
    [] OTHER -> 4

ScoreBand(score) == RoundDiv(score, RankBucket)

\* Bands of the score first, the cheaper to trade within one, unknown last.
RanksBefore(a, b) ==
  LET drag(x) == IF x.drag = Missing THEN 1000000000 ELSE x.drag
  IN  \/ ScoreBand(a.score) > ScoreBand(b.score)
      \/ ScoreBand(a.score) = ScoreBand(b.score) /\ drag(a) < drag(b)
      \/ ScoreBand(a.score) = ScoreBand(b.score) /\ drag(a) = drag(b) /\ a.score > b.score

\* The hour does not disqualify a pick, the account does.
Pickable(row) ==
  /\ ActionBucket(row) # 5 /\ row.plan # NoPlan
  /\ row.allowed \/ row.rejects \subseteq {"time_of_day_blocked"}

\* A row read over again keeps the freshest of each setup and structure.
DedupeLatest(rows) ==
  {r \in rows : \A x \in rows :
     /\ <<x.symbol, x.strategy, x.board, x.plan.strategy>> = <<r.symbol, r.strategy, r.board, r.plan.strategy>>
     => ~Before(r.at, x.at)}

\* Up to three of a board's rows, one of each symbol, in the order of rank.
MarkPicks(ranked) ==
  LET fit == {i \in DOMAIN ranked : Pickable(ranked[i])}
      firsts == {i \in fit : \A j \in fit : ranked[j].symbol = ranked[i].symbol => i <= j}
  IN  {ranked[i] : i \in {k \in firsts : Cardinality({j \in firsts : j < k}) < 3}}
=============================================================================
