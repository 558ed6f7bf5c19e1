------------------------------- MODULE Setups -------------------------------
(***************************************************************************)
(* The detectors of the short-duration scan (app/shortduration/            *)
(* strategies/): opening-range breakout and VWAP continuation on the       *)
(* 0DTE scan, trend and catalyst continuation on the 1-5DTE scan.          *)
(*                                                                         *)
(* A context is what a scan fetched for one symbol: [symbol, now, regime,  *)
(* change, levels, bars, quote, flow, daily, catalysts, news, earnings],   *)
(* empty where a feed failed.  A detection is [strategy, bullish, level,   *)
(* mean], level and mean being the prices its invalidation names.          *)
(***************************************************************************)
EXTENDS MarketRegime

Clamp(x) == Max({0, Min({1000, x})})
Tail20(s) == SubSeq(s, Max({1, Len(s) - 19}), Len(s))
SumOf(s) == FoldLeft(+, 0, s)
MeanOfLast(s, n) == SumOf(SubSeq(s, Len(s) - n + 1, Len(s))) \div n

-----------------------------------------------------------------------------
(* Shared by the strategies. *)

NetFlow(flow) ==
  LET said == SelectSeq(flow, LAMBDA f : f.sentiment # Unknown)
  IN  IF said = <<>> THEN Unknown
      ELSE Over(FoldLeft(LAMBDA sum, f : sum + f.sentiment, 0, said), Len(said))

\* The strike with the most premium on the setup's side, none without one.
DominantFlowStrike(flow, bullish) ==
  LET side == SelectSeq(flow, LAMBDA f : f.call = bullish /\ f.strike # Unread)
      at == [k \in {side[i].strike : i \in DOMAIN side} |->
              FoldLeft(LAMBDA sum, f : sum + f.premium, 0, SelectSeq(side, LAMBDA f : f.strike = k))]
  IN  IF side = <<>> THEN Unread
      ELSE CHOOSE k \in DOMAIN at : \A j \in DOMAIN at : at[j] <= at[k]

\* The regime must not directly contradict the setup.
RegimeSupports(regime, bullish) == regime.regime # (IF bullish THEN "bear_trend" ELSE "bull_trend")

-----------------------------------------------------------------------------
(* Opening-range breakout. *)

\* Mutant: a break below is proven by a close above.
ConfirmedUpOnly(bars, bullish, level, band) == bars # <<>> /\ Last(bars).close >= level
\* The break is proven by the last bar's close, at once, or by a pullback
\* between the first break and the last bar.
Confirmed(bars, bullish, level, band) ==
  LET beyond(px) == IF bullish THEN px >= level ELSE px <= level
      broke == {i \in 1 .. (Len(bars) - 1) : beyond(IF bullish THEN bars[i].high ELSE bars[i].low)}
      back(b) == IF bullish THEN b.low <= level + band ELSE b.high >= level - band
  IN  \/ Orb.mode = "immediate"
      \/ /\ bars # <<>> /\ beyond(Last(bars).close)
         /\ \/ Orb.mode = "close"
            \/ /\ Orb.mode = "retest" /\ broke # {}
               /\ \E i \in (Min(broke) + 1) .. (Len(bars) - 1) : back(bars[i])

OrbBreak(ctx, bullish) ==
  LET lv == ctx.levels
      width == Max({0, lv.high - lv.low})
      buffer == Max({(lv.last * Orb.minBreak) \div 10000, (Orb.buffer * width) \div 10000})
      level == IF bullish THEN lv.high ELSE lv.low
      past == IF bullish THEN lv.last - level ELSE level - lv.last
  IN  /\ lv.last # Unread /\ lv.high # Unread
      /\ past >= buffer
      /\ width > 0 => past * 10000 <= Orb.maxExtension * width
      /\ Confirmed(ctx.bars, bullish, level, (Orb.retestBand * width) \div 10000)
      /\ Orb.vwapAligned /\ lv.vwap # Unread => IF bullish THEN lv.last >= lv.vwap ELSE lv.last <= lv.vwap
      /\ lv.relvol # Unread => lv.relvol >= Orb.minRelVolume
      /\ RegimeSupports(ctx.regime, bullish)

OpeningRangeBreakout(ctx) ==
  {[strategy |-> "opening_range_breakout", bullish |-> b, mean |-> Unread,
    level |-> IF b THEN ctx.levels.high ELSE ctx.levels.low] : b \in {x \in BOOLEAN : OrbBreak(ctx, x)}}

-----------------------------------------------------------------------------
(* VWAP-trend continuation and its graded quality. *)

\* Of the sums of the line; the slope is in hundredths per bar.
FitOf(a, b, c) == [slope |-> Over(100 * a, b), r2 |-> IF c <= 10 THEN 0 ELSE (Over(100 * a, b) * a) \div (c \div 10)]
\* A least-squares line through the closes, measured from the first.
Fit(closes) ==
  LET n == Len(closes)
      xs == [i \in 1 .. n |-> i - 1]
      ys == [i \in 1 .. n |-> closes[i] - closes[1]]
  IN  FitOf(n * SumOf([i \in 1 .. n |-> xs[i] * ys[i]]) - SumOf(xs) * SumOf(ys),
            (n * n * (n * n - 1)) \div 12,
            n * SumOf([i \in 1 .. n |-> ys[i] * ys[i]]) - SumOf(ys) * SumOf(ys))

\* Per million of the price and bar.
SlopePct(fit, last) == IF last = 0 THEN 0 ELSE Over(fit.slope * 10000, last)

\* The window in four parts, the first ones longer by one if need be.
Segment(values, i) ==
  LET q == Len(values) \div 4
      r == Len(values) % 4
      from == (i - 1) * q + Min({i - 1, r})
  IN  {values[j] : j \in (from + 1) .. (from + q + (IF i <= r THEN 1 ELSE 0))}

StructureScore(values, bullish) ==
  LET good(i) == (IF IF bullish THEN Max(Segment(values, i + 1)) >= Max(Segment(values, i))
                     ELSE Max(Segment(values, i + 1)) <= Max(Segment(values, i)) THEN 1 ELSE 0)
               + (IF IF bullish THEN Min(Segment(values, i + 1)) >= Min(Segment(values, i))
                     ELSE Min(Segment(values, i + 1)) <= Min(Segment(values, i)) THEN 1 ELSE 0)
  IN  IF Len(values) < 4 THEN 500 ELSE (1000 * (good(1) + good(2) + good(3))) \div 6

QualityWeights == [continuation |-> 25, structure |-> 20, hold |-> 20, pullback |-> 15,
                   volume |-> 10, reclaim |-> 10]

\* What a window of bars is worth as a continuation, per 1000.
VwapQuality(bars, vwap, last, bullish, fit) ==
  LET closes == [i \in DOMAIN bars |-> bars[i].close]
      n == Len(closes)
      side == {i \in DOMAIN closes : IF bullish THEN closes[i] >= vwap ELSE closes[i] <= vwap}
      worst == IF bullish THEN vwap - Min(ToSet(closes)) ELSE Max(ToSet(closes)) - vwap
      worstBp == (Max({0, worst}) * 10000) \div last
      run == Max({1, Max(ToSet(closes)) - Min(ToSet(closes))})
      deep == (1000 * Max({0, worst})) \div run
      clear == (1000 * Max({0, -worst})) \div run
      third == Max({1, n \div 3})
      early == Max({1, Volume(SubSeq(bars, 1, third))})
      late == Volume(SubSeq(bars, n - third + 1, n))
  IN  [continuation |-> Clamp((6 * Clamp(Size(SlopePct(fit, last)) \div 2) + 4 * Clamp(fit.r2)) \div 10),
       structure |-> StructureScore([i \in DOMAIN bars |-> IF bullish THEN bars[i].high ELSE bars[i].low],
                                    bullish),
       hold |-> Clamp((1000 * Cardinality(side)) \div n - Min({400, worstBp})),
       pullback |-> IF deep > 600 THEN Clamp(1000 - deep) ELSE IF clear > 800 THEN 500
                    ELSE Clamp(1000 - Size(150 - deep)),
       volume |-> Clamp(500 + (500 * (late - early)) \div early),
       reclaim |-> IF Cardinality(side) = n THEN 1000
                   ELSE Clamp((IF n \in side THEN 500 ELSE 0)
                              + (3 * Clamp(1000 - 10 * worstBp)) \div 10
                              + (200 * Cardinality(side)) \div n)]

Overall(quality) ==
  LET w == QualityWeights
  IN  Clamp((w.continuation * quality.continuation + w.structure * quality.structure
             + w.hold * quality.hold + w.pullback * quality.pullback
             + w.volume * quality.volume + w.reclaim * quality.reclaim) \div 100)

VwapSide(lv, slope, bullish) ==
  IF bullish THEN lv.last > lv.vwap /\ slope >= 100 * VwapRule.minSlope
  ELSE lv.last < lv.vwap /\ slope <= -100 * VwapRule.minSlope

VwapSetup(ctx, lv, window, fit) ==
  {[strategy |-> "vwap_trend_continuation", bullish |-> b, level |-> Unread, mean |-> lv.vwap] :
    b \in {x \in BOOLEAN :
            /\ VwapSide(lv, SlopePct(fit, lv.last), x)
            /\ RegimeSupports(ctx.regime, x)
            /\ Overall(VwapQuality(window, lv.vwap, lv.last, x, fit)) >= VwapRule.minQuality}}
VwapSetupIn(ctx, window) ==
  IF \/ ctx.levels.last = Unread \/ ctx.levels.vwap = Unread
     \/ Len(window) < Max({6, VwapRule.lookback \div 2}) THEN {}
  ELSE VwapSetup(ctx, ctx.levels, window, Fit([i \in DOMAIN window |-> window[i].close]))
VwapTrendContinuation(ctx) == VwapSetupIn(ctx, Tail20(ctx.bars))

-----------------------------------------------------------------------------
(* Daily price action and trend continuation. *)

\* Wilder's index over fourteen changes, per 10; Unread on a short history.
Rsi(closes) ==
  LET n == Len(closes)
      up == SumOf([i \in 1 .. 14 |-> Max({0, closes[n - 14 + i] - closes[n - 15 + i]})])
      down == SumOf([i \in 1 .. 14 |-> Max({0, closes[n - 15 + i] - closes[n - 14 + i]})])
  IN  IF n < 15 THEN Unread
      ELSE IF down = 0 THEN IF up > 0 THEN 1000 ELSE 500
      ELSE (1000 * up) \div (up + down)

Strength(dist, mean) == Min({300, (6000 * Size(dist)) \div mean})
Momentum(rsi, up) ==
  IF up THEN (IF 500 <= rsi /\ rsi <= 700 THEN 200 ELSE IF rsi > 700 THEN 50 ELSE 0)
  ELSE (IF 300 <= rsi /\ rsi <= 500 THEN 200 ELSE IF 0 <= rsi /\ rsi < 300 THEN 50 ELSE 0)
\* up: the short mean is above the long one; dist: of the last close from it.
ActionOf(mean, up, dist, strength, momentum) ==
  CASE up /\ dist > 0 -> [dir |-> "bullish", mean |-> mean, score |-> Min({1000, 500 + strength + momentum})]
    [] ~up /\ dist < 0 -> [dir |-> "bearish", mean |-> mean, score |-> Min({1000, 500 + strength + momentum})]
    [] OTHER -> [dir |-> "neutral", mean |-> mean,
                 score |-> (4 * (IF up THEN 500 + strength + momentum ELSE strength)) \div 10]
ActionFrom(closes, mean, up) ==
  ActionOf(mean, up, Last(closes) - mean, Strength(Last(closes) - mean, mean), Momentum(Rsi(closes), up))
ActionAbout(closes, mean) == ActionFrom(closes, mean, mean > MeanOfLast(closes, 50))
PriceAction(closes) ==
  IF Len(closes) < 50 THEN [dir |-> "neutral", score |-> 0, mean |-> Unread]
  ELSE ActionAbout(closes, MeanOfLast(closes, 20))

Closes(candles) == [i \in DOMAIN candles |-> candles[i].close]

\* The session's VWAP, when it is established, must not contradict the trend.
TrendHolds(ctx, score, b) ==
  /\ ctx.daily # <<>> /\ score >= 550
  /\ AboveVwap(ctx.levels) # (IF b THEN "below" ELSE "above")
  /\ RegimeSupports(ctx.regime, b)

TrendSetup(ctx, pa) ==
  {[strategy |-> "trend_continuation", bullish |-> b, level |-> Unread, mean |-> pa.mean] :
    b \in {x \in BOOLEAN : pa.dir = (IF x THEN "bullish" ELSE "bearish") /\ TrendHolds(ctx, pa.score, x)}}
TrendContinuation(ctx) == TrendSetup(ctx, PriceAction(Closes(ctx.daily)))

-----------------------------------------------------------------------------
(* Catalyst continuation. *)

\* A headline published within 48 hours, or any scheduled catalyst.
HasCatalyst(ctx) ==
  \/ \E i \in DOMAIN ctx.news : /\ ctx.news[i].age # Unread
                                /\ ctx.news[i].age <= 48 * 60
  \/ ctx.catalysts # {}

\* A move of two percent over three sessions, on volume no lower than that of
\* the last twenty.
CatalystMove(candles, bullish) ==
  LET closes == Closes(candles)
      ref == closes[Len(closes) - 3]
      vols == [i \in DOMAIN candles |-> candles[i].vol]
  IN  /\ Len(closes) >= 4 /\ ref > 0
      /\ 50 * (IF bullish THEN Last(closes) - ref ELSE ref - Last(closes)) >= ref
      /\ Len(vols) >= 20 => 20 * SumOf(SubSeq(vols, Len(vols) - 2, Len(vols))) >= 3 * SumOf(Tail20(vols))

CatalystContinuation(ctx) ==
  {[strategy |-> "catalyst_continuation", bullish |-> b, level |-> Unread, mean |-> Unread] :
    b \in {x \in BOOLEAN : /\ HasCatalyst(ctx) /\ ctx.daily # <<>>
                           /\ CatalystMove(ctx.daily, x)
                           /\ RegimeSupports(ctx.regime, x)}}

\* default_strategies(): each scan runs its two detectors.
Detections(bucket, ctx) ==
  IF bucket = "0dte" THEN OpeningRangeBreakout(ctx) \cup VwapTrendContinuation(ctx)
  ELSE TrendContinuation(ctx) \cup CatalystContinuation(ctx)
=============================================================================
