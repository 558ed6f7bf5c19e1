---------------------------- MODULE SetupScoring ----------------------------
(***************************************************************************)
(* What a detected setup is worth: the components of its score and their   *)
(* weights (app/shortduration/scoring/), the inputs that were there to     *)
(* score it from (input_coverage.py, scoring/data_quality.py,              *)
(* freshness.py), the volatility context (app/engine/iv_context.py) and    *)
(* the gates that keep a setup out of the record (capture_gates.py).       *)
(*                                                                         *)
(* Scores are per 1000 and Missing when their input was; a volatility is   *)
(* per cent.  A quote is [px, prev, age, delayed, known]: age Unread for   *)
(* one without a timestamp.                                                *)
(***************************************************************************)
EXTENDS Setups, PlanRules

CONSTANT RealizedVol(_)  \* yearly volatility of 21 closes, per cent

NoQuote == [px |-> Missing, prev |-> Missing, age |-> Unread, delayed |-> 0, known |-> FALSE]
NoChain == [spot |-> Missing, list |-> <<>>]

\* x is on the setup's side of zero.
Aligned(x, bullish) == IF bullish THEN x > 0 ELSE x < 0

-----------------------------------------------------------------------------
(* Options flow, weighted by age. *)

DecayWeight(age) ==
  CASE age <= 120 -> 1000
    [] 120 < age /\ age <= 300 -> 800
    [] 300 < age /\ age <= 900 -> 500
    [] 900 < age /\ age <= 1800 -> 250
    [] OTHER -> 100

NoFlow == [decayed |-> Unknown, confidence |-> 0, opposing |-> FALSE, repeated |-> FALSE, prints |-> 0]

AnalyzeFlow(flow, bullish) ==
  LET said == SelectSeq(flow, LAMBDA f : f.sentiment # Unknown)
      weights == FoldLeft(LAMBDA sum, f : sum + DecayWeight(f.age), 0, said)
      decayed == IF said = <<>> THEN Unknown
                 ELSE Over(FoldLeft(LAMBDA sum, f : sum + f.sentiment * DecayWeight(f.age), 0, said), weights)
      freshest == Max({DecayWeight(flow[i].age) : i \in DOMAIN flow})
      opposing == \E i \in DOMAIN said : IF bullish THEN said[i].sentiment < -300 ELSE said[i].sentiment > 300
      strength == IF decayed = Unknown THEN 0 ELSE (Min({1000, Size(decayed)}) * freshest) \div 1000
  IN  IF flow = <<>> THEN NoFlow
      ELSE [decayed |-> decayed, opposing |-> opposing, prints |-> Len(flow),
            confidence |-> IF opposing THEN strength \div 2 ELSE strength,
            repeated |-> \E i, j \in DOMAIN flow : /\ i < j /\ flow[i].strike = flow[j].strike
                                                   /\ flow[i].strike # Unread]

-----------------------------------------------------------------------------
(* News.  An item is [age, received, source, story, hits, about, leans]:   *)
(* minutes since it was published (Unread if unsaid) and since it came in, *)
(* the story its headline tells, the words in it that matter, whom it is   *)
(* about ("symbol", "other", "none") and the side it leans to.             *)

NewsWeights == [authority |-> 20, novelty |-> 20, materiality |-> 25, relevance |-> 15,
                price |-> 10, volume |-> 5, flow |-> 5]

SourceAuthority(source) ==
  CASE source \in {"reuters", "bloomberg"} -> 1000
    [] source \in {"dow jones", "associated press", "the wall street journal"} -> 950
    [] source = "benzinga" -> 900
    [] source = "cnbc" -> 800
    [] source = "business wire" -> 700
    [] source \in {"globenewswire", "pr newswire"} -> 600
    [] source = "seeking alpha" -> 500
    [] source = "motley fool" -> 400
    [] OTHER -> 350

NewsScore(item, seen, change, relvol, flow) ==
  LET w == NewsWeights
      said == item.leans # "neutral"
      up == item.leans = "bullish"
      novelty == IF item.story \in seen THEN 150 ELSE 1000
      materiality == Min({1000, 300 + 350 * item.hits})
      relevance == CASE item.about = "symbol" -> 1000 [] item.about = "other" -> 600 [] OTHER -> 300
      price == IF said /\ change # Unknown /\ Aligned(change, up) THEN Min({1000, 5 * Size(change)}) ELSE 0
      volume == IF relvol = Unread THEN 0 ELSE Clamp(10 * (relvol - 100))
      tape == IF said /\ flow.decayed # Unknown /\ Aligned(flow.decayed, up) THEN flow.confidence ELSE 0
  IN  [leans |-> item.leans,
       total |-> (w.authority * SourceAuthority(item.source) + w.novelty * novelty
                  + w.materiality * materiality + w.relevance * relevance + w.price * price
                  + w.volume * volume + w.flow * tape) \div 100]

\* The published time orders the items, the time of receipt for want of one.
Since(item) == IF item.age # Unread THEN item.age ELSE item.received

\* {} without an item, else the first best of the newest first, each against
\* the headlines newer than it.
BestNews(items, change, relvol, flow) ==
  LET fresh == SortSeq(items, LAMBDA a, b : Since(a) < Since(b))
      score(i) == NewsScore(fresh[i], {fresh[j].story : j \in 1 .. (i - 1)} \ {"untold"}, change, relvol, flow)
      best == {i \in DOMAIN fresh : \A j \in DOMAIN fresh : score(j).total <= score(i).total}
  IN  IF items = <<>> THEN {} ELSE {score(Min(best))}

NewsTotal(news) == IF news = {} THEN 0 ELSE (CHOOSE n \in news : TRUE).total

-----------------------------------------------------------------------------
(* Volatility. *)

NoIv == [iv30 |-> Missing, rank |-> Missing, pct |-> Missing, source |-> "none", slope |-> Unknown]

IvRank(x, history) ==
  LET values == {history[i] : i \in DOMAIN history} \cap 1 .. 10000
  IN  CASE values = {} -> Missing
        [] values # {} /\ Cardinality(values) = 1 -> 500
        [] OTHER -> Clamp(((x - Min(values)) * 1000) \div (Max(values) - Min(values)))
IvPercentile(x, history) ==
  LET values == SelectSeq(history, LAMBDA v : v > 0)
  IN  IF values = <<>> THEN Missing ELSE (1000 * Len(SelectSeq(values, LAMBDA v : v <= x))) \div Len(values)

RealizedVolSeries(closes) == [i \in 1 .. Max({0, Len(closes) - 20}) |-> RealizedVol(SubSeq(closes, i, i + 20))]

\* An IV history of thirty days ranks the reading; without one, thirty days of
\* realised volatility rank the last of them.
RankedIn(current, x, values, source, slope) ==
  [iv30 |-> current, rank |-> IvRank(x, values), pct |-> IvPercentile(x, values), source |-> source, slope |-> slope]
IvContextOf(current, history, series, slope) ==
  CASE current # Missing /\ Len(history) >= 30 -> RankedIn(current, current, history, "iv_history", slope)
    [] ~(current # Missing /\ Len(history) >= 30) /\ Len(series) >= 30 ->
         RankedIn(current, Last(series), series, "hv_proxy", slope)
    [] OTHER -> [NoIv EXCEPT !.iv30 = current, !.slope = slope]
BuildIvContext(current, history, closes, slope) == IvContextOf(current, history, RealizedVolSeries(closes), slope)

-----------------------------------------------------------------------------
(* Components. *)

OnVwapSide(lv, bullish) == IF bullish THEN lv.last > lv.vwap ELSE lv.last < lv.vwap
BrokeRange(lv, bullish) == IF bullish THEN lv.last > lv.high ELSE lv.last < lv.low

PriceStructure(lv, bullish) ==
  LET asked == IF lv.high = Unread THEN <<OnVwapSide(lv, bullish)>>
               ELSE <<OnVwapSide(lv, bullish), BrokeRange(lv, bullish)>>
  IN  IF lv.last = Unread \/ lv.vwap = Unread THEN Missing
      ELSE (1000 * Len(SelectSeq(asked, LAMBDA yes : yes))) \div Len(asked)

\* The breadth the regime went by, proxy or not, leans the score.
MarketAlignment(regime, bullish) ==
  LET breadth == IF regime.internals # Unread THEN regime.internals ELSE regime.proxy
      base == IF breadth = Unread THEN 500 ELSE 300 + (600 * (IF bullish THEN breadth ELSE 1000 - breadth)) \div 1000
  IN  IF ~RegimeSupports(regime, bullish) THEN 100 ELSE IF regime.allow THEN base ELSE base \div 2

RelvolMomentum(lv, change, bullish) ==
  LET parts == (IF lv.relvol = Unread THEN <<>> ELSE <<Clamp(5 * (lv.relvol - 100))>>)
               \o (IF change = Unknown THEN <<>>
                   ELSE <<IF Aligned(change, bullish) THEN Min({1000, 5 * Size(change)}) ELSE 0>>)
  IN  IF parts = <<>> THEN Missing ELSE Mean(parts)

FlowQuality(flow, bullish) ==
  CASE flow.decayed = Unknown -> Missing
    [] flow.decayed # Unknown /\ Aligned(flow.decayed, bullish) ->
         Min({1000, flow.confidence + (IF flow.repeated THEN 100 ELSE 0)})
    [] OTHER -> Max({0, 200 - flow.confidence})

\* The strike nearest the money of the nearest expiry listed, today or not.
NearAtm(chain, bullish) ==
  LET side == {i \in Listed(chain) : chain.list[i].call = bullish}
      ranked == IF side = {} THEN Listed(chain) ELSE side
      front == Min({chain.list[i].dte : i \in ranked})
      near == {i \in ranked : chain.list[i].dte = front}
  IN  chain.list[Nearest(near, [i \in near |-> Abs(chain.list[i].k - chain.spot)])]

\* Scored whether it would pass the gate or not; no spread, no part of it.
LiquidityOf(c) ==
  IF Quoted(c) /\ Mid(c) > 0 THEN LiquidityScore(c, CoreLiq) \div 10
  ELSE (30 * Least(1000, (c.oi * 125) \div CoreLiq.oi) + 20 * Least(1000, (c.volume * 125) \div CoreLiq.volume)) \div 100
ContractLiquidity(chain, bullish) ==
  IF Listed(chain) = {} THEN Missing ELSE LiquidityOf(NearAtm(chain, bullish))

VolatilityOfLevel(level) ==
  IF level < 200 THEN 500 + level ELSE IF level <= 500 THEN 1000 ELSE Max({200, 1500 - level})
\* A falling term structure costs a share of it, and so does a proxy.
Discounted(score, yes) == IF yes THEN (85 * score) \div 100 ELSE score
VolatilitySuitability(iv) ==
  LET reads == SelectSeq(<<iv.rank, iv.pct>>, LAMBDA x : x # Missing)
  IN  IF reads = <<>> THEN Missing
      ELSE Discounted(Discounted(VolatilityOfLevel(Mean(reads)), iv.slope # Unknown /\ iv.slope < -100),
                      iv.source = "hv_proxy")

CatalystNews(news, catalysts) ==
  Min({1000, Max({300, NewsTotal(news)}) + (IF catalysts = {} THEN 0 ELSE 200)})

TrendScore(pa, bullish) ==
  IF pa.dir = (IF bullish THEN "bullish" ELSE "bearish") THEN pa.score ELSE Max({0, 300 - pa.score})
DailyTrend(daily, bullish) ==
  IF Len(daily) < 50 THEN Missing ELSE TrendScore(PriceAction(Closes(daily)), bullish)

\* A tape without a print is worth something too, and is never Missing.
MultiSessionFlow(flow) ==
  LET some == Min({1000, 300 + 100 * flow.prints + (IF flow.repeated THEN 200 ELSE 0)})
  IN  IF flow.opposing THEN (6 * some) \div 10 ELSE some

\* Of a sized plan, its reward to its risk; without one, how far it is to VWAP.
RiskReward(lv, plan) ==
  CASE plan # NoPlan /\ plan.maxProfit = Missing -> 650
    [] plan # NoPlan /\ plan.maxProfit # Missing -> Min({1000, (500 * plan.maxProfit) \div plan.maxLoss})
    [] OTHER -> IF lv.last = Unread \/ lv.vwap = Unread THEN 400
                ELSE Min({800, 400 + (Size(lv.last - lv.vwap) * 10000) \div lv.last})

TechnicalEntry(lv, bullish) ==
  CASE AboveVwap(lv) = "none" -> 400
    [] AboveVwap(lv) = (IF bullish THEN "above" ELSE "below") -> 700
    [] OTHER -> 300

Components(ctx, bullish, chain, iv, news, flow, plan) ==
  [price_structure |-> PriceStructure(ctx.levels, bullish),
   market_alignment |-> MarketAlignment(ctx.regime, bullish),
   relvol_momentum |-> RelvolMomentum(ctx.levels, ctx.change, bullish),
   flow_quality |-> FlowQuality(flow, bullish),
   contract_liquidity |-> ContractLiquidity(chain, bullish),
   volatility |-> VolatilitySuitability(iv),
   catalyst_news |-> CatalystNews(news, ctx.catalysts),
   risk_reward |-> RiskReward(ctx.levels, plan),
   daily_trend |-> DailyTrend(ctx.daily, bullish),
   multi_session_flow |-> MultiSessionFlow(flow),
   technical_entry |-> TechnicalEntry(ctx.levels, bullish)]

-----------------------------------------------------------------------------
(* The inputs. *)

\* A quote without a timestamp is not fresh.
FreshQuote(quote) == quote.age # Unread /\ quote.delayed = 0 /\ quote.age <= 120

Share(checks) == (1000 * Cardinality({f \in DOMAIN checks : checks[f]})) \div Cardinality(DOMAIN checks)

CommonInputs(ctx, chain) ==
  [bars |-> ctx.bars # <<>>, vwap |-> ctx.levels.vwap # Unread, quote |-> FreshQuote(ctx.quote),
   contracts |-> chain.list # <<>>]
OwnInputs(bucket, ctx) ==
  IF bucket = "0dte" THEN [range |-> ctx.levels.high # Unread, flow |-> ctx.flow # <<>>]
  ELSE [daily |-> Len(ctx.daily) >= 50]

DataQuality(bucket, ctx, chain, iv) ==
  Share(CommonInputs(ctx, chain) @@ OwnInputs(bucket, ctx) @@ [rank |-> iv.rank # Missing])

\* The inputs the coverage monitor requires of a track; news and the calendar
\* are looked at and never counted.
RequiredInputs(bucket, ctx, chain, iv) ==
  CommonInputs(ctx, chain) @@ OwnInputs(bucket, ctx)
  @@ [iv30 |-> iv.iv30 # Missing, rank |-> iv.rank # Missing \/ iv.pct # Missing]

\* The fields fewer than half of the symbols of a scan had.
DegradedFields(checks) ==
  LET symbols == DOMAIN checks
      fields == UNION {DOMAIN checks[s] : s \in symbols}
  IN  {f \in fields : 1000 * Cardinality({s \in symbols : checks[s][f]}) < Coverage.alert * Cardinality(symbols)}

UseCase(state) ==
  CASE state = "WATCHLIST" -> "watchlist"
    [] state \in {"ARMED", "TRIGGERED", "PROPOSED", "APPROVED"} -> "armed"
    [] state \in {"OPEN", "MANAGING"} -> "open"
    [] OTHER -> "broad"

\* The budget of a use; only 0DTE is held to the seconds of the trade-ready.
QuoteBudget(use, bucket) ==
  FreshFor[IF bucket # "0dte" /\ use \in {"armed", "open"} THEN "watchlist" ELSE use].underlying

QuoteFresh(quote, state, bucket) ==
  /\ quote.age # Unread /\ quote.delayed = 0 /\ quote.known
  /\ quote.age <= QuoteBudget(UseCase(state), bucket)

-----------------------------------------------------------------------------
(* The gates before scoring.  Days are counted from today. *)

Horizon(bucket) == IF bucket = "0dte" THEN 1 ELSE MaxDte

\* The nearest expiry listed, the end of the horizon when none is.
FrontExpiration(chain, bucket) ==
  LET listed == {chain.list[i].dte : i \in Listed(chain)} \cap 0 .. 1000
  IN  IF listed = {} THEN Horizon(bucket) ELSE Min(listed)

CaptureReject(bucket, earnings, front) ==
  CASE bucket \in Capture.suspended -> {"bucket_suspended"}
    [] /\ bucket \notin Capture.suspended
       /\ Capture.earningsGate /\ earnings # Missing /\ earnings <= front -> {"earnings_gate"}
    [] OTHER -> {}

-----------------------------------------------------------------------------
(* The score. *)

\* A component without its input counts low; one that was measured at nothing
\* counts less.
Raw(x) == IF x = Missing THEN 250 ELSE x

Abstains(checks) == Share(checks) < Coverage.abstain

CardOf(parts, w, quality, checks) ==
  LET score == MapThenSumSet(LAMBDA key : Raw(parts[key]) * w[key], DOMAIN w) \div 100
  IN  [score |-> score, quality |-> quality, confidence |-> (score * (6000 + 4 * quality)) \div 10000,
       pop |-> parts.volatility # Missing, abstained |-> Abstains(checks), checks |-> checks]
ScoreCandidate(bucket, ctx, bullish, chain, iv, news, flow, plan) ==
  CardOf(Components(ctx, bullish, chain, iv, news, flow, plan), Weights(bucket),
         DataQuality(bucket, ctx, chain, iv), RequiredInputs(bucket, ctx, chain, iv))
=============================================================================
