------------------------------ MODULE ScanDay ------------------------------
(***************************************************************************)
(* A day of short-duration scans (app/shortduration/detection.py): the     *)
(* regime, a context for every symbol of the universe, a score for those   *)
(* with a setup, and the rows that are filed.  Any feed may fail and come  *)
(* back between the steps of a scan; the service's own reads of levels     *)
(* (service.py) share its volume profiles.                                 *)
(*                                                                         *)
(* A world is what the feeds would answer: [tape, history, candles, quote, *)
(* flow, news, catalysts, earnings, events, internals, vol, iv, book,      *)
(* risk], most of it by symbol.                                            *)
(***************************************************************************)
EXTENDS ThesisPlan, EntryGates

CONSTANTS Worlds,       \* the worlds a run looks at
          Chains,       \* the chain listed at a price, on a day
          Universe,     \* the symbols of each scan, in order
          Moments,      \* the readings of the clock, in order
          Looks,        \* the symbols whose levels are read beside the scans
          Fragile,      \* the feeds that may fail
          MaxOutages,   \* how often one does
          MaxScans,     \* how many scans are started
          Axis          \* the price two mirrored tapes are mirrored about

VARIABLES world, clock, up, outages, scans,
          cache,   \* the volume profile of each symbol
          scan,    \* the scan under way
          filed,   \* the rows of the last one, in the order they were saved
          picks,   \* the rows it committed to
          report   \* the last coverage report of each track
vars == <<world, clock, up, outages, scans, cache, scan, filed, picks, report>>

Feeds == {"intraday", "history", "quote", "daily", "flow", "sectors", "events", "iv", "ivhistory",
          "chain", "catalysts", "news", "earnings", "account"}
Tracks == DOMAIN Universe
Symbols == Majors \cup UNION {ToSet(Universe[b]) : b \in Tracks}

\* The days before today with a bar of their regular hours.
SessionDays(history, today) == {b.day : b \in {x \in ToSet(history) : SessionBar(x) /\ x.day < today}}

IsChart(bars) == bars \in Seq(ToSet(bars)) /\ \A b \in ToSet(bars) : b.day \in Int /\ b.min \in Int

ASSUME MomentsAssumption == Moments \in Seq([day : Int, min : Int]) \ {<<>>}
\* Feeds answer with bars in the order of time, one for each minute; and where
\* a history reaches back beyond the days a profile asks for, those days have
\* as many sessions as it wants.
ASSUME FeedsAssumption ==
  \A w \in Worlds : \A s \in Symbols :
    /\ IsChart(w.tape[s]) /\ IsChart(w.history[s])
    /\ \A i, j \in DOMAIN w.tape[s] : i < j => Before(w.tape[s][i], w.tape[s][j])
    /\ \A k \in DOMAIN Moments :
         LET sessions == SessionDays(w.history[s], Moments[k].day)
             asked == {d \in sessions : d >= Moments[k].day - Lookback}
         IN  asked # sessions => Cardinality(asked) >= Profile.sessions

Now == Moments[clock]
NoScan == [phase |-> "idle"]
NoReport == [at |-> NoEntry.at, degraded |-> {}]

Init ==
  /\ world \in Worlds
  /\ clock = 1 /\ up = Feeds /\ outages = 0 /\ scans = 0
  /\ cache = [s \in Symbols |-> NoEntry]
  /\ scan = NoScan /\ filed = <<>> /\ picks = {}
  /\ report = [b \in Tracks |-> NoReport]

-----------------------------------------------------------------------------
(* What the feeds answer. *)

Answer(feed, value, nothing) == IF feed \in up THEN value ELSE nothing

\* The feed's own idea of recent, and the session that was asked for.
LatestBars(s) ==
  Among(world.tape[s], {b \in ToSet(world.tape[s]) : ~Before(Now, b) /\ b.day >= Now.day - 1})
SessionTape(s) == Among(LatestBars(s), {b \in ToSet(LatestBars(s)) : b.day = Now.day})

QuoteOf(s) ==
  LET q == world.quote[s]
  IN  [px |-> IF LatestBars(s) = <<>> THEN q.prev[Now.day] ELSE Last(LatestBars(s)).close,
       prev |-> q.prev[Now.day], age |-> q.age, delayed |-> q.delayed, known |-> q.known]

ListingOf(s, days) ==
  [spot |-> QuoteOf(s).px, list |-> SelectSeq(Chains[QuoteOf(s).px, Now.day], LAMBDA c : c.dte \in days)]

\* The paper book: the base and what was realised, what is still at risk; the
\* configured equity when it cannot be read.
AccountState ==
  LET open == {t \in world.book : t.open}
  IN  IF "account" \notin up THEN [equity |-> CorePolicy.equity, committed |-> 0]
      ELSE [equity |-> CorePolicy.equity + MapThenSumSet(LAMBDA t : t.pnl, world.book \ open),
            committed |-> MapThenSumSet(LAMBDA t : t.loss, open)]

\* Every read of relative volume may build the profile of its symbol anew.
ProfileAfter(s) == ProfileEntry(cache[s], world.history[s], Now, "history" \in up)
ReadingOf(s, bars, average) ==
  RelativeVolumeNow(ProfileRead(ProfileAfter(s), Now, "history" \in up), RthBars(bars), average)

-----------------------------------------------------------------------------
(* The regime. *)

Swept(s) ==
  SymbolLevels(LatestBars(s), QuoteOf(s), Tail20(world.candles[s]),
               ProfileRead(ProfileAfter(s), Now, "history" \in up), Now, up)

RegimeOfSweep(swept) ==
  LET read == {s \in DOMAIN swept : swept[s].levels # NoLevels}
  IN  ComputeRegime([s \in DOMAIN swept |-> swept[s].change], [s \in DOMAIN swept |-> swept[s].levels],
                    Participation([s \in read |-> swept[s].levels]).aboveVwap,
                    MarketInternals(world.internals, up), Answer("iv", world.vol, Unread),
                    NextEvent(world.events, Now, up), Now)
BuildMarketRegime(symbols) == RegimeOfSweep([s \in symbols |-> Swept(s)])

\* A sweep that has no bars or no quote asks for no profile.
CacheAfterSweep(symbols) ==
  [s \in Symbols |-> IF s \in symbols /\ {"intraday", "quote"} \subseteq up THEN ProfileAfter(s) ELSE cache[s]]

-----------------------------------------------------------------------------
(* The context of one symbol. *)

ContextOf(s, days, regime, bars, quote, daily) ==
  [symbol |-> s, now |-> Now, regime |-> regime, bars |-> bars, quote |-> quote, daily |-> daily,
   change |-> IF quote = NoQuote THEN Unknown ELSE ChangePct(quote),
   levels |-> LevelsOf(bars, ReadingOf(s, bars, AverageVolume(daily)), Now),
   flow |-> Answer("flow", world.flow[s], <<>>),
   catalysts |-> IF days THEN Answer("catalysts", world.catalysts[s], {}) ELSE {},
   news |-> IF days THEN Answer("news", world.news[s], <<>>) ELSE <<>>,
   earnings |-> IF "earnings" \in up /\ world.earnings[s] # Missing THEN world.earnings[s] - Now.day ELSE Missing]
BuildContext(bucket, s, regime) ==
  ContextOf(s, bucket # "0dte", regime, Answer("intraday", SessionTape(s), <<>>), Answer("quote", QuoteOf(s), NoQuote),
            IF bucket # "0dte" THEN Answer("daily", world.candles[s], <<>>) ELSE <<>>)

-----------------------------------------------------------------------------
(* The rows of one symbol. *)

TargetDays(bucket, dets) ==
  (IF bucket = "0dte" THEN 0 .. 1 ELSE 1 .. MaxDte)
  \cup (IF \E d \in dets : IsSwing(d.strategy) THEN Swing.minDte .. Swing.maxDte ELSE {})

Plans(bucket, ctx, det, chain, distance, iv, account) ==
  LET swing == IsSwing(det.strategy) /\ ~ShortHorizonViable(distance, iv.iv30)
  IN  IF chain = NoChain THEN {}
      ELSE ShortExpressions(chain, det.bullish, IF swing THEN "swing" ELSE bucket,
                            Max({0, DominantFlowStrike(ctx.flow, det.bullish)}),
                            ShortPolicy(bucket = "0dte", account.equity, FALSE), account.committed)

Gates(bucket, ctx, det, account) ==
  EvaluateEntryGates(bucket, ctx.symbol, IF det.bullish THEN "bullish" ELSE "bearish",
                     IF ctx.regime.allow THEN "open" ELSE "blocked",
                     ~QuoteFresh(ctx.quote, IF bucket = "0dte" THEN "ARMED" ELSE "WATCHLIST", bucket),
                     world.risk, account.equity,
                     [day |-> Now.day, kind |-> Calendar[Now.day], minute |-> 570 + ctx.now.min])

Row(bucket, ctx, det, chain, spot, card, thesis, gates, plan) ==
  [symbol |-> ctx.symbol, strategy |-> det.strategy, bullish |-> det.bullish, at |-> ctx.now,
   earnings |-> ctx.earnings, plan |-> plan, score |-> card.score, confidence |-> card.confidence,
   checks |-> card.checks, pop |-> card.pop,
   odds |-> CandidateOdds(plan, det.bullish, spot, TradedExpiryIv(chain, plan, spot)),
   drag |-> CostDrag(plan, chain), thesis |-> thesis,
   exit |-> ShortExitPlan(bucket, det, ctx.levels, plan),
   allowed |-> gates = {}, rejects |-> gates,
   scan |-> bucket, board |-> BoardFor(bucket, plan), state |-> FiledState(bucket, card, plan # NoPlan)]

\* One row for every contract, or one without a contract.
RowsOfPlans(bucket, ctx, det, chain, iv, news, flow, thesis, plans, gates) ==
  {Row(bucket, ctx, det, chain, IF chain # NoChain THEN chain.spot ELSE ctx.quote.px,
       ScoreCandidate(bucket, ctx, det.bullish, chain, iv, news, flow, plan), thesis, gates, plan) :
     plan \in IF plans = {} THEN {NoPlan} ELSE plans}
RowsOfThesis(bucket, ctx, det, chain, iv, news, flow, thesis, account) ==
  RowsOfPlans(bucket, ctx, det, chain, iv, news, flow, thesis,
              Plans(bucket, ctx, det, chain, thesis.distance, iv, account), Gates(bucket, ctx, det, account))
RowsOfNews(bucket, ctx, det, chain, iv, news, flow, account) ==
  RowsOfThesis(bucket, ctx, det, chain, iv, news, flow, Thesis(bucket, ctx, det, news), account)
RowsOfFlow(bucket, ctx, det, chain, iv, flow, account) ==
  RowsOfNews(bucket, ctx, det, chain, iv, BestNews(ctx.news, ctx.change, ctx.levels.relvol, flow), flow, account)
RowsOfSetup(bucket, ctx, det, chain, iv, account) ==
  IF CaptureReject(bucket, ctx.earnings, FrontExpiration(chain, bucket)) # {} THEN {}
  ELSE RowsOfFlow(bucket, ctx, det, chain, iv, AnalyzeFlow(ctx.flow, det.bullish), account)

\* The rank of the volatility comes from its own history, or from the closes.
VolatilityOf(ctx) ==
  LET iv == world.iv[ctx.symbol]
  IN  BuildIvContext(Answer("iv", iv.iv30, Missing), Answer("ivhistory", iv.history, <<>>),
                     Closes(ctx.daily), Answer("iv", iv.slope, Unknown))

ScoreWith(bucket, ctx, dets, chain, iv, account) ==
  [checks |-> RequiredInputs(bucket, ctx, chain, iv),
   rows |-> UNION {RowsOfSetup(bucket, ctx, det, chain, iv, account) : det \in dets}]
ScoreSetups(bucket, ctx, dets, account) ==
  ScoreWith(bucket, ctx, dets, Answer("chain", ListingOf(ctx.symbol, TargetDays(bucket, dets)), NoChain),
            VolatilityOf(ctx), account)

-----------------------------------------------------------------------------
(* The scan. *)

Scanning == scan.phase = "detect"

\* run_detection() up to the sweep: the regime and one reading of the account.
StartScan(bucket) ==
  LET symbols == Majors \cup ToSet(Universe[bucket])
  IN  /\ ~Scanning /\ scans < MaxScans
      /\ scans' = scans + 1
      /\ cache' = CacheAfterSweep(symbols)
      /\ scan' = [phase |-> "detect", bucket |-> bucket, regime |-> BuildMarketRegime(symbols),
                  account |-> AccountState, todo |-> ToSet(Universe[bucket]), found |-> <<>>,
                  scored |-> <<>>]
      /\ UNCHANGED <<world, clock, up, outages, filed, picks, report>>

\* Mutant: a symbol whose bars do not come is tried again, not done without.
MayDetectRetry(s) == Scanning /\ s \in scan.todo /\ "intraday" \in up
MayDetect(s) == Scanning /\ s \in scan.todo

\* A symbol without a setup is forgotten.
WithSetups(s, ctx, dets) == IF dets = {} THEN <<>> ELSE s :> [ctx |-> ctx, dets |-> dets]
Found(s, ctx) == WithSetups(s, ctx, Detections(scan.bucket, ctx))
DetectSymbol(s) ==
  /\ MayDetect(s)
  /\ scan' = [scan EXCEPT !.todo = @ \ {s},
                          !.found = @ @@ Found(s, BuildContext(scan.bucket, s, scan.regime))]
  /\ cache' = [cache EXCEPT ![s] = ProfileAfter(s)]
  /\ UNCHANGED <<world, clock, up, outages, scans, filed, picks, report>>

\* Scoring waits for the detection of every symbol.
ScoreSymbol(s) ==
  /\ Scanning /\ scan.todo = {} /\ s \in DOMAIN scan.found \ DOMAIN scan.scored
  /\ scan' = [scan EXCEPT !.scored = @ @@ (s :> ScoreSetups(scan.bucket, scan.found[s].ctx, scan.found[s].dets,
                                                           scan.account))]
  /\ UNCHANGED <<world, clock, up, outages, scans, cache, filed, picks, report>>

\* The rows in the order of the universe, ranked board by board.
InOrder(scored, order) ==
  FoldLeft(LAMBDA rows, s : rows \o (IF s \in DOMAIN scored THEN SetToSeq(scored[s].rows) ELSE <<>>), <<>>, order)
RankedBoard(rows, board) ==
  LET own == SelectSeq([i \in DOMAIN rows |-> i], LAMBDA i : rows[i].board = board)
      order == SortSeq(own, LAMBDA i, j : \/ RanksBefore(rows[i], rows[j])
                                          \/ ~RanksBefore(rows[j], rows[i]) /\ i < j)
  IN  [k \in DOMAIN order |-> rows[order[k]]]

\* Only the symbols that were scored report; a scan without one reports nothing.
File(rows, checks) ==
  /\ filed' = rows
  /\ picks' = UNION {MarkPicks(RankedBoard(rows, board)) : board \in {rows[i].board : i \in DOMAIN rows}}
  /\ report' = IF DOMAIN checks = {} THEN report
               ELSE [report EXCEPT ![scan.bucket] = [at |-> Now, degraded |-> DegradedFields(checks)]]
  /\ scan' = NoScan
  /\ UNCHANGED <<world, clock, up, outages, scans, cache>>
FileRows ==
  /\ Scanning /\ scan.todo = {} /\ DOMAIN scan.scored = DOMAIN scan.found
  /\ File(InOrder(scan.scored, Universe[scan.bucket]), [s \in DOMAIN scan.scored |-> scan.scored[s].checks])

-----------------------------------------------------------------------------
(* Beside the scan. *)

\* get_symbol_levels() and the regime page.
ReadLevels(symbols) ==
  /\ ~Scanning
  /\ cache' = CacheAfterSweep(symbols)
  /\ UNCHANGED <<world, clock, up, outages, scans, scan, filed, picks, report>>

FeedFails(f) ==
  /\ outages < MaxOutages /\ up = Feeds
  /\ up' = Feeds \ {f} /\ outages' = outages + 1
  /\ UNCHANGED <<world, clock, scans, cache, scan, filed, picks, report>>
FeedRecovers ==
  /\ up # Feeds /\ up' = Feeds
  /\ UNCHANGED <<world, clock, outages, scans, cache, scan, filed, picks, report>>

Tick ==
  /\ ~Scanning /\ clock < Len(Moments) /\ clock' = clock + 1
  /\ UNCHANGED <<world, up, outages, scans, cache, scan, filed, picks, report>>

Next ==
  \/ \E bucket \in Tracks : StartScan(bucket)
  \/ \E s \in Symbols : DetectSymbol(s)
  \/ \E s \in Symbols : ScoreSymbol(s)
  \/ FileRows
  \/ \E symbols \in Looks : ReadLevels(symbols)
  \/ \E f \in Fragile : FeedFails(f)
  \/ FeedRecovers
  \/ Tick

\* A scan that was started goes on whatever the feeds do; nothing says that a
\* feed comes back.  This is weak fairness of ScanStep, with the condition
\* that enables it written out.
ScanStep == FileRows \/ \E s \in Symbols : DetectSymbol(s) \/ ScoreSymbol(s)
CanStep == Scanning /\ (scan.todo = {} \/ \E s \in Symbols : MayDetect(s))

Spec == Init /\ [][Next]_vars /\ ([]<>~CanStep \/ []<><<ScanStep>>_vars)

-----------------------------------------------------------------------------
(* What a day of scans must not get wrong. *)

\* The volume a symbol is measured against is that of its last twenty sessions
\* before today.  A profile that outlives midnight in the cache lacks one, and
\* one with a bar of today in it compares today with itself
\* (volume_profile.py:106-164 and 196-204).
ProfileOfToday ==
  \A s \in Symbols :
    LET sessions == SessionDays(world.history[s], Now.day)
    IN  CacheHit(cache[s], Now) =>
          cache[s].profile.days = {d \in sessions : Cardinality({e \in sessions : e > d}) < 20}

\* The service sweeps whatever the feed calls recent, the detectors ask for
\* today: once the regular hours of today have traded, the regime and the setups go by the same
\* prices of the same session (service.py:38-68, levels.py:91-153).
SweepAgrees ==
  ~Scanning => \A s \in Majors :
    LET swept == Swept(s).levels
        own == LevelsOf(SessionTape(s), ReadingOf(s, SessionTape(s), Unread), Now)
    IN  swept # NoLevels /\ RthBars(SessionTape(s)) # <<>> =>
          <<swept.day, swept.last, swept.vwap, swept.high, swept.low>>
            = <<own.day, own.last, own.vwap, own.high, own.low>>

\* Each detector spells out a side for calls and a side for puts.  In a market
\* that favours neither, two symbols whose tapes mirror one another about
\* Axis have setups that mirror one another (strategies/).
Mirrored ==
  LET flipped(bars) == [i \in DOMAIN bars |-> [bars[i] EXCEPT !.high = 2 * Axis - bars[i].low,
                                                           !.low = 2 * Axis - bars[i].high,
                                                           !.close = 2 * Axis - bars[i].close]]
      twins(s, t) == world.tape[t] = flipped(world.tape[s])
      sides(s) == {<<d.strategy, d.bullish>> : d \in Detections(scan.bucket, BuildContext(scan.bucket, s, scan.regime))}
  IN  Scanning /\ scan.todo = ToSet(Universe[scan.bucket]) /\ scan.regime.regime \notin {"bull_trend", "bear_trend"} =>
        \A s, t \in ToSet(Universe[scan.bucket]) :
          s # t /\ twins(s, t) => sides(t) = {<<x[1], ~x[2]>> : x \in sides(s)}

\* A scan that was started ends, although a feed went down and stays down
\* (detection.py:102-167: each fetch has a default, and 572-582).
ScanCompletes == Scanning ~> ~Scanning

=============================================================================
