----------------------------- MODULE Scorecard -----------------------------
(***************************************************************************)
(* The scorecard over warehoused decisions and their outcomes              *)
(* (app/analytics/calibration.py, metrics.py) and the conviction gate that *)
(* reads it (app/shortduration/conviction_gate.py).                        *)
(*                                                                         *)
(* A snapshot is [id, live, version, bucket, dte, pop, score, flow, rank]: *)
(* probability, score and flow quality are per cent, Missing when it has   *)
(* none.  An outcome is [id, src, day, at, elapsed, conf, result, pnl], in *)
(* whole dollars; one of the underlying proxy carries no dollars.          *)
(***************************************************************************)
EXTENDS Integers, Sequences, SequencesExt, FiniteSetsExt

CONSTANTS
  ObservationOnly,   \* settings.capture_observation_only_buckets
  MinDecisive,       \* the gate's sample of decisive outcomes, 30
  MinPerRegime,      \* its sample per volatility regime, 10
  BrierMax,          \* settings.calibration_brier_max, in units of 10^-4
  SpearmanMin,       \* settings.calibration_spearman_min, per cent
  SpearmanMinN,      \* settings.calibration_spearman_min_n
  FlowMinN,          \* the 10 priced outcomes of the flow verdict
  Bootstrap(_)       \* does the bootstrap interval of these pairs exclude 0

Missing == -1

MinVersion == 3

(* A short-duration decision scored before version 3; funnel decisions     *)
(* carry no version (0).                                                   *)
Degraded(s) == s.version \in 1 .. MinVersion - 1
Eligible(snaps) == {s \in snaps : ~Degraded(s)}
Calibrated(snaps) == {s \in snaps : s.bucket \notin ObservationOnly}

(* gradeable_outcomes(): a grade of unknown confidence is dropped, a grade *)
(* from before confidence was measured ("") is kept.                       *)
IsGradeable(o) == o.conf \notin {"low", "unknown"}

Fidelity ==
  [ live_close |-> 3, paper_trade |-> 3, expiry_settlement |-> 3, managed_policy |-> 3,
    option_marks |-> 2, option_marks_bs_fallback |-> 2, underlying_vs_breakeven |-> 1 ]
FidelityOf(o) == IF o.src \in DOMAIN Fidelity THEN Fidelity[o.src] ELSE 0

HasDollars(o) == o.src # "underlying_vs_breakeven"

(* S in the order of Before, a strict total order of S.                    *)
Sorted(S, Before(_, _)) ==
  [i \in 1 .. Cardinality(S) |-> CHOOSE x \in S : Cardinality({y \in S : Before(y, x)}) = i - 1]

(* One outcome per decision, of those that count: the list is read from    *)
(* its first element, and an outcome takes the place of the current one    *)
(* when Replaces says so.  Replaces orders the outcomes, so the one left   *)
(* in the end replaces every earlier one, and no later one replaces it.    *)
Counted(outs, Counts(_), id) == {i \in DOMAIN outs : outs[i].id = id /\ Counts(outs[i])}
Stays(outs, Replaces(_, _), i, k) ==
  \/ k < i /\ Replaces(outs[k], outs[i])
  \/ k > i /\ ~Replaces(outs[i], outs[k])
Selected(outs, Counts(_), Replaces(_, _)) ==
  LET winner(I) == CHOOSE i \in I : \A k \in I \ {i} : Stays(outs, Replaces, i, k)
  IN  [id \in {outs[i].id : i \in {k \in DOMAIN outs : Counts(outs[k])}} |->
         outs[winner(Counted(outs, Counts, id))]]

\* Mutant: the newer of two grades is the better one.
NewerAsGood(cur, o) == FALSE
AsGood(cur, o) ==
  \/ FidelityOf(o) > FidelityOf(cur)
  \/ FidelityOf(o) = FidelityOf(cur) /\ o.elapsed >= cur.elapsed
SelectScoring(outs) == Selected(outs, IsGradeable, AsGood)

IsManaged(o) == o.src = "managed_policy"
\* Mutant: the dollars are picked as the win rate's grade is.
PnlByFidelity(cur, o) == AsGood(cur, o)
PnlReplaces(cur, o) ==
  \/ IsManaged(o) /\ ~IsManaged(cur)
  \/ IsManaged(o) = IsManaged(cur) /\ AsGood(cur, o)
CountsPnl(o) == IsGradeable(o) /\ HasDollars(o)
SelectPnl(outs) == Selected(outs, CountsPnl, PnlReplaces)

-----------------------------------------------------------------------------
(* Bands. *)

Horizon(dte) ==
  CASE dte = Missing -> "unknown" [] dte \in 0 .. 1 -> "0DTE" [] dte \in 2 .. 5 -> "1-5DTE"
    [] dte \in 6 .. 55 -> "swing" [] OTHER -> "longer"

FlowBand(q) == CASE q < 60 -> "weak" [] q \in 60 .. 74 -> "moderate" [] OTHER -> "strong"

(* iv_rank comes as a fraction or as a percentage: a value up to 1.00 is   *)
(* read as a fraction.  Here in hundredths: 0.80 and 80 are 80 and 8000.   *)
VolRegime(rank) ==
  LET r == IF rank <= 100 THEN rank ELSE rank \div 100
  IN  CASE r < 25 -> "cheap" [] r \in 25 .. 49 -> "fair" [] r \in 50 .. 70 -> "rich" [] OTHER -> "extreme"

(* _bucket() and _grouped(): how many, how many decisive, how many won.    *)
Tally(pairs) ==
  LET decisive == {p \in pairs : p.out.result \in {"win", "loss"}}
  IN  [n |-> Cardinality(pairs), decisive |-> Cardinality(decisive),
       wins |-> Cardinality({p \in decisive : p.out.result = "win"})]
Grouped(pairs, Key(_)) ==
  [k \in {Key(p.snap) : p \in pairs} |-> Tally({p \in pairs : Key(p.snap) = k})]

PopEdges == {<<0, 30>>, <<30, 50>>, <<50, 70>>, <<70, 101>>}
ScoreEdges == {<<0, 50>>, <<50, 65>>, <<65, 80>>, <<80, 101>>}
Buckets(pairs, edges, Key(_)) ==
  [e \in edges |-> Tally({p \in pairs : e[1] <= Key(p.snap) /\ Key(p.snap) < e[2]})]
PopBuckets(pairs) == Buckets({p \in pairs : p.snap.pop # Missing}, PopEdges, LAMBDA s : s.pop)
(* A live trade has no engine score: its score field is a placeholder 0.   *)
ScoreBuckets(pairs) == Buckets({p \in pairs : ~p.snap.live}, ScoreEdges, LAMBDA s : s.score)

-----------------------------------------------------------------------------
(* Statistics. *)

MaxDrawdown(pnls) ==
  LET step(acc, p) == LET cum == acc.cum + p
                          peak == IF cum > acc.peak THEN cum ELSE acc.peak
                      IN  [cum |-> cum, peak |-> peak,
                           mdd |-> IF peak - cum > acc.mdd THEN peak - cum ELSE acc.mdd]
  IN  FoldLeft(step, [cum |-> 0, peak |-> 0, mdd |-> 0], pnls).mdd

(* spearman(): the sign of the rank correlation and whether it reaches     *)
(* need per cent.  Ranks are twice the mean rank of a tie block, centred;  *)
(* undefined below three pairs or without variance.                        *)
Ranks(x) ==
  LET pairs == DOMAIN x
  IN  [p \in pairs |-> 2 * Cardinality({q \in pairs : x[q] < x[p]})
                       + Cardinality({q \in pairs : x[q] = x[p]}) - Cardinality(pairs)]
Correlation(x, y) ==
  LET pairs == DOMAIN x
      rx == Ranks(x)
      ry == Ranks(y)
      cov == MapThenSumSet(LAMBDA p : rx[p] * ry[p], pairs)
      vx == MapThenSumSet(LAMBDA p : rx[p] * rx[p], pairs)
      vy == MapThenSumSet(LAMBDA p : ry[p] * ry[p], pairs)
      defined == Cardinality(pairs) >= 3 /\ vx > 0 /\ vy > 0
  IN  [defined |-> defined, cov |-> cov, scale |-> vx * vy]
Reaches(c, need) == c.defined /\ c.cov >= 0 /\ c.cov * c.cov * 10000 >= need * need * c.scale

(* corr a > corr b, both defined over the same pairs and the same Y: vy is *)
(* common, so sign and square over the scale decide.                       *)
Exceeds(a, b) ==
  IF a.cov > 0 /\ b.cov <= 0 THEN TRUE
  ELSE IF a.cov <= 0 THEN b.cov < 0 /\ a.cov * a.cov * b.scale < b.cov * b.cov * a.scale
  ELSE a.cov * a.cov * b.scale > b.cov * b.cov * a.scale

(* The dollars in the order of their resolution.                           *)
Chronological(priced) ==
  LET order == Sorted(priced, LAMBDA p, q :
                 \/ p.out.day < q.out.day
                 \/ p.out.day = q.out.day /\ p.out.at < q.out.at
                 \/ p.out.day = q.out.day /\ p.out.at = q.out.at /\ p.snap.id < q.snap.id)
  IN  [i \in DOMAIN order |-> order[i].out.pnl]

FlowVerdict(priced) ==
  LET flows == {p \in priced : p.snap.flow # Missing}
      flow == Correlation([p \in flows |-> p.snap.flow], [p \in flows |-> p.out.pnl])
      score == Correlation([p \in flows |-> p.snap.score], [p \in flows |-> p.out.pnl])
      few(Sign(_)) == Cardinality({p \in flows : Sign(p.out.pnl)}) < 2
  IN  IF \/ Cardinality(flows) < FlowMinN \/ ~flow.defined
         \/ few(LAMBDA x : x < 0) \/ few(LAMBDA x : x > 0) THEN "insufficient"
      ELSE IF flow.cov <= 0 THEN "not_predictive"
      ELSE IF score.defined /\ ~Exceeds(flow, score) THEN "no_lift_over_score"
      ELSE "candidate_for_promotion"

-----------------------------------------------------------------------------
(* build_scorecard(snaps, outs): snaps a set, outs newest first. *)

Paired(snaps, chosen) ==
  {[snap |-> s, out |-> chosen[s.id]] : s \in {t \in snaps : t.id \in DOMAIN chosen}}

(* The corpus: the exclusions come before the selection, so that a sparse  *)
(* grade cannot displace a gradeable one.                                  *)
Card(snaps, outs) ==
  LET kept == Calibrated(Eligible(snaps))
  IN  [pairs |-> Paired(kept, SelectScoring(outs)), priced |-> Paired(kept, SelectPnl(outs))]

Decisive(card) == {p \in card.pairs : p.out.result \in {"win", "loss"}}

ValidationGrade(card) ==
  LET n == Cardinality(Decisive(card))
      real == Cardinality({p \in Decisive(card) : FidelityOf(p.out) >= 2})
      half == IF n \div 2 > 1 THEN n \div 2 ELSE 1
  IN  IF n > 0 /\ real >= half THEN "real_marks" ELSE IF n > 0 THEN "proxy_only" ELSE "insufficient"

(* Mean of (pop - won)^2 over the decisive pairs that have a POP. *)
Brier(card) ==
  LET terms == {p \in Decisive(card) : p.snap.pop # Missing}
      miss(p) == p.snap.pop - (IF p.out.result = "win" THEN 100 ELSE 0)
  IN  [defined |-> terms # {}, n |-> Cardinality(terms),
       sum |-> MapThenSumSet(LAMBDA p : miss(p) * miss(p), terms)]

Warnings(card) ==
  LET decisive == Decisive(card)
      ranked == {p \in decisive : p.out.result = "win" /\ p.snap.rank # Missing}
      held == {p \in card.priced : p.out.src = "expiry_settlement"}
      managed == {p \in card.priced : p.out.src = "managed_policy"}
  IN  (IF decisive # {} /\ Cardinality({p \in decisive : p.out.result = "loss"}) < 2 THEN {"few losses"} ELSE {})
      \cup (IF Cardinality({VolRegime(p.snap.rank) : p \in ranked}) = 1 THEN {"single regime"} ELSE {})
      \cup (IF card.priced # {} /\ 4 * Cardinality(held) >= Cardinality(card.priced) THEN {"held to expiry"} ELSE {})
      \cup (IF managed # {} THEN {"managed"} ELSE {})

(* Volatility groups, of the pairs that have an IV rank. *)
ByRegime(card) == Grouped({p \in card.pairs : p.snap.rank # Missing}, LAMBDA s : VolRegime(s.rank))

-----------------------------------------------------------------------------
(* evaluate_conviction_gate(): every criterion must pass. *)

Discriminates(card) ==
  LET c == Correlation([p \in card.priced |-> p.snap.score], [p \in card.priced |-> p.out.pnl])
  IN  /\ Cardinality(card.priced) >= SpearmanMinN
      /\ Reaches(c, SpearmanMin)
      /\ Bootstrap(card.priced)

Green(validated, card) ==
  LET b == Brier(card)
      regimes == ByRegime(card)
  IN  /\ validated
      /\ Cardinality(Decisive(card)) >= MinDecisive /\ ValidationGrade(card) = "real_marks"
      /\ b.defined /\ b.sum <= BrierMax * b.n
      /\ Discriminates(card)
      /\ Cardinality({k \in DOMAIN regimes : regimes[k].n >= MinPerRegime}) >= 2
=============================================================================
