------------------------------ MODULE Grading -------------------------------
(***************************************************************************)
(* How a decision is scored: the snapshot that is frozen, the ladder of    *)
(* sources (closed trade, option marks, underlying), the replays of its    *)
(* own exit plan over daily and minute marks, the settlement at expiry,    *)
(* and how well the minutes were observed (app/analytics/), with the       *)
(* verdict of the position monitor on the same marks                       *)
(* (app/tiers/tier4_positions.py).                                         *)
(*                                                                         *)
(* A snapshot is [source, strategy, legs, direction, day, minute, expiry,  *)
(* entry, levels, maxLoss, contracts, target, stop, timeStop, spot].       *)
(***************************************************************************)
EXTENDS PlanRules, FiniteSets, TLC

Ungraded == [result |-> "none"]

-----------------------------------------------------------------------------
(* Snapshots. *)

(* structure_breakevens() needs legs; the credit of a plan is negative.    *)
Snapshot(source, plan, direction, at, entry, levels, spot) ==
  [source |-> source, strategy |-> plan.strategy, legs |-> plan.legs, direction |-> direction,
   day |-> at[1], minute |-> at[2], expiry |-> at[1] + plan.dte, entry |-> entry, levels |-> levels,
   maxLoss |-> plan.maxLoss, contracts |-> plan.contracts,
   target |-> plan.target, stop |-> plan.stop, timeStop |-> plan.timeStop, spot |-> spot]

(* The engine's plans carry an exit plan, whose entry is the size of the   *)
(* net; an imported position carries none.                                 *)
SnapshotFromCandidate(plan, direction, at, spot) ==
  Snapshot("scan", plan, direction, at, ExitPlan(plan).entry, Breakevens(plan.strategy, plan.legs), spot)
SnapshotFromLiveTrade(plan, direction, at) ==
  Snapshot("live", plan, direction, at, plan.debit, Breakevens(plan.strategy, plan.legs), Missing)
SnapshotFromShortDuration(plan, direction, at, spot) ==
  Snapshot("short", plan, direction, at, ExitPlan(plan).entry, Breakevens(plan.strategy, plan.legs), spot)

-----------------------------------------------------------------------------
(* Costs and results. *)

(* _resolution_costs(): $0.65 per leg and contract, twice, and the spread. *)
ResolutionCosts(legs, contracts, spread) ==
  13 * Len(legs) * contracts + contracts * Most(10, spread)

(* Within a twentieth of the loss at risk nothing was won or lost. *)
WithinBand(net, maxLoss) ==
  IF 20 * net > maxLoss THEN "win" ELSE IF 20 * net < -maxLoss THEN "loss" ELSE "scratch"

Risked(snap) == IF snap.maxLoss # 0 THEN snap.maxLoss ELSE Abs(snap.entry) * snap.contracts
Gross(snap, net) == (net - snap.entry) * snap.contracts

(* _direction_correct() *)
DirectionCorrect(snap, spot) ==
  IF snap.spot = Missing \/ spot = Missing THEN "unknown"
  ELSE CASE snap.direction = "bullish" -> IF spot > snap.spot THEN "yes" ELSE "no"
         [] snap.direction = "bearish" -> IF spot < snap.spot THEN "yes" ELSE "no"
         [] OTHER -> "unknown"

Outcome(snap, source, reason, day, exit, costs, spot) ==
  LET gross == Gross(snap, exit)
  IN  [source |-> source, reason |-> reason, day |-> day, exit |-> exit, gross |-> gross, net |-> gross - costs,
       result |-> WithinBand(gross - costs, Risked(snap)), right |-> DirectionCorrect(snap, spot)]

(* resolve_underlying(): a proxy, with no money. *)
ResolveUnderlying(snap, spot) ==
  [result |-> FromBreakevens(snap.strategy, snap.levels, spot, 25), right |-> DirectionCorrect(snap, spot)]

(* resolve_from_marks(): Ungraded when a leg has neither mark nor model.   *)
ResolveFromMarks(snap, mark, spread, day, spot) ==
  IF ~mark.priced THEN Ungraded
  ELSE Outcome(snap, "option_marks", "none", day, mark.net,
               ResolutionCosts(snap.legs, snap.contracts, spread), spot)

(* resolve_from_paper_trade(): no band. *)
ResolveFromPaperTrade(pnl) == IF pnl > 0 THEN "win" ELSE IF pnl < 0 THEN "loss" ELSE "scratch"

(* settle_at_expiry(): what the legs are worth on the last close.          *)
SettleAtExpiry(snap, close) ==
  Outcome(snap, "expiry_settlement", "expiry", snap.expiry, SettleNet(snap.legs, close),
          ResolutionCosts(snap.legs, snap.contracts, 0), close)

-----------------------------------------------------------------------------
(* The managed exit. *)

\* Mutant: the time stop waits until the days left fall below it.
PolicyVerdictLater(snap, net, dte) ==
  IF (net - snap.entry) * 100 <= -snap.stop * Abs(snap.entry) THEN "stop_loss"
  ELSE IF (net - snap.entry) * 100 >= snap.target * Abs(snap.entry) THEN "profit_target"
  ELSE IF dte < snap.timeStop THEN "time_stop" ELSE "hold"
(* One day of walk_policy(): the stop before the target. *)
PolicyVerdict(snap, net, dte) ==
  IF (net - snap.entry) * 100 <= -snap.stop * Abs(snap.entry) THEN "stop_loss"
  ELSE IF (net - snap.entry) * 100 >= snap.target * Abs(snap.entry) THEN "profit_target"
  ELSE IF dte <= snap.timeStop THEN "time_stop" ELSE "hold"

(* walk_policy(): nets[d] is the mark of day d, close that of the expiry.  *)
FirstExit(snap, nets, exits, close) ==
  IF exits # {}
  THEN LET d == Lowest(exits) IN
       [day |-> d, net |-> nets[d].net, reason |-> PolicyVerdict(snap, nets[d].net, snap.expiry - d)]
  ELSE IF close = Missing THEN [day |-> Missing]
  ELSE [day |-> snap.expiry, net |-> SettleNet(snap.legs, close), reason |-> "expiry"]
WalkPolicy(snap, nets, close) ==
  IF snap.entry = 0 THEN [day |-> Missing]
  ELSE FirstExit(snap, nets, {d \in DOMAIN nets : /\ snap.day < d /\ d <= snap.expiry /\ nets[d].priced
                                                  /\ PolicyVerdict(snap, nets[d].net, snap.expiry - d) # "hold"},
                 close)

PolicyOutcome(snap, exit) ==
  IF exit.day = Missing THEN Ungraded
  ELSE Outcome(snap, "managed_policy", exit.reason, exit.day, exit.net,
               ResolutionCosts(snap.legs, snap.contracts, 0), Missing)
SettleUnderPolicy(snap, nets, close) == PolicyOutcome(snap, WalkPolicy(snap, nets, close))

(* Tier4PositionMonitor.evaluate(): what the monitor of open positions     *)
(* says of the same structure, from the fill.                              *)
Tier4Action(plan, fill, mark, dte) ==
  IF ~mark.priced THEN "unmarked"
  ELSE LET hit == CheckExit(plan, fill, mark.net) IN
       IF hit = "profit_target" THEN "take_profit"
       ELSE IF hit = "stop_loss" THEN "stop"
       ELSE IF plan.timeStop # Missing /\ dte <= plan.timeStop THEN "time_stop" ELSE "hold"

-----------------------------------------------------------------------------
(* Minute bars: bars[m][i] is [low, high] of leg i, both Missing when it   *)
(* did not trade in minute m.                                              *)

Traded(legs, bar) == \A i \in DOMAIN legs : bar[i].low # Missing
StructureWorst(legs, bar) == NetOf(legs, [i \in DOMAIN legs |-> IF legs[i].buy THEN bar[i].low ELSE bar[i].high])
StructureBest(legs, bar) == NetOf(legs, [i \in DOMAIN legs |-> IF legs[i].buy THEN bar[i].high ELSE bar[i].low])

(* The furthest the structure ran either way, over some priced minutes.    *)
Excursion(snap, bars, seen) ==
  [best |-> Highest({0} \cup {StructureBest(snap.legs, bars[m]) - snap.entry : m \in seen}),
   worst |-> Lowest({0} \cup {StructureWorst(snap.legs, bars[m]) - snap.entry : m \in seen}),
   bars |-> Cardinality(seen)]

(* walk_intraday(): the stop on the worst of the bar, then the target on   *)
(* the best, and the close of the session at the best of the last one.     *)
Watched(snap, bars) == {m \in DOMAIN bars : snap.minute <= m /\ Traded(snap.legs, bars[m])}
BarVerdict(snap, bar) ==
  IF (StructureWorst(snap.legs, bar) - snap.entry) * 100 <= -snap.stop * Abs(snap.entry) THEN "stop_loss"
  ELSE IF (StructureBest(snap.legs, bar) - snap.entry) * 100 >= snap.target * Abs(snap.entry)
  THEN "profit_target" ELSE "session_close"
IntradayExitAt(snap, bar, m, reason) ==
  [minute |-> m, reason |-> reason,
   net |-> IF reason = "stop_loss" THEN StructureWorst(snap.legs, bar) ELSE StructureBest(snap.legs, bar)]
FirstHit(snap, bars, minutes, hits, closeOut) ==
  IF hits # {} THEN LET m == Lowest(hits) IN IntradayExitAt(snap, bars[m], m, BarVerdict(snap, bars[m]))
  ELSE IF closeOut /\ minutes # {}
  THEN LET m == Highest(minutes) IN IntradayExitAt(snap, bars[m], m, "session_close")
  ELSE [minute |-> Missing]
WalkIntraday(snap, bars, closeOut) ==
  LET hits == {m \in Watched(snap, bars) : BarVerdict(snap, bars[m]) # "session_close"}
  IN  IF snap.entry = 0 THEN [minute |-> Missing]
      ELSE FirstHit(snap, bars, Watched(snap, bars), hits, closeOut)

-----------------------------------------------------------------------------
(* How well the minutes of a grade were observed.  A minute is counted     *)
(* from the midnight of day 0, a Monday.                                   *)

(* _rth_minutes_between(): no holidays, no early closes. *)
RthMinutes(lo, hi) ==
  LET session(d) == IF d % 7 < 5 THEN Most(0, Least(hi, 1440 * d + 960) - Most(lo, 1440 * d + 570)) ELSE 0
      upto[d \in Int] == IF d < lo \div 1440 THEN 0 ELSE session(d) + upto[d - 1]
  IN  upto[hi \div 1440]

(* Adjoining minutes leave no gap; a single one leaves none to measure.    *)
MaxGap(S) ==
  IF Cardinality(S) < 2 THEN Missing
  ELSE Highest({Lowest({b \in S : a < b}) - a - 1 : a \in S \ {Highest(S)}})

(* assess() *)
Assess(S, lo, hi) ==
  [marks |-> Cardinality(S), expected |-> IF S = {} THEN 0 ELSE RthMinutes(lo, hi), gap |-> MaxGap(S),
   confidence |-> IF MaxGap(S) = Missing THEN "unknown" ELSE IF MaxGap(S) > 15 THEN "low" ELSE "high"]

(* meets_zero_dte_bar(): four fifths of the session seen, no hole of more  *)
(* than five minutes.                                                      *)
MeetsZeroDteBar(q) ==
  q.expected > 0 /\ q.gap # Missing /\ 5 * q.marks >= 4 * q.expected /\ q.gap <= 5

\* Mutant: the observation is judged on every minute there is.
GradedMinutesAll(snap, bars, exit) == Watched(snap, bars)
GradedMinutes(snap, bars, exit) == {m \in Watched(snap, bars) : m <= exit.minute}

(* settle_intraday() *)
IntradayOutcome(snap, exit, bars, seen) ==
  Outcome(snap, "managed_policy_intraday", exit.reason, exit.minute \div 1440, exit.net,
          ResolutionCosts(snap.legs, snap.contracts, 0), Missing)
    @@ [excursion |-> Excursion(snap, bars, seen), quality |-> Assess(seen, snap.minute, exit.minute)]
IntradayGrade(snap, exit, bars) ==
  IF exit.minute = Missing THEN Ungraded
  ELSE IntradayOutcome(snap, exit, bars, GradedMinutes(snap, bars, exit))
SettleIntraday(snap, bars, closeOut) == IntradayGrade(snap, WalkIntraday(snap, bars, closeOut), bars)
=============================================================================
