------------------------------ MODULE PlanRules ------------------------------
(***************************************************************************)
(* From a structure to a sized plan, its exit levels and the orders posted *)
(* for it, and a position taken over from a broker (app/risk/,             *)
(* app/engine/strategy_selector.py, app/shortduration/contracts.py,        *)
(* app/services/position_import.py, paper_engine.py).                      *)
(*                                                                         *)
(* Money is in dimes, which per contract is the price per share in tenths  *)
(* of a cent.  Percentages are whole numbers.                              *)
(***************************************************************************)
EXTENDS ContractDesk

(* x / d to the nearest whole number, halves to even, and rounded up. *)
RoundDiv(x, d) ==
  LET q == x \div d
      r == x % d
  IN  IF 2 * r > d \/ (2 * r = d /\ q % 2 = 1) THEN q + 1 ELSE q
CeilDiv(x, d) == -((-x) \div d)

-----------------------------------------------------------------------------
(* Risk policy and sizing. *)

CorePolicy == [equity |-> 20000, account |-> 15, trade |-> 5, cap |-> 1000, lots |-> 20,
               positions |-> 4, target |-> 50, stop |-> 50, timeStop |-> 7]

(* short_duration_policy(); free lifts the caps of the signal book and     *)
(* sizes one contract.                                                     *)
ShortPolicy(zeroDte, equity, free) ==
  [CorePolicy EXCEPT
     !.equity = IF free THEN 100000000 ELSE equity, !.account = IF free THEN 100 ELSE @,
     !.trade = IF free THEN 100 ELSE IF zeroDte THEN 3 ELSE 5,
     !.cap = IF free THEN 10000000 ELSE @, !.lots = IF free THEN 1 ELSE @,
     !.positions = 2, !.timeStop = IF zeroDte THEN 0 ELSE 1]

Percent(x, p) == (x \div 100) * p + ((x % 100) * p) \div 100
MaxTradeRisk(pol) == Least(Percent(pol.equity, pol.trade), pol.cap)
MaxAccountRisk(pol) == Percent(pol.equity, pol.account)
Room(pol, open) == Most(0, MaxAccountRisk(pol) - open)
EffectiveCap(pol, open) == Least(MaxTradeRisk(pol), Room(pol, open))

(* size_by_defined_risk(): per is the worst loss of one contract. *)
SizeByDefinedRisk(per, pol, open) ==
  IF per <= 0 THEN [contracts |-> 0, reason |-> "invalid_per_contract_risk"]
  ELSE IF EffectiveCap(pol, open) < per
  THEN [contracts |-> 0, reason |-> IF Room(pol, open) < MaxTradeRisk(pol) THEN "account_cap_exhausted"
                                    ELSE "single_contract_exceeds_trade_cap"]
  ELSE [contracts |-> Least(EffectiveCap(pol, open) \div per, pol.lots), reason |-> "none"]

(* evaluate_admission(): why the account refuses a trade. *)
EvaluateAdmission(risk, count, open, pol) ==
  (IF count >= pol.positions THEN {"portfolio_limit"} ELSE {})
  \cup (IF open + risk > MaxAccountRisk(pol) THEN {"risk_unmanageable"} ELSE {})

-----------------------------------------------------------------------------
(* Exit levels: a plan is [strategy, legs, dte, contracts, debit, maxLoss,  *)
(* maxProfit, target, stop, timeStop]; debit is signed, for one contract.   *)

Spread(S) == IF S = {} THEN 0 ELSE Highest(S) - Lowest(S)
AllStrikes(legs) == {legs[i].k : i \in DOMAIN legs}
Width(plan) == IF Len(plan.legs) >= 2 THEN Spread(AllStrikes(plan.legs)) ELSE 0

Levels(action, entry, takes, stop, profit, loss, plan) ==
  [action |-> action, entry |-> 10 * RoundDiv(entry, 10), takes |-> takes, stop |-> stop,
   maxProfit |-> profit, maxLoss |-> loss,
   timeStop |-> IF plan.timeStop \in {0, Missing} THEN 7 ELSE plan.timeStop]
Cents(x) == 10 * RoundDiv(x, 1000)      \* of hundredths of a tenth of a cent

DebitVerticalExit(plan, fracs) ==
  LET debit == plan.debit
      profit == Most(0, Width(plan) - debit)
  IN  Levels("sell_to_close", debit, [i \in 1 .. 2 |-> Cents(100 * debit + fracs[i] * profit)],
             Cents(debit * (100 - plan.stop)), profit * plan.contracts, debit * plan.contracts, plan)
CreditVerticalExit(plan, fracs) ==
  LET credit == -plan.debit
  IN  Levels("buy_to_close", credit, [i \in 1 .. 2 |-> Cents(credit * (100 - fracs[i]))],
             Cents(100 * Least(Width(plan), 2 * credit)),
             credit * plan.contracts, Most(0, Width(plan) - credit) * plan.contracts, plan)
LongOptionExit(plan, fracs) ==
  LET premium == plan.debit
  IN  Levels("sell_to_close", premium, [i \in 1 .. 2 |-> Cents(premium * (100 + fracs[i]))],
             Cents(premium * (100 - plan.stop)), Missing, premium * plan.contracts, plan)

(* for_trade_plan(): what is neither vertical nor condor exits as a long   *)
(* premium.                                                                *)
ExitPlan(plan) ==
  LET fracs == <<plan.target, Least(95, plan.target + 25)>>
  IN  IF plan.strategy \in DebitVerticals THEN DebitVerticalExit(plan, fracs)
      ELSE IF plan.strategy \in CreditVerticals \cup {"iron_condor"} THEN CreditVerticalExit(plan, fracs)
      ELSE LongOptionExit(plan, <<plan.target, 100>>)

\* Mutant: target and stop are rounded to the nearest cent.
ActSoonerNearest(x, up) == 10 * RoundDiv(x, 1000)
(* _to_cent(): rounded so that the order acts sooner. *)
ActSooner(x, up) == 10 * (IF up THEN CeilDiv(x, 1000) ELSE x \div 1000)

(* bracket_from_entry(): the two orders posted at entry, positive prices.   *)
NoBracket == [posted |-> FALSE]
Bracket(entry, target, stop) ==
  LET basis == Abs(entry)
      t == IF target = 0 THEN 50 ELSE target
      s == IF stop = 0 THEN 50 ELSE stop
  IN  IF entry = 0 THEN NoBracket
      ELSE IF entry < 0
      THEN [posted |-> TRUE, buys |-> TRUE, target |-> ActSooner(basis * (100 - t), TRUE),
            stop |-> Most(10, ActSooner(basis * (100 + s), FALSE))]
      ELSE [posted |-> TRUE, buys |-> FALSE, target |-> ActSooner(basis * (100 + t), FALSE),
            stop |-> Most(10, ActSooner(basis * (100 - s), TRUE))]
BracketFromPlan(plan) == Bracket(plan.debit, plan.target, plan.stop)

(* What the posted pair does when the structure can be closed at net. *)
TargetFills(b, net) == b.posted /\ (IF b.buys THEN -net <= b.target ELSE net >= b.target)
StopFills(b, net) == b.posted /\ (IF b.buys THEN -net >= b.stop ELSE net <= b.stop)

-----------------------------------------------------------------------------
(* Sized plans. *)

NoPlan == [strategy |-> "none"]

(* build_long_option_plan(), build_vertical_spread_plan() and              *)
(* build_structure_plan().                                                 *)
Sized(choice, size, pol) ==
  IF size < 1 THEN NoPlan
  ELSE [strategy |-> choice.strategy, legs |-> choice.legs, dte |-> choice.dte, contracts |-> size,
        debit |-> EntryNet(choice.legs), maxLoss |-> choice.maxLoss * size,
        maxProfit |-> IF choice.maxProfit = Missing THEN Missing ELSE choice.maxProfit * size,
        target |-> pol.target, stop |-> pol.stop, timeStop |-> pol.timeStop]
SizedPlan(choice, pol, open) ==
  IF choice = NoChoice THEN NoPlan
  ELSE Sized(choice, SizeByDefinedRisk(choice.maxLoss, pol, open).contracts, pol)

(* build_best_plan(): the structures that suit the direction and the rank  *)
(* of the volatility (in per cent, or Missing), in order; the first that   *)
(* can be sized is the plan.                                               *)
Suited(direction, ivRank, catalyst) ==
  CASE direction # "neutral" /\ ivRank >= 50 -> <<"credit", "debit", "long">>
    [] direction # "neutral" /\ ivRank < 50 -> <<"debit", "long", "credit">>
    [] direction = "neutral" /\ ivRank >= 50 -> <<"condor">>
    [] direction = "neutral" /\ ivRank \in 0 .. 35 /\ catalyst -> <<"strangle", "straddle">>
    [] OTHER -> <<>>
Choice(kind, chain, bullish, cap) ==
  CASE kind = "debit" -> VerticalChoice(SelectVertical(chain, bullish, cap, CoreSel, CoreLiq))
    [] kind = "long" -> LongChoice(SelectLong(chain, bullish, CoreSel, CoreLiq, 0))
    [] kind = "credit" -> CreditVertical(chain, bullish, cap, CoreSel, CoreLiq)
    [] kind = "condor" -> IronCondor(chain, cap, CoreSel, CoreLiq)
    [] kind = "strangle" -> Strangle(chain, cap, CoreSel, CoreLiq)
    [] kind = "straddle" -> Straddle(chain, cap, CoreSel, CoreLiq)
PlanOf(kind, chain, bullish, pol, open) ==
  SizedPlan(Choice(kind, chain, bullish, EffectiveCap(pol, open)), pol, open)
FirstPlan(plans) ==
  LET sound == {i \in DOMAIN plans : plans[i] # NoPlan}
  IN  IF sound = {} THEN NoPlan ELSE plans[Lowest(sound)]
PlansFor(kinds, chain, bullish, pol, open) == [i \in DOMAIN kinds |-> PlanOf(kinds[i], chain, bullish, pol, open)]
BuildBestPlan(chain, direction, ivRank, catalyst, pol, open) ==
  IF EffectiveCap(pol, open) <= 0 THEN NoPlan
  ELSE FirstPlan(PlansFor(Suited(direction, ivRank, catalyst), chain, direction = "bullish", pol, open))

-----------------------------------------------------------------------------
(* Short-duration expressions. *)

ShortSel(bucket) ==
  CASE bucket = "0dte" -> [lo |-> 0, hi |-> 1, target |-> 50, least |-> 35, most |-> 68, band |-> 3, short |-> 15, pop |-> 2500]
    [] bucket = "1-5dte" -> [lo |-> 1, hi |-> 5, target |-> 50, least |-> 35, most |-> 65, band |-> 5, short |-> 15, pop |-> 2500]
    [] bucket = "swing" -> [lo |-> 21, hi |-> 45, target |-> 45, least |-> 30, most |-> 60, band |-> 6, short |-> 15, pop |-> 2500]
ShortLiq(bucket) ==
  CASE bucket = "0dte" -> [oi |-> 100, volume |-> 100, spread |-> 15, lo |-> 50, hi |-> 25000]
    [] bucket = "1-5dte" -> [oi |-> 250, volume |-> 50, spread |-> 12, lo |-> 100, hi |-> 25000]
    [] bucket = "swing" -> [oi |-> 250, volume |-> 20, spread |-> 15, lo |-> 150, hi |-> 40000]

(* select_short_duration_contracts(): every expression that can be sized.  *)
ShortExpressions(chain, bullish, bucket, prefer, pol, open) ==
  LET sel == ShortSel(bucket)
      liq == ShortLiq(bucket)
      choices == {LongChoice(SelectLong(chain, bullish, sel, liq, prefer)),
                  VerticalChoice(SelectVertical(chain, bullish, MaxTradeRisk(pol), sel, liq))}
  IN  {SizedPlan(choice, pol, open) : choice \in choices} \ {NoPlan}

(* and, when there is none, the reason that is given. *)
ShortReject(chain, bullish, bucket, pol) ==
  LET sel == ShortSel(bucket)
      liq == ShortLiq(bucket)
      liquid == \E i \in Listed(chain) : /\ chain.list[i].call = bullish
                                         /\ InWindow(chain.list[i], sel) /\ Liquid(chain.list[i], liq)
  IN  IF ~liquid THEN "illiquid_option"
      ELSE IF SelectVertical(chain, bullish, MaxTradeRisk(pol), [sel EXCEPT !.pop = Missing], liq) # {}
      THEN "pop_below_floor" ELSE "risk_unmanageable"

-----------------------------------------------------------------------------
(* Positions taken over from a broker. *)

(* dte_regime(): the exits that fit the days left at entry. *)
DteRegime(dte) ==
  IF dte <= 3 THEN [target |-> 40, stop |-> 50, timeStop |-> 0]
  ELSE IF dte <= 15 THEN [target |-> 50, stop |-> 50, timeStop |-> Most(2, RoundDiv(dte * 4, 10))]
  ELSE [target |-> 60, stop |-> 50, timeStop |-> 7]

(* _infer(): the name of the structure, "unsupported" if refused.  A lone  *)
(* leg is named by its type, whichever side it is on.                      *)
Infer(legs) ==
  LET bought(call) == Strikes(legs, call, TRUE)
      sold(call) == Strikes(legs, call, FALSE)
      only(S) == CHOOSE k \in S : TRUE
      pair(call) == Len(legs) = 2 /\ bought(call) # {} /\ sold(call) # {}
  IN  IF Len(legs) = 1 THEN IF legs[1].call THEN "long_call" ELSE "long_put"
      ELSE IF pair(TRUE) /\ only(bought(TRUE)) < only(sold(TRUE)) THEN "bull_call_spread"
      ELSE IF pair(TRUE) /\ only(bought(TRUE)) > only(sold(TRUE)) THEN "bear_call_spread"
      ELSE IF pair(FALSE) /\ only(bought(FALSE)) > only(sold(FALSE)) THEN "bear_put_spread"
      ELSE IF pair(FALSE) /\ only(bought(FALSE)) < only(sold(FALSE)) THEN "bull_put_spread"
      ELSE IF Len(legs) = 2 /\ bought(TRUE) # {} /\ bought(FALSE) # {}
      THEN IF bought(TRUE) = bought(FALSE) THEN "long_straddle" ELSE "long_strangle"
      ELSE "unsupported"

(* What each way in accepts before build_tracked_trade(): the one-line     *)
(* entry, a pasted broker screen, and the form or the broker sync.         *)
Accepted(way, legs, net) ==
  CASE way = "line" -> /\ legs[1].buy /\ (Len(legs) = 1 => net >= 0)
                       /\ Len(legs) = 2 => legs[2].call = legs[1].call /\ ~legs[2].buy
    [] way = "paste" -> IF Len(legs) = 1 THEN legs[1].buy ELSE legs[1].buy # legs[2].buy
    [] OTHER -> TRUE

(* build_tracked_trade(): the loss is what the net costs, credit or debit. *)
TrackedPlan(legs, net, contracts, dte) ==
  LET regime == DteRegime(Most(0, dte))
  IN  [strategy |-> Infer(legs), legs |-> legs, dte |-> dte, contracts |-> contracts, debit |-> net,
       maxLoss |-> Abs(net) * contracts,
       maxProfit |-> IF Len(legs) = 2 THEN (Width([legs |-> legs]) - Abs(net)) * contracts ELSE Missing,
       target |-> regime.target, stop |-> regime.stop, timeStop |-> regime.timeStop]

-----------------------------------------------------------------------------
(* Simulated fills: half of half the spread, at least a cent, against us.  *)

Slip(spread) == Most(10, spread \div 4)
\* Mutant: the entry slips in our favour.
EntryFillBetter(mid, spread) == mid - Slip(spread)
EntryFill(mid, spread) == mid + Slip(spread)
ExitFill(mid, spread) == mid - Slip(spread)

(* check_exit(): on the change from the fill, target first. *)
CheckExit(plan, entry, net) ==
  IF entry = 0 THEN "none"
  ELSE IF (net - entry) * 100 >= plan.target * Abs(entry) THEN "profit_target"
  ELSE IF (net - entry) * 100 <= -plan.stop * Abs(entry) THEN "stop_loss" ELSE "none"
=============================================================================
