---------------------------- MODULE ContractDesk ----------------------------
(***************************************************************************)
(* From a chain to a structure: the liquidity gate, the selection of each  *)
(* kind of structure and the order in which they are tried                 *)
(* (app/engine/liquidity.py, contract_selection.py,                        *)
(* strategy_selector.py, app/shortduration/contracts.py).                  *)
(*                                                                         *)
(* A chain is [spot, list]; a listed contract is [call, k, dte, bid, ask,  *)
(* mark, oi, volume, delta, iv]: delta is its size in per cent, iv in per  *)
(* cent, and each may be Missing.  Fits are per 10000, rounded down where  *)
(* the code rounds.                                                        *)
(***************************************************************************)
EXTENDS Structures

(* The indices in S with the highest score; the first of them, and of those *)
(* with the lowest score, as a set of at most one.                         *)
Topmost(S, score) ==
  LET ranked == {<<i, score[i]>> : i \in S}
  IN  {r[1] : r \in {x \in ranked : \A y \in ranked : y[2] <= x[2]}}
FirstOf(S) == {i \in S : \A j \in S : i <= j}
FirstBest(S, score) == UNION {FirstOf(best) : best \in {Topmost(S, score)}}
FirstLeast(S, score) == FirstBest(S, [i \in S |-> -score[i]])
Nearest(S, distance) == CHOOSE i \in FirstLeast(S, distance) : TRUE

Listed(chain) == DOMAIN chain.list

-----------------------------------------------------------------------------
(* Liquidity. *)

Quoted(c) == c.bid # Missing /\ c.ask # Missing
Mid(c) == IF Quoted(c) /\ c.ask > 0 THEN (c.bid + c.ask) \div 2 ELSE c.mark

(* gate_option(): the reasons a contract is refused; the spread is per     *)
(* cent of the mid.                                                        *)
GateOption(c, liq) ==
  IF Mid(c) <= 0 THEN {"unreliable_pricing"}
  ELSE {r \in {"unreliable_pricing", "low_open_interest", "low_volume", "wide_spread"} :
          \/ r = "unreliable_pricing" /\ Mid(c) \notin liq.lo .. liq.hi
          \/ r = "low_open_interest" /\ c.oi < liq.oi
          \/ r = "low_volume" /\ c.volume < liq.volume
          \/ r = "wide_spread" /\ (~Quoted(c) \/ (c.ask - c.bid) * 100 > liq.spread * Mid(c))}
Liquid(c, liq) == GateOption(c, liq) = {}

(* option_liquidity_score() of a contract that passed the gate. *)
LiquidityScore(c, liq) ==
  LET spread == Most(0, 10000 - (((c.ask - c.bid) * 1000000) \div (Mid(c) * liq.spread)))
      depth == Least(10000, (c.oi * 1250) \div liq.oi)
      volume == Least(10000, (c.volume * 1250) \div liq.volume)
  IN  (50 * spread + 30 * depth + 20 * volume) \div 100

(* gate_underlying(): the figures of a company may be Missing. *)
GateUnderlying(f, price, cfg) ==
  {r \in {"penny_stock", "low_volume", "low_float"} :
     \/ r = "penny_stock" /\ ~cfg.pennies /\ price < cfg.minPrice
     \/ r = "low_volume" /\ f.turnover # Missing /\ f.turnover < cfg.minTurnover
     \/ r = "low_float" /\ ~cfg.lowFloat /\ f.float # Missing /\ f.float < 50}

-----------------------------------------------------------------------------
(* Long legs and debit verticals. *)

CoreSel == [lo |-> 20, hi |-> 45, target |-> 45, least |-> 30, most |-> 60, band |-> 0, short |-> 15, pop |-> 2500]
CoreLiq == [oi |-> 250, volume |-> 50, spread |-> 10, lo |-> 100, hi |-> 25000]

Usable(delta) == delta \in 1 .. 99
InWindow(c, sel) == c.dte \in sel.lo .. sel.hi

(* _moneyness_fit(): how near the money, or Missing; the band of sel is in *)
(* per cent of the spot, 0 when the fallback is off.                       *)
MoneynessFit(c, spot, sel) ==
  IF sel.band = 0 \/ spot <= 0 \/ Abs(c.k - spot) * 100 > sel.band * spot THEN Missing
  ELSE 10000 - ((Abs(c.k - spot) * 1000) \div (sel.band * (spot \div 1000)))

ByDelta(c, sel) == Usable(c.delta) /\ c.delta \in sel.least .. sel.most

(* A usable delta is the answer; the fallback is for the others. *)
LegFits(c, spot, sel) ==
  IF Usable(c.delta) THEN c.delta \in sel.least .. sel.most ELSE MoneynessFit(c, spot, sel) # Missing

DaysFit(c, sel) == 10000 - ((Abs(2 * c.dte - sel.lo - sel.hi) * 10000) \div (sel.lo + sel.hi))
DeltaFit(c, spot, sel) ==
  IF ByDelta(c, sel) THEN 10000 - ((Abs(c.delta - sel.target) * 10000) \div sel.target)
  ELSE MoneynessFit(c, spot, sel)

(* The score of a long contract, with a strike the setup prefers or 0.     *)
LongFit(c, spot, sel, liq, prefer) ==
  IF prefer > 0
  THEN (45 * LiquidityScore(c, liq) + 30 * DeltaFit(c, spot, sel) + 10 * DaysFit(c, sel)
          + 15 * Most(0, 10000 - ((Abs(c.k - prefer) * 100) \div (prefer \div 100)))) \div 100
  ELSE (50 * LiquidityScore(c, liq) + 35 * DeltaFit(c, spot, sel) + 15 * DaysFit(c, sel)) \div 100

(* select_long_contract(): at most one contract, the best.  The fallback   *)
(* is tried for a delta out of its band too.                               *)
BestOf(list, fits) == {list[i] : i \in FirstBest(DOMAIN fits, fits)}
SelectLong(chain, bullish, sel, liq, prefer) ==
  BestOf(chain.list,
         [i \in {j \in Listed(chain) :
                   LET c == chain.list[j] IN
                   /\ c.call = bullish /\ InWindow(c, sel) /\ Liquid(c, liq)
                   /\ DeltaFit(c, chain.spot, sel) # Missing} |->
            LongFit(chain.list[i], chain.spot, sel, liq, prefer)])

(* _spread_pop(): Missing without a spot or a volatility, and on the day   *)
(* of expiry, where the lognormal has no width.                            *)
SpreadPop(chain, long, debit) ==
  LET level == IF long.call THEN long.k + debit ELSE long.k - debit
      above == ProbAbove(chain.spot, level, long.iv, long.dte)
  IN  IF chain.spot <= 0 \/ long.iv <= 0 \/ long.dte <= 0 \/ level <= 0 THEN Missing
      ELSE IF long.call THEN above ELSE 10000 - above

(* select_vertical_spread(): at most one pair, the long leg and a wing     *)
(* further out; the long legs come first in the order of the chain.        *)
PairDebit(p) == Mid(p[1]) - Mid(p[2])
PairWidth(p) == Abs(p[1].k - p[2].k)
VerticalPair(p, chain, cap, sel) ==
  /\ p[2].dte = p[1].dte
  /\ IF p[1].call THEN p[2].k > p[1].k ELSE p[2].k < p[1].k
  /\ PairDebit(p) \in 1 .. cap
  /\ sel.pop # Missing => SpreadPop(chain, p[1], PairDebit(p)) >= sel.pop
VerticalFit(p, chain) ==
  LET reward == Least(10000, ((PairWidth(p) - PairDebit(p)) * 5000) \div PairDebit(p))
      broad == Least(10000, (PairWidth(p) * 200) \div (p[1].k \div 1000))
  IN  (45 * Most(0, SpreadPop(chain, p[1], PairDebit(p))) + 35 * reward + 20 * broad) \div 100
LongLegs(chain, bullish, sel, liq) ==
  {i \in Listed(chain) : LET c == chain.list[i] IN
                         /\ c.call = bullish /\ InWindow(c, sel) /\ Liquid(c, liq)
                         /\ LegFits(c, chain.spot, sel)}
ShortLegs(chain, bullish, sel, liq) ==
  {i \in Listed(chain) : LET c == chain.list[i] IN
                         /\ c.call = bullish /\ Liquid(c, liq)
                         /\ Usable(c.delta) => c.delta >= sel.short}
BestPair(list, fits) ==
  LET before(p, q) == p[1] < q[1] \/ (p[1] = q[1] /\ p[2] <= q[2])
      best == Topmost(DOMAIN fits, fits)
  IN  {<<list[p[1]], list[p[2]]>> : p \in {q \in best : \A r \in best : before(q, r)}}
SelectVertical(chain, bullish, cap, sel, liq) ==
  LET at(n) == <<chain.list[n[1]], chain.list[n[2]]>>
  IN  BestPair(chain.list,
               [n \in {m \in LongLegs(chain, bullish, sel, liq) \X ShortLegs(chain, bullish, sel, liq) :
                         VerticalPair(at(m), chain, cap, sel)} |-> VerticalFit(at(n), chain)])

-----------------------------------------------------------------------------
(* Structures with several legs: a choice is [strategy, legs, dte, maxLoss, *)
(* maxProfit], both per contract, the latter Missing when uncapped.         *)

NoChoice == [strategy |-> "none"]
Leg(buy, c) == [buy |-> buy, call |-> c.call, k |-> c.k, px |-> Mid(c)]
Bought(c) == Leg(TRUE, c)
Sold(c) == Leg(FALSE, c)

LongChoice(found) ==
  IF found = {} THEN NoChoice
  ELSE LET c == CHOOSE x \in found : TRUE IN
       [strategy |-> IF c.call THEN "long_call" ELSE "long_put", legs |-> <<Bought(c)>>, dte |-> c.dte,
        maxLoss |-> Mid(c), maxProfit |-> Missing]
VerticalChoice(found) ==
  IF found = {} THEN NoChoice
  ELSE LET p == CHOOSE x \in found : TRUE IN
       [strategy |-> IF p[1].call THEN "bull_call_spread" ELSE "bear_put_spread",
        legs |-> <<Bought(p[1]), Sold(p[2])>>, dte |-> p[1].dte,
        maxLoss |-> PairDebit(p), maxProfit |-> PairWidth(p) - PairDebit(p)]

(* _choose_expiration(): the one nearest the middle of the window; of two   *)
(* equally near, the code takes either and the chains here have none.       *)
ChooseExpiration(chain, sel) ==
  LET days == {chain.list[i].dte : i \in Listed(chain)} \cap sel.lo .. sel.hi
      off(d) == Abs(2 * d - sel.lo - sel.hi)
  IN  IF days = {} THEN Missing ELSE CHOOSE d \in days : \A e \in days : off(d) < off(e) \/ (off(d) = off(e) /\ d <= e)

(* _liquid_by_delta(): at most one contract, the nearest to the target. *)
LiquidByDelta(chain, call, dte, target, liq) ==
  LET list == chain.list
      S == {i \in Listed(chain) : /\ list[i].call = call /\ list[i].dte = dte
                                  /\ list[i].delta # Missing /\ Liquid(list[i], liq)}
  IN  {list[i] : i \in FirstLeast(S, [i \in S |-> Abs(list[i].delta - target)])}

(* select_credit_vertical(): sell near 30 delta, protect near 15. *)
CreditVertical(chain, bullish, cap, sel, liq) ==
  LET dte == ChooseExpiration(chain, sel)
      near(target) == LiquidByDelta(chain, ~bullish, dte, target, liq)
      pairs == {p \in near(30) \X near(15) : IF bullish THEN p[2].k < p[1].k ELSE p[2].k > p[1].k}
      credit(p) == Mid(p[1]) - Mid(p[2])
      loss(p) == Abs(p[1].k - p[2].k) - credit(p)
      sound == {p \in pairs : credit(p) > 0 /\ loss(p) \in 1 .. cap}
  IN  IF dte = Missing \/ sound = {} THEN NoChoice
      ELSE LET p == CHOOSE x \in sound : TRUE IN
           [strategy |-> IF bullish THEN "bull_put_spread" ELSE "bear_call_spread",
            legs |-> <<Sold(p[1]), Bought(p[2])>>, dte |-> dte, maxLoss |-> loss(p), maxProfit |-> credit(p)]

LongVolChoice(strategy, call, put, cap) ==
  IF Mid(call) + Mid(put) \in 1 .. cap
  THEN [strategy |-> strategy, legs |-> <<Bought(call), Bought(put)>>, dte |-> call.dte,
        maxLoss |-> Mid(call) + Mid(put), maxProfit |-> Missing]
  ELSE NoChoice

(* select_straddle(): the call nearest the spot and the put at its strike. *)
Straddle(chain, cap, sel, liq) ==
  LET list == chain.list
      dte == ChooseExpiration(chain, sel)
      calls == {i \in Listed(chain) : list[i].call /\ list[i].dte = dte /\ Liquid(list[i], liq)}
      near == FirstLeast(calls, [i \in calls |-> Abs(list[i].k - chain.spot)])
      puts == {i \in Listed(chain) : /\ ~list[i].call /\ list[i].dte = dte /\ Liquid(list[i], liq)
                                     /\ \E j \in near : list[i].k = list[j].k}
      pairs == near \X FirstOf(puts)
  IN  IF dte = Missing \/ chain.spot <= 0 \/ pairs = {} THEN NoChoice
      ELSE LET p == CHOOSE q \in pairs : TRUE IN LongVolChoice("long_straddle", list[p[1]], list[p[2]], cap)

(* select_strangle(): both near 30 delta. *)
Strangle(chain, cap, sel, liq) ==
  LET dte == ChooseExpiration(chain, sel)
      pairs == LiquidByDelta(chain, TRUE, dte, 30, liq) \X LiquidByDelta(chain, FALSE, dte, 30, liq)
  IN  IF dte = Missing \/ pairs = {} THEN NoChoice
      ELSE LET p == CHOOSE q \in pairs : TRUE IN LongVolChoice("long_strangle", p[1], p[2], cap)

\* Mutant: the loss is counted on the narrower wing.
CondorWidthLeast(lp, sp, sc, lc) == Least(sp.k - lp.k, lc.k - sc.k)
CondorWidth(lp, sp, sc, lc) == Most(sp.k - lp.k, lc.k - sc.k)

(* select_iron_condor(): sold near 20 delta, protected near 10; the loss   *)
(* is that of the wider wing.                                              *)
IronCondor(chain, cap, sel, liq) ==
  LET dte == ChooseExpiration(chain, sel)
      near(call, target) == LiquidByDelta(chain, call, dte, target, liq)
      quads == {q \in near(FALSE, 10) \X near(FALSE, 20) \X near(TRUE, 20) \X near(TRUE, 10) :
                  q[1].k < q[2].k /\ q[2].k < q[3].k /\ q[3].k < q[4].k}
      credit(q) == Mid(q[2]) + Mid(q[3]) - Mid(q[1]) - Mid(q[4])
      loss(q) == CondorWidth(q[1], q[2], q[3], q[4]) - credit(q)
      sound == {q \in quads : credit(q) > 0 /\ loss(q) \in 1 .. cap}
  IN  IF dte = Missing \/ sound = {} THEN NoChoice
      ELSE LET q == CHOOSE x \in sound : TRUE IN
           [strategy |-> "iron_condor", legs |-> <<Sold(q[2]), Bought(q[1]), Sold(q[3]), Bought(q[4])>>,
            dte |-> dte, maxLoss |-> loss(q), maxProfit |-> credit(q)]
=============================================================================
