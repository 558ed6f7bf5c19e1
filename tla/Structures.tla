----------------------------- MODULE Structures -----------------------------
(***************************************************************************)
(* Option structures: what a set of legs costs, is worth and settles for,  *)
(* where it breaks even and how likely it is to (app/quant/analytics.py,   *)
(* probability.py, app/analytics/expiry_settlement.py, app/tiers/          *)
(* tier4_positions.py).                                                    *)
(*                                                                         *)
(* Prices are in tenths of a cent per share, so that the middle of two     *)
(* quotes is a whole number; for one contract of 100 shares the same       *)
(* number counts dimes.  A leg is [buy, call, k, px]: bought or sold, call *)
(* or put, strike and entry price; a structure has one to four of them,    *)
(* all with one expiry.  A net is positive for a debit.                    *)
(***************************************************************************)
EXTENDS Integers, Sequences

CONSTANT ProbAbove(_, _, _, _)  \* P(spot at expiry >= level) of spot, level, iv, days; per 10000

Missing == -1
NoNet == [priced |-> FALSE, net |-> 0]

Abs(x) == IF x < 0 THEN -x ELSE x
Least(a, b) == IF a < b THEN a ELSE b
Most(a, b) == IF a < b THEN b ELSE a

(* The sum of Value over one to four legs, sold ones counted negative.     *)
Signed(legs, i, value) ==
  IF i \notin DOMAIN legs THEN 0 ELSE IF legs[i].buy THEN value[i] ELSE -value[i]
NetOf(legs, value) ==
  Signed(legs, 1, value) + Signed(legs, 2, value) + Signed(legs, 3, value) + Signed(legs, 4, value)

(* The plain sum, of as many.                                              *)
At(values, i) == IF i \in DOMAIN values THEN values[i] ELSE 0
Total(values) == At(values, 1) + At(values, 2) + At(values, 3) + At(values, 4)

EntryNet(legs) == NetOf(legs, [i \in DOMAIN legs |-> legs[i].px])

\* Mutant: the type of the leg is not read.
IntrinsicOfCall(leg, spot) == Most(0, spot - leg.k)
Intrinsic(leg, spot) == Most(0, IF leg.call THEN spot - leg.k ELSE leg.k - spot)
SettleNet(legs, spot) == NetOf(legs, [i \in DOMAIN legs |-> Intrinsic(legs[i], spot)])

(* mark_net_per_share() and _structure_net(): no net at all when one leg   *)
(* is without a mark.                                                      *)
MarkedNet(legs, mark) ==
  IF \E i \in DOMAIN legs : mark[i] = Missing THEN NoNet
  ELSE [priced |-> TRUE, net |-> NetOf(legs, mark)]

-----------------------------------------------------------------------------
(* Breakevens. *)

DebitVerticals == {"bull_call_spread", "bear_put_spread"}
CreditVerticals == {"bull_put_spread", "bear_call_spread"}
LongVol == {"long_straddle", "long_strangle"}
LongSingles == {"long_call", "long_put"} \cup LongVol
BullishSingle == {"long_call", "bull_call_spread", "bull_put_spread"}
BearishSingle == {"long_put", "bear_put_spread", "bear_call_spread"}
Strategies == DebitVerticals \cup CreditVerticals \cup LongSingles \cup {"iron_condor"}

Strikes(legs, call, buy) ==
  {legs[i].k : i \in {j \in DOMAIN legs : legs[j].call = call /\ legs[j].buy = buy}}
Lowest(S) == CHOOSE x \in S : \A y \in S : x <= y
Highest(S) == CHOOSE x \in S : \A y \in S : y <= x

(* <<lower, upper>>, <<level>> or <<>>: a label that does not fit the legs *)
(* of a stored record breaks even nowhere.                                 *)
Breakevens(strategy, legs) ==
  LET net == EntryNet(legs)
      calls == Strikes(legs, TRUE, TRUE)
      puts == Strikes(legs, FALSE, TRUE)
      soldCalls == Strikes(legs, TRUE, FALSE)
      soldPuts == Strikes(legs, FALSE, FALSE)
  IN  CASE strategy \in {"long_call", "bull_call_spread"} /\ calls # {} -> <<Lowest(calls) + net>>
        [] strategy \in {"long_put", "bear_put_spread"} /\ puts # {} -> <<Highest(puts) - net>>
        [] strategy = "bull_put_spread" /\ soldPuts # {} -> <<Highest(soldPuts) + net>>
        [] strategy = "bear_call_spread" /\ soldCalls # {} -> <<Lowest(soldCalls) - net>>
        [] strategy = "long_straddle" /\ calls # {} -> <<Lowest(calls) - net, Lowest(calls) + net>>
        [] strategy = "long_strangle" /\ calls # {} /\ puts # {} -> <<Highest(puts) - net, Lowest(calls) + net>>
        [] strategy = "iron_condor" /\ soldCalls # {} /\ soldPuts # {} ->
             <<Highest(soldPuts) + net, Lowest(soldCalls) - net>>
        [] OTHER -> <<>>

(* _result_from_breakevens(): band is per 10000 of the nearest breakeven.  *)
FromBreakevens(strategy, levels, spot, band) ==
  LET lo == levels[1]
      hi == levels[Len(levels)]
      nearest == IF Abs(spot - lo) <= Abs(spot - hi) THEN lo ELSE hi
      won(yes) == IF yes THEN "win" ELSE "loss"
  IN  CASE levels = <<>> -> "unknown"
        [] levels # <<>> /\ nearest > 0 /\ Abs(spot - nearest) * 10000 <= band * nearest -> "scratch"
        [] OTHER -> IF strategy \in BullishSingle THEN won(spot >= lo)
                    ELSE IF strategy \in BearishSingle THEN won(spot <= lo)
                    ELSE IF strategy \in LongVol THEN won(spot <= lo \/ spot >= hi)
                    ELSE won(lo <= spot /\ spot <= hi)

(* breakevens_and_pop(); the chance of ending below is the complement.     *)
ProbOfProfit(strategy, levels, spot, iv, days) ==
  LET above(level) == ProbAbove(spot, level, iv, days)
      below(level) == 10000 - above(level)
  IN  IF levels = <<>> THEN Missing
      ELSE IF strategy \in BullishSingle THEN above(levels[1])
      ELSE IF strategy \in BearishSingle THEN below(levels[1])
      ELSE IF strategy \in LongVol THEN below(levels[1]) + above(levels[2])
      ELSE Most(0, below(levels[2]) - below(levels[1]))
=============================================================================
