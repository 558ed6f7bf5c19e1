--------------------------- MODULE MCTierFunnel ---------------------------
(* Bounds of the funnel's runs: a ring of three moments (two in the primary *)
(* session 25 seconds apart, so that only positions are due again, and one  *)
(* on a dark day), two symbols, two trades, five deployments.               *)
EXTENDS TierFunnel

Moments == <<<<"full", ClockAt(9, 50)>>, <<"full", ClockAt(9, 50) + 25>>, <<"dark", ClockAt(9, 0)>>>>
Symbols == {"A", "B"}
TradeIds == {1, 2}

Deployment(symbols, trades, api, fail, restart) ==
  [universe |-> symbols, trades |-> trades, api |-> api, alone |-> (api = 0),
   fail |-> fail, restart |-> restart]

Deployments ==
  { Deployment({"A", "B"}, {}, 0, 0, 0), Deployment({"A"}, {1}, 0, 0, 0),
    Deployment({}, {1}, 1, 0, 0), Deployment({}, {1, 2}, 0, 0, 0),
    Deployment({}, {1}, 0, 1, 1) }
=============================================================================
