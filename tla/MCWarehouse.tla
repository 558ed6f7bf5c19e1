---------------------------- MODULE MCWarehouse ----------------------------
(* Bounds of the warehouse's runs: four decisions of which a cast uses one  *)
(* to four, three days, one crash, and a gate whose samples are small.      *)
EXTENDS Warehouse

DecisionIds == 1 .. 4
NoBucket == {"0dte"}
BootstrapAgrees(pairs) == TRUE

V(result, pnl) == [result |-> result, pnl |-> pnl]
(* What the sources say when the marks say m and the settlement s. *)
Says(m, s) ==
  [ option_marks |-> m, option_marks_bs_fallback |-> m, underlying_vs_breakeven |-> m,
    expiry_settlement |-> s, managed_policy |-> m, managed_policy_intraday |-> m, live_close |-> s ]

Scan(span, score, rank, m, s) ==
  [live |-> FALSE, dead |-> FALSE, span |-> span, says |-> Says(m, s), version |-> 3,
   bucket |-> "swing", pop |-> score, score |-> score, flow |-> score, rank |-> rank]
Dead == [Scan(1, 50, 10, V("win", 1), V("win", 1)) EXCEPT !.dead = TRUE]
Old == [Scan(1, 50, 10, V("win", 1), V("win", 1)) EXCEPT !.version = 2]
Live(pnl) == [Scan(2, 0, Missing, V("loss", pnl), V("loss", pnl)) EXCEPT !.live = TRUE, !.pop = Missing, !.version = 0]

Low == Scan(1, 40, 10, V("loss", -30), V("win", 5))
Mid == Scan(1, 70, 40, V("win", 10), V("loss", -20))
High == Scan(1, 100, 80, V("win", 30), V("win", 30))

Troupe(who, facts, resolve, api, expiry, managed, intraday, crash, orders) ==
  [who |-> who, facts |-> facts,
   runs |-> [resolve |-> resolve, api |-> api, expiry |-> expiry, managed |-> managed, intraday |-> intraday],
   crash |-> crash, orders |-> orders]

Swing == <<Mid, Dead, High, Old>>
Graded == <<Low, Mid, High, Old>>
Mixed == <<Live(-50), Mid, High, Live(-50)>>

Everyone ==
  << Troupe({1}, Swing, 0, 1, 2, 2, 0, 1, FALSE),     \* every job on one decision, with reruns
    Troupe({1, 2}, Swing, 1, 1, 0, 0, 0, 0, FALSE),  \* a dead symbol in the batch
    Troupe({3}, Swing, 1, 0, 1, 0, 2, 0, FALSE),     \* minute replays, twice
    Troupe({1, 2, 3}, Graded, 1, 0, 0, 0, 0, 0, TRUE),
    Troupe({1, 2, 3, 4}, Graded, 0, 1, 0, 0, 0, 0, FALSE),
    Troupe({4}, Mixed, 1, 0, 0, 0, 0, 1, FALSE) >>
=============================================================================
