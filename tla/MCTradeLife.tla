---------------------------- MODULE MCTradeLife ----------------------------
(* Bounds of the trade runs: one underlying near $20, ten moments over four *)
(* weeks (before the open, in the first minutes, in session, past the 0DTE  *)
(* cutoff, past the review time, an early close, and every expiration),     *)
(* four tapes, and a chain of eight strikes whose prices fall linearly with *)
(* the distance to the money.                                               *)
EXTENDS TradeLife

Moment(day, kind, minute) == [day |-> day, kind |-> kind, minute |-> minute]
Calendar ==
  <<Moment(0, "full", 560), Moment(0, "full", 572), Moment(0, "full", 600), Moment(0, "full", 905),
    Moment(0, "full", 946), Moment(1, "early", 600), Moment(4, "full", 600), Moment(16, "full", 600),
    Moment(22, "full", 600), Moment(23, "full", 600)>>

Expirations == <<0, 1, 4, 22>>
StrikeList == <<17000, 18000, 19000, 20000, 21000, 22000, 22500, 23000>>
Prices == {18000, 19000, 19500, 20000, 20500, 21000, 22000}

(* How far from the money a delta, and a premium, still reaches. *)
Reach(dte) == IF dte = 0 THEN 1500 ELSE IF dte = 1 THEN 1800 ELSE IF dte <= 6 THEN 2000 ELSE 4000
AtTheMoney(dte) == IF dte = 0 THEN 300 ELSE IF dte = 1 THEN 360 ELSE IF dte <= 6 THEN 460 ELSE IF dte = 21 THEN 440 ELSE 800
Clipped(x, lo, hi) == Most(lo, Least(x, hi))

Listing(spot, dte, call, k) ==
  LET ahead == IF call THEN spot - k ELSE k - spot
      time == (AtTheMoney(dte) * Most(0, Reach(dte) - Abs(ahead))) \div Reach(dte)
      mid == 5 * ((Most(0, ahead) + time + 20) \div 5)
      low == 10 * ((mid - 10) \div 10)
      dark == k = 23000 /\ dte = 6
      thin == (call /\ k = 19000) \/ (spot = 20500 /\ k # 21000 /\ dte > 6)
  IN  [call |-> call, k |-> k, dte |-> dte,
       bid |-> IF dark THEN Missing ELSE low, ask |-> IF dark THEN Missing ELSE 2 * mid - low,
       mark |-> IF dark THEN Missing ELSE mid,
       oi |-> IF thin THEN 20 ELSE 500, volume |-> 200,
       delta |-> IF (dte = 0 /\ k = spot) \/ dte = 21 THEN Missing ELSE Clipped(50 + (50 * ahead) \div Reach(dte), 1, 99),
       iv |-> 40]

(* What is still listed on a day: a call and a put at each strike.          *)
Board(spot, day) ==
  LET n == Len(StrikeList)
      every == [i \in 1 .. 2 * n * Len(Expirations) |->
                  Listing(spot, Expirations[((i - 1) \div (2 * n)) + 1] - day, (i % 2) = 1,
                          StrikeList[(((i - 1) \div 2) % n) + 1])]
  IN  SelectSeq(every, LAMBDA c : c.dte >= 0)

Listings == [at \in Prices \X {0, 1, 4, 16, 22, 23} |-> Board(at[1], at[2])]
(* The same table, once for all. *)
Tabled == CHOOSE f \in {Listings} : TRUE

MCProbAbove(spot, level, iv, days) == Clipped(5000 + (5000 * (spot - level)) \div Reach(days), 0, 10000)

Flat == [m \in 1 .. 10 |-> 20000]
Up == <<20000, 20000, 20000, 20500, 20500, 21000, 22000, 22000, 22000, 22000>>
Down == <<20000, 20000, 20000, 19500, 19500, 19000, 18000, 19000, 18000, 18000>>
Turn == <<20000, 20500, 20500, 19500, 21000, 19000, 22000, 21000, 19500, 20000>>

Core(direction, ivRank, catalyst, turnover) ==
  [direction |-> direction, ivRank |-> ivRank, catalyst |-> catalyst, turnover |-> turnover]
CoreIdeas == { Core("bullish", 20, FALSE, 50), Core("bearish", 60, FALSE, 50), Core("bullish", 60, FALSE, 50),
               Core("neutral", 60, FALSE, 50), Core("neutral", 20, TRUE, 50), Core("neutral", 40, FALSE, 50),
               Core("bearish", Missing, FALSE, 50), Core("bullish", 20, FALSE, 10) }

Desk(symbol, bucket, direction, regime, stale, prefer) ==
  [symbol |-> symbol, bucket |-> bucket, direction |-> direction, regime |-> regime, stale |-> stale, prefer |-> prefer]
DeskIdeas == { Desk("SPY", "0dte", "bullish", "open", FALSE, 0), Desk("QQQ", "1-5dte", "bullish", "open", FALSE, 21000),
               Desk("MU", "1-5dte", "bearish", "open", FALSE, 0), Desk("MU", "swing", "bearish", "blocked", FALSE, 0),
               Desk("SPY", "0dte", "bearish", "open", TRUE, 0) }

Held1(way, expiry, buy, call, k) == [way |-> way, expiry |-> expiry, legs |-> <<[buy |-> buy, call |-> call, k |-> k]>>]
Held2(way, expiry, call, long, short) ==
  [way |-> way, expiry |-> expiry,
   legs |-> <<[buy |-> TRUE, call |-> call, k |-> long], [buy |-> FALSE, call |-> call, k |-> short]>>]
Account == { Held1("sync", 4, TRUE, TRUE, 20000), Held1("line", 22, TRUE, FALSE, 20000),
             Held2("form", 22, TRUE, 20000, 22000), Held2("paste", 22, FALSE, 18000, 20000),
             Held2("line", 22, TRUE, 20000, 22000), Held1("line", 4, FALSE, TRUE, 21000),
             Held2("form", 1, FALSE, 21000, 20000), Held2("sync", 22, TRUE, 22000, 20000),
             [way |-> "form", expiry |-> 4, legs |-> <<[buy |-> TRUE, call |-> TRUE, k |-> 20000],
                                                       [buy |-> TRUE, call |-> FALSE, k |-> 20000]>>] }

World(moments, path, slots, core, desk, imports) ==
  [moments |-> moments, tape |-> [m \in 1 .. Len(moments) |-> path[m]], slots |-> slots,
   core |-> core, desk |-> desk, imports |-> imports]
(* Two ideas side by side, at five of the moments. *)
Short == <<Calendar[3], Calendar[5], Calendar[6], Calendar[7], Calendar[8]>>
Pairs == { Desk("QQQ", "1-5dte", "bullish", "open", FALSE, 21000), Desk("SPY", "0dte", "bullish", "open", FALSE, 0) }
Stories ==
  {World(Calendar, Up, {1}, CoreIdeas, DeskIdeas, Account), World(Calendar, Turn, {1}, CoreIdeas, DeskIdeas, Account),
    World(Calendar, Flat, {1}, {}, DeskIdeas, Account), World(Calendar, Down, {1}, {}, DeskIdeas, Account),
    World(Short, <<20000, 19500, 21000, 18000, 20000>>, {1, 2}, {}, Pairs, {})}
Places == {1, 2}
=============================================================================
