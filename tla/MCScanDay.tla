----------------------------- MODULE MCScanDay -----------------------------
(* Bounds of the scan runs: eight weeks of history and two live days, the   *)
(* second an early close; two symbols on each scan, one the mirror of the other;   *)
(* bars of three minutes over the first three quarters of an hour; five     *)
(* expirations of a five-strike chain.                                      *)
EXTENDS ScanDay

Names == {"SPY", "QQQ", "IWM", "ACME", "BETA"}
Early == -42
Late == 15
MCCalendar == [d \in Early .. Late |-> IF d \in {5, 6, 12} \/ (d < 0 /\ d % 7 \in {5, 6}) THEN "dark" ELSE IF d \in {3, Late} THEN "early" ELSE "full"]
MCUniverse == [b \in {"0dte", "1-5dte"} |-> IF b = "0dte" THEN <<"SPY", "QQQ">> ELSE <<"ACME", "BETA">>]

Moment(day, min) == [day |-> day, min |-> min]
\* After a break, before the next open, and in the trend of that day.
MCMoments == <<Moment(14, 20), Moment(15, -30), Moment(15, 45)>>

Bar(day, min, px, vol) == [day |-> day, min |-> min, high |-> px + 10, low |-> px - 10, close |-> px, vol |-> vol]
Flip(bars) == [i \in DOMAIN bars |-> [bars[i] EXCEPT !.high = 40000 - bars[i].low, !.low = 40000 - bars[i].high,
                                                     !.close = 40000 - bars[i].close]]

\* A quarter of an hour around 20000, a break, a trend that holds it; the
\* first day trades most at its open.
Path == <<20000, 20020, 19980, 20010, 19990, 20010, 20050, 20055, 20061, 20066, 20072, 20078, 20083, 20089, 20094, 20100>>
Rising == [i \in 1 .. 32 |-> Bar(14 + ((i - 1) \div 16), 3 * ((i - 1) % 16), Path[((i - 1) % 16) + 1], IF i <= 5 THEN 200 ELSE 100)]
\* An unchanged index, below its mean.
Flat == [i \in 1 .. 32 |-> Bar(14 + ((i - 1) \div 16), 3 * ((i - 1) % 16), IF i % 16 = 1 THEN 20015 ELSE 20000 - (i % 16), 100)]

\* Two bars of every session up to the second live day, from a day on, or one; a
\* profile of the longest leaves out what the feed was not asked for and the
\* sessions before the last twenty.
Traded(from) == SelectSeq([i \in 1 .. Late - from + 1 |-> from + i - 1], LAMBDA d : MCCalendar[d] # "dark")
PastOf(days) == [i \in 1 .. 2 * Len(days) |-> Bar(days[((i - 1) \div 2) + 1], 15 * ((i - 1) % 2), 20000, 200 + 10 * (i % 2))]
Past == PastOf(Traded(0))
Long == SelectSeq(PastOf(Traded(Early)), LAMBDA b : b.day >= 0 \/ b.min = 0)
Recent == PastOf(Traded(10))

\* Sixty closes that climb, with a jump at the end.
Climb == [i \in 1 .. 60 |-> [close |-> 19100 + 10 * i + (IF i % 2 = 0 THEN 30 ELSE 0) + (IF i > 57 THEN 150 * (i - 57) ELSE 0),
                             vol |-> 1000]]
Fall == [i \in DOMAIN Climb |-> [Climb[i] EXCEPT !.close = 40000 - Climb[i].close]]

Prior(px) == [d \in {14, 15} |-> px]
Quoted1(px, age, delayed) == [prev |-> Prior(px), age |-> age, delayed |-> delayed, known |-> TRUE]

Tape1(call, sentiment) == [call |-> call, strike |-> 20000, premium |-> 50, sentiment |-> sentiment, age |-> 60]
Headline == [age |-> 90, received |-> 80, source |-> "benzinga", story |-> "offer", hits |-> 1, about |-> "symbol", leans |-> "bearish"]

Reach(dte) == IF dte <= 1 THEN 1600 ELSE IF dte <= 5 THEN 2000 ELSE 4000
AtTheMoney(dte) == IF dte = 0 THEN 300 ELSE IF dte = 1 THEN 360 ELSE IF dte <= 5 THEN 460 ELSE 600
Listing(spot, dte, call, k) ==
  LET ahead == IF call THEN spot - k ELSE k - spot
      time == (AtTheMoney(dte) * Most(0, Reach(dte) - Abs(ahead))) \div Reach(dte)
      mid == 10 * ((Most(0, ahead) + time + 20) \div 10)
  IN  [call |-> call, k |-> k, dte |-> dte, bid |-> mid - 10, ask |-> mid + 10, mark |-> mid, oi |-> 900, volume |-> 400,
       delta |-> Most(1, Least(99, 50 + (50 * ahead) \div Reach(dte))), iv |-> 40]
StrikeList == <<19000, 19500, 20000, 20500, 21000>>
ExpirationDays == <<14, 15, 18, 19, 44>>
Board(spot, day) ==
  LET every == [i \in 1 .. 50 |-> Listing(spot, ExpirationDays[((i - 1) \div 10) + 1] - day, i % 2 = 1,
                                          StrikeList[(((i - 1) \div 2) % 5) + 1])]
  IN  SelectSeq(every, LAMBDA c : c.dte >= 0)
Spots == {Path[i] : i \in {7, 16}} \cup {40000 - Path[i] : i \in {7, 16}} \cup {19994, 19985, 19984, 19993, 19800, 20200, 20000}
Boards == [at \in Spots \X {14, 15} |-> Board(at[1], at[2])]

MCProbAbove(spot, level, iv, days) == Most(0, Least(10000, 5000 + (5000 * (spot - level)) \div Reach(days)))
MCRealizedVol(closes) == 10 + ((Max(ToSet(closes)) - Min(ToSet(closes))) * 200) \div Max(ToSet(closes))

Mood(sectors, advancing) == [sectors |-> sectors, advancing |-> advancing, call |-> 400, put |-> -300, flows |-> 4, heavy |-> 2]
Silent == [sectors |-> 0, advancing |-> 0, call |-> 0, put |-> 0, flows |-> 0, heavy |-> 0]

Bull == {"SPY", "ACME"}
Quiet == [pnl |-> 0, streak |-> 0, open |-> [i \in {1} |-> [symbol |-> "MU", direction |-> "bearish"]]]
Base ==
  [tape |-> [s \in Names |-> IF s \in Bull THEN Rising ELSE IF s = "IWM" THEN Flat ELSE Flip(Rising)],
   history |-> [s \in Names |-> CASE s = "IWM" -> Long [] s = "BETA" -> Recent [] OTHER -> Past],
   candles |-> [s \in Names |-> IF s \in Bull THEN Climb ELSE Fall],
   quote |-> [s \in Names |-> Quoted1(IF s \in Bull THEN 19900 ELSE IF s = "IWM" THEN 20000 ELSE 20100, 5, 0)],
   flow |-> [s \in Names |-> <<Tape1(s \in Bull, IF s \in Bull THEN 500 ELSE -500)>>],
   news |-> [s \in Names |-> IF s = "BETA" THEN <<Headline>> ELSE <<>>],
   catalysts |-> [s \in Names |-> IF s = "ACME" THEN {"approval"} ELSE {}],
   earnings |-> [s \in Names |-> IF s = "ACME" THEN 24 ELSE Missing],
   events |-> {}, internals |-> Mood(11, 6), vol |-> 450,
   iv |-> [s \in Names |-> [iv30 |-> 40, slope |-> 50, history |-> [i \in 1 .. 30 |-> 20 + i]]],
   book |-> {[id |-> 1, open |-> FALSE, pnl |-> 800, loss |-> 400],
             [id |-> 2, open |-> TRUE, pnl |-> 0, loss |-> 400]},
   risk |-> Quiet]

\* A calm volatility that settles nothing within the week.
Slow == [Base EXCEPT !.iv = [s \in Names |-> [iv30 |-> 7, slope |-> -200, history |-> <<>>]],
                     !.events = {[at |-> Moment(14, 55), high |-> TRUE]}]
\* The indices rise on nothing but their own word, and quotes come late.
Alone == [Base EXCEPT !.tape = [s \in Names |-> IF s \in {"SPY", "QQQ"} THEN Rising ELSE IF s = "IWM" THEN Flat ELSE Flip(Rising)],
                      !.quote = [s \in Names |-> Quoted1(IF s \in {"SPY", "QQQ"} THEN 19900 ELSE 20000, 5, 15)],
                      !.internals = Silent]

\* The same table, once for all.
Tabled == CHOOSE f \in {Boards} : TRUE
AllWorlds == {Base, Slow, Alone}
Everybody == {Symbols}
=============================================================================
