----------------------------- MODULE TradeLife ------------------------------
(***************************************************************************)
(* An idea from scan to grade: the core scan and the short-duration scan   *)
(* turn a chain into a sized plan, a plan is opened on paper, a position   *)
(* is taken over from a broker, the desk's monitor closes what it opened,  *)
(* a person closes the rest, and the record is graded                      *)
(* (app/engine/candidate_builder.py, app/shortduration/detection.py and    *)
(* paper.py, app/api/routes/paper.py and positions.py).                    *)
(*                                                                         *)
(* The market is a tape: the price of the one underlying at each of the    *)
(* Moments, fixed at the start and read one moment at a time; the chain    *)
(* is a function of price and day.  Every symbol follows the tape.  A      *)
(* world is the prices, how many ideas there is room for, and what the     *)
(* scans and the user bring.                                               *)
(***************************************************************************)
EXTENDS Grading, EntryGates

CONSTANTS Slots,         \* places for an idea and what becomes of it
          Chains,        \* Chains[price, day]: the listed contracts
          Unconstrained, \* whether the signal book is free of the caps
          Worlds         \* set of records.  moments: [day, kind, minute] each, in order;
                         \* tape: a price per moment; slots, a part of Slots;
                         \* core: set of [direction, ivRank, catalyst, turnover];
                         \* desk: set of [symbol, bucket, direction, regime, stale, prefer];
                         \* imports: set of [way, legs, expiry], legs [buy, call, k]

(* Prices are quoted in cents, so a mark is a whole number of half cents;  *)
(* a moment comes after the one before it, and its chain is known.         *)
ASSUME ChainsAssumption ==
  \A at \in DOMAIN Chains :
    /\ DOMAIN Chains[at] \subseteq Nat
    /\ \A i \in DOMAIN Chains[at] :
         LET c == Chains[at][i] IN
         /\ c.call \in BOOLEAN /\ c.k \in Nat /\ {c.bid, c.ask} \subseteq Int
         /\ c.mark = Missing \/ (c.mark \in Nat /\ c.mark % 5 = 0)
Instants == [day : Nat, kind : DayKind, minute : 0 .. 1439]
HeldLegs == [buy : BOOLEAN, call : BOOLEAN, k : Nat]
Later(m, n) == m.day < n.day \/ (m.day = n.day /\ m.minute < n.minute)
ASSUME WorldsAssumption ==
  \A w \in Worlds :
    /\ w.moments \in Seq(Instants) /\ Len(w.moments) > 0
    /\ \A m, n \in DOMAIN w.moments : m < n => Later(w.moments[m], w.moments[n])
    /\ \A m \in DOMAIN w.moments : w.tape[m] \in Nat /\ <<w.tape[m], w.moments[m].day>> \in DOMAIN Chains
    /\ \A p \in w.imports : /\ p.way \in {"line", "paste", "form", "sync"} /\ p.expiry \in Nat
                             /\ p.legs \in Seq(HeldLegs)
    /\ \A d \in w.desk : d.bucket \in {"0dte", "1-5dte", "swing"}

(* A day's ideas are finitely many.                                        *)
ASSUME SlotsAssumption == IsFiniteSet(Slots)

VARIABLES now, world, board, book

vars == <<now, world, board, book>>

NoIdea == [way |-> "none"]
NoTrade == [status |-> "none"]

Moments == world.moments
Tape == world.tape
Here == Moments[now]
Spot == Tape[now]
Today == Here.day
Quotes == [spot |-> Spot, list |-> Chains[<<Spot, Today>>]]
Stamp == <<Today, Here.minute>>

-----------------------------------------------------------------------------
(* The chain of a moment, leg by leg. *)

(* The listed contract of a leg, as the set of at most one. *)
ListedLeg(leg, expiry, m) ==
  LET list == Chains[<<Tape[m], Moments[m].day>>]
  IN  {list[i] : i \in {j \in DOMAIN list : /\ list[j].k = leg.k /\ list[j].call = leg.call
                                            /\ list[j].dte = expiry - Moments[m].day}}
MarkIn(found) == IF found = {} THEN Missing ELSE (CHOOSE c \in found : TRUE).mark
LegMark(leg, expiry, m) == MarkIn(ListedLeg(leg, expiry, m))
MarksAt(legs, expiry, m) == [i \in DOMAIN legs |-> LegMark(legs[i], expiry, m)]
MarkAt(legs, expiry, m) == MarkedNet(legs, MarksAt(legs, expiry, m))

(* structure_spread(): legs without two quotes count nothing. *)
SpreadIn(found) == IF found = {} THEN 0
                   ELSE LET c == CHOOSE x \in found : TRUE IN IF Quoted(c) THEN Most(0, c.ask - c.bid) ELSE 0
StructureSpread(legs, expiry, m) == Total([i \in DOMAIN legs |-> SpreadIn(ListedLeg(legs[i], expiry, m))])

(* The last candle of a day up to d, of those seen so far. *)
CloseOn(d) == Tape[Highest({m \in 1 .. now : Moments[m].day <= d})]
LastOf(d) == Highest({m \in DOMAIN Moments : Moments[m].day = d})

-----------------------------------------------------------------------------
(* The account and the desk's day. *)

Opened == {i \in Slots : book[i].status = "open"}
DeskTrades == {i \in Slots : book[i].status # "none" /\ board[i].way = "desk"}
Expiry(i) == board[i].at[1] + board[i].plan.dte

Sum(S, f) == LET add[T \in SUBSET S] == IF T = {} THEN 0
                                        ELSE LET x == CHOOSE y \in T : TRUE IN f[x] + add[T \ {x}]
             IN  add[S]

(* PaperAccountState: the desk's own trades, closed and open. *)
DeskOpen == DeskTrades \cap Opened
Equity == CorePolicy.equity + Sum(DeskTrades \ Opened, [i \in DeskTrades \ Opened |-> book[i].pnl])
CommittedRisk == Sum(DeskOpen, [i \in DeskOpen |-> board[i].plan.maxLoss])

(* daily_risk_state(): the desk's trades that closed today, in the order   *)
(* of their closing, and those that are open.                              *)
DailyRiskState ==
  LET closed == {i \in DeskTrades : book[i].status = "closed" /\ book[i].closed[1] = Today}
      lost(i) == book[i].pnl < 0
      after(i, j) == book[i].closed[2] < book[j].closed[2] \/ (book[i].closed[2] = book[j].closed[2] /\ i < j)
      trailing == {i \in closed : lost(i) /\ \A j \in closed : after(i, j) => lost(j)}
  IN  [pnl |-> Sum(closed, [i \in closed |-> book[i].pnl]), streak |-> Cardinality(trailing),
       open |-> [i \in DeskOpen |-> [symbol |-> board[i].symbol, direction |-> board[i].direction]]]

-----------------------------------------------------------------------------
Init ==
  /\ now = 1
  /\ world \in Worlds
  /\ board = [i \in Slots |-> NoIdea]
  /\ book = [i \in Slots |-> NoTrade]

Tick ==
  /\ now < Len(Moments)
  /\ now' = now + 1
  /\ UNCHANGED <<world, board, book>>

Idea(way, symbol, bucket, direction, plan, rejects, would) ==
  [way |-> way, symbol |-> symbol, bucket |-> bucket, direction |-> direction, plan |-> plan,
   rejects |-> rejects, would |-> would, at |-> Stamp, spot |-> Spot]

Universe == [minPrice |-> 3000, pennies |-> FALSE, minTurnover |-> 20, lowFloat |-> FALSE]

(* _evaluate_symbol(), for a portfolio that run() takes to be empty.       *)
WhyNot(w, refused, plan) ==
  IF refused # {} THEN refused
  ELSE IF plan # NoPlan THEN EvaluateAdmission(plan.maxLoss, 0, 0, CorePolicy)
  ELSE {IF w.direction = "neutral" THEN "weak_signal"
        ELSE IF Quotes.list = <<>> THEN "no_valid_contract" ELSE "risk_unmanageable"}
CoreIdea(w, plan, why) == Idea("core", "SPY", "core", w.direction, IF why = {} THEN plan ELSE NoPlan, why, why)
Scan(i) ==
  /\ i \in world.slots /\ board[i] = NoIdea
  /\ \E w \in world.core :
       LET refused == GateUnderlying([turnover |-> w.turnover, float |-> Missing], Spot, Universe)
       IN  \E plan \in {IF refused # {} THEN NoPlan
                        ELSE BuildBestPlan(Quotes, w.direction, w.ivRank, w.catalyst, CorePolicy, 0)} :
             board' = [board EXCEPT ![i] = CoreIdea(w, plan, WhyNot(w, refused, plan))]
  /\ UNCHANGED <<now, world, book>>

(* _score_symbol() for one setup: each expression is an idea of its own,   *)
(* and a setup that cannot be expressed is kept without a plan.  would is  *)
(* what the gates that do not read the clock say, evaluated or not.        *)
DeskScan(i) ==
  /\ i \in world.slots /\ board[i] = NoIdea
  /\ \E w \in world.desk :
       LET pol == ShortPolicy(w.bucket = "0dte", Equity, Unconstrained)
           bullish == w.direction = "bullish"
           plans == ShortExpressions(Quotes, bullish, w.bucket, w.prefer, pol, CommittedRisk)
           daily == DailyRiskState
           gates == EvaluateEntryGates(w.bucket, w.symbol, w.direction, w.regime, w.stale, daily, Equity, Here)
           would == AccountGates(w.symbol, w.direction, w.regime, w.stale, daily, Equity)
       IN  IF plans = {}
           THEN board' = [board EXCEPT ![i] =
                  Idea("desk", w.symbol, w.bucket, w.direction, NoPlan,
                       gates \cup {ShortReject(Quotes, bullish, w.bucket, pol)}, would)]
           ELSE \E plan \in plans :
                  board' = [board EXCEPT ![i] =
                              Idea("desk", w.symbol, w.bucket, w.direction, plan, gates, would)]
  /\ UNCHANGED <<now, world, book>>

Filled(fill) == [status |-> "open", fill |-> fill, at |-> now, executable |-> TRUE]

(* _executable_at_entry(): would one contract still fit the real account.  *)
ExecutableAtEntry(plan, bucket) ==
  SizeByDefinedRisk(plan.maxLoss \div plan.contracts, ShortPolicy(bucket = "0dte", Equity, FALSE),
                    CommittedRisk).contracts >= 1

(* POST /paper and POST of the desk: the middle of the scan's quotes with  *)
(* the spread of today.  Neither reads the gates.                          *)
OpenPaper(i) ==
  /\ book[i] = NoTrade
  /\ board[i].way = "core" /\ board[i].plan # NoPlan
  /\ book' = [book EXCEPT ![i] =
                Filled(EntryFill(EntryNet(board[i].plan.legs), StructureSpread(board[i].plan.legs, Expiry(i), now)))]
  /\ UNCHANGED <<now, world, board>>

OpenDesk(i) ==
  /\ book[i] = NoTrade
  /\ board[i].way = "desk" /\ board[i].plan # NoPlan
  /\ LET plan == board[i].plan
         fill == EntryFill(plan.debit, StructureSpread(plan.legs, Expiry(i), now))
     IN  book' = [book EXCEPT ![i] = [Filled(fill) EXCEPT !.executable = ExecutableAtEntry(plan, board[i].bucket)]]
  /\ UNCHANGED <<now, world, board>>

(* quick-add, import and sync: a position bought at today's middle, whose  *)
(* legs carry their prices only when the form or the broker gives them.    *)
Import(i) ==
  /\ i \in world.slots /\ board[i] = NoIdea
  /\ \E p \in {q \in world.imports : q.expiry >= Today} :
       LET mark == MarkAt(p.legs, p.expiry, now)
           marks == MarksAt(p.legs, p.expiry, now)
           bare == p.way \in {"line", "paste"}
           legs == [j \in DOMAIN p.legs |->
                      [buy |-> p.legs[j].buy, call |-> p.legs[j].call, k |-> p.legs[j].k,
                       px |-> IF bare THEN 0 ELSE marks[j]]]
           plan == TrackedPlan(legs, mark.net, 1, p.expiry - Today)
       IN  /\ mark.priced /\ Accepted(p.way, legs, mark.net) /\ Infer(legs) # "unsupported"
           /\ board' = [board EXCEPT ![i] =
                          Idea(p.way, "SPY", "live", IF plan.strategy \in BullishSingle THEN "bullish"
                                                     ELSE IF plan.strategy \in BearishSingle THEN "bearish"
                                                     ELSE "neutral", plan, {}, {})]
           /\ book' = [book EXCEPT ![i] = Filled(mark.net)]
  /\ UNCHANGED <<now, world>>

Closed(trade, exit, reason, at, contracts) ==
  [status |-> "closed", fill |-> trade.fill, at |-> trade.at, executable |-> trade.executable, exit |-> exit, reason |-> reason,
   closed |-> at, pnl |-> (exit - trade.fill) * contracts]

(* _intraday_exit() *)
IntradayExit(dte, timeStop, minute) ==
  IF dte < 0 THEN "expiry"
  ELSE IF dte = 0 THEN IF minute >= 945 THEN "time_stop" ELSE "none"
  ELSE IF timeStop >= 1 /\ dte <= timeStop THEN "time_stop" ELSE "none"

(* The monitor of the desk's positions: settled after expiry, unmarked, or *)
(* closed across today's spread; a mark with no exit only refreshes the    *)
(* figures of the row, which a later mark replaces.                        *)
DeskMonitor(i) ==
  /\ i \in Opened /\ board[i].way = "desk"
  /\ LET plan == board[i].plan
         mark == MarkAt(plan.legs, Expiry(i), now)
         hit == CheckExit(plan, book[i].fill, mark.net)
         why == IF hit # "none" THEN hit ELSE IntradayExit(Expiry(i) - Today, plan.timeStop, Here.minute)
     IN  \/ /\ Expiry(i) < Today
            /\ book' = [book EXCEPT ![i] = Closed(@, SettleNet(plan.legs, CloseOn(Expiry(i))), "expiry",
                                                  <<Expiry(i), 960>>, plan.contracts)]
         \/ /\ Expiry(i) >= Today /\ mark.priced /\ why # "none"
            /\ book' = [book EXCEPT ![i] =
                          Closed(@, ExitFill(mark.net, StructureSpread(plan.legs, Expiry(i), now)), why,
                                 Stamp, plan.contracts)]
  /\ UNCHANGED <<now, world, board>>

(* POST /positions/{id}/close: at a price the caller gives, here what the  *)
(* structure can be sold for at the middle or across the spread.           *)
Close(i) ==
  /\ i \in Opened
  /\ board[i].way # "desk"
  /\ LET plan == board[i].plan
         mark == MarkAt(plan.legs, Expiry(i), now)
     IN  /\ Expiry(i) >= Today /\ mark.priced
         /\ \E exit \in {mark.net, ExitFill(mark.net, StructureSpread(plan.legs, Expiry(i), now))} :
              book' = [book EXCEPT ![i] = Closed(@, exit, "manual", Stamp, plan.contracts)]
  /\ UNCHANGED <<now, world, board>>

Next == \/ Tick
        \/ \E i \in Slots : \/ Scan(i) \/ DeskScan(i) \/ OpenPaper(i) \/ OpenDesk(i)
                            \/ Import(i) \/ DeskMonitor(i) \/ Close(i)

Spec == Init /\ [][Next]_vars

-----------------------------------------------------------------------------
(* Properties. *)

Planned == {i \in Slots : board[i].way # "none" /\ board[i].plan # NoPlan}
Held == {i \in Slots : book[i].status # "none"}
Taken == {i \in Planned : board[i].way \notin {"core", "desk"}}

(* An idea never changes, so what holds of it for the whole tape is asked  *)
(* at the moment it appears.                                               *)
New == {i \in Planned : board[i].at = Stamp}

(* What a structure pays at expiry is linear between these spots.          *)
Corners(legs) == {0, 2 * Highest(AllStrikes(legs))} \cup AllStrikes(legs)

(* No spot at expiry costs a plan of either scan more than the loss it was *)
(* sized on, nor pays more than the profit it shows; the loss is within    *)
(* the cap of one trade.                                                   *)
MaxLossIsWorst ==
  \A i \in New \ Taken :
    LET p == board[i].plan IN
    /\ p.maxLoss <= CorePolicy.cap
    /\ \A s \in Corners(p.legs) :
         LET worth == (SettleNet(p.legs, s) - p.debit) * p.contracts
         IN  worth >= -p.maxLoss /\ (p.maxProfit # Missing => worth <= p.maxProfit)

(* The decision that is warehoused for an idea. *)
SnapshotOf(i) ==
  LET b == board[i] IN
  CASE b.way = "core" -> SnapshotFromCandidate(b.plan, b.direction, b.at, b.spot)
    [] b.way = "desk" -> SnapshotFromShortDuration(b.plan, b.direction, b.at, b.spot)
    [] OTHER -> SnapshotFromLiveTrade(b.plan, b.direction, b.at)

(* What the replays read of the tape: the last mark of each day, and bars  *)
(* of a given half-width around the mark of each moment.                   *)
DayMarks(i) == [d \in {Moments[m].day : m \in DOMAIN Moments} |-> MarkAt(board[i].plan.legs, Expiry(i), LastOf(d))]
Clock(m) == Moments[m].day * 1440 + Moments[m].minute
Bars(i, half) ==
  LET p == board[i].plan
      at(t) == CHOOSE m \in DOMAIN Moments : Clock(m) = t
      bar(t, j) == LET x == LegMark(p.legs[j], Expiry(i), at(t))
                   IN  IF x = Missing THEN [low |-> Missing, high |-> Missing] ELSE [low |-> x - half, high |-> x + half]
  IN  [t \in {Clock(m) : m \in DOMAIN Moments} |-> [j \in DOMAIN p.legs |-> bar(t, j)]]

Said(action) == CASE action = "take_profit" -> "profit_target" [] action = "stop" -> "stop_loss" [] OTHER -> action

(* A position taken over from a broker is watched by the monitor and       *)
(* graded by two replays of its exit plan.  The daily one leaves on the    *)
(* day, and for the reason, the monitor first says so after the day of     *)
(* entry; the minute one, whose bars are marks, at the moment the monitor  *)
(* first calls target or stop, and on wider bars no later.  A position     *)
(* that cost nothing has no change to measure: the replays give it up.     *)
Says(i, m) ==
  Tier4Action(board[i].plan, book[i].fill, MarkAt(board[i].plan.legs, Expiry(i), m), Expiry(i) - Moments[m].day)
Ends(i) == {m \in DOMAIN Moments : /\ m = LastOf(Moments[m].day)
                                   /\ board[i].at[1] < Moments[m].day /\ Moments[m].day <= Expiry(i)
                                   /\ Says(i, m) \notin {"hold", "unmarked"}}
Calls(i) == {m \in book[i].at .. Len(Moments) : Says(i, m) \in {"take_profit", "stop"}}
Live(i) == [SnapshotOf(i) EXCEPT !.minute = Clock(book[i].at)]
DailyIs(i, daily, ends) ==
  IF ends = {} THEN daily.day = Missing
  ELSE LET m == Lowest(ends) IN daily.day = Moments[m].day /\ daily.reason = Said(Says(i, m))
ExactIs(i, exact, wide, calls) ==
  IF calls = {} THEN exact.minute = Missing
  ELSE LET m == Lowest(calls) IN /\ exact.minute = Clock(m) /\ exact.reason = Said(Says(i, m))
                                 /\ wide.minute # Missing /\ wide.minute <= Clock(m)
ReplaysAgree ==
  \A i \in {j \in Taken \cap New : book[j].fill # 0} :
    /\ DailyIs(i, WalkPolicy(Live(i), DayMarks(i), Missing), Ends(i))
    /\ ExactIs(i, WalkIntraday(Live(i), Bars(i, 0), FALSE), WalkIntraday(Live(i), Bars(i, 20), FALSE), Calls(i))

Spots == {Tape[m] : m \in DOMAIN Moments}

(* What the settlement charges a share, with the half cent by which its    *)
(* entry may be rounded; and a plan whose profit, and the band around each *)
(* breakeven, leave room for that.                                         *)
Charge(p) == ResolutionCosts(p.legs, 1, 0) + 5
CanPay(p, amount) == \E s \in Corners(p.legs) : SettleNet(p.legs, s) >= amount
CanLapse(p) == \E s \in Corners(p.legs) : SettleNet(p.legs, s) <= p.debit
Covered(p) ==
  LET levels == Breakevens(p.strategy, p.legs)
  IN  CanPay(p, p.debit + Charge(p)) /\ \A j \in DOMAIN levels : 400 * Charge(p) <= levels[j]

(* The settlement of a decision and the proxy that reads only its          *)
(* breakevens do not contradict each other: whatever the close, what the   *)
(* proxy calls a loss made nothing, and what it calls a win lost nothing,  *)
(* but the costs the proxy leaves out; where the plan has room for those,  *)
(* no win of the proxy settles as a loss.  This is asked of a plan that    *)
(* can end either way for what it cost.  Credits of the scans are frozen   *)
(* with the wrong sign (snapshots.py:67-73) and positions entered without  *)
(* leg prices with other breakevens: both are left out.                    *)
ExpiryAgrees ==
  \A i \in New :
    LET p == board[i].plan IN
    p.debit > 0 /\ board[i].way \notin {"line", "paste"} /\ CanPay(p, p.debit) /\ CanLapse(p) =>
      \A s \in Spots :
        LET grade == SettleAtExpiry(SnapshotOf(i), s)
            proxy == ResolveUnderlying(SnapshotOf(i), s).result
        IN  /\ proxy = "loss" => grade.gross <= 5 * p.contracts /\ grade.result # "win"
            /\ proxy = "win" => grade.gross >= -5 * p.contracts /\ (Covered(p) => grade.result # "loss")

(* Whatever the mark, in half cents, at which the policy of a position     *)
(* taken over from a broker takes its target or its stop: the order that   *)
(* was posted at its entry for the same exit has filled there.             *)
BracketNotLater ==
  \A i \in Taken \cap New :
    \A net \in {5 * x : x \in -600 .. 600} :
      LET p == board[i].plan
          hit == CheckExit(p, p.debit, net)
      IN  /\ hit = "profit_target" => TargetFills(BracketFromPlan(p), net)
          /\ hit = "stop_loss" => StopFills(BracketFromPlan(p), net)

(* What the board shows of an idea scanned while the market was open is    *)
(* what every gate would say now on the account of the scan: allowed when, *)
(* and only when, none of them refuses.                                    *)
ScannedOpen(i) == \A m \in DOMAIN Moments : <<Moments[m].day, Moments[m].minute>> = board[i].at => InSession(Moments[m])
GateShown ==
  \A i \in Slots :
    board[i].way = "desk" /\ ScannedOpen(i) =>
      (ShownAllowed(board[i].bucket, board[i].rejects, Here)
         <=> board[i].would = {} /\ ~TimingBlocked(board[i].bucket, Here))

(* A trade of the desk that was held to its settlement is graded on the    *)
(* money it booked, to the cost of its fill and half a cent a share: the   *)
(* grade assumes the middle and charges for it afterwards, the book pays   *)
(* at the fill.  While the fill slipped no further than the grade charges, *)
(* what is graded a win is money made.                                     *)
GradeMatchesBook ==
  \A i \in DeskTrades :
    book[i].status = "closed" /\ book[i].reason = "expiry" =>
      LET p == board[i].plan
          grade == SettleAtExpiry(SnapshotOf(i), CloseOn(Expiry(i)))
          slipped == book[i].fill - p.debit + 5
      IN  /\ Abs(grade.gross - book[i].pnl) <= slipped * p.contracts
          /\ grade.result = "win" /\ slipped <= ResolutionCosts(p.legs, 1, 0) => book[i].pnl > 0

(* A replay that has found its exit keeps it, with its grade, its reach    *)
(* and its quality, however much of the tape comes in after it: no replay  *)
(* looks ahead.                                                            *)
KeepsDaily(live, days) ==
  LET upto(n) == SettleUnderPolicy(live, [d \in {e \in DOMAIN days : e <= n} |-> days[d]], Missing)
  IN  \A m, n \in DOMAIN days : m < n /\ upto(m) # Ungraded => upto(n) = upto(m)
KeepsIntraday(live, bars) ==
  LET upto(n) == SettleIntraday(live, [t \in {u \in DOMAIN bars : u <= n} |-> bars[t]], FALSE)
  IN  \A m, n \in DOMAIN bars : m < n /\ upto(m) # Ungraded => upto(n) = upto(m)
ReplaysKeep ==
  \A i \in {j \in Taken \cap New : book[j].fill # 0} :
    KeepsDaily(Live(i), DayMarks(i)) /\ KeepsIntraday(Live(i), Bars(i, 20))

=============================================================================
