---------------------------- MODULE TierFunnel ----------------------------
(***************************************************************************)
(* The session scheduler (app/scheduling/engine.py) driving the tier       *)
(* funnel (app/tiers/funnel.py), next to a POST /tiers/run of the API      *)
(* process.  The two processes share the tier membership and the trades of *)
(* the database and nothing else: the request counter is the scheduler's.  *)
(* Every await of a pass is a step boundary.                               *)
(*                                                                         *)
(* Abstractions: a sweep answers for a subset of its symbols and charges   *)
(* one call per symbol; scores only order symbols, so promotion picks any  *)
(* subset of the right size; a position's row says "hold", "risk" (target, *)
(* stop or time stop) or "unmarked".                                       *)
(***************************************************************************)
EXTENDS MarketClock, FiniteSets, Sequences, FiniteSetsExt

CONSTANTS
  Universe,     \* symbols a universe may hold
  Trades,       \* trade ids, 1 .. n, in the order they are opened
  Setups,       \* the deployments checked: which symbols are configured,
                \* which trades may be opened, and how often at most POST
                \* /tiers/run is called (alone: never), a pass raises, the
                \* scheduler restarts
  WatchMax,     \* settings.tier_watchlist_max
  CandMax,      \* settings.tier_candidates_max
  ListLimit,    \* the 200 of list_paper_trades
  Cap,          \* settings.api_daily_budget, in calls of a sweep
  Instants      \* the moments the model visits, <<day kind, second>>

ASSUME FunnelAssumption ==
  /\ IsFiniteSet(Universe) /\ IsFiniteSet(Trades) /\ Trades = 1 .. Cardinality(Trades)
  /\ {WatchMax, CandMax, ListLimit, Cap} \subseteq Nat \ {0}
  /\ Setups \subseteq [universe : SUBSET Universe, trades : SUBSET Trades, api : Nat, alone : BOOLEAN, fail : Nat, restart : Nat]
  /\ \A s \in Setups : s.alone => s.api = 0
  /\ Instants \in Seq(DayKind \X (0 .. 24 * Hour - 1)) /\ Instants # <<>>

VARIABLES
  at,       \* index of the current moment in Instants
  ticked,   \* the scheduler has ticked at this moment
  age,      \* seconds since a tier's last run began, MaxAge when long ago or never
  tier,     \* membership of tiers 1 to 3, a set of symbols each
  rows,     \* membership of tier 4: trade id -> action
  book,     \* trade id -> "none", "open" or "closed"
  heard,    \* trades whose current row has been published
  used,     \* the scheduler process's request counter
  oldDay,   \* the counter still belongs to an earlier UTC day
  run,      \* process -> where its pass is
  desk,     \* symbols saved as candidates, and alerted
  left      \* the deployment, with the runs, failures and restarts to come

vars == <<at, ticked, age, tier, rows, book, heard, used, oldDay, run, desk, left>>

Proc == {"sched", "api"}
Action == {"hold", "risk", "unmarked"}
MaxAge == 3600
Phase == {"idle", "next", "t1", "t1store", "t2", "t2sweep", "t2store", "t3", "t3save",
          "t3alert", "t4", "t4sweep", "t4store", "t4publish"}
NoRow == "none"

Idle == [pc |-> "idle", queue |-> <<>>, found |-> {}, seen |-> {},
         risks |-> [t \in Trades |-> NoRow], past |-> 0, done |-> {}]

Now == Instants[at]
NowSession == Session(Now[1], Now[2])

TypeOK ==
  /\ at \in DOMAIN Instants /\ ticked \in BOOLEAN
  /\ age \in [Tier -> 0 .. MaxAge]
  /\ tier \in [BROAD .. CANDIDATES -> SUBSET Universe]
  /\ rows \in [Trades -> Action \cup {NoRow}]
  /\ book \in [Trades -> {"none", "open", "closed"}]
  /\ heard \subseteq Trades
  /\ used \in 0 .. Cap /\ oldDay \in BOOLEAN
  /\ run \in [Proc -> [pc : Phase, queue : Seq(Tier),
                       found : SUBSET Universe, seen : SUBSET Trades,
                       risks : [Trades -> Action \cup {NoRow}],
                       past : 0 .. MaxAge, done : SUBSET Tier]]
  /\ desk \in [saved : SUBSET Universe, alerted : SUBSET Universe]
  /\ left \in [universe : SUBSET Universe, trades : SUBSET Trades, api : Nat, alone : BOOLEAN, fail : Nat, restart : Nat]

Init ==
  /\ at = 1 /\ ticked = FALSE
  /\ age = [k \in Tier |-> MaxAge]
  /\ tier = [k \in BROAD .. CANDIDATES |-> {}]
  /\ rows = [t \in Trades |-> NoRow]
  /\ book = [t \in Trades |-> "none"]
  /\ heard = {}
  /\ used = 0 /\ oldDay = FALSE
  /\ run = [p \in Proc |-> Idle]
  /\ desk = [saved |-> {}, alerted |-> {}]
  /\ left \in Setups

-----------------------------------------------------------------------------
(* Scheduling decisions. *)

Saturate(n) == IF n > MaxAge THEN MaxAge ELSE n

(* due_tiers(): a tier of this session whose cadence has elapsed.  A tier  *)
(* that never ran has age MaxAge, which no cadence exceeds.                *)
Due(k) == LET c == Cadence(NowSession, k) IN c # Off /\ age[k] >= c
IfDue(k) == IF Due(k) THEN <<k>> ELSE <<>>
\* Mutant: the tiers of a tick run from the last to the first.
DueTiersReversed == IfDue(POSITIONS) \o IfDue(CANDIDATES) \o IfDue(WATCHLIST) \o IfDue(BROAD)
DueTiers == IfDue(BROAD) \o IfDue(WATCHLIST) \o IfDue(CANDIDATES) \o IfDue(POSITIONS)

(* _budget_pressure(): at least 95% of the cap (rounded up to a call),     *)
(* whatever day the counter is of.                                         *)
BudgetPressure == used >= (Cap * 95 + 99) \div 100

\* Mutant: under pressure nothing runs.
AllowedUnlessPressed(k) == ~BudgetPressure
(* _allowed() *)
Allowed(k) == ~(k \in {BROAD, WATCHLIST} /\ BudgetPressure)

\* Mutant: the counter of an earlier day counts on.
BeforeAnyDay == used
(* charge() of n calls one after the other: a counter of an earlier day    *)
(* starts again, and calls beyond the cap are refused.                     *)
Before == IF oldDay THEN 0 ELSE used
Granted(n) == IF Before + n > Cap THEN Cap - Before ELSE n
Charge(n) ==
  IF n = 0 THEN UNCHANGED <<used, oldDay>>
  ELSE used' = Before + Granted(n) /\ oldDay' = FALSE

(* bounded_gather(): a symbol whose task raised is dropped.  The API       *)
(* process charges a counter of its own, which may be at any level.        *)
Answers(p, in, S) ==
  /\ S \subseteq in
  /\ p = "sched" => Cardinality(S) <= Granted(Cardinality(in))
Calls(p, n) == IF p = "sched" THEN Charge(n) ELSE UNCHANGED <<used, oldDay>>

(* passed[:n] of a list sorted by score. *)
Top(S, n, T) == T \subseteq S /\ Cardinality(T) = (IF Cardinality(S) < n THEN Cardinality(S) ELSE n)

Goto(p, label) == run' = [run EXCEPT ![p].pc = label]

(* The newest ListLimit rows of the trade journal, and the open ones.      *)
Listed == {t \in Trades : book[t] # "none" /\
             Cardinality({u \in Trades : u > t /\ book[u] # "none"}) < ListLimit}
OpenTrades == {t \in Listed : book[t] = "open"}

-----------------------------------------------------------------------------
(* The scheduler's loop and the API handler. *)

Tick ==
  /\ run["sched"].pc = "idle" /\ ~ticked
  /\ ticked' = TRUE
  /\ run' = [run EXCEPT !["sched"] = [Idle EXCEPT !.pc = "next", !.queue = DueTiers]]
  /\ UNCHANGED <<at, age, tier, rows, book, heard, used, oldDay, desk, left>>

RunOnce ==
  /\ run["api"].pc = "idle" /\ left.api > 0
  /\ left' = [left EXCEPT !.api = @ - 1]
  /\ run' = [run EXCEPT !["api"] = [Idle EXCEPT !.pc = "next",
               !.queue = <<BROAD, WATCHLIST, CANDIDATES, POSITIONS>>]]
  /\ UNCHANGED <<at, ticked, age, tier, rows, book, heard, used, oldDay, desk>>

(* The next tier of the pass.  The scheduler asks _allowed() as it reaches *)
(* a tier and leaves a shed tier's clock alone.                            *)
StartTier(p) ==
  /\ run[p].pc = "next" /\ run[p].queue # <<>>
  /\ LET k == Head(run[p].queue)
         phase == <<"t1", "t2", "t3", "t4">>
     IN  IF p = "sched" /\ ~Allowed(k)
         THEN run' = [run EXCEPT ![p].queue = Tail(@)]
         ELSE run' = [run EXCEPT ![p].pc = phase[k]]
  /\ UNCHANGED <<at, ticked, age, tier, rows, book, heard, used, oldDay, desk, left>>

EndPass(p) ==
  /\ run[p].pc = "next" /\ run[p].queue = <<>>
  /\ run' = [run EXCEPT ![p] = Idle]
  /\ UNCHANGED <<at, ticked, age, tier, rows, book, heard, used, oldDay, desk, left>>

(* A tier is over: the scheduler stamps it with the time its tick began.   *)
Ended(p, ok) ==
  LET k == Head(run[p].queue) IN
  /\ run' = [run EXCEPT ![p] = [Idle EXCEPT !.pc = "next", !.queue = Tail(run[p].queue),
               !.past = run[p].past,
               !.done = IF ok THEN run[p].done \cup {k} ELSE run[p].done]]
  /\ age' = IF p = "sched" THEN [age EXCEPT ![k] = run[p].past] ELSE age

InTier(p) == run[p].pc \notin {"idle", "next"}

(* A step of a tier raises (a database error, say): the scheduler goes on  *)
(* with the next tier, the API request ends with an error.                 *)
TierFails(p) ==
  /\ InTier(p) /\ left.fail > 0
  /\ left' = [left EXCEPT !.fail = @ - 1]
  /\ IF p = "sched" THEN Ended(p, FALSE)
     ELSE run' = [run EXCEPT ![p] = Idle] /\ UNCHANGED age
  /\ UNCHANGED <<at, ticked, tier, rows, book, heard, used, oldDay, desk>>

(* The container restarts the process: clocks and counter are in memory.   *)
Restart ==
  /\ left.restart > 0
  /\ left' = [left EXCEPT !.restart = @ - 1]
  /\ run' = [run EXCEPT !["sched"] = Idle]
  /\ age' = [k \in Tier |-> MaxAge]
  /\ used' = 0 /\ oldDay' = FALSE /\ ticked' = FALSE
  /\ UNCHANGED <<at, tier, rows, book, heard, desk>>

-----------------------------------------------------------------------------
(* Tier 1: sweep the universe, replace BROAD, then WATCHLIST. *)

SweepBroad(p) ==
  /\ run[p].pc = "t1"
  /\ \E S \in SUBSET left.universe :
        /\ Answers(p, left.universe, S)
        /\ run' = [run EXCEPT ![p].pc = "t1store", ![p].found = S]
        /\ tier' = [tier EXCEPT ![BROAD] = S]
  /\ Calls(p, Cardinality(left.universe))
  /\ UNCHANGED <<at, ticked, age, rows, book, heard, desk, left>>

PromoteWatchlist(p) ==
  /\ run[p].pc = "t1store"
  /\ \E T \in SUBSET Universe :
        Top(run[p].found, WatchMax, T) /\ tier' = [tier EXCEPT ![WATCHLIST] = T]
  /\ Ended(p, TRUE)
  /\ UNCHANGED <<at, ticked, rows, book, heard, used, oldDay, desk, left>>

(* Tier 2: read WATCHLIST, sweep it, replace WATCHLIST, then CANDIDATES.   *)
(* An empty watchlist returns before anything is replaced.                 *)
ReadWatchlist(p) ==
  /\ run[p].pc = "t2"
  /\ IF tier[WATCHLIST] = {} THEN Ended(p, TRUE)
     ELSE run' = [run EXCEPT ![p].pc = "t2sweep", ![p].found = tier[WATCHLIST]] /\ UNCHANGED age
  /\ UNCHANGED <<at, ticked, tier, rows, book, heard, used, oldDay, desk, left>>

SweepWatchlist(p) ==
  /\ run[p].pc = "t2sweep"
  /\ \E S \in SUBSET run[p].found :
        /\ Answers(p, run[p].found, S)
        /\ run' = [run EXCEPT ![p].pc = "t2store", ![p].found = S]
        /\ tier' = [tier EXCEPT ![WATCHLIST] = S]
  /\ Calls(p, Cardinality(run[p].found))
  /\ UNCHANGED <<at, ticked, age, rows, book, heard, desk, left>>

PromoteCandidates(p) ==
  /\ run[p].pc = "t2store"
  /\ \E T \in SUBSET Universe :
        Top(run[p].found, CandMax, T) /\ tier' = [tier EXCEPT ![CANDIDATES] = T]
  /\ Ended(p, TRUE)
  /\ UNCHANGED <<at, ticked, rows, book, heard, used, oldDay, desk, left>>

(* Tier 3: read CANDIDATES, evaluate, then save and alert (the warehousing *)
(* in between is in Warehouse).  An empty set makes no call; an            *)
(* empty result surfaces nothing.                                          *)
EvaluateCandidates(p) ==
  /\ run[p].pc = "t3"
  /\ \E S \in SUBSET tier[CANDIDATES] :
        /\ Answers(p, tier[CANDIDATES], S)
        /\ IF S = {} THEN Ended(p, TRUE)
           ELSE run' = [run EXCEPT ![p].pc = "t3save", ![p].found = S] /\ UNCHANGED age
  /\ Calls(p, Cardinality(tier[CANDIDATES]))
  /\ UNCHANGED <<at, ticked, tier, rows, book, heard, desk, left>>

SaveScan(p) ==
  /\ run[p].pc = "t3save"
  /\ desk' = [desk EXCEPT !.saved = @ \cup run[p].found]
  /\ Goto(p, "t3alert")
  /\ UNCHANGED <<at, ticked, age, tier, rows, book, heard, used, oldDay, left>>

(* alert_candidates(): the actionable ones above the score. *)
AlertScan(p) ==
  /\ run[p].pc = "t3alert"
  /\ \E S \in SUBSET run[p].found : desk' = [desk EXCEPT !.alerted = @ \cup S]
  /\ Ended(p, TRUE)
  /\ UNCHANGED <<at, ticked, tier, rows, book, heard, used, oldDay, left>>

(* Tier 4: list the trades, price each, replace the rows, publish. *)
ReadTrades(p) ==
  /\ run[p].pc = "t4"
  /\ run' = [run EXCEPT ![p].pc = "t4sweep", ![p].seen = OpenTrades]
  /\ UNCHANGED <<at, ticked, age, tier, rows, book, heard, used, oldDay, desk, left>>

(* evaluate(): a chain without a leg's mark gives an "unmarked" row; a     *)
(* chain call that raises or is refused gives no row at all.               *)
PricePositions(p) ==
  /\ run[p].pc = "t4sweep"
  /\ \E S \in SUBSET run[p].seen :
        /\ Answers(p, run[p].seen, S)
        /\ \E marks \in [S -> Action] :
             run' = [run EXCEPT ![p].pc = "t4store",
                       ![p].risks = [t \in Trades |-> IF t \in S THEN marks[t] ELSE NoRow]]
  /\ Calls(p, Cardinality(run[p].seen))
  /\ UNCHANGED <<at, ticked, age, tier, rows, book, heard, desk, left>>

\* Mutant: as in tier 2, an empty result replaces nothing.
StoreRowsIfAny(p) ==
  /\ run[p].pc = "t4store"
  /\ IF \A t \in Trades : run[p].risks[t] = NoRow THEN UNCHANGED <<rows, heard>>
     ELSE rows' = run[p].risks /\ heard' = {}
  /\ Goto(p, "t4publish")
  /\ UNCHANGED <<at, ticked, age, tier, book, used, oldDay, desk, left>>
StoreRows(p) ==
  /\ run[p].pc = "t4store"
  /\ rows' = run[p].risks /\ heard' = {}
  /\ Goto(p, "t4publish")
  /\ UNCHANGED <<at, ticked, age, tier, book, used, oldDay, desk, left>>

\* Mutant: an unmarked position is left for the next pass.
PublishRowsMarked(p) ==
  /\ run[p].pc = "t4publish"
  /\ heard' = heard \cup {t \in Trades : rows[t] \in {"hold", "risk"} /\ run[p].risks[t] = rows[t]}
  /\ Ended(p, TRUE)
  /\ UNCHANGED <<at, ticked, tier, rows, book, used, oldDay, desk, left>>

(* _publish_position_events(): every row is announced, and one that is not *)
(* a hold also as DATA_STALE or RISK_THRESHOLD_REACHED.  A handler that    *)
(* fails does not stop the bus.                                            *)
PublishRows(p) ==
  /\ run[p].pc = "t4publish"
  /\ heard' = heard \cup {t \in Trades : rows[t] # NoRow /\ run[p].risks[t] = rows[t]}
  /\ Ended(p, TRUE)
  /\ UNCHANGED <<at, ticked, tier, rows, book, used, oldDay, desk, left>>

-----------------------------------------------------------------------------
(* The environment: trades are opened and closed, time passes. *)

OpenTrade(t) ==
  /\ t \in left.trades /\ book[t] = "none" /\ \A u \in Trades : u < t => book[u] # "none"
  /\ book' = [book EXCEPT ![t] = "open"]
  /\ UNCHANGED <<at, ticked, age, tier, rows, heard, used, oldDay, run, desk, left>>

CloseTrade(t) ==
  /\ book[t] = "open"
  /\ book' = [book EXCEPT ![t] = "closed"]
  /\ UNCHANGED <<at, ticked, age, tier, rows, heard, used, oldDay, run, desk, left>>

(* Moments are visited in a ring; a clock that does not go up is another   *)
(* day.  The loop sleeps ten seconds, so every moment sees a tick begin.   *)
Following == IF at = Len(Instants) THEN 1 ELSE at + 1
NewDay == Instants[Following][2] <= Now[2]
Elapsed == IF NewDay THEN MaxAge ELSE Instants[Following][2] - Now[2]

Advance ==
  /\ ticked
  /\ at' = Following
  /\ age' = [k \in Tier |-> Saturate(age[k] + Elapsed)]
  /\ run' = [run EXCEPT !["sched"].past = IF run["sched"].pc = "idle" THEN 0 ELSE Saturate(@ + Elapsed)]
  /\ oldDay' = (oldDay \/ (NewDay /\ used > 0))
  /\ ticked' = FALSE
  /\ UNCHANGED <<tier, rows, book, heard, used, desk, left>>

Step(p) ==
  \/ StartTier(p) \/ EndPass(p)
  \/ SweepBroad(p) \/ PromoteWatchlist(p)
  \/ ReadWatchlist(p) \/ SweepWatchlist(p) \/ PromoteCandidates(p)
  \/ EvaluateCandidates(p) \/ SaveScan(p) \/ AlertScan(p)
  \/ ReadTrades(p) \/ PricePositions(p) \/ StoreRows(p) \/ PublishRows(p)

Next ==
  \/ Tick \/ RunOnce \/ Restart \/ Advance
  \/ \E p \in Proc : Step(p) \/ TierFails(p)
  \/ \E t \in Trades : OpenTrade(t) \/ CloseTrade(t)

Spec == Init /\ [][Next]_vars

(* The scheduler process: its loop goes round (run_forever catches         *)
(* everything) and a pass that started comes to its end (HTTP timeouts     *)
(* bound every call).  Time passes.  Nothing is assumed of the API.        *)
FairSpec == Spec /\ WF_vars(Tick \/ Step("sched")) /\ WF_vars(Advance)

-----------------------------------------------------------------------------
(* Properties. *)

(* In one tick tier 1 feeds tier 2 and tier 2 feeds tier 3 (due_tiers sorts *)
(* them): once both have succeeded, every candidate is on the watchlist    *)
(* that was scored and every watchlist symbol passed the broad sweep of    *)
(* the same tick, as long as no POST /tiers/run came in between.  With an  *)
(* empty watchlist tier 2 has replaced nothing and old candidates stay.    *)
CascadeNested ==
  LET r == run["sched"] IN
  (/\ r.pc = "next" /\ {BROAD, WATCHLIST} \subseteq r.done
   /\ \A i \in DOMAIN r.queue : r.queue[i] \notin {BROAD, WATCHLIST}
   /\ left.alone
   /\ tier[WATCHLIST] # {})
  => tier[CANDIDATES] \subseteq tier[WATCHLIST] /\ tier[WATCHLIST] \subseteq tier[BROAD]

(* Candidates and positions keep running (engine.py:69-70): when one of    *)
(* them is due the scheduler comes to run it, whatever the budget counter  *)
(* says, whichever earlier tier of the tick fails, across restarts.        *)
ProtectedServed ==
  /\ (~ticked /\ Due(CANDIDATES)) ~> (run["sched"].pc = "t3")
  /\ (~ticked /\ Due(POSITIONS)) ~> (run["sched"].pc = "t4")

(* The counter of a spent day is only reset by a call (RequestBudget),     *)
(* and pressure stops the discovery tiers from calling: an open trade among *)
(* the listed ones is what guarantees a call, so with one the pressure     *)
(* always lifts.  An open trade behind ListLimit newer rows does not count. *)
OpenUnthrottles == []<>(~BudgetPressure \/ OpenTrades = {})

(* A closed trade leaves the monitored positions, even when a pass of the  *)
(* other process that listed it as open stores its rows late.              *)
ClosedLeaves == \A t \in Trades : (book[t] = "closed") ~> (rows[t] = NoRow)

(* A row that needs attention (at risk or unmarked) is announced on the    *)
(* bus, or a later pass has replaced it, although the process may die      *)
(* between storing the row and publishing it.                              *)
RiskHeard ==
  \A t \in Trades : (rows[t] \in {"risk", "unmarked"})
                    ~> (t \in heard \/ rows[t] \notin {"risk", "unmarked"})
=============================================================================
