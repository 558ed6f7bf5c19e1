-------------------------- MODULE ShortDurationProofs --------------------------
(***************************************************************************)
(* Proofs about the short-duration module, for every set of candidates,    *)
(* positions, tickets and handlers, every day bound and any number of      *)
(* crashes.                                                                *)
(***************************************************************************)
EXTENDS ShortDuration, TLAPS

-----------------------------------------------------------------------------
(* The walk of `advance`.                                                  *)

Targets == {"PROPOSED", "OPEN"}

\* The hop the walk takes from each state below OPEN when the target is not
\* one legal transition away.
LEMMA HopExists ==
  ASSUME NEW target \in Targets, NEW from, MayAdvance(from, target),
         from # target, ~CanTransition(from, target)
  PROVE  \E s \in HopsTowards(from, target) :
           \A r \in HopsTowards(from, target) : Rank[s] <= Rank[r]
<1>1. from \in {"DETECTED", "EVALUATING", "WATCHLIST", "ARMED", "PROPOSED"}
  BY DEF Targets, MayAdvance, CanTransition, Rank, Forward, Terminal, States
<1> DEFINE next == [DETECTED |-> "EVALUATING", EVALUATING |-> "WATCHLIST",
                    WATCHLIST |-> "ARMED", ARMED |-> "TRIGGERED",
                    PROPOSED |-> "APPROVED"]
<1>2. next[from] \in HopsTowards(from, target)
  BY <1>1 DEF Targets, MayAdvance, HopsTowards, CanTransition, Rank, Forward,
              Terminal, States
<1>3. \A r \in HopsTowards(from, target) : Rank[next[from]] <= Rank[r]
  BY <1>1 DEF HopsTowards, Rank
<1> QED
  BY <1>2, <1>3

\* Every hop of `advance` towards PROPOSED or OPEN is a legal transition, goes
\* forward on the line and does not overshoot: the walk never raises midway.
LEMMA HopAdvances ==
  ASSUME NEW target \in Targets, NEW from, MayAdvance(from, target), from # target
  PROVE  /\ Hop(from, target) \in States
         /\ CanTransition(from, Hop(from, target))
         /\ Rank[from] < Rank[Hop(from, target)]
         /\ MayAdvance(Hop(from, target), target)
<1>1. CASE CanTransition(from, target)
  BY <1>1 DEF Hop, Targets, MayAdvance, States
<1>2. CASE ~CanTransition(from, target)
  <2>1. Hop(from, target) \in HopsTowards(from, target)
    BY <1>2, HopExists DEF Hop
  <2> QED
    BY <2>1 DEF HopsTowards, MayAdvance, Rank, States, Targets
<1> QED
  BY <1>1, <1>2

-----------------------------------------------------------------------------
(* Type correctness.  A handler indexes the tables with what it remembers,  *)
(* so the types are inductive only together with the shape of each handler. *)

TradesShape ==
  \A t \in Trades : trades[t].status # "none" =>
    trades[t].cand \in Candidates /\ papers[t] # "none"

OpenerShape ==
  \A o \in Openers :
    /\ opener[o].at # "idle" => opener[o].cand \in Candidates
    /\ opener[o].at = "trade" =>
         opener[o].trade \in Trades /\ papers[opener[o].trade] # "none"
    /\ opener[o].at = "walk" => MayAdvance(opener[o].walk, "OPEN")

MonitorShape ==
  \A m \in Monitors :
    /\ \A t \in monitor[m].todo : trades[t].status # "none"
    /\ monitor[m].at \notin {"idle", "next"} =>
         /\ monitor[m].trade \in Trades
         /\ trades[monitor[m].trade].status # "none"
         /\ monitor[m].exit # "none"
    /\ monitor[m].at = "paper" => monitor[m].exit \in Exits

ClerkShape ==
  \A w \in Clerks :
    /\ \/ clerk[w].at \notin {"idle", "proposal"}
       \/ clerk[w].at = "proposal" /\ clerk[w].op = "propose"
       => clerk[w].cand \in Candidates
    /\ clerk[w].at = "walk" /\ clerk[w].op = "propose" =>
         /\ clerk[w].goal = "PROPOSED"
         /\ MayAdvance(clerk[w].walk, "PROPOSED")

ScannerShape ==
  \A s \in Scanners :
    scanner[s].at \in {"rows", "sweepRow"} => scanner[s].cur \in Candidates

TypeInv ==
  /\ TypeOK
  /\ TradesShape /\ OpenerShape /\ MonitorShape /\ ClerkShape /\ ScannerShape

USE BoardAssumption, PaperAssumption, ProposalAssumption, ScanAssumption

LEMMA TypeInvInit == Init => TypeInv
<1> SUFFICES ASSUME Init PROVE TypeInv
  OBVIOUS
<1> USE DEF Init, BoardInit, PaperInit, ProposalInit, ScanInit
<1>1. AbsentRow \in CandidateRow
  BY DEF AbsentRow, CandidateRow
<1>2. BoardTypeOK
  BY <1>1 DEF BoardTypeOK
<1>3. PaperTypeOK
  BY <1>1 DEF PaperTypeOK, PaperStatus, TradeRow, NoTradeRow, TradeStatus,
       OpenerState, IdleOpener, MonitorState, IdleMonitor, Modes
<1>4. ProposalTypeOK
  BY <1>1 DEF ProposalTypeOK, ProposalRow, NoProposal, ProposalStatus,
       ClerkState, IdleClerk, ClerkOps
<1>5. ScanTypeOK
  BY <1>1 DEF ScanTypeOK, ScannerState, IdleScanner, Rows, NoRows
<1>6. TradesShape /\ OpenerShape /\ MonitorShape /\ ClerkShape /\ ScannerShape
  BY DEF TradesShape, OpenerShape, MonitorShape, ClerkShape, ScannerShape,
     NoTradeRow, IdleOpener, IdleMonitor, IdleClerk, IdleScanner
<1> QED
  BY <1>2, <1>3, <1>4, <1>5, <1>6 DEF TypeInv, TypeOK

-----------------------------------------------------------------------------
(* Paper opens.                                                            *)

LEMMA IdleTypes ==
  /\ AbsentRow \in CandidateRow
  /\ IdleOpener \in OpenerState
  /\ IdleMonitor \in MonitorState
  /\ IdleClerk \in ClerkState
  /\ IdleScanner \in ScannerState
<1>1. AbsentRow \in CandidateRow
  BY DEF AbsentRow, CandidateRow
<1> QED
  BY <1>1 DEF OpenerState, IdleOpener, MonitorState, IdleMonitor, Modes, TradeStatus,
       ClerkState, IdleClerk, ClerkOps, ScannerState, IdleScanner, Rows, NoRows

\* A crash changes only the count of crashes.
LEMMA CrashKeepsBoard ==
  ASSUME TypeInv, Crash
  PROVE  BoardTypeOK' /\ cands' = cands /\ trail' = trail /\ today' = today
BY DEF TypeInv, TypeOK, BoardTypeOK, Crash

LEMMA OpenTyped ==
  ASSUME TypeInv, NEW o \in Openers, OpenStep(o) \/ OpenCrash(o)
  PROVE  BoardTypeOK' /\ PaperTypeOK' /\ TradesShape' /\ OpenerShape' /\ MonitorShape'
<1> USE DEF TypeInv, TypeOK, PaperTypeOK, boardVars
<1>1. CASE OpenStart(o)
  <2>1. opener'[o] \in OpenerState
    <3>1. PICK c \in Candidates :
            opener' = [opener EXCEPT ![o] = [IdleOpener EXCEPT
                         !.at = "paper", !.cand = c, !.snap = cands[c]]]
      BY <1>1 DEF OpenStart
    <3>2. cands[c] \in CandidateRow
      BY DEF BoardTypeOK
    <3> QED
      BY <3>1, <3>2 DEF OpenerState, IdleOpener
  <2>2. opener' \in [Openers -> OpenerState]
    BY <1>1, <2>1 DEF OpenStart
  <2>3. OpenerShape'
    BY <1>1 DEF OpenStart, OpenerShape, OpenerState, IdleOpener
  <2> QED
    BY <1>1, <2>2, <2>3 DEF OpenStart, BoardTypeOK, TradesShape, MonitorShape
<1>2. CASE OpenSavePaper(o)
  <2>1. opener'[o] \in OpenerState
    <3>1. PICK t \in Trades :
            opener' = [opener EXCEPT ![o] = [@ EXCEPT !.at = "trade", !.trade = t]]
      BY <1>2 DEF OpenSavePaper
    <3>2. opener'[o] = [opener[o] EXCEPT !.at = "trade", !.trade = t]
      BY <3>1
    <3>3. opener[o] \in OpenerState
      OBVIOUS
    <3> QED
      BY <3>2, <3>3 DEF OpenerState
  <2>2. opener' \in [Openers -> OpenerState]
    BY <1>2, <2>1 DEF OpenSavePaper
  <2>3. papers' \in [Trades -> PaperStatus]
    BY <1>2 DEF OpenSavePaper, PaperStatus
  <2>4. OpenerShape'
    BY <1>2 DEF OpenSavePaper, OpenerShape, OpenerState
  <2> QED
    BY <1>2, <2>2, <2>3, <2>4 DEF OpenSavePaper, BoardTypeOK, TradesShape, MonitorShape
<1>3. CASE OpenSaveTrade(o)
  <2>1. opener'[o] \in OpenerState
    <3>1. opener'[o] = IF MayAdvance(opener[o].snap.state, "OPEN")
                       THEN [opener[o] EXCEPT !.at = "walk", !.walk = opener[o].snap.state]
                       ELSE IdleOpener
      BY <1>3 DEF OpenSaveTrade
    <3>2. opener[o] \in OpenerState /\ opener[o].snap.state \in States \cup {"ABSENT"}
      BY DEF OpenerState, CandidateRow
    <3>3. [opener[o] EXCEPT !.at = "walk", !.walk = opener[o].snap.state] \in OpenerState
      BY <3>2 DEF OpenerState
    <3> QED
      BY <3>1, <3>3, IdleTypes
  <2>2. opener' \in [Openers -> OpenerState]
    BY <1>3, <2>1 DEF OpenSaveTrade
  <2>3. trades' \in [Trades -> TradeRow]
    BY <1>3 DEF OpenSaveTrade, TradeRow, TradeStatus, OpenerState
  <2>4. OpenerShape'
    BY <1>3 DEF OpenSaveTrade, OpenerShape, OpenerState, IdleOpener
  <2>5. TradesShape'
    BY <1>3 DEF OpenSaveTrade, TradesShape, OpenerShape
  <2>6. MonitorShape'
    BY <1>3 DEF OpenSaveTrade, MonitorShape, OpenerShape, MonitorState
  <2> QED
    BY <1>3, <2>2, <2>3, <2>4, <2>5, <2>6 DEF OpenSaveTrade, BoardTypeOK
<1>4. CASE OpenAppend(o)
  <2>1. /\ Hop(opener[o].walk, "OPEN") \in States
        /\ MayAdvance(Hop(opener[o].walk, "OPEN"), "OPEN")
    BY <1>4, HopAdvances DEF OpenAppend, OpenerShape, Targets
  <2>2. opener'[o] \in OpenerState
    BY <1>4, <2>1 DEF OpenAppend, OpenerState
  <2>3. opener' \in [Openers -> OpenerState]
    BY <1>4, <2>2 DEF OpenAppend
  <2>4. BoardTypeOK'
    BY <1>4 DEF OpenAppend, AppendTransition, BoardTypeOK, TrailRow, Actors, OpenerShape
  <2>5. OpenerShape'
    BY <1>4, <2>1 DEF OpenAppend, OpenerShape, OpenerState
  <2> QED
    BY <1>4, <2>3, <2>4, <2>5 DEF OpenAppend, TradesShape, MonitorShape
<1>5. CASE OpenSaveCandidate(o)
  <2>1. opener' \in [Openers -> OpenerState]
    BY <1>5, IdleTypes DEF OpenSaveCandidate
  <2>2. [opener[o].snap EXCEPT !.state = "OPEN"] \in CandidateRow
    BY DEF CandidateRow, OpenerState, States
  <2>3. BoardTypeOK'
    BY <1>5, <2>2 DEF OpenSaveCandidate, SaveCandidate, BoardTypeOK
  <2>4. OpenerShape'
    BY <1>5 DEF OpenSaveCandidate, OpenerShape, IdleOpener
  <2> QED
    BY <1>5, <2>1, <2>3, <2>4 DEF OpenSaveCandidate, TradesShape, MonitorShape
<1>6. CASE OpenCrash(o)
  <2>1. opener' \in [Openers -> OpenerState]
    BY <1>6, IdleTypes DEF OpenCrash
  <2>2. OpenerShape'
    BY <1>6 DEF OpenCrash, OpenerShape, IdleOpener
  <2> QED
    BY <1>6, <2>1, <2>2, CrashKeepsBoard DEF OpenCrash, TradesShape, MonitorShape
<1> QED
  BY <1>1, <1>2, <1>3, <1>4, <1>5, <1>6 DEF OpenStep

-----------------------------------------------------------------------------
(* Monitor passes and the positions API.                                   *)

LEMMA TakenUp ==
  ASSUME TypeInv, NEW m \in Monitors, NEW t \in Trades, TakesUp(m, t),
         NEW at \in {"paper", "trade"}, NEW mode \in Modes,
         NEW exit \in TradeStatus \ {"none"}, at = "paper" => exit \in Exits,
         TakeUp(m, t, at, mode, exit), UNCHANGED trades
  PROVE  monitor' \in [Monitors -> MonitorState] /\ MonitorShape'
<1>1. monitor[m] \in MonitorState /\ monitor \in [Monitors -> MonitorState]
  BY DEF TypeInv, TypeOK, PaperTypeOK
<1>2. monitor'[m] = [monitor[m] EXCEPT !.at = at, !.todo = monitor[m].todo \ {t},
                       !.trade = t, !.mode = mode, !.exit = exit]
  BY <1>1 DEF TakeUp
<1>3. monitor'[m] \in MonitorState
  <2>1. monitor[m].todo \ {t} \in SUBSET Trades
    BY <1>1 DEF MonitorState
  <2> QED
    BY <1>1, <1>2, <2>1 DEF MonitorState
<1>4. monitor' \in [Monitors -> MonitorState]
  BY <1>1, <1>3 DEF TakeUp
<1>5. \A n \in Monitors \ {m} : monitor'[n] = monitor[n]
  BY <1>1 DEF TakeUp
<1>6. /\ monitor'[m].at = at /\ monitor'[m].trade = t /\ monitor'[m].exit = exit
      /\ monitor'[m].todo = monitor[m].todo \ {t}
  BY <1>1, <1>2 DEF MonitorState
<1>7. MonitorShape'
  BY <1>5, <1>6 DEF MonitorShape, TakesUp, TypeInv
<1> QED
  BY <1>4, <1>7

LEMMA Rested ==
  ASSUME NEW mon \in MonitorState, NEW todo \in SUBSET Trades
  PROVE  /\ Rest(mon, todo) \in MonitorState
         /\ Rest(mon, todo).at \in {"idle", "next"}
         /\ Rest(mon, todo).todo \subseteq todo
         /\ Rest(mon, todo).exit = "none"
<1>1. CASE todo = {}
  BY <1>1, IdleTypes DEF Rest, IdleMonitor
<1>2. CASE todo # {}
  <2> DEFINE r == [mon EXCEPT !.at = "next", !.todo = todo, !.trade = None,
                     !.mode = "mark", !.exit = "none", !.snap = AbsentRow]
  <2>1. r \in MonitorState
    BY IdleTypes DEF MonitorState, Modes, TradeStatus
  <2>2. r.at = "next" /\ r.todo = todo /\ r.exit = "none"
    BY DEF MonitorState
  <2>3. Rest(mon, todo) = r
    BY <1>2 DEF Rest
  <2> QED
    BY <2>1, <2>2, <2>3
<1> QED
  BY <1>1, <1>2

LEMMA AfterCandidateTyped ==
  ASSUME NEW mon \in MonitorState
  PROVE  /\ AfterCandidate(mon) \in MonitorState
         /\ AfterCandidate(mon).at \in {"idle", "next", "trade"}
         /\ AfterCandidate(mon).todo \subseteq mon.todo
         /\ AfterCandidate(mon).at = "trade" =>
              /\ mon.mode = "exit"
              /\ AfterCandidate(mon).mode = mon.mode
              /\ AfterCandidate(mon).trade = mon.trade
              /\ AfterCandidate(mon).exit = mon.exit
<1>1. CASE mon.mode = "exit"
  <2> DEFINE r == [mon EXCEPT !.at = "trade", !.snap = AbsentRow]
  <2>1. r \in MonitorState
    BY IdleTypes DEF MonitorState
  <2>2. /\ r.at = "trade" /\ r.todo = mon.todo /\ r.mode = mon.mode
        /\ r.trade = mon.trade /\ r.exit = mon.exit
    BY DEF MonitorState
  <2>3. AfterCandidate(mon) = r
    BY <1>1 DEF AfterCandidate
  <2> QED
    BY <1>1, <2>1, <2>2, <2>3
<1>2. CASE mon.mode # "exit"
  <2>1. mon.todo \in SUBSET Trades
    BY DEF MonitorState
  <2> QED
    BY <1>2, <2>1, Rested DEF AfterCandidate
<1> QED
  BY <1>1, <1>2

\* A step of a pass that leaves the tables' keys alone is typed as soon as
\* the state it leaves the pass in is.
LEMMA MonitorFrame ==
  ASSUME TypeInv, NEW m \in Monitors, NEW mon \in MonitorState,
         monitor' = [monitor EXCEPT ![m] = mon],
         \A t \in Trades : trades[t].status # "none" => trades'[t].status # "none",
         mon.todo \subseteq monitor[m].todo,
         mon.at \notin {"idle", "next"} =>
           /\ mon.trade \in Trades
           /\ trades[mon.trade].status # "none"
           /\ mon.exit # "none",
         mon.at = "paper" => mon.exit \in Exits
  PROVE  monitor' \in [Monitors -> MonitorState] /\ MonitorShape'
<1>1. monitor \in [Monitors -> MonitorState]
  BY DEF TypeInv, TypeOK, PaperTypeOK
<1>2. monitor' \in [Monitors -> MonitorState]
  BY <1>1
<1>3. monitor'[m] = mon /\ \A n \in Monitors \ {m} : monitor'[n] = monitor[n]
  BY <1>1
<1>4. \A n \in Monitors : monitor[n].todo \subseteq Trades
  BY <1>1 DEF MonitorState
<1>5. MonitorShape'
  BY <1>3, <1>4 DEF MonitorShape, TypeInv
<1> QED
  BY <1>2, <1>5

LEMMA MonitorTyped ==
  ASSUME TypeInv, NEW m \in Monitors, MonitorStep(m) \/ MonitorCrash(m)
  PROVE  BoardTypeOK' /\ PaperTypeOK' /\ TradesShape' /\ OpenerShape' /\ MonitorShape'
<1> USE DEF TypeInv, TypeOK, PaperTypeOK, boardVars
<1>0. /\ monitor \in [Monitors -> MonitorState]
      /\ monitor[m] \in MonitorState /\ monitor[m].todo \in SUBSET Trades
  BY DEF MonitorState
<1>1. CASE MonitorList(m)
  <2> DEFINE mon == [IdleMonitor EXCEPT !.at = "next",
                       !.todo = {t \in Trades : trades[t].status = "open"}, !.now = today]
  <2>1. mon \in MonitorState /\ mon.at = "next"
        /\ mon.todo = {t \in Trades : trades[t].status = "open"}
    BY IdleTypes DEF MonitorState, IdleMonitor, BoardTypeOK
  <2>2. monitor' = [monitor EXCEPT ![m] = mon]
    BY <1>1 DEF MonitorList
  <2> HIDE DEF mon
  <2>3. monitor' \in [Monitors -> MonitorState]
    BY <2>1, <2>2
  <2>4. MonitorShape'
    <3>1. monitor'[m] = mon /\ \A n \in Monitors \ {m} : monitor'[n] = monitor[n]
      BY <2>2, <1>0
    <3>2. \A t \in mon.todo : trades[t].status # "none"
      BY <2>1
    <3>3. trades' = trades
      BY <1>1 DEF MonitorList
    <3> QED
      BY <2>1, <3>1, <3>2, <3>3 DEF MonitorShape
  <2> QED
    BY <1>1, <2>3, <2>4 DEF MonitorList, BoardTypeOK, TradesShape, OpenerShape
<1>2. CASE MonitorMirror(m)
  <2>1. PICK t \in Trades, exit \in TradeStatus \ {"none"} :
          TakesUp(m, t) /\ TakeUp(m, t, "trade", "mirror", exit)
    <3>1. PICK t \in Trades :
            /\ TakesUp(m, t) /\ papers[t] # "open"
            /\ TakeUp(m, t, "trade", "mirror",
                      IF papers[t] = "gone" THEN "orphaned" ELSE papers[t])
      BY <1>2 DEF MonitorMirror
    <3>2. papers[t] # "none"
      BY <3>1 DEF TradesShape, MonitorShape, TakesUp
    <3>3. (IF papers[t] = "gone" THEN "orphaned" ELSE papers[t]) \in TradeStatus \ {"none"}
      BY <3>1, <3>2 DEF TradeStatus, PaperStatus, Exits
    <3> QED
      BY <3>1, <3>3
  <2>2. monitor' \in [Monitors -> MonitorState] /\ MonitorShape'
    BY <1>2, <2>1, TakenUp DEF MonitorMirror, Modes
  <2> QED
    BY <1>2, <2>2 DEF MonitorMirror, BoardTypeOK, TradesShape, OpenerShape
<1>3. CASE MonitorSettle(m)
  <2>1. PICK t \in Trades : TakesUp(m, t) /\ TakeUp(m, t, "paper", "settle", "expiry")
    BY <1>3 DEF MonitorSettle
  <2>2. monitor' \in [Monitors -> MonitorState] /\ MonitorShape'
    BY <1>3, <2>1, TakenUp DEF MonitorSettle, Modes, TradeStatus, Exits
  <2> QED
    BY <1>3, <2>2 DEF MonitorSettle, BoardTypeOK, TradesShape, OpenerShape
<1>4. CASE MonitorExit(m)
  <2>1. PICK t \in Trades : TakesUp(m, t) /\ TakeUp(m, t, "paper", "exit", "rule")
    BY <1>4 DEF MonitorExit
  <2>2. monitor' \in [Monitors -> MonitorState] /\ MonitorShape'
    BY <1>4, <2>1, TakenUp DEF MonitorExit, Modes, TradeStatus, Exits
  <2> QED
    BY <1>4, <2>2 DEF MonitorExit, BoardTypeOK, TradesShape, OpenerShape
<1>5. CASE MonitorMark(m)
  <2>1. PICK t \in Trades : TakesUp(m, t) /\ TakeUp(m, t, "trade", "mark", "open")
    BY <1>5 DEF MonitorMark
  <2>2. monitor' \in [Monitors -> MonitorState] /\ MonitorShape'
    BY <1>5, <2>1, TakenUp DEF MonitorMark, Modes, TradeStatus
  <2> QED
    BY <1>5, <2>2 DEF MonitorMark, BoardTypeOK, TradesShape, OpenerShape
<1>6. CASE MonitorSkip(m)
  <2>1. PICK t \in Trades :
          monitor' = [monitor EXCEPT ![m] = Rest(monitor[m], monitor[m].todo \ {t})]
    BY <1>6 DEF MonitorSkip
  <2>2. monitor[m].todo \ {t} \in SUBSET Trades
    BY <1>0
  <2>3. /\ Rest(monitor[m], monitor[m].todo \ {t}) \in MonitorState
        /\ Rest(monitor[m], monitor[m].todo \ {t}).at \in {"idle", "next"}
        /\ Rest(monitor[m], monitor[m].todo \ {t}).todo \subseteq monitor[m].todo
    BY <1>0, <2>2, Rested
  <2>4. monitor' \in [Monitors -> MonitorState] /\ MonitorShape'
    BY <1>6, <2>1, <2>3, MonitorFrame DEF MonitorSkip
  <2> QED
    BY <1>6, <2>4 DEF MonitorSkip, BoardTypeOK, TradesShape, OpenerShape
<1>7. CASE MonitorSavePaper(m)
  <2> DEFINE mon == [monitor[m] EXCEPT !.at =
                       IF monitor[m].mode = "settle" THEN "trade" ELSE "read"]
  <2>1. /\ mon \in MonitorState /\ mon.at \in {"trade", "read"}
        /\ mon.todo = monitor[m].todo
        /\ mon.trade = monitor[m].trade /\ mon.exit = monitor[m].exit
    BY <1>0 DEF MonitorState
  <2>2. monitor' = [monitor EXCEPT ![m] = mon]
    BY <1>7 DEF MonitorSavePaper
  <2> HIDE DEF mon
  <2>3. papers' \in [Trades -> PaperStatus]
    BY <1>7 DEF MonitorSavePaper, MonitorShape, PaperStatus
  <2>4. monitor' \in [Monitors -> MonitorState] /\ MonitorShape'
    BY <1>7, <2>1, <2>2, MonitorFrame DEF MonitorSavePaper, MonitorShape
  <2>5. \A t \in Trades : papers[t] # "none" => papers'[t] # "none"
    BY <1>7 DEF MonitorSavePaper, MonitorShape, Exits
  <2>6. TradesShape' /\ OpenerShape'
    BY <1>7, <2>5 DEF MonitorSavePaper, TradesShape, OpenerShape
  <2> QED
    BY <1>7, <2>3, <2>4, <2>6 DEF MonitorSavePaper, BoardTypeOK
<1>8. CASE MonitorSaveTrade(m)
  <2> DEFINE mon == IF monitor[m].mode \in {"mark", "exit"}
                    THEN Rest(monitor[m], monitor[m].todo)
                    ELSE [monitor[m] EXCEPT !.at = "read"]
  <2>1. /\ mon \in MonitorState /\ mon.at \in {"idle", "next", "read"}
        /\ mon.todo \subseteq monitor[m].todo
        /\ mon.at = "read" => /\ mon.trade = monitor[m].trade
                              /\ mon.exit = monitor[m].exit
    <3>1. CASE monitor[m].mode \in {"mark", "exit"}
      BY <1>0, <3>1, Rested
    <3>2. CASE monitor[m].mode \notin {"mark", "exit"}
      BY <1>0, <3>2 DEF MonitorState
    <3> QED
      BY <3>1, <3>2
  <2>2. monitor' = [monitor EXCEPT ![m] = mon]
    BY <1>8 DEF MonitorSaveTrade
  <2> HIDE DEF mon
  <2>3. trades' = [trades EXCEPT ![monitor[m].trade] =
                     [trades[monitor[m].trade] EXCEPT !.status = monitor[m].exit]]
        /\ monitor[m].trade \in Trades /\ monitor[m].exit \in TradeStatus \ {"none"}
    BY <1>0, <1>8 DEF MonitorSaveTrade, MonitorShape, MonitorState
  <2>4. trades' \in [Trades -> TradeRow]
    BY <2>3 DEF TradeRow
  <2>5. \A t \in Trades : /\ trades'[t].cand = trades[t].cand
                          /\ trades[t].status # "none" => trades'[t].status # "none"
                          /\ trades'[t].status # "none" =>
                               trades[t].status # "none" \/ t = monitor[m].trade
    BY <2>3 DEF TradeRow
  <2>6. TradesShape'
    BY <1>8, <2>5 DEF TradesShape, MonitorShape, MonitorSaveTrade
  <2>7. monitor' \in [Monitors -> MonitorState] /\ MonitorShape'
    BY <1>8, <2>1, <2>2, <2>5, MonitorFrame DEF MonitorSaveTrade, MonitorShape
  <2> QED
    BY <1>8, <2>4, <2>6, <2>7 DEF MonitorSaveTrade, BoardTypeOK, OpenerShape
<1>9. CASE MonitorReadCandidate(m)
  <2> DEFINE c == trades[monitor[m].trade].cand
             mon == IF cands[c].state \in {"OPEN", "MANAGING"}
                    THEN [monitor[m] EXCEPT !.at = "append", !.snap = cands[c]]
                    ELSE AfterCandidate(monitor[m])
  <2>1. c \in Candidates
    BY <1>9 DEF MonitorReadCandidate, MonitorShape, TradesShape
  <2>2. /\ mon \in MonitorState /\ mon.at \in {"idle", "next", "trade", "append"}
        /\ mon.todo \subseteq monitor[m].todo
        /\ mon.at \in {"trade", "append"} => /\ mon.trade = monitor[m].trade
                                             /\ mon.exit = monitor[m].exit
    <3>1. CASE cands[c].state \in {"OPEN", "MANAGING"}
      <4>1. cands[c] \in CandidateRow
        BY <2>1 DEF BoardTypeOK
      <4> QED
        BY <1>0, <3>1, <4>1 DEF MonitorState
    <3>2. CASE cands[c].state \notin {"OPEN", "MANAGING"}
      BY <1>0, <3>2, AfterCandidateTyped
    <3> QED
      BY <3>1, <3>2
  <2>3. monitor' = [monitor EXCEPT ![m] = mon]
    BY <1>9 DEF MonitorReadCandidate
  <2> HIDE DEF mon
  <2>4. /\ trades' = trades
        /\ monitor[m].trade \in Trades /\ monitor[m].exit # "none"
        /\ trades[monitor[m].trade].status # "none"
    BY <1>9 DEF MonitorReadCandidate, MonitorShape
  <2>5. monitor' \in [Monitors -> MonitorState] /\ MonitorShape'
    BY <2>2, <2>3, <2>4, MonitorFrame
  <2> QED
    BY <1>9, <2>5 DEF MonitorReadCandidate, BoardTypeOK, TradesShape, OpenerShape
<1>10. CASE MonitorAppend(m)
  <2> DEFINE mon == [monitor[m] EXCEPT !.at = "cand"]
  <2>1. /\ mon \in MonitorState /\ mon.at = "cand" /\ mon.todo = monitor[m].todo
        /\ mon.trade = monitor[m].trade /\ mon.exit = monitor[m].exit
    BY <1>0 DEF MonitorState
  <2>2. monitor' = [monitor EXCEPT ![m] = mon]
    BY <1>10 DEF MonitorAppend
  <2> HIDE DEF mon
  <2>3. trades[monitor[m].trade].cand \in Candidates
    BY <1>10 DEF MonitorAppend, MonitorShape, TradesShape
  <2>4. BoardTypeOK'
    BY <1>10, <2>3 DEF MonitorAppend, AppendTransition, BoardTypeOK, TrailRow, Actors
  <2>5. monitor' \in [Monitors -> MonitorState] /\ MonitorShape'
    BY <1>10, <2>1, <2>2, MonitorFrame DEF MonitorAppend, MonitorShape
  <2> QED
    BY <1>10, <2>4, <2>5 DEF MonitorAppend, TradesShape, OpenerShape
<1>11. CASE MonitorSaveCandidate(m)
  <2> DEFINE mon == AfterCandidate(monitor[m])
  <2>1. /\ mon \in MonitorState /\ mon.at \in {"idle", "next", "trade"}
        /\ mon.todo \subseteq monitor[m].todo
        /\ mon.at = "trade" => /\ mon.trade = monitor[m].trade
                               /\ mon.exit = monitor[m].exit
    BY <1>0, AfterCandidateTyped
  <2>2. monitor' = [monitor EXCEPT ![m] = mon]
    BY <1>11 DEF MonitorSaveCandidate
  <2> HIDE DEF mon
  <2>3. [monitor[m].snap EXCEPT !.state = "CLOSED"] \in CandidateRow
    BY <1>0 DEF MonitorState, CandidateRow, States
  <2>4. BoardTypeOK'
    BY <1>11, <2>3 DEF MonitorSaveCandidate, SaveCandidate, BoardTypeOK
  <2>5. monitor' \in [Monitors -> MonitorState] /\ MonitorShape'
    BY <1>11, <2>1, <2>2, MonitorFrame DEF MonitorSaveCandidate, MonitorShape
  <2> QED
    BY <1>11, <2>4, <2>5 DEF MonitorSaveCandidate, TradesShape, OpenerShape
<1>12. CASE MonitorCrash(m)
  <2>1. monitor' \in [Monitors -> MonitorState] /\ MonitorShape'
    BY <1>12, IdleTypes DEF MonitorCrash, MonitorShape, IdleMonitor
  <2> QED
    BY <1>12, <2>1, CrashKeepsBoard DEF MonitorCrash, TradesShape, OpenerShape
<1> QED
  BY <1>1, <1>2, <1>3, <1>4, <1>5, <1>6, <1>7, <1>8, <1>9, <1>10, <1>11, <1>12
     DEF MonitorStep

LEMMA CloseTyped ==
  ASSUME TypeInv, NEW k \in Requests, CloseRead(k) \/ CloseSave(k) \/ TagSave(k) \/ Purge(k)
  PROVE  BoardTypeOK' /\ PaperTypeOK' /\ TradesShape' /\ OpenerShape' /\ MonitorShape'
BY DEF TypeInv, TypeOK, BoardTypeOK, PaperTypeOK, boardVars, CloseRead, CloseSave, TagSave, Purge,
       TradesShape, OpenerShape, MonitorShape, PaperStatus, Exits

-----------------------------------------------------------------------------
(* Proposals, verdicts and manual actions.                                 *)

\* A step of a handler is typed as soon as the state it leaves it in is.
LEMMA ClerkFrame ==
  ASSUME TypeInv, NEW w \in Clerks, NEW h \in ClerkState,
         clerk' = [clerk EXCEPT ![w] = h],
         \/ h.at \notin {"idle", "proposal"}
         \/ h.at = "proposal" /\ h.op = "propose"
         => h.cand \in Candidates,
         h.at = "walk" /\ h.op = "propose" =>
           h.goal = "PROPOSED" /\ MayAdvance(h.walk, "PROPOSED")
  PROVE  clerk' \in [Clerks -> ClerkState] /\ ClerkShape'
<1>1. clerk \in [Clerks -> ClerkState]
  BY DEF TypeInv, TypeOK, ProposalTypeOK
<1>2. clerk' \in [Clerks -> ClerkState]
  BY <1>1
<1>3. clerk'[w] = h /\ \A n \in Clerks \ {w} : clerk'[n] = clerk[n]
  BY <1>1
<1>4. ClerkShape'
  BY <1>3 DEF ClerkShape, TypeInv
<1> QED
  BY <1>2, <1>4

LEMMA ClerkTyped ==
  ASSUME TypeInv, NEW w \in Clerks, ClerkStep(w) \/ ManualStep(w) \/ ClerkCrash(w)
  PROVE  BoardTypeOK' /\ ProposalTypeOK' /\ ClerkShape'
<1> USE DEF TypeInv, TypeOK, ProposalTypeOK, boardVars
<1>0. clerk \in [Clerks -> ClerkState] /\ clerk[w] \in ClerkState
  OBVIOUS
<1>1. CASE ProposeRead(w)
  <2>1. PICK c \in Candidates :
          clerk' = [clerk EXCEPT ![w] = [IdleClerk EXCEPT
                      !.at = "proposal", !.op = "propose", !.cand = c, !.snap = cands[c]]]
    BY <1>1 DEF ProposeRead
  <2> DEFINE h == [IdleClerk EXCEPT
                     !.at = "proposal", !.op = "propose", !.cand = c, !.snap = cands[c]]
  <2>2. h \in ClerkState /\ h.at = "proposal" /\ h.cand = c
    <3>1. cands[c] \in CandidateRow
      BY DEF BoardTypeOK
    <3> QED
      BY <3>1, IdleTypes DEF ClerkState, ClerkOps, IdleClerk
  <2> HIDE DEF h
  <2>3. clerk' \in [Clerks -> ClerkState] /\ ClerkShape'
    BY <2>1, <2>2, ClerkFrame DEF h
  <2> QED
    BY <1>1, <2>3 DEF ProposeRead, BoardTypeOK
<1>2. CASE ProposeSave(w)
  <2> DEFINE h == IF MayAdvance(clerk[w].snap.state, "PROPOSED")
                  THEN [clerk[w] EXCEPT !.at = "walk", !.walk = clerk[w].snap.state,
                                        !.goal = "PROPOSED"]
                  ELSE IdleClerk
  <2>1. clerk' = [clerk EXCEPT ![w] = h]
    BY <1>2 DEF ProposeSave
  <2>2. clerk[w].cand \in Candidates \cup {Nobody} /\ clerk[w].op = "propose"
    BY <1>2, <1>0 DEF ProposeSave, ClerkState
  <2>3. h \in ClerkState
    <3>1. clerk[w].snap.state \in States \cup {"ABSENT"} /\ "PROPOSED" \in States
      BY <1>0 DEF ClerkState, CandidateRow, States
    <3>2. [clerk[w] EXCEPT !.at = "walk", !.walk = clerk[w].snap.state,
                           !.goal = "PROPOSED"] \in ClerkState
      BY <1>0, <3>1 DEF ClerkState
    <3> QED
      BY <3>2, IdleTypes
  <2>4. /\ h.at \in {"idle", "walk"}
        /\ h.at = "walk" => /\ h.cand = clerk[w].cand /\ h.goal = "PROPOSED"
                            /\ MayAdvance(h.walk, "PROPOSED")
    BY <1>0 DEF ClerkState, IdleClerk
  <2>5. clerk[w].cand \in Candidates
    BY <1>2 DEF ProposeSave, ClerkShape
  <2> HIDE DEF h
  <2>6. clerk' \in [Clerks -> ClerkState] /\ ClerkShape'
    BY <2>1, <2>3, <2>4, <2>5, ClerkFrame
  <2>7. proposals' \in [Proposals -> ProposalRow]
    BY <1>2, <2>2 DEF ProposeSave, ProposalRow, ProposalStatus
  <2> QED
    BY <1>2, <2>6, <2>7 DEF ProposeSave, BoardTypeOK
<1>3. CASE ProposeAppend(w)
  <2> DEFINE hop == Hop(clerk[w].walk, "PROPOSED")
             h == [clerk[w] EXCEPT !.walk = hop]
  <2>1. clerk[w].goal = "PROPOSED" /\ clerk[w].cand \in Candidates
    BY <1>3 DEF ProposeAppend, ClerkShape
  <2>2. hop \in States /\ MayAdvance(hop, "PROPOSED")
    BY <1>3, <2>1, HopAdvances DEF ProposeAppend, ClerkShape, Targets
  <2> HIDE DEF hop
  <2>3. /\ h \in ClerkState /\ h.cand = clerk[w].cand /\ h.goal = clerk[w].goal
        /\ h.walk = hop
    BY <1>0, <2>2 DEF ClerkState
  <2>4. clerk' = [clerk EXCEPT ![w] = h]
    BY <1>3, <2>1 DEF ProposeAppend, hop
  <2> HIDE DEF h
  <2>5. clerk' \in [Clerks -> ClerkState] /\ ClerkShape'
    BY <2>1, <2>2, <2>3, <2>4, ClerkFrame
  <2>6. BoardTypeOK'
    BY <1>3, <2>1 DEF ProposeAppend, AppendTransition, BoardTypeOK, TrailRow, Actors
  <2> QED
    BY <1>3, <2>5, <2>6 DEF ProposeAppend
<1>4. CASE ApproveRead(w)
  <2>1. PICK p \in Proposals, c \in Candidates \cup {Nobody} :
          clerk' = [clerk EXCEPT ![w] = [IdleClerk EXCEPT
                      !.at = "proposal", !.op = "approve", !.prop = p, !.cand = c]]
    BY <1>4 DEF ApproveRead, ProposalRow
  <2> DEFINE h == [IdleClerk EXCEPT
                     !.at = "proposal", !.op = "approve", !.prop = p, !.cand = c]
  <2>2. h \in ClerkState /\ h.at = "proposal" /\ h.op # "propose"
    BY IdleTypes DEF ClerkState, ClerkOps, IdleClerk
  <2> HIDE DEF h
  <2>3. clerk' \in [Clerks -> ClerkState] /\ ClerkShape'
    BY <2>1, <2>2, ClerkFrame DEF h
  <2> QED
    BY <1>4, <2>3 DEF ApproveRead, BoardTypeOK
<1>5. CASE RejectRead(w)
  <2>1. PICK p \in Proposals, c \in Candidates \cup {Nobody} :
          clerk' = [clerk EXCEPT ![w] = [IdleClerk EXCEPT
                      !.at = "proposal", !.op = "reject", !.prop = p, !.cand = c]]
    BY <1>5 DEF RejectRead, ProposalRow
  <2> DEFINE h == [IdleClerk EXCEPT
                     !.at = "proposal", !.op = "reject", !.prop = p, !.cand = c]
  <2>2. h \in ClerkState /\ h.at = "proposal" /\ h.op # "propose"
    BY IdleTypes DEF ClerkState, ClerkOps, IdleClerk
  <2> HIDE DEF h
  <2>3. clerk' \in [Clerks -> ClerkState] /\ ClerkShape'
    BY <2>1, <2>2, ClerkFrame DEF h
  <2> QED
    BY <1>5, <2>3 DEF RejectRead, BoardTypeOK
<1>6. CASE SaveVerdict(w)
  <2> DEFINE h == IF clerk[w].cand = Nobody THEN IdleClerk
                  ELSE [clerk[w] EXCEPT !.at = "read"]
  <2>1. clerk' = [clerk EXCEPT ![w] = h]
    BY <1>6 DEF SaveVerdict
  <2>2. /\ h \in ClerkState /\ h.at \in {"idle", "read"}
        /\ h.at = "read" => h.cand \in Candidates
    BY <1>0, IdleTypes DEF ClerkState, IdleClerk
  <2> HIDE DEF h
  <2>3. clerk' \in [Clerks -> ClerkState] /\ ClerkShape'
    BY <2>1, <2>2, ClerkFrame
  <2>4. proposals' \in [Proposals -> ProposalRow]
    <3>1. Verdict(clerk[w].op) \in ProposalStatus
      BY DEF Verdict, ProposalStatus
    <3>2. proposals' = [proposals EXCEPT ![clerk[w].prop].status = Verdict(clerk[w].op)]
      BY <1>6 DEF SaveVerdict
    <3>3. proposals \in [Proposals -> ProposalRow]
      OBVIOUS
    <3>4. \A row \in ProposalRow, v \in ProposalStatus :
            [row EXCEPT !.status = v] \in ProposalRow
      BY DEF ProposalRow
    <3> HIDE DEF Verdict
    <3> QED
      BY <3>1, <3>2, <3>3, <3>4
  <2> QED
    BY <1>6, <2>3, <2>4 DEF SaveVerdict, BoardTypeOK
<1>7. CASE VerdictReadCandidate(w)
  <2> DEFINE c == clerk[w].cand
             h == IF Moves(clerk[w].op, cands[c].state)
                  THEN [clerk[w] EXCEPT !.at = "walk", !.snap = cands[c],
                                        !.goal = Goal(clerk[w].op)]
                  ELSE IdleClerk
  <2>1. clerk' = [clerk EXCEPT ![w] = h]
    BY <1>7 DEF VerdictReadCandidate
  <2>2. c \in Candidates
    BY <1>7 DEF VerdictReadCandidate, ClerkShape
  <2>3. h \in ClerkState
    <3>1. cands[c] \in CandidateRow /\ Goal(clerk[w].op) \in States
      BY <2>2 DEF BoardTypeOK, Goal, States
    <3>2. [clerk[w] EXCEPT !.at = "walk", !.snap = cands[c],
                           !.goal = Goal(clerk[w].op)] \in ClerkState
      BY <1>0, <3>1 DEF ClerkState
    <3> QED
      BY <3>2, IdleTypes
  <2>4. h.at = "idle" \/ (h.cand = c /\ h.op \in {"approve", "reject"})
    <3>1. CASE Moves(clerk[w].op, cands[c].state)
      <4>1. clerk[w].op \in {"approve", "reject"}
        BY <3>1 DEF Moves
      <4> QED
        BY <1>0, <3>1, <4>1 DEF ClerkState
    <3>2. CASE ~Moves(clerk[w].op, cands[c].state)
      <4>1. h = IdleClerk
        BY <3>2
      <4>2. IdleClerk.at = "idle"
        BY DEF IdleClerk
      <4> HIDE DEF h
      <4> QED
        BY <4>1, <4>2
    <3> QED
      BY <3>1, <3>2
  <2> HIDE DEF h
  <2>5. clerk' \in [Clerks -> ClerkState] /\ ClerkShape'
    BY <2>1, <2>2, <2>3, <2>4, ClerkFrame
  <2> QED
    BY <1>7, <2>5 DEF VerdictReadCandidate, BoardTypeOK
<1>8. CASE VerdictAppend(w)
  <2> DEFINE h == [clerk[w] EXCEPT !.walk = clerk[w].goal]
  <2>1. clerk' = [clerk EXCEPT ![w] = h]
    BY <1>8 DEF VerdictAppend
  <2>2. h \in ClerkState /\ h.cand = clerk[w].cand /\ h.op = clerk[w].op
    BY <1>0 DEF ClerkState
  <2>3. clerk[w].cand \in Candidates /\ clerk[w].op # "propose"
    BY <1>8 DEF VerdictAppend, ClerkShape
  <2> HIDE DEF h
  <2>4. clerk' \in [Clerks -> ClerkState] /\ ClerkShape'
    BY <2>1, <2>2, <2>3, ClerkFrame
  <2>5. BoardTypeOK'
    BY <1>8, <2>3 DEF VerdictAppend, AppendTransition, BoardTypeOK, TrailRow, Actors
  <2> QED
    BY <1>8, <2>4, <2>5 DEF VerdictAppend
<1>9. CASE SaveAfterWalk(w)
  <2>1. clerk' \in [Clerks -> ClerkState] /\ ClerkShape'
    BY <1>9, IdleTypes, ClerkFrame DEF SaveAfterWalk, IdleClerk
  <2>2. [clerk[w].snap EXCEPT !.state = clerk[w].goal] \in CandidateRow
    BY <1>0 DEF ClerkState, CandidateRow
  <2>3. BoardTypeOK'
    BY <1>9, <2>2 DEF SaveAfterWalk, SaveCandidate, BoardTypeOK
  <2> QED
    BY <1>9, <2>1, <2>3 DEF SaveAfterWalk
<1>10. CASE ManualRead(w)
  <2>1. PICK c \in Candidates, target \in ManualTargets :
          clerk' = [clerk EXCEPT ![w] = [IdleClerk EXCEPT
                      !.at = "cand", !.op = "manual", !.cand = c,
                      !.snap = cands[c], !.goal = target]]
    BY <1>10 DEF ManualRead
  <2> DEFINE h == [IdleClerk EXCEPT !.at = "cand", !.op = "manual", !.cand = c,
                                    !.snap = cands[c], !.goal = target]
  <2>2. h \in ClerkState /\ h.at = "cand" /\ h.cand = c
    <3>1. cands[c] \in CandidateRow /\ target \in States
      BY DEF BoardTypeOK, ManualTargets, States
    <3> QED
      BY <3>1, IdleTypes DEF ClerkState, ClerkOps, IdleClerk
  <2> HIDE DEF h
  <2>3. clerk' \in [Clerks -> ClerkState] /\ ClerkShape'
    BY <2>1, <2>2, ClerkFrame DEF h
  <2> QED
    BY <1>10, <2>3 DEF ManualRead, BoardTypeOK
<1>11. CASE ManualSave(w)
  <2> DEFINE h == [clerk[w] EXCEPT !.at = "row"]
  <2>1. clerk' = [clerk EXCEPT ![w] = h]
    BY <1>11 DEF ManualSave
  <2>2. h \in ClerkState /\ h.cand = clerk[w].cand /\ h.at = "row"
    BY <1>0 DEF ClerkState
  <2>3. clerk[w].cand \in Candidates
    BY <1>11 DEF ManualSave, ClerkShape
  <2> HIDE DEF h
  <2>4. clerk' \in [Clerks -> ClerkState] /\ ClerkShape'
    BY <2>1, <2>2, <2>3, ClerkFrame
  <2>5. [clerk[w].snap EXCEPT !.state = clerk[w].goal] \in CandidateRow
    BY <1>0 DEF ClerkState, CandidateRow
  <2>6. BoardTypeOK'
    BY <1>11, <2>5 DEF ManualSave, SaveCandidate, BoardTypeOK
  <2> QED
    BY <1>11, <2>4, <2>6 DEF ManualSave
<1>12. CASE ManualAppend(w)
  <2>1. clerk' \in [Clerks -> ClerkState] /\ ClerkShape'
    BY <1>12, IdleTypes, ClerkFrame DEF ManualAppend, IdleClerk
  <2>2. clerk[w].cand \in Candidates
    BY <1>12 DEF ManualAppend, ClerkShape
  <2>3. BoardTypeOK'
    BY <1>12, <2>2 DEF ManualAppend, AppendTransition, BoardTypeOK, TrailRow, Actors
  <2> QED
    BY <1>12, <2>1, <2>3 DEF ManualAppend
<1>13. CASE ClerkCrash(w)
  <2>1. clerk' \in [Clerks -> ClerkState] /\ ClerkShape'
    BY <1>13, IdleTypes, ClerkFrame DEF ClerkCrash, IdleClerk
  <2> QED
    BY <1>13, <2>1, CrashKeepsBoard DEF ClerkCrash
<1> QED
  BY <1>1, <1>2, <1>3, <1>4, <1>5, <1>6, <1>7, <1>8, <1>9, <1>10, <1>11, <1>12, <1>13
     DEF ClerkStep, ManualStep

-----------------------------------------------------------------------------
(* Scans and board reads.                                                  *)

LEMMA ScannerFrame ==
  ASSUME TypeInv, NEW s \in Scanners, NEW h \in ScannerState,
         scanner' = [scanner EXCEPT ![s] = h],
         h.at \in {"rows", "sweepRow"} => h.cur \in Candidates
  PROVE  ScanTypeOK' /\ ScannerShape'
<1>1. scanner \in [Scanners -> ScannerState]
  BY DEF TypeInv, TypeOK, ScanTypeOK
<1>2. scanner' \in [Scanners -> ScannerState]
  BY <1>1
<1>3. scanner'[s] = h /\ \A n \in Scanners \ {s} : scanner'[n] = scanner[n]
  BY <1>1
<1>4. ScannerShape'
  BY <1>3 DEF ScannerShape, TypeInv
<1> QED
  BY <1>2, <1>4 DEF ScanTypeOK

LEMMA ScanTyped ==
  ASSUME TypeInv, ScanStep
  PROVE  BoardTypeOK' /\ ScanTypeOK' /\ ScannerShape'
<1> USE DEF TypeInv, TypeOK, boardVars
<1> SUFFICES ASSUME NEW s \in Scanners,
               \/ ScanCreate(s) \/ ScanAppend(s) \/ BoardRead(s) \/ ScanList(s)
               \/ SweepSave(s) \/ SweepAppend(s) \/ SweepDone(s)
               \/ RetireSave(s) \/ MarkPicks(s) \/ MarkSave(s) \/ ScanCrash(s)
             PROVE  BoardTypeOK' /\ ScanTypeOK' /\ ScannerShape'
  BY DEF ScanStep
<1>0. /\ scanner[s] \in ScannerState
      /\ scanner[s].made \in Rows /\ scanner[s].listed \in Rows
      /\ NoRows \in Rows
  BY IdleTypes DEF ScanTypeOK, ScannerState, NoRows, Rows
<1>a. \A zero \in BOOLEAN : BoardRows(zero) \in Rows /\ StaleOn(zero) \in SUBSET Candidates
  BY IdleTypes DEF BoardRows, StaleOn, Rows, BoardTypeOK
<1>1. CASE ScanCreate(s)
  <2>1. PICK c \in Candidates, contract \in Contracts, state \in States :
          LET row == [state |-> state, contract |-> contract,
                      pick |-> FALSE, detected |-> today]
          IN  /\ SaveCandidate(c, row)
              /\ scanner' = [scanner EXCEPT ![s] = [scanner[s] EXCEPT
                   !.at = "rows", !.zero = c \in ZeroDTE,
                   !.made = Put(scanner[s].made, c, row), !.cur = c]]
    <3>1. \A contract : Classified(contract) \subseteq States
      BY DEF Classified, States
    <3> QED
      BY <1>1, <3>1 DEF ScanCreate
  <2> DEFINE row == [state |-> state, contract |-> contract,
                     pick |-> FALSE, detected |-> today]
             h == [scanner[s] EXCEPT
                     !.at = "rows", !.zero = c \in ZeroDTE,
                     !.made = Put(scanner[s].made, c, row), !.cur = c]
  <2>2. row \in CandidateRow
    BY DEF CandidateRow, BoardTypeOK
  <2> HIDE DEF row
  <2>3. Put(scanner[s].made, c, row) \in Rows
    BY <1>0, <2>2 DEF Rows, Put
  <2>4. h \in ScannerState /\ h.cur = c
    <3>1. (c \in ZeroDTE) \in BOOLEAN /\ c \in Candidates
      OBVIOUS
    <3> QED
      BY <1>0, <2>3, <3>1 DEF ScannerState
  <2>5. ScanTypeOK' /\ ScannerShape'
    <3>1. scanner' = [scanner EXCEPT ![s] = h]
      BY <2>1 DEF row
    <3> HIDE DEF h
    <3> QED
      BY <2>4, <3>1, ScannerFrame
  <2>6. BoardTypeOK'
    <3>1. cands' = [cands EXCEPT ![c] = row]
      BY <2>1 DEF row, SaveCandidate
    <3> QED
      BY <1>1, <2>2, <3>1 DEF ScanCreate, BoardTypeOK
  <2> QED
    BY <2>5, <2>6
<1>2. CASE ScanAppend(s)
  <2> DEFINE state == scanner[s].made[scanner[s].cur].state
             to == NextRow(scanner[s].walk, state)
             h == IF to = state
                  THEN [scanner[s] EXCEPT !.at = "made", !.cur = Unset, !.walk = "ABSENT"]
                  ELSE [scanner[s] EXCEPT !.walk = to]
  <2>1. scanner[s].cur \in Candidates
    BY <1>2 DEF ScanAppend, ScannerShape
  <2>2. state \in States \cup {"ABSENT"}
    BY <1>0, <2>1 DEF Rows, CandidateRow
  <2> HIDE DEF state
  <2>3. to \in States \cup {"ABSENT"}
    BY <2>2 DEF NextRow, States
  <2> HIDE DEF to
  <2>4. h \in ScannerState /\ (h.at = "made" \/ h.cur = scanner[s].cur)
    BY <1>0, <2>3 DEF ScannerState
  <2>5. scanner' = [scanner EXCEPT ![s] = h]
    BY <1>2 DEF ScanAppend, to, state
  <2> HIDE DEF h
  <2>6. ScanTypeOK' /\ ScannerShape'
    BY <2>1, <2>4, <2>5, ScannerFrame
  <2>7. BoardTypeOK'
    BY <1>2, <2>1 DEF ScanAppend, AppendTransition, BoardTypeOK, TrailRow, Actors
  <2> QED
    BY <2>6, <2>7
<1>3. CASE BoardRead(s)
  <2>1. PICK zero \in BOOLEAN :
          scanner' = [scanner EXCEPT ![s] = [IdleScanner EXCEPT
                        !.at = "sweep", !.zero = zero,
                        !.listed = BoardRows(zero), !.due = StaleOn(zero)]]
    BY <1>3 DEF BoardRead
  <2> DEFINE h == [IdleScanner EXCEPT !.at = "sweep", !.zero = zero,
                     !.listed = BoardRows(zero), !.due = StaleOn(zero)]
  <2>2. h \in ScannerState /\ h.at = "sweep"
    <3>1. IdleScanner \in ScannerState
      BY IdleTypes
    <3> QED
      BY <1>a, <3>1 DEF ScannerState
  <2> HIDE DEF h
  <2>3. ScanTypeOK' /\ ScannerShape'
    BY <2>1, <2>2, ScannerFrame DEF h
  <2> QED
    BY <1>3, <2>3 DEF BoardRead, BoardTypeOK
<1>4. CASE ScanList(s)
  <2> DEFINE h == [scanner[s] EXCEPT
                     !.at = "sweep", !.listed = BoardRows(scanner[s].zero),
                     !.due = StaleOn(scanner[s].zero)]
  <2>1. h \in ScannerState /\ h.at = "sweep"
    <3>1. scanner[s].zero \in BOOLEAN
      BY <1>0 DEF ScannerState
    <3> QED
      BY <1>0, <1>a, <3>1 DEF ScannerState
  <2>2. scanner' = [scanner EXCEPT ![s] = h]
    BY <1>4 DEF ScanList
  <2> HIDE DEF h
  <2>3. ScanTypeOK' /\ ScannerShape'
    BY <2>1, <2>2, ScannerFrame
  <2> QED
    BY <1>4, <2>3 DEF ScanList, BoardTypeOK
<1>5. CASE SweepSave(s)
  <2>1. PICK c \in scanner[s].due :
          LET row == [scanner[s].listed[c] EXCEPT !.state = "EXPIRED"]
          IN  /\ SaveCandidate(c, row)
              /\ scanner' = [scanner EXCEPT ![s] = [scanner[s] EXCEPT
                   !.at = "sweepRow", !.listed = Put(scanner[s].listed, c, row),
                   !.due = scanner[s].due \ {c}, !.cur = c]]
    BY <1>5 DEF SweepSave
  <2>2. c \in Candidates /\ scanner[s].due \ {c} \in SUBSET Candidates
    BY <1>0 DEF ScannerState
  <2> DEFINE row == [scanner[s].listed[c] EXCEPT !.state = "EXPIRED"]
             h == [scanner[s] EXCEPT
                     !.at = "sweepRow", !.listed = Put(scanner[s].listed, c, row),
                     !.due = scanner[s].due \ {c}, !.cur = c]
  <2>3. row \in CandidateRow
    <3>1. scanner[s].listed[c] \in CandidateRow
      BY <1>0, <2>2 DEF Rows
    <3> QED
      BY <3>1 DEF CandidateRow, States
  <2> HIDE DEF row
  <2>4. Put(scanner[s].listed, c, row) \in Rows
    BY <1>0, <2>3 DEF Rows, Put
  <2>5. h \in ScannerState /\ h.cur = c
    BY <1>0, <2>2, <2>4 DEF ScannerState
  <2>6. ScanTypeOK' /\ ScannerShape'
    <3>1. scanner' = [scanner EXCEPT ![s] = h]
      BY <2>1 DEF row
    <3> HIDE DEF h
    <3> QED
      BY <2>2, <2>5, <3>1, ScannerFrame
  <2>7. BoardTypeOK'
    <3>1. cands' = [cands EXCEPT ![c] = row]
      BY <2>1 DEF row, SaveCandidate
    <3> QED
      BY <1>5, <2>3, <3>1 DEF SweepSave, BoardTypeOK
  <2> QED
    BY <2>6, <2>7
<1>6. CASE SweepAppend(s)
  <2> DEFINE h == [scanner[s] EXCEPT !.at = "sweep", !.cur = Unset]
  <2>1. h \in ScannerState /\ h.at = "sweep"
    BY <1>0 DEF ScannerState
  <2>2. scanner' = [scanner EXCEPT ![s] = h]
    BY <1>6 DEF SweepAppend
  <2> HIDE DEF h
  <2>3. ScanTypeOK' /\ ScannerShape'
    BY <2>1, <2>2, ScannerFrame
  <2>4. scanner[s].cur \in Candidates
    BY <1>6 DEF SweepAppend, ScannerShape
  <2>5. BoardTypeOK'
    BY <1>6, <2>4 DEF SweepAppend, AppendTransition, BoardTypeOK, TrailRow, Actors
  <2> QED
    BY <2>3, <2>5
<1>7. CASE SweepDone(s)
  <2> DEFINE retired == Retired(scanner[s].listed, scanner[s].made)
             h == IF scanner[s].made = NoRows THEN IdleScanner
                  ELSE [scanner[s] EXCEPT !.at = "retire", !.listed = retired]
  <2>1. retired \in Rows
    <3>1. \A c \in Candidates :
            [scanner[s].listed[c] EXCEPT !.pick = FALSE] \in CandidateRow
      <4>1. \A c \in Candidates : scanner[s].listed[c] \in CandidateRow
        BY <1>0 DEF Rows
      <4> QED
        BY <4>1 DEF CandidateRow
    <3> QED
      BY <3>1, IdleTypes DEF Retired, Rows
  <2>2. scanner' = [scanner EXCEPT ![s] = h]
    BY <1>7 DEF SweepDone
  <2> HIDE DEF retired
  <2>3. h \in ScannerState /\ h.at \in {"idle", "retire"}
    <3>1. /\ [scanner[s] EXCEPT !.at = "retire", !.listed = retired] \in ScannerState
          /\ [scanner[s] EXCEPT !.at = "retire", !.listed = retired].at = "retire"
      BY <1>0, <2>1 DEF ScannerState
    <3>2. IdleScanner \in ScannerState /\ IdleScanner.at = "idle"
      BY IdleTypes DEF IdleScanner
    <3> QED
      BY <3>1, <3>2
  <2> HIDE DEF h
  <2>4. ScanTypeOK' /\ ScannerShape'
    BY <2>2, <2>3, ScannerFrame
  <2> QED
    BY <1>7, <2>4 DEF SweepDone, BoardTypeOK
<1>8. CASE RetireSave(s)
  <2>1. PICK c \in Candidates :
          /\ SaveCandidate(c, scanner[s].listed[c])
          /\ scanner' = [scanner EXCEPT ![s] = [scanner[s] EXCEPT
                           !.listed = Put(scanner[s].listed, c, AbsentRow)]]
    BY <1>8 DEF RetireSave
  <2> DEFINE rest == Put(scanner[s].listed, c, AbsentRow)
             h == [scanner[s] EXCEPT !.listed = rest]
  <2>2. rest \in Rows
    BY <1>0, IdleTypes DEF Rows, Put
  <2> HIDE DEF rest
  <2>3. h \in ScannerState /\ h.at = "retire"
    BY <1>0, <1>8, <2>2 DEF ScannerState, RetireSave
  <2>4. ScanTypeOK' /\ ScannerShape'
    <3>1. scanner' = [scanner EXCEPT ![s] = h]
      BY <2>1 DEF rest
    <3> HIDE DEF h
    <3> QED
      BY <2>3, <3>1, ScannerFrame
  <2>5. BoardTypeOK'
    BY <1>0, <1>8, <2>1 DEF RetireSave, SaveCandidate, BoardTypeOK, Rows
  <2> QED
    BY <2>4, <2>5
<1>9. CASE MarkPicks(s)
  <2>1. PICK picked \in SUBSET Pickable(scanner[s].made) :
          scanner' = [scanner EXCEPT ![s] =
            IF picked = {} THEN IdleScanner
            ELSE [scanner[s] EXCEPT !.at = "mark",
                                    !.made = Marked(scanner[s].made, picked)]]
    BY <1>9 DEF MarkPicks
  <2> DEFINE made == Marked(scanner[s].made, picked)
             h == [scanner[s] EXCEPT !.at = "mark", !.made = made]
  <2>2. made \in Rows
    <3>1. \A c \in Candidates :
            [scanner[s].made[c] EXCEPT !.pick = TRUE] \in CandidateRow
      <4>1. \A c \in Candidates : scanner[s].made[c] \in CandidateRow
        BY <1>0 DEF Rows
      <4> QED
        BY <4>1 DEF CandidateRow
    <3> QED
      BY <3>1, IdleTypes DEF Marked, Rows
  <2>3. scanner' = [scanner EXCEPT ![s] = IF picked = {} THEN IdleScanner ELSE h]
    BY <2>1
  <2> HIDE DEF made
  <2>4. h \in ScannerState /\ h.at = "mark"
    BY <1>0, <2>2 DEF ScannerState
  <2> HIDE DEF h
  <2>5. IdleScanner \in ScannerState /\ IdleScanner.at = "idle"
    BY IdleTypes DEF IdleScanner
  <2>6. ScanTypeOK' /\ ScannerShape'
    BY <2>3, <2>4, <2>5, ScannerFrame
  <2> QED
    BY <1>9, <2>6 DEF MarkPicks, BoardTypeOK
<1>10. CASE MarkSave(s)
  <2>1. PICK c \in Candidates :
          /\ SaveCandidate(c, scanner[s].made[c])
          /\ scanner' = [scanner EXCEPT ![s] =
               IF Put(scanner[s].made, c, AbsentRow) = NoRows THEN IdleScanner
               ELSE [scanner[s] EXCEPT !.made = Put(scanner[s].made, c, AbsentRow)]]
    BY <1>10 DEF MarkSave
  <2> DEFINE rest == Put(scanner[s].made, c, AbsentRow)
             h == [scanner[s] EXCEPT !.made = rest]
  <2>2. rest \in Rows
    BY <1>0, IdleTypes DEF Rows, Put
  <2>3. scanner' = [scanner EXCEPT ![s] = IF rest = NoRows THEN IdleScanner ELSE h]
    BY <2>1
  <2> HIDE DEF rest
  <2>4. h \in ScannerState /\ h.at = "mark"
    BY <1>0, <1>10, <2>2 DEF ScannerState, MarkSave
  <2> HIDE DEF h
  <2>5. IdleScanner \in ScannerState /\ IdleScanner.at = "idle"
    BY IdleTypes DEF IdleScanner
  <2>6. ScanTypeOK' /\ ScannerShape'
    BY <2>3, <2>4, <2>5, ScannerFrame
  <2>7. BoardTypeOK'
    BY <1>0, <1>10, <2>1 DEF MarkSave, SaveCandidate, BoardTypeOK, Rows
  <2> QED
    BY <2>6, <2>7
<1>11. CASE ScanCrash(s)
  <2>1. IdleScanner \in ScannerState /\ IdleScanner.at = "idle"
    BY IdleTypes DEF IdleScanner
  <2>2. ScanTypeOK' /\ ScannerShape'
    BY <1>11, <2>1, ScannerFrame DEF ScanCrash
  <2> QED
    BY <1>11, <2>2, CrashKeepsBoard DEF ScanCrash
<1> QED
  BY <1>1, <1>2, <1>3, <1>4, <1>5, <1>6, <1>7, <1>8, <1>9, <1>10, <1>11

-----------------------------------------------------------------------------
LEMMA NextDayTyped ==
  ASSUME TypeInv, NextDay
  PROVE  BoardTypeOK'
BY DEF TypeInv, TypeOK, BoardTypeOK, NextDay

LEMMA TypeInvStep == TypeInv /\ [Next]_vars => TypeInv'
<1> SUFFICES ASSUME TypeInv, [Next]_vars PROVE TypeInv'
  OBVIOUS
<1> USE DEF vars, paperVars, proposalVars, boardVars
<1>1. CASE NextDay /\ UNCHANGED <<paperVars, proposalVars, scanner>>
  BY <1>1, NextDayTyped DEF TypeInv, TypeOK, PaperTypeOK, ProposalTypeOK, ScanTypeOK,
     TradesShape, OpenerShape, MonitorShape, ClerkShape, ScannerShape
<1>2. CASE PaperStep /\ UNCHANGED <<proposalVars, scanner>>
  <2>1. BoardTypeOK' /\ PaperTypeOK' /\ TradesShape' /\ OpenerShape' /\ MonitorShape'
    BY <1>2, OpenTyped, MonitorTyped, CloseTyped DEF PaperStep
  <2> QED
    BY <1>2, <2>1 DEF TypeInv, TypeOK, ProposalTypeOK, ScanTypeOK, ClerkShape, ScannerShape
<1>3. CASE ProposalStep /\ UNCHANGED <<paperVars, scanner>>
  <2>1. BoardTypeOK' /\ ProposalTypeOK' /\ ClerkShape'
    <3>1. CASE Lapse
      BY <3>1 DEF Lapse, TypeInv, TypeOK, BoardTypeOK, ProposalTypeOK, ClerkShape
    <3>2. CASE \E w \in Clerks : ClerkStep(w) \/ ManualStep(w) \/ ClerkCrash(w)
      BY <3>2, ClerkTyped
    <3> QED
      BY <1>3, <3>1, <3>2 DEF ProposalStep
  <2> QED
    BY <1>3, <2>1 DEF TypeInv, TypeOK, PaperTypeOK, ScanTypeOK, TradesShape,
       OpenerShape, MonitorShape, ScannerShape
<1>4. CASE ScanStep /\ UNCHANGED <<paperVars, proposalVars>>
  <2>1. BoardTypeOK' /\ ScanTypeOK' /\ ScannerShape'
    BY <1>4, ScanTyped
  <2> QED
    BY <1>4, <2>1 DEF TypeInv, TypeOK, PaperTypeOK, ProposalTypeOK, TradesShape,
       OpenerShape, MonitorShape, ClerkShape
<1>5. CASE UNCHANGED vars
  BY <1>5 DEF TypeInv, TypeOK, BoardTypeOK, PaperTypeOK, ProposalTypeOK, ScanTypeOK,
     TradesShape, OpenerShape, MonitorShape, ClerkShape, ScannerShape
<1> QED
  BY <1>1, <1>2, <1>3, <1>4, <1>5 DEF Next

LEMMA TypeInvariant == Spec => []TypeInv
<1>1. Init => TypeInv
  BY TypeInvInit
<1>2. TypeInv /\ [Next]_vars => TypeInv'
  BY TypeInvStep
<1> QED
  BY <1>1, <1>2, PTL DEF Spec

\* Type correctness: no interleaving and no crash drives a handler to index a
\* table with a missing key, or the walk of `advance` off its line.
THEOREM TypeCorrect == Spec => []TypeOK
<1>1. TypeInv => TypeOK
  BY DEF TypeInv
<1> QED
  BY <1>1, TypeInvariant, PTL

-----------------------------------------------------------------------------
(* The journal follows the market.  The strengthening says what a pass in   *)
(* flight still owes: once it is past the PaperTrade, that PaperTrade is out *)
(* of the market, unless the pass only marks it.                            *)

Out(t) == papers[t] \notin {"none", "open"}

PassShape ==
  \A m \in Monitors :
    /\ monitor[m].at = "paper" => monitor[m].mode # "mark"
    /\ monitor[m].at \in {"trade", "read", "append", "cand"} =>
         IF monitor[m].mode = "mark" THEN monitor[m].exit = "open"
         ELSE Out(monitor[m].trade)

JournalInv ==
  /\ \A t \in Trades : TradeClosed(t) => Out(t)
  /\ PassShape

LEMMA OutForGood ==
  ASSUME Taggers = {}, TypeInv, [Next]_vars, NEW t \in Trades, Out(t)
  PROVE  Out(t)'
<1> USE DEF TypeInv, TypeOK, PaperTypeOK, vars, paperVars, boardVars
<1>1. CASE papers' = papers
  BY <1>1 DEF Out
<1>2. ASSUME NEW o \in Openers, OpenSavePaper(o) PROVE Out(t)'
  BY <1>2 DEF OpenSavePaper, Out
<1>3. ASSUME NEW m \in Monitors, MonitorSavePaper(m) PROVE Out(t)'
  BY <1>3 DEF MonitorSavePaper, Out, MonitorShape, Exits
<1>4. ASSUME NEW k \in Requests, CloseSave(k) \/ Purge(k) PROVE Out(t)'
  BY <1>4 DEF CloseSave, Purge, Out
<1>5. \/ papers' = papers
      \/ \E o \in Openers : OpenSavePaper(o)
      \/ \E m \in Monitors : MonitorSavePaper(m)
      \/ \E k \in Requests : CloseSave(k) \/ Purge(k)
  <2>1. CASE PaperStep
    BY <2>1 DEF PaperStep, OpenStep, MonitorStep, OpenStart, OpenSaveTrade, OpenAppend,
       OpenSaveCandidate, OpenCrash, MonitorList, MonitorMirror, MonitorSettle,
       MonitorExit, MonitorMark, MonitorSkip, MonitorSaveTrade, MonitorReadCandidate,
       MonitorAppend, MonitorSaveCandidate, MonitorCrash, CloseRead, TagSave
  <2>2. CASE ~PaperStep
    BY <2>2 DEF Next
  <2> QED
    BY <2>1, <2>2
<1> QED
  BY <1>1, <1>2, <1>3, <1>4, <1>5

LEMMA JournalInvInit == Init => JournalInv
BY DEF Init, PaperInit, JournalInv, PassShape, TradeClosed, Exits, IdleMonitor, NoTradeRow

\* A step of a pass keeps what the passes owe if it does so itself.
LEMMA PassFrame ==
  ASSUME Taggers = {}, TypeInv, JournalInv, [Next]_vars, NEW m \in Monitors, NEW mon \in MonitorState,
         monitor' = [monitor EXCEPT ![m] = mon],
         mon.at = "paper" => mon.mode # "mark",
         mon.at \in {"trade", "read", "append", "cand"} =>
           IF mon.mode = "mark" THEN mon.exit = "open"
           ELSE papers'[mon.trade] \notin {"none", "open"}
  PROVE  PassShape'
<1>1. monitor \in [Monitors -> MonitorState]
  BY DEF TypeInv, TypeOK, PaperTypeOK
<1>2. monitor'[m] = mon /\ \A n \in Monitors \ {m} : monitor'[n] = monitor[n]
  BY <1>1
<1>3. \A n \in Monitors : monitor[n].at \notin {"idle", "next"} => monitor[n].trade \in Trades
  BY DEF TypeInv, MonitorShape
<1>4. \A t \in Trades : Out(t) => Out(t)'
  BY OutForGood
<1> SUFFICES ASSUME NEW n \in Monitors
             PROVE  /\ monitor'[n].at = "paper" => monitor'[n].mode # "mark"
                    /\ monitor'[n].at \in {"trade", "read", "append", "cand"} =>
                         IF monitor'[n].mode = "mark" THEN monitor'[n].exit = "open"
                         ELSE papers'[monitor'[n].trade] \notin {"none", "open"}
  BY DEF PassShape, Out
<1>5. CASE n = m
  BY <1>2, <1>5 DEF Out
<1>6. CASE n # m
  BY <1>2, <1>3, <1>4, <1>6 DEF JournalInv, PassShape, Out
<1> QED
  BY <1>5, <1>6

LEMMA MonitorKeepsJournal ==
  ASSUME Taggers = {}, TypeInv, JournalInv, [Next]_vars,
         NEW m \in Monitors, MonitorStep(m) \/ MonitorCrash(m)
  PROVE  JournalInv'
<1> USE DEF TypeInv, TypeOK, PaperTypeOK, boardVars
<1>0. /\ monitor \in [Monitors -> MonitorState] /\ monitor[m] \in MonitorState
      /\ monitor' \in [Monitors -> MonitorState]
  BY MonitorTyped
<1>a. \A t \in Trades : Out(t) => Out(t)'
  BY OutForGood
<1>b. trades' = trades => \A t \in Trades : TradeClosed(t)' => Out(t)'
  BY <1>a DEF TradeClosed, JournalInv
<1>c. /\ monitor[m].at \notin {"idle", "next"} => monitor[m].trade \in Trades
      /\ monitor[m].at = "paper" => monitor[m].mode # "mark"
      /\ monitor[m].at \in {"trade", "read", "append", "cand"} =>
           IF monitor[m].mode = "mark" THEN monitor[m].exit = "open"
           ELSE papers'[monitor[m].trade] \notin {"none", "open"}
  BY <1>a DEF MonitorShape, JournalInv, PassShape, Out
<1>1. CASE MonitorList(m) \/ MonitorSkip(m) \/ MonitorCrash(m)
  <2>1. PICK mon \in MonitorState :
          monitor' = [monitor EXCEPT ![m] = mon] /\ mon.at \in {"idle", "next"}
    <3>1. CASE MonitorList(m)
      <4> DEFINE open == {t \in Trades : trades[t].status = "open"}
                 mon == [IdleMonitor EXCEPT !.at = "next", !.todo = open, !.now = today]
      <4>1. open \in SUBSET Trades /\ today \in 0 .. MaxDay
        BY DEF BoardTypeOK
      <4> HIDE DEF open
      <4>2. mon \in MonitorState /\ mon.at = "next"
        BY <4>1, IdleTypes DEF MonitorState, IdleMonitor
      <4>3. monitor' = [monitor EXCEPT ![m] = mon]
        BY <3>1 DEF MonitorList, open
      <4> HIDE DEF mon
      <4> QED
        BY <4>2, <4>3
    <3>2. CASE MonitorSkip(m)
      <4>1. PICK t \in Trades :
              monitor' = [monitor EXCEPT ![m] = Rest(monitor[m], monitor[m].todo \ {t})]
        BY <3>2 DEF MonitorSkip
      <4>2. monitor[m].todo \ {t} \in SUBSET Trades
        BY <1>0 DEF MonitorState
      <4> QED
        BY <1>0, <4>1, <4>2, Rested
    <3>3. CASE MonitorCrash(m)
      BY <3>3, IdleTypes DEF MonitorCrash, IdleMonitor
    <3> QED
      BY <1>1, <3>1, <3>2, <3>3
  <2>2. PassShape'
    BY <2>1, PassFrame
  <2>3. trades' = trades
    BY <1>1 DEF MonitorList, MonitorSkip, MonitorCrash
  <2> QED
    BY <1>b, <2>2, <2>3 DEF JournalInv
<1>2. CASE MonitorMirror(m) \/ MonitorSettle(m) \/ MonitorExit(m) \/ MonitorMark(m)
  <2>1. PICK t \in Trades, at \in {"paper", "trade"}, mode \in Modes, exit \in TradeStatus :
          /\ TakeUp(m, t, at, mode, exit)
          /\ at = "paper" => mode # "mark"
          /\ at = "trade" => IF mode = "mark" THEN exit = "open" ELSE Out(t)
    <3>1. CASE MonitorMirror(m)
      <4>1. PICK t \in Trades :
              /\ TakesUp(m, t) /\ papers[t] # "open"
              /\ TakeUp(m, t, "trade", "mirror",
                        IF papers[t] = "gone" THEN "orphaned" ELSE papers[t])
        BY <3>1 DEF MonitorMirror
      <4>2. papers[t] # "none"
        BY <4>1 DEF TradesShape, MonitorShape, TakesUp
      <4>3. (IF papers[t] = "gone" THEN "orphaned" ELSE papers[t]) \in TradeStatus
        BY <4>1, <4>2 DEF TradeStatus, PaperStatus, Exits
      <4> QED
        BY <4>1, <4>2, <4>3 DEF Out, Modes
    <3>2. CASE MonitorSettle(m)
      BY <3>2 DEF MonitorSettle, Modes, TradeStatus, Exits
    <3>3. CASE MonitorExit(m)
      BY <3>3 DEF MonitorExit, Modes, TradeStatus, Exits
    <3>4. CASE MonitorMark(m)
      BY <3>4 DEF MonitorMark, Modes, TradeStatus
    <3> QED
      BY <1>2, <3>1, <3>2, <3>3, <3>4
  <2>2. monitor'[m] = [monitor[m] EXCEPT !.at = at, !.todo = monitor[m].todo \ {t},
                         !.trade = t, !.mode = mode, !.exit = exit]
    BY <1>0, <2>1 DEF TakeUp
  <2>3. /\ monitor'[m].at = at /\ monitor'[m].trade = t
        /\ monitor'[m].mode = mode /\ monitor'[m].exit = exit
    BY <1>0, <2>2 DEF MonitorState
  <2>4. PassShape'
    <3>1. monitor' = [monitor EXCEPT ![m] = monitor'[m]]
      BY <1>0, <2>1 DEF TakeUp
    <3>2. monitor'[m] \in MonitorState
      BY <1>0
    <3>3. monitor'[m].at = "paper" => monitor'[m].mode # "mark"
      BY <2>1, <2>3
    <3>4. monitor'[m].at \in {"trade", "read", "append", "cand"} =>
            IF monitor'[m].mode = "mark" THEN monitor'[m].exit = "open"
            ELSE papers'[monitor'[m].trade] \notin {"none", "open"}
      BY <1>a, <2>1, <2>3 DEF Out
    <3> HIDE DEF TypeInv, TypeOK, PaperTypeOK
    <3> QED
      BY <3>1, <3>2, <3>3, <3>4, PassFrame
  <2>5. trades' = trades
    BY <1>2 DEF MonitorMirror, MonitorSettle, MonitorExit, MonitorMark
  <2> QED
    BY <1>b, <2>4, <2>5 DEF JournalInv
<1>3. CASE MonitorSavePaper(m)
  <2> DEFINE mon == [monitor[m] EXCEPT !.at =
                       IF monitor[m].mode = "settle" THEN "trade" ELSE "read"]
  <2>1. /\ mon \in MonitorState /\ mon.at # "paper" /\ mon.mode = monitor[m].mode
        /\ mon.trade = monitor[m].trade
    BY <1>0 DEF MonitorState
  <2>2. monitor' = [monitor EXCEPT ![m] = mon] /\ trades' = trades
    BY <1>3 DEF MonitorSavePaper
  <2>3. papers'[monitor[m].trade] \notin {"none", "open"} /\ monitor[m].mode # "mark"
    BY <1>3, <1>c DEF MonitorSavePaper, MonitorShape, Exits
  <2> HIDE DEF mon
  <2> QED
    BY <1>b, <2>1, <2>2, <2>3, PassFrame DEF JournalInv
<1>4. CASE MonitorSaveTrade(m)
  <2> DEFINE mon == IF monitor[m].mode \in {"mark", "exit"}
                    THEN Rest(monitor[m], monitor[m].todo)
                    ELSE [monitor[m] EXCEPT !.at = "read"]
  <2>1. /\ mon \in MonitorState /\ mon.at # "paper"
        /\ \/ mon.at \in {"idle", "next"}
           \/ mon.mode = monitor[m].mode /\ mon.exit = monitor[m].exit
              /\ mon.trade = monitor[m].trade
    <3>1. CASE monitor[m].mode \in {"mark", "exit"}
      <4>1. monitor[m].todo \in SUBSET Trades
        BY <1>0 DEF MonitorState
      <4> QED
        BY <1>0, <3>1, <4>1, Rested
    <3>2. CASE monitor[m].mode \notin {"mark", "exit"}
      BY <1>0, <3>2 DEF MonitorState
    <3> QED
      BY <3>1, <3>2
  <2>2. monitor' = [monitor EXCEPT ![m] = mon]
    BY <1>4 DEF MonitorSaveTrade
  <2> HIDE DEF mon
  <2>3. PassShape'
    <3>1. /\ mon.at = "paper" => mon.mode # "mark"
          /\ mon.at \in {"trade", "read", "append", "cand"} =>
               IF mon.mode = "mark" THEN mon.exit = "open"
               ELSE papers'[mon.trade] \notin {"none", "open"}
      BY <1>4, <1>c, <2>1 DEF MonitorSaveTrade
    <3> HIDE DEF TypeInv, TypeOK, PaperTypeOK
    <3> QED
      BY <2>1, <2>2, <3>1, PassFrame
  <2>4. \A t \in Trades : TradeClosed(t)' => Out(t)'
    <3> SUFFICES ASSUME NEW t \in Trades, TradeClosed(t)' PROVE Out(t)'
      OBVIOUS
    <3>1. CASE t = monitor[m].trade
      <4>1. trades'[t].status = monitor[m].exit
        BY <1>4, <3>1 DEF MonitorSaveTrade, TradeRow
      <4> QED
        BY <1>4, <1>c, <3>1, <4>1 DEF MonitorSaveTrade, TradeClosed, Out, Exits
    <3>2. CASE t # monitor[m].trade
      BY <1>4, <1>a, <3>2 DEF MonitorSaveTrade, TradeClosed, JournalInv
    <3> QED
      BY <3>1, <3>2
  <2> QED
    BY <2>3, <2>4 DEF JournalInv
<1>5. CASE MonitorReadCandidate(m)
  <2> DEFINE snap == cands[trades[monitor[m].trade].cand]
             mon == IF snap.state \in {"OPEN", "MANAGING"}
                    THEN [monitor[m] EXCEPT !.at = "append", !.snap = snap]
                    ELSE AfterCandidate(monitor[m])
  <2>1. monitor' = [monitor EXCEPT ![m] = mon] /\ trades' = trades
    BY <1>5 DEF MonitorReadCandidate
  <2>2. mon \in MonitorState
    BY <1>0, <2>1
  <2> HIDE DEF snap
  <2>3. /\ mon.at # "paper"
        /\ \/ mon.at \in {"idle", "next"}
           \/ mon.mode = monitor[m].mode /\ mon.exit = monitor[m].exit
              /\ mon.trade = monitor[m].trade
    <3>1. CASE snap.state \in {"OPEN", "MANAGING"}
      BY <1>0, <3>1 DEF MonitorState
    <3>2. CASE snap.state \notin {"OPEN", "MANAGING"}
      BY <1>0, <3>2, AfterCandidateTyped
    <3> QED
      BY <3>1, <3>2
  <2> HIDE DEF mon
  <2>4. PassShape'
    <3>1. /\ mon.at = "paper" => mon.mode # "mark"
          /\ mon.at \in {"trade", "read", "append", "cand"} =>
               IF mon.mode = "mark" THEN mon.exit = "open"
               ELSE papers'[mon.trade] \notin {"none", "open"}
      BY <1>5, <1>c, <2>3 DEF MonitorReadCandidate
    <3> HIDE DEF TypeInv, TypeOK, PaperTypeOK
    <3> QED
      BY <2>1, <2>2, <3>1, PassFrame
  <2> QED
    BY <1>b, <2>1, <2>4 DEF JournalInv
<1>6. CASE MonitorAppend(m)
  <2> DEFINE mon == [monitor[m] EXCEPT !.at = "cand"]
  <2>1. /\ mon \in MonitorState /\ mon.at = "cand" /\ mon.mode = monitor[m].mode
        /\ mon.exit = monitor[m].exit /\ mon.trade = monitor[m].trade
    BY <1>0 DEF MonitorState
  <2>2. monitor' = [monitor EXCEPT ![m] = mon] /\ trades' = trades
    BY <1>6 DEF MonitorAppend
  <2> HIDE DEF mon
  <2>3. PassShape'
    <3>1. /\ mon.at = "paper" => mon.mode # "mark"
          /\ mon.at \in {"trade", "read", "append", "cand"} =>
               IF mon.mode = "mark" THEN mon.exit = "open"
               ELSE papers'[mon.trade] \notin {"none", "open"}
      BY <1>6, <1>c, <2>1 DEF MonitorAppend
    <3> HIDE DEF TypeInv, TypeOK, PaperTypeOK
    <3> QED
      BY <2>1, <2>2, <3>1, PassFrame
  <2> QED
    BY <1>b, <2>2, <2>3 DEF JournalInv
<1>7. CASE MonitorSaveCandidate(m)
  <2> DEFINE mon == AfterCandidate(monitor[m])
  <2>1. /\ mon \in MonitorState /\ mon.at # "paper"
        /\ \/ mon.at \in {"idle", "next"}
           \/ mon.mode = monitor[m].mode /\ mon.exit = monitor[m].exit
              /\ mon.trade = monitor[m].trade
    BY <1>0, AfterCandidateTyped
  <2>2. monitor' = [monitor EXCEPT ![m] = mon] /\ trades' = trades
    BY <1>7 DEF MonitorSaveCandidate
  <2> HIDE DEF mon
  <2>3. PassShape'
    <3>1. /\ mon.at = "paper" => mon.mode # "mark"
          /\ mon.at \in {"trade", "read", "append", "cand"} =>
               IF mon.mode = "mark" THEN mon.exit = "open"
               ELSE papers'[mon.trade] \notin {"none", "open"}
      BY <1>7, <1>c, <2>1 DEF MonitorSaveCandidate
    <3> HIDE DEF TypeInv, TypeOK, PaperTypeOK
    <3> QED
      BY <2>1, <2>2, <3>1, PassFrame
  <2> QED
    BY <1>b, <2>2, <2>3 DEF JournalInv
<1> QED
  BY <1>1, <1>2, <1>3, <1>4, <1>5, <1>6, <1>7 DEF MonitorStep

LEMMA JournalInvStep ==
  ASSUME Taggers = {}, TypeInv, JournalInv, [Next]_vars
  PROVE  JournalInv'
<1> USE DEF vars, paperVars, boardVars
<1>a. \A t \in Trades : Out(t) => Out(t)'
  BY OutForGood
<1>b. ASSUME monitor' = monitor PROVE PassShape'
  <2>1. \A m \in Monitors : monitor[m].at \notin {"idle", "next"} => monitor[m].trade \in Trades
    BY DEF TypeInv, MonitorShape
  <2> SUFFICES ASSUME NEW n \in Monitors
             PROVE  /\ monitor'[n].at = "paper" => monitor'[n].mode # "mark"
                    /\ monitor'[n].at \in {"trade", "read", "append", "cand"} =>
                         IF monitor'[n].mode = "mark" THEN monitor'[n].exit = "open"
                         ELSE papers'[monitor'[n].trade] \notin {"none", "open"}
    BY DEF PassShape, Out
  <2> QED
    BY <1>a, <1>b, <2>1 DEF JournalInv, PassShape, Out
<1>c. ASSUME trades' = trades PROVE \A t \in Trades : TradeClosed(t)' => Out(t)'
  BY <1>a, <1>c DEF TradeClosed, JournalInv
<1>1. ASSUME NEW o \in Openers, OpenStep(o) \/ OpenCrash(o) PROVE JournalInv'
  <2>1. monitor' = monitor
    BY <1>1 DEF OpenStep, OpenStart, OpenSavePaper, OpenSaveTrade, OpenAppend,
       OpenSaveCandidate, OpenCrash
  <2>2. \A t \in Trades : TradeClosed(t)' => Out(t)'
    <3>1. CASE OpenSaveTrade(o)
      <4>1. \A t \in Trades : TradeClosed(t)' => TradeClosed(t)
        BY <3>1 DEF OpenSaveTrade, TradeClosed, Exits, TypeInv, TypeOK, PaperTypeOK
      <4> QED
        BY <1>a, <4>1 DEF JournalInv
    <3>2. CASE ~OpenSaveTrade(o)
      BY <1>1, <1>c, <3>2 DEF OpenStep, OpenStart, OpenSavePaper, OpenAppend,
         OpenSaveCandidate, OpenCrash
    <3> QED
      BY <3>1, <3>2
  <2> QED
    BY <1>b, <2>1, <2>2 DEF JournalInv
<1>2. ASSUME NEW m \in Monitors, MonitorStep(m) \/ MonitorCrash(m) PROVE JournalInv'
  BY <1>2, MonitorKeepsJournal
<1>3. ASSUME NEW k \in Requests, CloseRead(k) \/ CloseSave(k) \/ TagSave(k) \/ Purge(k)
    PROVE JournalInv'
  <2>1. monitor' = monitor /\ trades' = trades
    BY <1>3 DEF CloseRead, CloseSave, TagSave, Purge
  <2> QED
    BY <1>b, <1>c, <2>1 DEF JournalInv
<1>4. CASE UNCHANGED paperVars
  BY <1>b, <1>c, <1>4 DEF JournalInv
<1> QED
  BY <1>1, <1>2, <1>3, <1>4 DEF Next, PaperStep

\* The journal follows the market, for any number of monitors, openers, manual
\* closes, deletions and crashes: a trade row stands over a saved PaperTrade
\* and is closed only after it.  A tagging request can save a closed
\* PaperTrade back open, so none of those.
THEOREM JournalTheorem ==
  ASSUME Taggers = {}
  PROVE  Spec => []JournalFollowsMarket
<1>1. Init => JournalInv
  BY JournalInvInit
<1>2. TypeInv /\ JournalInv /\ [Next]_vars => JournalInv'
  BY JournalInvStep
<1>3. TypeInv /\ JournalInv => JournalFollowsMarket
  BY DEF TypeInv, TradesShape, JournalInv, Out, JournalFollowsMarket
<1> QED
  BY <1>1, <1>2, <1>3, TypeInvariant, PTL DEF Spec

\* A PaperTrade that left the market never re-enters it, when nobody tags
\* positions: no monitor, open or manual close saves an older copy over it.
THEOREM NeverReopened ==
  ASSUME Taggers = {}
  PROVE  Spec => PaperStaysClosed
<1>1. TypeInv /\ [Next]_vars =>
        [\A t \in Trades : papers[t] \notin {"none", "open"} => papers'[t] # "open"]_vars
  <2> SUFFICES ASSUME TypeInv, [Next]_vars
               PROVE  \A t \in Trades : papers[t] \notin {"none", "open"} => papers'[t] # "open"
    OBVIOUS
  <2> QED
    BY OutForGood DEF Out
<1> QED
  BY <1>1, TypeInvariant, PTL DEF Spec, PaperStaysClosed
=============================================================================
