------------------------------ MODULE PaperDesk ------------------------------
(***************************************************************************)
(* Paper positions of the short-duration module (app/shortduration/        *)
(* paper.py): a request handler that opens a position from a candidate,    *)
(* and monitor passes that mark, exit, settle or mirror the open ones.     *)
(*                                                                         *)
(* A position is two rows: the PaperTrade (table paper_trades, `papers`)   *)
(* that owns fills and the exit, and the ShortDurationTrade (table         *)
(* short_duration_trades, `trades`) that wraps it by id.  Both, and the    *)
(* candidate, are written one repository call at a time; between two calls *)
(* any other handler runs.  A monitor pass runs in the scheduler's loop    *)
(* and another one can be requested through the API at the same time.      *)
(***************************************************************************)
EXTENDS CandidateBoard, FiniteSets

CONSTANTS Trades,     \* ids: the n-th position is the pair (papers[n], trades[n])
          Openers,    \* request handlers of POST /candidates/{id}/paper
          Monitors,   \* monitor passes that can be in flight together
          Closers,    \* requests of the positions API that close or delete
          Taggers,    \* requests of the positions API that tag a position
          None        \* "no candidate / no trade"

ASSUME PaperAssumption ==
  /\ None \notin Candidates /\ None \notin Trades

VARIABLES papers,     \* status of each PaperTrade row
          trades,     \* each ShortDurationTrade row: status and candidate_id
          opener,     \* local state of each paper-open handler
          monitor,    \* local state of each monitor pass
          closer      \* the PaperTrade a positions request has read as open

paperVars == <<papers, trades, opener, monitor, closer>>

Requests == Closers \cup Taggers

\* How a PaperTrade can have been closed: by an exit rule of the monitor, by
\* settlement at expiry, or by hand through the positions API.
Exits == {"rule", "expiry", "manual"}

\* "none": not written yet; "gone": deleted through the positions API.
PaperStatus == {"none", "open", "gone"} \cup Exits

\* A closed ShortDurationTrade carries the exit it took from the PaperTrade,
\* or "orphaned" when it found no PaperTrade to take one from.
TradeStatus == {"none", "open", "orphaned"} \cup Exits

TradeRow == [status : TradeStatus, cand : Candidates \cup {None}]
NoTradeRow == [status |-> "none", cand |-> None]

TradeClosed(t) == trades[t].status \in Exits \cup {"orphaned"}

\* at: the call the handler is about to make; snap: its copy of the candidate;
\* walk: the state its in-memory candidate has reached in the audit trail.
OpenerState ==
  [at : {"idle", "paper", "trade", "walk"}, cand : Candidates \cup {None},
   snap : CandidateRow, trade : Trades \cup {None}, walk : States \cup {"ABSENT"}]
IdleOpener == [at |-> "idle", cand |-> None, snap |-> AbsentRow,
               trade |-> None, walk |-> "ABSENT"]

\* todo: the rest of the open trades listed when the pass began; now: the day
\* it began; mode: what it decided for `trade`; exit: the exit it will book.
Modes == {"mirror", "settle", "exit", "mark"}
MonitorState ==
  [at : {"idle", "next", "paper", "trade", "read", "append", "cand"},
   todo : SUBSET Trades, now : 0 .. MaxDay, trade : Trades \cup {None},
   mode : Modes, exit : TradeStatus, snap : CandidateRow]
IdleMonitor == [at |-> "idle", todo |-> {}, now |-> 0, trade |-> None,
                mode |-> "mark", exit |-> "none", snap |-> AbsentRow]

PaperTypeOK ==
  /\ papers \in [Trades -> PaperStatus]
  /\ trades \in [Trades -> TradeRow]
  /\ opener \in [Openers -> OpenerState]
  /\ monitor \in [Monitors -> MonitorState]
  /\ closer \in [Requests -> Trades \cup {None}]

PaperInit ==
  /\ papers = [t \in Trades |-> "none"]
  /\ trades = [t \in Trades |-> NoTradeRow]
  /\ opener = [o \in Openers |-> IdleOpener]
  /\ monitor = [m \in Monitors |-> IdleMonitor]
  /\ closer = [k \in Requests |-> None]

-----------------------------------------------------------------------------
(* open_short_duration_paper *)

\* The route reads the candidate; no plan or a terminal state is refused.
OpenStart(o) ==
  /\ opener[o].at = "idle"
  /\ \E c \in Candidates :
       /\ Exists(c) /\ HasPlan(c)
       /\ cands[c].state \notin Terminal
       /\ opener' = [opener EXCEPT ![o] = [IdleOpener EXCEPT
                       !.at = "paper", !.cand = c, !.snap = cands[c]]]
  /\ UNCHANGED <<boardVars, papers, trades, monitor, closer>>

\* Mutant: the trade row is left out; the walk to OPEN follows at once.
OpenSavePaperOnly(o) ==
  /\ opener[o].at = "paper"
  /\ \E t \in Trades :
       /\ papers[t] = "none"
       /\ papers' = [papers EXCEPT ![t] = "open"]
       /\ opener' = [opener EXCEPT ![o] =
            IF MayAdvance(@.snap.state, "OPEN")
            THEN [@ EXCEPT !.at = "walk", !.walk = opener[o].snap.state]
            ELSE IdleOpener]
  /\ UNCHANGED <<boardVars, trades, monitor, closer>>

\* The entry spread has been awaited; the PaperTrade is saved under a new id.
OpenSavePaper(o) ==
  /\ opener[o].at = "paper"
  /\ \E t \in Trades :
       /\ papers[t] = "none"
       /\ papers' = [papers EXCEPT ![t] = "open"]
       /\ opener' = [opener EXCEPT ![o] = [@ EXCEPT !.at = "trade", !.trade = t]]
  /\ UNCHANGED <<boardVars, trades, monitor, closer>>

\* The ShortDurationTrade is saved; then `advance` checks that the candidate
\* can still go to OPEN, and raises (both rows stay) when it cannot.
OpenSaveTrade(o) ==
  /\ opener[o].at = "trade"
  /\ trades' = [trades EXCEPT ![opener[o].trade] =
                  [status |-> "open", cand |-> opener[o].cand]]
  /\ opener' = [opener EXCEPT ![o] =
                  IF MayAdvance(@.snap.state, "OPEN")
                  THEN [@ EXCEPT !.at = "walk", !.walk = opener[o].snap.state]
                  ELSE IdleOpener]
  /\ UNCHANGED <<boardVars, papers, monitor, closer>>

\* Mutant: the candidate is saved at every hop, not once at the end.
OpenAppendAndSave(o) ==
  /\ opener[o].at = "walk" /\ opener[o].walk # "OPEN"
  /\ LET hop == Hop(opener[o].walk, "OPEN") IN
       /\ AppendTransition(opener[o].cand, hop, "dashboard")
       /\ SaveCandidate(opener[o].cand, [opener[o].snap EXCEPT !.state = hop])
       /\ opener' = [opener EXCEPT ![o].walk = hop]
  /\ UNCHANGED <<today, crashes, papers, trades, monitor, closer>>

\* One audit row per hop of the walk to OPEN.
OpenAppend(o) ==
  /\ opener[o].at = "walk" /\ opener[o].walk # "OPEN"
  /\ LET hop == Hop(opener[o].walk, "OPEN") IN
       /\ AppendTransition(opener[o].cand, hop, "dashboard")
       /\ opener' = [opener EXCEPT ![o].walk = hop]
  /\ UNCHANGED <<cands, today, crashes, papers, trades, monitor, closer>>

OpenSaveCandidate(o) ==
  /\ opener[o].at = "walk" /\ opener[o].walk = "OPEN"
  /\ SaveCandidate(opener[o].cand, [opener[o].snap EXCEPT !.state = "OPEN"])
  /\ opener' = [opener EXCEPT ![o] = IdleOpener]
  /\ UNCHANGED <<trail, today, crashes, papers, trades, monitor, closer>>

OpenCrash(o) ==
  /\ opener[o].at # "idle"
  /\ Crash
  /\ opener' = [opener EXCEPT ![o] = IdleOpener]
  /\ UNCHANGED <<papers, trades, monitor, closer>>

-----------------------------------------------------------------------------
(* monitor_short_duration_positions and _settle_expired *)

\* The pass begins: it lists the trades whose row says "open".
MonitorList(m) ==
  /\ monitor[m].at = "idle"
  /\ LET open == {t \in Trades : trades[t].status = "open"} IN
       /\ open # {}
       /\ monitor' = [monitor EXCEPT ![m] = [IdleMonitor EXCEPT
                        !.at = "next", !.todo = open, !.now = today]]
  /\ UNCHANGED <<boardVars, papers, trades, opener, closer>>

\* The pass takes up trade t with a decision, about to make the call `at`.
TakeUp(m, t, at, mode, exit) ==
  monitor' = [monitor EXCEPT ![m] = [@ EXCEPT
                !.at = at, !.todo = monitor[m].todo \ {t}, !.trade = t,
                !.mode = mode, !.exit = exit]]

\* The state of a pass done with a trade, with `todo` left of its list.
Rest(mon, todo) ==
  IF todo = {} THEN IdleMonitor
  ELSE [mon EXCEPT !.at = "next", !.todo = todo, !.trade = None,
                   !.mode = "mark", !.exit = "none", !.snap = AbsentRow]

TakesUp(m, t) == monitor[m].at = "next" /\ t \in monitor[m].todo

\* Mutant: the day after expiration still counts as held.
PastExpiryLate(m, t) == Expiry(trades[t].cand) + 1 < monitor[m].now

PastExpiry(m, t) == Expiry(trades[t].cand) < monitor[m].now

\* Mutant: whatever happened to the PaperTrade, the row reads orphaned.
MonitorMirrorOrphan(m) ==
  /\ \E t \in Trades :
       /\ TakesUp(m, t)
       /\ papers[t] # "open"
       /\ TakeUp(m, t, "trade", "mirror", "orphaned")
  /\ UNCHANGED <<boardVars, papers, trades, opener, closer>>

\* Mutant: only a deleted PaperTrade is mirrored.
MonitorMirrorGone(m) ==
  /\ \E t \in Trades :
       /\ TakesUp(m, t)
       /\ papers[t] = "gone"
       /\ TakeUp(m, t, "trade", "mirror", "orphaned")
  /\ UNCHANGED <<boardVars, papers, trades, opener, closer>>

\* The PaperTrade is gone or closed elsewhere: mirror that on the trade row.
MonitorMirror(m) ==
  /\ \E t \in Trades :
       /\ TakesUp(m, t)
       /\ papers[t] # "open"
       /\ TakeUp(m, t, "trade", "mirror",
                 IF papers[t] = "gone" THEN "orphaned" ELSE papers[t])
  /\ UNCHANGED <<boardVars, papers, trades, opener, closer>>

\* Mutant: a PaperTrade that is closed already is settled once more.
MonitorSettleAgain(m) ==
  /\ \E t \in Trades :
       /\ TakesUp(m, t)
       /\ PastExpiry(m, t)
       /\ TakeUp(m, t, "paper", "settle", "expiry")
  /\ UNCHANGED <<boardVars, papers, trades, opener, closer>>

\* Held past expiration, and the expiry-day close is available: settle.
MonitorSettle(m) ==
  /\ \E t \in Trades :
       /\ TakesUp(m, t)
       /\ papers[t] = "open" /\ PastExpiry(m, t)
       /\ TakeUp(m, t, "paper", "settle", "expiry")
  /\ UNCHANGED <<boardVars, papers, trades, opener, closer>>

\* Mutant: the exit is saved on the trade row and not on the PaperTrade.
MonitorExitTradeOnly(m) ==
  /\ \E t \in Trades :
       /\ TakesUp(m, t)
       /\ papers[t] = "open" /\ ~PastExpiry(m, t)
       /\ TakeUp(m, t, "trade", "exit", "rule")
  /\ UNCHANGED <<boardVars, papers, trades, opener, closer>>

\* Marked from the chain: an exit rule fires.
MonitorExit(m) ==
  /\ \E t \in Trades :
       /\ TakesUp(m, t)
       /\ papers[t] = "open" /\ ~PastExpiry(m, t)
       /\ TakeUp(m, t, "paper", "exit", "rule")
  /\ UNCHANGED <<boardVars, papers, trades, opener, closer>>

\* Mutant: the marked PaperTrade is saved too, as it was read.
MonitorMarkPaper(m) ==
  /\ \E t \in Trades :
       /\ TakesUp(m, t)
       /\ papers[t] = "open" /\ ~PastExpiry(m, t)
       /\ TakeUp(m, t, "paper", "mark", "open")
  /\ UNCHANGED <<boardVars, papers, trades, opener, closer>>

\* Marked (or not markable) with no exit: only the trade row is saved again.
MonitorMark(m) ==
  /\ \E t \in Trades :
       /\ TakesUp(m, t)
       /\ papers[t] = "open" /\ ~PastExpiry(m, t)
       /\ TakeUp(m, t, "trade", "mark", "open")
  /\ UNCHANGED <<boardVars, papers, trades, opener, closer>>

\* No history to settle with, or no chain to mark with: on to the next trade.
MonitorSkip(m) ==
  /\ \E t \in Trades :
       /\ TakesUp(m, t)
       /\ papers[t] = "open"
       /\ monitor' = [monitor EXCEPT ![m] = Rest(@, @.todo \ {t})]
  /\ UNCHANGED <<boardVars, papers, trades, opener, closer>>

MonitorSavePaper(m) ==
  /\ monitor[m].at = "paper"
  /\ papers' = [papers EXCEPT ![monitor[m].trade] = monitor[m].exit]
  /\ monitor' = [monitor EXCEPT ![m].at =
                   IF monitor[m].mode = "settle" THEN "trade" ELSE "read"]
  /\ UNCHANGED <<boardVars, trades, opener, closer>>

\* An exit saves the trade row last; a settlement and a mirror save it before
\* they turn to the candidate.
MonitorSaveTrade(m) ==
  /\ monitor[m].at = "trade"
  /\ trades' = [trades EXCEPT ![monitor[m].trade].status = monitor[m].exit]
  /\ monitor' = [monitor EXCEPT ![m] =
                   IF @.mode \in {"mark", "exit"} THEN Rest(@, @.todo)
                   ELSE [@ EXCEPT !.at = "read"]]
  /\ UNCHANGED <<boardVars, papers, opener, closer>>

\* Where a pass goes once it is done with the candidate.
AfterCandidate(mon) ==
  IF mon.mode = "exit" THEN [mon EXCEPT !.at = "trade", !.snap = AbsentRow]
  ELSE Rest(mon, mon.todo)

\* Only an OPEN or MANAGING candidate is closed with its position.
MonitorReadCandidate(m) ==
  /\ monitor[m].at = "read"
  /\ LET c == trades[monitor[m].trade].cand IN
       monitor' = [monitor EXCEPT ![m] =
                     IF cands[c].state \in {"OPEN", "MANAGING"}
                     THEN [@ EXCEPT !.at = "append", !.snap = cands[c]]
                     ELSE AfterCandidate(@)]
  /\ UNCHANGED <<boardVars, papers, trades, opener, closer>>

MonitorAppend(m) ==
  /\ monitor[m].at = "append"
  /\ AppendTransition(trades[monitor[m].trade].cand, "CLOSED", "system")
  /\ monitor' = [monitor EXCEPT ![m].at = "cand"]
  /\ UNCHANGED <<cands, today, crashes, papers, trades, opener, closer>>

MonitorSaveCandidate(m) ==
  /\ monitor[m].at = "cand"
  /\ SaveCandidate(trades[monitor[m].trade].cand,
                   [monitor[m].snap EXCEPT !.state = "CLOSED"])
  /\ monitor' = [monitor EXCEPT ![m] = AfterCandidate(@)]
  /\ UNCHANGED <<trail, today, crashes, papers, trades, opener, closer>>

MonitorCrash(m) ==
  /\ monitor[m].at # "idle"
  /\ Crash
  /\ monitor' = [monitor EXCEPT ![m] = IdleMonitor]
  /\ UNCHANGED <<papers, trades, opener, closer>>

-----------------------------------------------------------------------------
(* The positions API works on the same paper_trades table.                 *)

\* A request reads an open PaperTrade ...
CloseRead(k) ==
  /\ closer[k] = None
  /\ \E t \in Trades : /\ papers[t] = "open"
                       /\ closer' = [closer EXCEPT ![k] = t]
  /\ UNCHANGED <<boardVars, papers, trades, opener, monitor>>

\* ... POST /positions/{id}/close saves it closed by hand ...
CloseSave(k) ==
  /\ k \in Closers /\ closer[k] # None
  /\ papers' = [papers EXCEPT ![closer[k]] = "manual"]
  /\ closer' = [closer EXCEPT ![k] = None]
  /\ UNCHANGED <<boardVars, trades, opener, monitor>>

\* ... and a request that sets its invalidation level, or stamps the engine's
\* view on it, saves it back as it was read: open.
TagSave(k) ==
  /\ k \in Taggers /\ closer[k] # None
  /\ papers' = [papers EXCEPT ![closer[k]] = "open"]
  /\ closer' = [closer EXCEPT ![k] = None]
  /\ UNCHANGED <<boardVars, trades, opener, monitor>>

\* DELETE /positions/{id}: the PaperTrade row is removed.
Purge(k) ==
  /\ k \in Closers /\ closer[k] = None
  /\ \E t \in Trades : /\ papers[t] \notin {"none", "gone"}
                       /\ papers' = [papers EXCEPT ![t] = "gone"]
  /\ UNCHANGED <<boardVars, trades, opener, monitor, closer>>

-----------------------------------------------------------------------------
OpenStep(o) ==
  \/ OpenStart(o) \/ OpenSavePaper(o) \/ OpenSaveTrade(o)
  \/ OpenAppend(o) \/ OpenSaveCandidate(o)

MonitorStep(m) ==
  \/ MonitorList(m) \/ MonitorMirror(m) \/ MonitorSettle(m) \/ MonitorExit(m)
  \/ MonitorMark(m) \/ MonitorSkip(m) \/ MonitorSavePaper(m)
  \/ MonitorSaveTrade(m) \/ MonitorReadCandidate(m) \/ MonitorAppend(m)
  \/ MonitorSaveCandidate(m)

PaperStep ==
  \/ \E o \in Openers : OpenStep(o) \/ OpenCrash(o)
  \/ \E m \in Monitors : MonitorStep(m) \/ MonitorCrash(m)
  \/ \E k \in Requests : CloseRead(k) \/ CloseSave(k) \/ TagSave(k) \/ Purge(k)
=============================================================================
