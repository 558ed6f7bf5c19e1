------------------------------ MODULE BookProofs ------------------------------
(***************************************************************************)
(* What the rows, the positions and the picks of the desk rest on.         *)
(*                                                                         *)
(* The paper desk implements the position book, for any number of opens    *)
(* and positions and any number of crashes, when one monitor loop runs and *)
(* nobody closes, deletes or tags a position by hand.                      *)
(*                                                                         *)
(* What a pass has decided is true when it acts on it: it alone takes an   *)
(* open position out of the market, and an open only touches rows no pass  *)
(* has listed.                                                             *)
(***************************************************************************)
EXTENDS ShortDurationProofs, FiniteSetTheorems

-----------------------------------------------------------------------------
(***************************************************************************)
(* What stands behind a candidate that reads PROPOSED, APPROVED, OPEN or   *)
(* CLOSED, proved for any number of handlers in flight and any number of   *)
(* crashes: its audit row, the human who approved it, its trade row.       *)
(*                                                                         *)
(* The table has no version column, so any handler may put an old copy of  *)
(* a row back.  The argument is that the evidence only grows (audit rows   *)
(* are appended, a trade keeps its candidate, a verdict stays a verdict),  *)
(* so a copy that was vouched for when it was read still is when it is     *)
(* written; what is left are the states a handler writes of its own.       *)
(***************************************************************************)

ApproverRow(c) == [cand |-> c, to |-> "APPROVED", by |-> "approver"]

Decided(p) == proposals[p].status \in {"approved", "rejected"}

\* The three kinds of evidence.
Logged(c, state) == state \in MoneyStates => Audited(c, state)
Approved(c) == /\ ApproverRow(c) \in trail
               /\ \E p \in Proposals : proposals[p].cand = c /\ Decided(p)
Traded(c) == \E t \in Trades : trades[t].cand = c

Vouched(c, state) ==
  /\ Logged(c, state)
  /\ state = "APPROVED" => Approved(c)
  /\ state \in {"OPEN", "CLOSED"} => Traded(c)

RowsVouched == \A c \in Candidates : Vouched(c, cands[c].state)

\* A trade row that is not written yet names no candidate.
TradesBlank == \A t \in Trades : trades[t].status = "none" => trades[t].cand = None

\* A paper open: its copy, the trade row it is about to write, and its walk.
OpenerVouched ==
  \A o \in Openers :
    /\ opener[o].at # "idle" => Vouched(opener[o].cand, opener[o].snap.state)
    /\ opener[o].at = "trade" =>
         /\ trades[opener[o].trade].status = "none"
         /\ \A q \in Openers \ {o} :
              opener[q].at = "trade" => opener[q].trade # opener[o].trade
    /\ opener[o].at = "walk" => /\ Logged(opener[o].cand, opener[o].walk)
                                /\ Traded(opener[o].cand)

\* A monitor pass saves CLOSED after the audit row.
MonitorVouched ==
  \A m \in Monitors :
    monitor[m].at = "cand" => Audited(trades[monitor[m].trade].cand, "CLOSED")

\* A clerk: its copy, its walk to PROPOSED, its verdict.
ProposeVouched(h) ==
  h.op = "propose" =>
    /\ h.at = "proposal" => Logged(h.cand, h.snap.state)
    /\ h.at = "walk" => Logged(h.cand, h.walk) /\ h.goal = "PROPOSED"

ApproveVouched(h) ==
  h.op = "approve" =>
    /\ h.at \in {"proposal", "read", "walk"} /\ h.cand # Nobody =>
         /\ h.prop \in Proposals
         /\ proposals[h.prop].cand = h.cand
         /\ proposals[h.prop].status # "none"
         /\ h.at # "proposal" => Decided(h.prop)
    /\ h.at = "walk" => h.goal = "APPROVED"
    /\ h.walk = "ABSENT" \/ ApproverRow(h.cand) \in trail

OtherVouched(h) ==
  /\ h.at = "read" => h.op \in {"approve", "reject"}
  /\ h.at = "walk" => h.op \in {"propose", "approve", "reject"}
  /\ h.at = "walk" /\ h.op = "reject" => h.goal = "REJECTED"
  /\ h.at = "cand" => h.goal \in ManualTargets

ClerkVouched ==
  \A w \in Clerks : /\ ProposeVouched(clerk[w])
                    /\ ApproveVouched(clerk[w])
                    /\ OtherVouched(clerk[w])

\* A scan or board read: the rows it has listed, the rows it has made.
ScannerVouched ==
  \A s \in Scanners, c \in Candidates :
    /\ Vouched(c, scanner[s].listed[c].state)
    /\ scanner[s].made[c].state \notin MoneyStates

VouchInv ==
  /\ RowsVouched /\ TradesBlank
  /\ OpenerVouched /\ MonitorVouched /\ ClerkVouched /\ ScannerVouched

USE BoardAssumption, PaperAssumption, ProposalAssumption, ScanAssumption

-----------------------------------------------------------------------------
(* Evidence only grows.                                                    *)

Grows ==
  /\ trail \subseteq trail'
  /\ \A t \in Trades : trades[t].status # "none" =>
       trades'[t].status # "none" /\ trades'[t].cand = trades[t].cand
  /\ \A p \in Proposals : proposals[p].status # "none" =>
       /\ proposals'[p].status # "none" /\ proposals'[p].cand = proposals[p].cand
       /\ Decided(p) => Decided(p)'

LEMMA PaperGrows ==
  ASSUME TypeInv, VouchInv, PaperStep, UNCHANGED proposalVars
  PROVE  Grows
<1> USE DEF Grows, proposalVars, boardVars, Decided, Crash
<1>0. trades \in [Trades -> TradeRow]
  BY DEF TypeInv, TypeOK, PaperTypeOK
<1>1. ASSUME NEW o \in Openers, OpenStep(o) \/ OpenCrash(o) PROVE Grows
  <2>1. CASE OpenSaveTrade(o)
    BY <2>1, <1>0 DEF OpenSaveTrade, VouchInv, OpenerVouched
  <2>2. CASE OpenAppend(o)
    BY <2>2 DEF OpenAppend, AppendTransition
  <2> QED
    BY <1>1, <2>1, <2>2 DEF OpenStep, OpenStart, OpenSavePaper, OpenSaveCandidate, OpenCrash
<1>2. ASSUME NEW m \in Monitors, MonitorStep(m) \/ MonitorCrash(m) PROVE Grows
  <2>1. CASE MonitorSaveTrade(m)
    BY <2>1, <1>0 DEF MonitorSaveTrade, TypeInv, MonitorShape, TradeRow
  <2>2. CASE MonitorAppend(m)
    BY <2>2 DEF MonitorAppend, AppendTransition
  <2> QED
    BY <1>2, <2>1, <2>2 DEF MonitorStep, MonitorList, MonitorMirror, MonitorSettle, MonitorExit,
       MonitorMark, MonitorSkip, MonitorSavePaper, MonitorReadCandidate,
       MonitorSaveCandidate, MonitorCrash
<1>3. ASSUME NEW k \in Requests, CloseRead(k) \/ CloseSave(k) \/ TagSave(k) \/ Purge(k)
      PROVE  Grows
  BY <1>3 DEF CloseRead, CloseSave, TagSave, Purge
<1> QED
  BY <1>1, <1>2, <1>3 DEF PaperStep

LEMMA ClerkGrows ==
  ASSUME TypeInv, ProposalStep, UNCHANGED paperVars
  PROVE  Grows
<1> USE DEF Grows, paperVars, boardVars, Decided, Crash
<1>0. proposals \in [Proposals -> ProposalRow]
  BY DEF TypeInv, TypeOK, ProposalTypeOK
<1>1. ASSUME NEW w \in Clerks, ClerkStep(w) \/ ManualStep(w) \/ ClerkCrash(w) PROVE Grows
  <2>1. CASE ProposeSave(w)
    BY <2>1, <1>0 DEF ProposeSave
  <2>2. CASE SaveVerdict(w)
    <3>1. proposals' = [proposals EXCEPT ![clerk[w].prop].status = Verdict(clerk[w].op)]
          /\ trail' = trail
      BY <2>2 DEF SaveVerdict
    <3>2. Verdict(clerk[w].op) \in {"approved", "rejected"}
      BY DEF Verdict
    <3> QED
      BY <1>0, <3>1, <3>2 DEF ProposalRow
  <2>3. CASE ProposeAppend(w) \/ VerdictAppend(w) \/ ManualAppend(w)
    BY <2>3 DEF ProposeAppend, VerdictAppend, ManualAppend, AppendTransition
  <2> QED
    BY <1>1, <2>1, <2>2, <2>3 DEF ClerkStep, ManualStep, ProposeRead, ApproveRead, RejectRead,
       VerdictReadCandidate, SaveAfterWalk, ManualRead, ManualSave, ClerkCrash
<1> QED
  BY <1>1 DEF ProposalStep, Lapse

LEMMA StepGrows ==
  ASSUME TypeInv, VouchInv, [Next]_vars
  PROVE  Grows
<1>1. CASE NextDay /\ UNCHANGED <<paperVars, proposalVars, scanner>>
  BY <1>1 DEF NextDay, Grows, paperVars, proposalVars, Decided
<1>2. CASE PaperStep /\ UNCHANGED <<proposalVars, scanner>>
  BY <1>2, PaperGrows DEF proposalVars
<1>3. CASE ProposalStep /\ UNCHANGED <<paperVars, scanner>>
  BY <1>3, ClerkGrows DEF paperVars
<1>4. CASE ScanStep /\ UNCHANGED <<paperVars, proposalVars>>
  BY <1>4 DEF ScanStep, ScanCreate, ScanAppend, BoardRead, ScanList, SweepSave, SweepAppend,
     SweepDone, RetireSave, MarkPicks, MarkSave, ScanCrash, Crash, boardVars, paperVars,
     proposalVars, Grows, Decided, AppendTransition
<1>5. CASE UNCHANGED vars
  BY <1>5 DEF vars, boardVars, paperVars, proposalVars, Grows, Decided
<1> QED
  BY <1>1, <1>2, <1>3, <1>4, <1>5 DEF Next

\* What was vouched for stays vouched for.
LEMMA EvidenceStays ==
  ASSUME TypeInv, VouchInv, [Next]_vars, NEW c \in Candidates, NEW state
  PROVE  /\ Logged(c, state) => Logged(c, state)'
         /\ Traded(c) => Traded(c)'
         /\ Vouched(c, state) => Vouched(c, state)'
<1>1. Grows
  BY StepGrows
<1>2. Logged(c, state) => Logged(c, state)'
  BY <1>1 DEF Grows, Logged, Audited
<1>3. Traded(c) => Traded(c)'
  <2>1. \A t \in Trades : trades[t].cand = c => trades[t].status # "none"
    BY DEF VouchInv, TradesBlank
  <2> QED
    BY <1>1, <2>1 DEF Grows, Traded
<1>4. Approved(c) => Approved(c)'
  BY <1>1 DEF Grows, Approved, ApproverRow, Decided
<1> QED
  BY <1>2, <1>3, <1>4 DEF Vouched

\* An appended row is on record.
LEMMA AppendLogs ==
  ASSUME NEW c \in Candidates, NEW to, NEW by, AppendTransition(c, to, by), to \in MoneyStates
  PROVE  Audited(c, to)' /\ [cand |-> c, to |-> to, by |-> by] \in trail'
BY DEF AppendTransition, Audited

-----------------------------------------------------------------------------
(* The candidate rows: each save of a handler is of a vouched-for row.      *)

LEMMA RowsFrame ==
  ASSUME TypeInv, VouchInv, [Next]_vars, cands' = cands
  PROVE  RowsVouched'
BY EvidenceStays DEF VouchInv, RowsVouched

LEMMA RowSaved ==
  ASSUME TypeInv, VouchInv, [Next]_vars, NEW c \in Candidates, NEW row,
         SaveCandidate(c, row), Vouched(c, row.state)'
  PROVE  RowsVouched'
<1>1. cands' = [cands EXCEPT ![c] = row] /\ DOMAIN cands = Candidates
  BY DEF SaveCandidate, TypeInv, TypeOK, BoardTypeOK
<1>2. \A d \in Candidates : cands'[d] = IF d = c THEN row ELSE cands[d]
  BY <1>1
<1> SUFFICES ASSUME NEW d \in Candidates PROVE Vouched(d, cands[d].state)'
  BY DEF RowsVouched
<1>3. CASE d = c
  BY <1>2, <1>3
<1>4. CASE d # c
  <2>1. Vouched(d, cands[d].state)
    BY DEF VouchInv, RowsVouched
  <2> QED
    BY <1>2, <1>4, <2>1, EvidenceStays
<1> QED
  BY <1>3, <1>4

-----------------------------------------------------------------------------
(* A handler that does not step stays vouched for.                         *)

LEMMA OpenersFrame ==
  ASSUME TypeInv, VouchInv, [Next]_vars, opener' = opener,
         \A t \in Trades : trades[t].status = "none" => trades'[t].status = "none"
  PROVE  OpenerVouched'
<1> SUFFICES ASSUME NEW o \in Openers
             PROVE  /\ opener[o].at # "idle" => Vouched(opener[o].cand, opener[o].snap.state)'
                    /\ opener[o].at = "trade" =>
                         /\ trades'[opener[o].trade].status = "none"
                         /\ \A q \in Openers \ {o} :
                              opener[q].at = "trade" => opener[q].trade # opener[o].trade
                    /\ opener[o].at = "walk" => /\ Logged(opener[o].cand, opener[o].walk)'
                                                /\ Traded(opener[o].cand)'
  BY DEF OpenerVouched
<1>1. opener[o].at # "idle" => opener[o].cand \in Candidates
  BY DEF TypeInv, OpenerShape
<1>2. opener[o].at = "trade" => opener[o].trade \in Trades
  BY DEF TypeInv, OpenerShape
<1>3. opener[o].at # "idle" => Vouched(opener[o].cand, opener[o].snap.state)'
  <2>1. opener[o].at # "idle" => Vouched(opener[o].cand, opener[o].snap.state)
    BY DEF VouchInv, OpenerVouched
  <2>2. \A state : \A c \in Candidates : Vouched(c, state) => Vouched(c, state)'
    BY EvidenceStays
  <2> QED
    BY <1>1, <2>1, <2>2
<1>4. opener[o].at = "walk" => Logged(opener[o].cand, opener[o].walk)' /\ Traded(opener[o].cand)'
  <2>1. opener[o].at = "walk" => Logged(opener[o].cand, opener[o].walk) /\ Traded(opener[o].cand)
    BY DEF VouchInv, OpenerVouched
  <2>2. \A state : \A c \in Candidates : /\ Logged(c, state) => Logged(c, state)'
                                         /\ Traded(c) => Traded(c)'
    BY EvidenceStays
  <2> QED
    BY <1>1, <2>1, <2>2
<1> QED
  BY <1>2, <1>3, <1>4 DEF VouchInv, OpenerVouched

LEMMA MonitorsFrame ==
  ASSUME TypeInv, VouchInv, [Next]_vars, monitor' = monitor
  PROVE  MonitorVouched'
<1>1. Grows
  BY StepGrows
<1> SUFFICES ASSUME NEW m \in Monitors, monitor[m].at = "cand"
             PROVE  Audited(trades[monitor[m].trade].cand, "CLOSED")'
  BY DEF MonitorVouched
<1>2. trades'[monitor[m].trade].cand = trades[monitor[m].trade].cand
  BY <1>1 DEF Grows, TypeInv, MonitorShape
<1> QED
  BY <1>1, <1>2 DEF Grows, VouchInv, MonitorVouched, Audited

\* What a clerk's state h needs; kept by any step that leaves h alone.
LEMMA ClerkStays ==
  ASSUME TypeInv, VouchInv, [Next]_vars, NEW w \in Clerks, clerk'[w] = clerk[w]
  PROVE  /\ ProposeVouched(clerk[w])'
         /\ ApproveVouched(clerk[w])'
         /\ OtherVouched(clerk[w])'
<1> DEFINE h == clerk[w]
<1>1. Grows
  BY StepGrows
<1>2. ProposeVouched(h) /\ ApproveVouched(h) /\ OtherVouched(h)
  BY DEF VouchInv, ClerkVouched
<1>3. ProposeVouched(h)'
  <2>1. h.op = "propose" /\ h.at \in {"proposal", "walk"} => h.cand \in Candidates
    BY DEF TypeInv, ClerkShape
  <2>2. \A state : \A c \in Candidates : Logged(c, state) => Logged(c, state)'
    BY EvidenceStays
  <2> QED
    BY <1>2, <2>1, <2>2 DEF ProposeVouched
<1>4. ApproveVouched(h)'
  BY <1>1, <1>2 DEF ApproveVouched, Grows, Decided, ApproverRow
<1>5. OtherVouched(h)'
  BY <1>2 DEF OtherVouched
<1> QED
  BY <1>3, <1>4, <1>5

LEMMA ClerksFrame ==
  ASSUME TypeInv, VouchInv, [Next]_vars, clerk' = clerk
  PROVE  ClerkVouched'
BY ClerkStays DEF ClerkVouched

LEMMA ScannersFrame ==
  ASSUME TypeInv, VouchInv, [Next]_vars, scanner' = scanner
  PROVE  ScannerVouched'
<1> SUFFICES ASSUME NEW s \in Scanners, NEW c \in Candidates
             PROVE  /\ Vouched(c, scanner[s].listed[c].state)'
                    /\ scanner'[s].made[c].state \notin MoneyStates
  BY DEF ScannerVouched
<1>1. Vouched(c, scanner[s].listed[c].state)
  BY DEF VouchInv, ScannerVouched
<1>2. \A state : Vouched(c, state) => Vouched(c, state)'
  BY EvidenceStays
<1> QED
  BY <1>1, <1>2 DEF VouchInv, ScannerVouched

-----------------------------------------------------------------------------
(* Paper opens.                                                            *)

LEMMA OpenerSteps ==
  ASSUME TypeInv, VouchInv, [Next]_vars, NEW o \in Openers, NEW h,
         opener' = [opener EXCEPT ![o] = h],
         \A q \in Openers \ {o} : opener[q].at = "trade" =>
           trades'[opener[q].trade].status = "none",
         h.at # "idle" => Vouched(h.cand, h.snap.state)',
         h.at = "trade" =>
           /\ trades'[h.trade].status = "none"
           /\ \A q \in Openers \ {o} : opener[q].at = "trade" => opener[q].trade # h.trade,
         h.at = "walk" => Logged(h.cand, h.walk)' /\ Traded(h.cand)'
  PROVE  OpenerVouched'
<1>1. opener'[o] = h /\ \A q \in Openers \ {o} : opener'[q] = opener[q]
  BY DEF TypeInv, TypeOK, PaperTypeOK
<1>2. ASSUME NEW q \in Openers \ {o}
      PROVE  /\ opener[q].at # "idle" => Vouched(opener[q].cand, opener[q].snap.state)'
             /\ opener[q].at = "walk" => /\ Logged(opener[q].cand, opener[q].walk)'
                                         /\ Traded(opener[q].cand)'
  <2>1. /\ opener[q].at # "idle" => /\ opener[q].cand \in Candidates
                                    /\ Vouched(opener[q].cand, opener[q].snap.state)
        /\ opener[q].at = "walk" => /\ Logged(opener[q].cand, opener[q].walk)
                                    /\ Traded(opener[q].cand)
    BY DEF VouchInv, OpenerVouched, TypeInv, OpenerShape
  <2>2. \A state : \A c \in Candidates : /\ Vouched(c, state) => Vouched(c, state)'
                                         /\ Logged(c, state) => Logged(c, state)'
                                         /\ Traded(c) => Traded(c)'
    BY EvidenceStays
  <2>3. opener'[q] = opener[q]
    BY <1>1
  <2> QED
    BY <2>1, <2>2, <2>3
<1>3. \A q, r \in Openers \ {o} :
        q # r /\ opener[q].at = "trade" /\ opener[r].at = "trade"
        => opener[q].trade # opener[r].trade
  BY DEF VouchInv, OpenerVouched
<1> SUFFICES ASSUME NEW q \in Openers
             PROVE  /\ opener'[q].at # "idle" => Vouched(opener[q].cand, opener[q].snap.state)'
                    /\ opener'[q].at = "trade" =>
                         /\ trades'[opener'[q].trade].status = "none"
                         /\ \A r \in Openers \ {q} :
                              opener'[r].at = "trade" => opener'[r].trade # opener'[q].trade
                    /\ opener'[q].at = "walk" => /\ Logged(opener[q].cand, opener[q].walk)'
                                                 /\ Traded(opener[q].cand)'
  BY DEF OpenerVouched
<1>4. CASE q = o
  BY <1>1, <1>4
<1>5. CASE q # o
  BY <1>1, <1>2, <1>3, <1>5
<1> QED
  BY <1>4, <1>5

\* g names the state the handler is in before the step.
LEMMA OpenVouches ==
  ASSUME TypeInv, VouchInv, [Next]_vars, NEW o \in Openers, OpenStep(o) \/ OpenCrash(o),
         NEW g, opener[o] = g
  PROVE  RowsVouched' /\ TradesBlank' /\ OpenerVouched'
<1>a. /\ opener \in [Openers -> OpenerState] /\ g \in OpenerState
      /\ trades \in [Trades -> TradeRow]
  BY DEF TypeInv, TypeOK, PaperTypeOK
<1>b. /\ g.at # "idle" => g.cand \in Candidates /\ Vouched(g.cand, g.snap.state)
      /\ g.at = "trade" => g.trade \in Trades
      /\ g.at = "walk" => Logged(g.cand, g.walk) /\ Traded(g.cand)
      /\ \A q \in Openers : opener[q].at = "trade" =>
           /\ opener[q].trade \in Trades
           /\ trades[opener[q].trade].status = "none"
           /\ papers[opener[q].trade] # "none"
           /\ q # o /\ g.at = "trade" => opener[q].trade # g.trade
  BY DEF VouchInv, OpenerVouched, TypeInv, OpenerShape
<1>c. \A state : \A c \in Candidates : /\ Vouched(c, state) => Vouched(c, state)'
                                       /\ Logged(c, state) => Logged(c, state)'
                                       /\ Traded(c) => Traded(c)'
  BY EvidenceStays
<1>d. trades' = trades => TradesBlank'
  BY DEF VouchInv, TradesBlank
<1>1. CASE OpenStart(o)
  <2>1. PICK c, h :
          /\ c \in Candidates
          /\ opener' = [opener EXCEPT ![o] = h]
          /\ h = [IdleOpener EXCEPT !.at = "paper", !.cand = c, !.snap = cands[c]]
    BY <1>1 DEF OpenStart
  <2>2. h.at = "paper" /\ h.cand = c /\ h.snap = cands[c]
    BY <2>1 DEF IdleOpener
  <2>3. cands' = cands /\ trades' = trades
    BY <1>1 DEF OpenStart, boardVars
  <2>4. Vouched(h.cand, h.snap.state)
    BY <2>1, <2>2 DEF VouchInv, RowsVouched
  <2>5. Vouched(h.cand, h.snap.state)'
    BY <1>c, <2>1, <2>2, <2>4
  <2>6. OpenerVouched'
    BY <1>b, <2>1, <2>2, <2>3, <2>5, OpenerSteps
  <2> QED
    BY <1>d, <2>3, <2>6, RowsFrame
<1>2. CASE OpenSavePaper(o)
  <2>1. PICK t, h :
          /\ t \in Trades
          /\ papers[t] = "none"
          /\ opener' = [opener EXCEPT ![o] = h]
          /\ h = [g EXCEPT !.at = "trade", !.trade = t]
    BY <1>2 DEF OpenSavePaper
  <2>2. h.at = "trade" /\ h.cand = g.cand /\ h.snap = g.snap /\ h.trade = t
    BY <1>a, <2>1 DEF OpenerState
  <2>3. cands' = cands /\ trades' = trades /\ g.at # "idle"
    BY <1>2 DEF OpenSavePaper, boardVars
  <2>4. trades[t].status = "none"
    BY <2>1 DEF TypeInv, TradesShape
  <2>5. Vouched(h.cand, h.snap.state)'
    BY <1>b, <1>c, <2>2, <2>3
  <2>6. /\ h.at # "walk" /\ trades'[h.trade].status = "none"
        /\ \A q \in Openers \ {o} : opener[q].at = "trade" =>
             trades'[opener[q].trade].status = "none" /\ opener[q].trade # h.trade
    BY <1>b, <2>1, <2>2, <2>3, <2>4
  <2>7. OpenerVouched'
    BY <2>1, <2>5, <2>6, OpenerSteps
  <2> QED
    BY <1>d, <2>3, <2>7, RowsFrame
<1>3. CASE OpenSaveTrade(o)
  <2>1. PICK h :
          /\ opener' = [opener EXCEPT ![o] = h]
          /\ h = IF MayAdvance(g.snap.state, "OPEN")
                 THEN [g EXCEPT !.at = "walk", !.walk = g.snap.state] ELSE IdleOpener
    BY <1>3 DEF OpenSaveTrade
  <2>2. \/ h.at = "idle"
        \/ h.at = "walk" /\ h.cand = g.cand /\ h.snap = g.snap /\ h.walk = g.snap.state
    BY <1>a, <2>1 DEF OpenerState, IdleOpener
  <2>3. /\ cands' = cands /\ g.at = "trade"
        /\ trades'[g.trade] = [status |-> "open", cand |-> g.cand]
        /\ \A t \in Trades \ {g.trade} : trades'[t] = trades[t]
    BY <1>a, <1>b, <1>3 DEF OpenSaveTrade, boardVars
  <2>4. Traded(g.cand)'
    BY <1>b, <2>3 DEF Traded
  <2>5. Vouched(g.cand, g.snap.state)'
    BY <1>b, <1>c, <2>3
  <2>6. Logged(g.cand, g.snap.state)'
    BY <2>5 DEF Vouched
  <2>7. OpenerVouched'
    <3>1. \A q \in Openers \ {o} :
            opener[q].at = "trade" => trades'[opener[q].trade].status = "none"
      BY <1>b, <2>3
    <3>2. /\ h.at # "trade"
          /\ h.at # "idle" => Vouched(h.cand, h.snap.state)'
          /\ h.at = "walk" => Logged(h.cand, h.walk)' /\ Traded(h.cand)'
      BY <2>2, <2>4, <2>5, <2>6
    <3> QED
      BY <2>1, <3>1, <3>2, OpenerSteps
  <2>8. TradesBlank'
    BY <2>3 DEF VouchInv, TradesBlank
  <2> QED
    BY <2>3, <2>7, <2>8, RowsFrame
<1>4. CASE OpenAppend(o)
  <2>1. PICK hop, h :
          /\ opener' = [opener EXCEPT ![o] = h] /\ h = [g EXCEPT !.walk = hop]
          /\ AppendTransition(g.cand, hop, "dashboard")
    BY <1>4 DEF OpenAppend
  <2>2. h.at = "walk" /\ h.cand = g.cand /\ h.snap = g.snap /\ h.walk = hop
    BY <1>a, <1>4, <2>1 DEF OpenerState, OpenAppend
  <2>3. cands' = cands /\ trades' = trades /\ g.at = "walk"
    BY <1>4 DEF OpenAppend
  <2>4. Logged(g.cand, hop)'
    BY <1>b, <2>1, <2>3, AppendLogs DEF Logged
  <2>5. Vouched(h.cand, h.snap.state)' /\ Logged(h.cand, h.walk)' /\ Traded(h.cand)'
    BY <1>b, <1>c, <2>2, <2>3, <2>4
  <2>6. OpenerVouched'
    BY <1>b, <2>1, <2>2, <2>3, <2>5, OpenerSteps
  <2> QED
    BY <1>d, <2>3, <2>6, RowsFrame
<1>5. CASE OpenSaveCandidate(o)
  <2>1. PICK row : SaveCandidate(g.cand, row) /\ row = [g.snap EXCEPT !.state = "OPEN"]
    BY <1>5 DEF OpenSaveCandidate
  <2>2. /\ opener' = [opener EXCEPT ![o] = IdleOpener] /\ trades' = trades
        /\ g.at = "walk" /\ g.walk = "OPEN"
    BY <1>5 DEF OpenSaveCandidate
  <2>3. row.state = "OPEN"
    BY <1>a, <2>1 DEF OpenerState, CandidateRow
  <2>4. Logged(g.cand, "OPEN")' /\ Traded(g.cand)'
    BY <1>b, <1>c, <2>2
  <2>5. Vouched(g.cand, row.state)'
    BY <2>3, <2>4 DEF Vouched
  <2>6. RowsVouched'
    BY <1>b, <2>1, <2>2, <2>5, RowSaved
  <2>7. OpenerVouched'
    BY <1>b, <2>2, OpenerSteps DEF IdleOpener
  <2> QED
    BY <1>d, <2>2, <2>6, <2>7
<1>6. CASE OpenCrash(o)
  <2>1. /\ opener' = [opener EXCEPT ![o] = IdleOpener] /\ trades' = trades /\ cands' = cands
    BY <1>6 DEF OpenCrash, Crash
  <2>2. OpenerVouched'
    BY <1>b, <2>1, OpenerSteps DEF IdleOpener
  <2> QED
    BY <1>d, <2>1, <2>2, RowsFrame
<1> QED
  BY <1>1, <1>2, <1>3, <1>4, <1>5, <1>6 DEF OpenStep

-----------------------------------------------------------------------------
(* Monitor passes.                                                         *)

\* Only the append brings a pass to the save of its candidate.
LEMMA MonitorAt ==
  ASSUME TypeInv, NEW m \in Monitors, MonitorStep(m) \/ MonitorCrash(m), ~MonitorAppend(m)
  PROVE  /\ monitor'[m].at # "cand"
         /\ \A n \in Monitors \ {m} : monitor'[n] = monitor[n]
<1>a. /\ monitor \in [Monitors -> MonitorState] /\ monitor[m] \in MonitorState
      /\ \A todo : monitor[m].todo \ todo \in SUBSET Trades
  BY DEF TypeInv, TypeOK, PaperTypeOK, MonitorState
<1>1. ASSUME NEW t, NEW at \in {"paper", "trade"}, NEW mode, NEW exit, TakeUp(m, t, at, mode, exit)
      PROVE  monitor'[m].at # "cand" /\ \A n \in Monitors \ {m} : monitor'[n] = monitor[n]
  BY <1>1, <1>a DEF TakeUp, MonitorState
<1>2. CASE MonitorMirror(m) \/ MonitorSettle(m) \/ MonitorExit(m) \/ MonitorMark(m)
  BY <1>1, <1>2 DEF MonitorMirror, MonitorSettle, MonitorExit, MonitorMark
<1>3. CASE MonitorList(m) \/ MonitorCrash(m)
  <2>1. \A todo, day : [IdleMonitor EXCEPT !.at = "next", !.todo = todo, !.now = day].at = "next"
    BY DEF IdleMonitor
  <2>2. IdleMonitor.at = "idle"
    BY DEF IdleMonitor
  <2>3. PICK mon : monitor' = [monitor EXCEPT ![m] = mon] /\ mon.at # "cand"
    <3>1. CASE MonitorList(m)
      <4>1. \E todo, day :
              monitor' = [monitor EXCEPT ![m] = [IdleMonitor EXCEPT
                            !.at = "next", !.todo = todo, !.now = day]]
        BY <3>1 DEF MonitorList
      <4> QED
        BY <2>1, <4>1
    <3>2. CASE MonitorCrash(m)
      BY <2>2, <3>2 DEF MonitorCrash
    <3> QED
      BY <1>3, <3>1, <3>2
  <2> QED
    BY <1>a, <2>3
<1>4. CASE MonitorSkip(m)
  BY <1>4, <1>a, Rested DEF MonitorSkip
<1>5. CASE MonitorSavePaper(m)
  BY <1>5, <1>a DEF MonitorSavePaper, MonitorState
<1>6. CASE MonitorSaveTrade(m)
  <2>1. monitor[m].todo \in SUBSET Trades
    BY <1>a DEF MonitorState
  <2> QED
    BY <1>6, <1>a, <2>1, Rested DEF MonitorSaveTrade, MonitorState
<1>7. CASE MonitorReadCandidate(m) \/ MonitorSaveCandidate(m)
  <2>1. AfterCandidate(monitor[m]).at # "cand"
    BY <1>a, AfterCandidateTyped
  <2>2. \A snap : [monitor[m] EXCEPT !.at = "append", !.snap = snap].at = "append"
    BY <1>a DEF MonitorState
  <2>3. PICK mon : monitor' = [monitor EXCEPT ![m] = mon] /\ mon.at # "cand"
    <3>1. CASE MonitorReadCandidate(m)
      <4>1. \E snap : monitor' = [monitor EXCEPT ![m] =
                IF snap.state \in {"OPEN", "MANAGING"}
                THEN [monitor[m] EXCEPT !.at = "append", !.snap = snap]
                ELSE AfterCandidate(monitor[m])]
        BY <3>1 DEF MonitorReadCandidate
      <4> QED
        BY <2>1, <2>2, <4>1
    <3>2. CASE MonitorSaveCandidate(m)
      BY <2>1, <3>2 DEF MonitorSaveCandidate
    <3> QED
      BY <1>7, <3>1, <3>2
  <2> QED
    BY <1>a, <2>3
<1> QED
  BY <1>2, <1>3, <1>4, <1>5, <1>6, <1>7 DEF MonitorStep

LEMMA MonitorVouches ==
  ASSUME TypeInv, VouchInv, [Next]_vars, NEW m \in Monitors, MonitorStep(m) \/ MonitorCrash(m)
  PROVE  RowsVouched' /\ TradesBlank' /\ MonitorVouched' /\ OpenerVouched'
<1>a. /\ monitor \in [Monitors -> MonitorState] /\ monitor[m] \in MonitorState
      /\ trades \in [Trades -> TradeRow]
  BY DEF TypeInv, TypeOK, PaperTypeOK
<1>b. \A n \in Monitors : monitor[n].at \notin {"idle", "next"} =>
        /\ monitor[n].trade \in Trades /\ trades[monitor[n].trade].status # "none"
        /\ trades[monitor[n].trade].cand \in Candidates
  BY DEF TypeInv, MonitorShape, TradesShape
<1>c. Grows
  BY StepGrows
<1>d. ASSUME NEW n \in Monitors, monitor[n].at = "cand"
      PROVE  Audited(trades[monitor[n].trade].cand, "CLOSED")
             /\ \E row \in trail' : row.cand = trades'[monitor[n].trade].cand /\ row.to = "CLOSED"
  BY <1>b, <1>c, <1>d DEF VouchInv, MonitorVouched, Grows, Audited
<1>1. MonitorVouched'
  <2>1. CASE MonitorAppend(m)
    <3>1. PICK c \in Candidates : c = trades[monitor[m].trade].cand
      BY <1>b, <2>1 DEF MonitorAppend
    <3>2. /\ monitor'[m].trade = monitor[m].trade /\ trades' = trades
          /\ \A n \in Monitors \ {m} : monitor'[n] = monitor[n]
      BY <1>a, <2>1 DEF MonitorAppend, MonitorState
    <3>3. Audited(c, "CLOSED")'
      BY <2>1, <3>1, AppendLogs DEF MonitorAppend, MoneyStates
    <3> QED
      BY <1>d, <3>1, <3>2, <3>3 DEF MonitorVouched, Audited
  <2>2. CASE ~MonitorAppend(m)
    BY <1>d, <2>2, MonitorAt DEF MonitorVouched, Audited
  <2> QED
    BY <2>1, <2>2
<1>2. RowsVouched'
  <2>1. CASE MonitorSaveCandidate(m)
    <3>1. PICK c, row :
            /\ c \in Candidates
            /\ c = trades[monitor[m].trade].cand /\ SaveCandidate(c, row)
            /\ row = [monitor[m].snap EXCEPT !.state = "CLOSED"]
      BY <1>b, <2>1 DEF MonitorSaveCandidate
    <3>2. row.state = "CLOSED"
      BY <1>a, <3>1 DEF MonitorState, CandidateRow
    <3>3. Vouched(c, "CLOSED")
      BY <1>b, <1>d, <2>1, <3>1 DEF MonitorSaveCandidate, Vouched, Logged, Traded
    <3>4. Vouched(c, row.state)'
      BY <3>1, <3>2, <3>3, EvidenceStays
    <3> QED
      BY <3>1, <3>4, RowSaved
  <2>2. CASE ~MonitorSaveCandidate(m)
    <3>1. cands' = cands
      BY <2>2 DEF MonitorStep, MonitorList, MonitorMirror, MonitorSettle, MonitorExit,
         MonitorMark, MonitorSkip, MonitorSavePaper, MonitorSaveTrade, MonitorReadCandidate,
         MonitorAppend, MonitorCrash, Crash, boardVars
    <3> QED
      BY <3>1, RowsFrame
  <2> QED
    BY <2>1, <2>2
<1>3. opener' = opener /\ \A t \in Trades : trades[t].status = "none" => trades'[t] = trades[t]
  <2>1. CASE MonitorSaveTrade(m)
    BY <1>a, <1>b, <2>1 DEF MonitorSaveTrade
  <2> QED
    BY <2>1 DEF MonitorStep, MonitorList, MonitorMirror, MonitorSettle, MonitorExit,
       MonitorMark, MonitorSkip, MonitorSavePaper, MonitorReadCandidate,
       MonitorAppend, MonitorSaveCandidate, MonitorCrash
<1>4. TradesBlank'
  BY <1>3, <1>c DEF VouchInv, TradesBlank, Grows
<1> QED
  BY <1>1, <1>2, <1>3, <1>4, OpenersFrame

-----------------------------------------------------------------------------
(* Proposals, verdicts and manual actions.                                 *)

HandlerVouched(h) == ProposeVouched(h) /\ ApproveVouched(h) /\ OtherVouched(h)

LEMMA ClerkSteps ==
  ASSUME TypeInv, VouchInv, [Next]_vars, NEW w \in Clerks, NEW h,
         clerk' = [clerk EXCEPT ![w] = h], HandlerVouched(h)'
  PROVE  ClerkVouched'
<1>1. clerk'[w] = h /\ \A v \in Clerks \ {w} : clerk'[v] = clerk[v]
  BY DEF TypeInv, TypeOK, ProposalTypeOK
<1> SUFFICES ASSUME NEW v \in Clerks PROVE HandlerVouched(clerk[v])'
  BY DEF ClerkVouched, HandlerVouched
<1>2. CASE v = w
  BY <1>1, <1>2
<1>3. CASE v # w
  BY <1>1, <1>3, ClerkStays DEF HandlerVouched
<1> QED
  BY <1>2, <1>3

LEMMA IdleVouched == \A h : h.at = "idle" /\ h.op = "manual" => HandlerVouched(h)'
BY DEF HandlerVouched, ProposeVouched, ApproveVouched, OtherVouched

\* g names the state the handler is in before the step.
LEMMA ClerkVouches ==
  ASSUME TypeInv, VouchInv, [Next]_vars, NEW w \in Clerks,
         ClerkStep(w) \/ ManualStep(w) \/ ClerkCrash(w), NEW g, clerk[w] = g
  PROVE  RowsVouched' /\ ClerkVouched'
<1>a. /\ clerk \in [Clerks -> ClerkState] /\ g \in ClerkState
      /\ proposals \in [Proposals -> ProposalRow]
  BY DEF TypeInv, TypeOK, ProposalTypeOK
<1>b. ProposeVouched(g) /\ ApproveVouched(g) /\ OtherVouched(g)
  BY DEF VouchInv, ClerkVouched
<1>c. /\ g.at \notin {"idle", "proposal"} => g.cand \in Candidates
      /\ g.at = "proposal" /\ g.op = "propose" => g.cand \in Candidates
  BY DEF TypeInv, ClerkShape
<1>d. Grows
  BY StepGrows
<1>e. \A state : \A c \in Candidates : /\ Vouched(c, state) => Vouched(c, state)'
                                       /\ Logged(c, state) => Logged(c, state)'
  BY EvidenceStays
<1>f. HandlerVouched(IdleClerk)'
  BY IdleVouched DEF IdleClerk
<1>1. CASE ProposeRead(w)
  <2>1. PICK c, h :
          /\ c \in Candidates
          /\ clerk' = [clerk EXCEPT ![w] = h]
          /\ h = [IdleClerk EXCEPT !.at = "proposal", !.op = "propose", !.cand = c,
                                   !.snap = cands[c]]
    BY <1>1 DEF ProposeRead
  <2>2. /\ h.at = "proposal" /\ h.op = "propose" /\ h.cand = c /\ h.snap = cands[c]
        /\ cands' = cands
    BY <1>1, <2>1 DEF IdleClerk, ProposeRead, boardVars
  <2>3. Logged(c, h.snap.state)'
    BY <1>e, <2>1, <2>2 DEF VouchInv, RowsVouched, Vouched
  <2>4. HandlerVouched(h)'
    BY <2>2, <2>3 DEF HandlerVouched, ProposeVouched, ApproveVouched, OtherVouched
  <2> QED
    BY <2>1, <2>2, <2>4, ClerkSteps, RowsFrame
<1>2. CASE ProposeSave(w)
  <2>1. PICK h :
          /\ clerk' = [clerk EXCEPT ![w] = h]
          /\ h = IF MayAdvance(g.snap.state, "PROPOSED")
                 THEN [g EXCEPT !.at = "walk", !.walk = g.snap.state, !.goal = "PROPOSED"]
                 ELSE IdleClerk
    BY <1>2 DEF ProposeSave
  <2>2. /\ g.at = "proposal" /\ g.op = "propose" /\ cands' = cands
        /\ \/ h = IdleClerk
           \/ /\ h.at = "walk" /\ h.op = "propose" /\ h.cand = g.cand
              /\ h.walk = g.snap.state /\ h.goal = "PROPOSED"
    BY <1>2, <1>a, <2>1 DEF ProposeSave, boardVars, ClerkState
  <2>3. Logged(g.cand, g.snap.state)'
    BY <1>b, <1>c, <1>e, <2>2 DEF ProposeVouched
  <2>4. HandlerVouched(h)'
    BY <1>f, <2>2, <2>3 DEF HandlerVouched, ProposeVouched, ApproveVouched, OtherVouched
  <2> QED
    BY <2>1, <2>2, <2>4, ClerkSteps, RowsFrame
<1>3. CASE ProposeAppend(w)
  <2>1. PICK hop, h :
          /\ clerk' = [clerk EXCEPT ![w] = h] /\ h = [g EXCEPT !.walk = hop]
          /\ AppendTransition(g.cand, hop, "dashboard")
    BY <1>3 DEF ProposeAppend
  <2>2. /\ g.at = "walk" /\ g.op = "propose" /\ cands' = cands
        /\ h.at = "walk" /\ h.op = "propose" /\ h.cand = g.cand
        /\ h.walk = hop /\ h.goal = g.goal
    BY <1>3, <1>a, <2>1 DEF ProposeAppend, ClerkState
  <2>3. Logged(g.cand, hop)'
    BY <1>c, <2>1, <2>2, AppendLogs DEF Logged
  <2>4. HandlerVouched(h)'
    BY <1>b, <2>2, <2>3 DEF HandlerVouched, ProposeVouched, ApproveVouched, OtherVouched
  <2> QED
    BY <2>1, <2>2, <2>4, ClerkSteps, RowsFrame
<1>4. CASE ApproveRead(w)
  <2>1. PICK p, c, h :
          /\ p \in Proposals
          /\ proposals[p].status = "pending" /\ c \in {proposals[p].cand, Nobody}
          /\ clerk' = [clerk EXCEPT ![w] = h]
          /\ h = [IdleClerk EXCEPT !.at = "proposal", !.op = "approve", !.prop = p, !.cand = c]
    BY <1>4 DEF ApproveRead
  <2>2. /\ h.at = "proposal" /\ h.op = "approve" /\ h.prop = p /\ h.cand = c
        /\ h.walk = "ABSENT" /\ cands' = cands
    BY <1>4, <2>1 DEF IdleClerk, ApproveRead, boardVars
  <2>3. HandlerVouched(h)'
    BY <1>d, <2>1, <2>2 DEF HandlerVouched, ProposeVouched, ApproveVouched, OtherVouched, Grows
  <2> QED
    BY <2>1, <2>2, <2>3, ClerkSteps, RowsFrame
<1>5. CASE RejectRead(w)
  <2>1. PICK p, c, h :
          /\ p \in Proposals
          /\ clerk' = [clerk EXCEPT ![w] = h]
          /\ h = [IdleClerk EXCEPT !.at = "proposal", !.op = "reject", !.prop = p, !.cand = c]
    BY <1>5 DEF RejectRead
  <2>2. h.at = "proposal" /\ h.op = "reject" /\ cands' = cands
    BY <1>5, <2>1 DEF IdleClerk, RejectRead, boardVars
  <2>3. HandlerVouched(h)'
    BY <2>2 DEF HandlerVouched, ProposeVouched, ApproveVouched, OtherVouched
  <2> QED
    BY <2>1, <2>2, <2>3, ClerkSteps, RowsFrame
<1>6. CASE SaveVerdict(w)
  <2>1. PICK h :
          /\ clerk' = [clerk EXCEPT ![w] = h]
          /\ h = IF g.cand = Nobody THEN IdleClerk ELSE [g EXCEPT !.at = "read"]
    BY <1>6 DEF SaveVerdict
  <2>2. /\ g.at = "proposal" /\ g.op \in {"approve", "reject"} /\ cands' = cands
        /\ trail' = trail
        /\ proposals' = [proposals EXCEPT ![g.prop].status = Verdict(g.op)]
    BY <1>6 DEF SaveVerdict, boardVars
  <2>3. CASE g.cand = Nobody
    BY <1>f, <2>1, <2>2, <2>3, ClerkSteps, RowsFrame
  <2>4. CASE g.cand # Nobody
    <3>1. /\ h.at = "read" /\ h.op = g.op /\ h.cand = g.cand /\ h.prop = g.prop
          /\ h.walk = g.walk
      BY <1>a, <2>1, <2>4 DEF ClerkState
    <3>2. Verdict(g.op) \in {"approved", "rejected"}
      BY DEF Verdict
    <3>3. g.op = "approve" => /\ proposals'[g.prop].cand = g.cand
                              /\ proposals'[g.prop].status = Verdict(g.op)
      BY <1>a, <1>b, <2>2, <2>4 DEF ApproveVouched, ProposalRow
    <3>4. HandlerVouched(h)'
      BY <1>b, <2>2, <2>4, <3>1, <3>2, <3>3
         DEF HandlerVouched, ProposeVouched, ApproveVouched, OtherVouched, Decided
    <3> QED
      BY <2>1, <2>2, <3>4, ClerkSteps, RowsFrame
  <2> QED
    BY <2>3, <2>4
<1>7. CASE VerdictReadCandidate(w)
  <2>1. PICK snap, h :
          /\ clerk' = [clerk EXCEPT ![w] = h]
          /\ h = IF Moves(g.op, snap.state)
                 THEN [g EXCEPT !.at = "walk", !.snap = snap, !.goal = Goal(g.op)]
                 ELSE IdleClerk
    BY <1>7 DEF VerdictReadCandidate
  <2>2. g.at = "read" /\ cands' = cands
    BY <1>7 DEF VerdictReadCandidate, boardVars
  <2>3. CASE Moves(g.op, snap.state)
    <3>1. /\ h.at = "walk" /\ h.op = g.op /\ h.cand = g.cand /\ h.prop = g.prop
          /\ h.walk = g.walk /\ h.goal = Goal(g.op)
      BY <1>a, <2>1, <2>3 DEF ClerkState
    <3>2. ApproveVouched(g)'
      BY ClerkStays, <1>b, <1>d DEF ApproveVouched, Grows, Decided, ApproverRow
    <3>3. HandlerVouched(h)'
      BY <1>b, <2>2, <3>1, <3>2
         DEF HandlerVouched, ProposeVouched, ApproveVouched, OtherVouched, Goal
    <3> QED
      BY <2>1, <2>2, <3>3, ClerkSteps, RowsFrame
  <2>4. CASE ~Moves(g.op, snap.state)
    BY <1>f, <2>1, <2>2, <2>4, ClerkSteps, RowsFrame
  <2> QED
    BY <2>3, <2>4
<1>8. CASE VerdictAppend(w)
  <2>1. PICK h : clerk' = [clerk EXCEPT ![w] = h] /\ h = [g EXCEPT !.walk = g.goal]
    BY <1>8 DEF VerdictAppend
  <2>2. /\ g.at = "walk" /\ g.op \in {"approve", "reject"}
        /\ cands' = cands /\ proposals' = proposals
        /\ AppendTransition(g.cand, g.goal, IF g.op = "approve" THEN "approver" ELSE "dashboard")
    BY <1>8 DEF VerdictAppend
  <2>3. /\ h.at = "walk" /\ h.op = g.op /\ h.cand = g.cand /\ h.prop = g.prop
        /\ h.goal = g.goal
    BY <1>a, <2>1, <2>2 DEF ClerkState
  <2>4. g.op = "approve" => ApproverRow(g.cand) \in trail'
    BY <1>b, <1>c, <2>2, AppendLogs DEF ApproveVouched, ApproverRow, MoneyStates
  <2>5. HandlerVouched(h)'
    BY <1>b, <2>2, <2>3, <2>4
       DEF HandlerVouched, ProposeVouched, ApproveVouched, OtherVouched, Decided, ApproverRow
  <2> QED
    BY <2>1, <2>2, <2>5, ClerkSteps, RowsFrame
<1>9. CASE SaveAfterWalk(w)
  <2>1. PICK row : SaveCandidate(g.cand, row) /\ row = [g.snap EXCEPT !.state = g.goal]
    BY <1>9 DEF SaveAfterWalk
  <2>2. /\ g.at = "walk" /\ g.walk = g.goal
        /\ clerk' = [clerk EXCEPT ![w] = IdleClerk]
    BY <1>9 DEF SaveAfterWalk
  <2>3. row.state = g.goal
    BY <1>a, <2>1 DEF ClerkState, CandidateRow
  <2>4. g.cand \in Candidates /\ g.cand # Nobody
    BY <1>c, <2>2
  <2>5. Vouched(g.cand, g.goal)
    <3>1. CASE g.op = "propose"
      BY <1>b, <2>2, <3>1 DEF ProposeVouched, Vouched
    <3>2. CASE g.op = "approve"
      <4>1. g.goal = "APPROVED" /\ ApproverRow(g.cand) \in trail
        BY <1>b, <2>2, <3>2 DEF ApproveVouched
      <4>2. Approved(g.cand)
        BY <1>b, <2>2, <2>4, <3>2, <4>1 DEF ApproveVouched, Approved
      <4>3. Logged(g.cand, "APPROVED")
        BY <4>1 DEF Logged, Audited, ApproverRow
      <4> QED
        BY <4>1, <4>2, <4>3 DEF Vouched
    <3>3. CASE g.op = "reject"
      BY <1>b, <2>2, <3>3 DEF OtherVouched, Vouched, Logged, MoneyStates
    <3> QED
      BY <1>b, <2>2, <3>1, <3>2, <3>3 DEF OtherVouched
  <2>6. Vouched(g.cand, row.state)'
    BY <1>e, <2>3, <2>4, <2>5
  <2>7. RowsVouched'
    BY <2>1, <2>4, <2>6, RowSaved
  <2> QED
    BY <1>f, <2>2, <2>7, ClerkSteps
<1>10. CASE ManualRead(w)
  <2>1. PICK c, target, h :
          /\ c \in Candidates /\ target \in ManualTargets
          /\ clerk' = [clerk EXCEPT ![w] = h]
          /\ h = [IdleClerk EXCEPT !.at = "cand", !.op = "manual", !.cand = c,
                                   !.snap = cands[c], !.goal = target]
    BY <1>10 DEF ManualRead
  <2>2. h.at = "cand" /\ h.op = "manual" /\ h.goal = target /\ cands' = cands
    BY <1>10, <2>1 DEF IdleClerk, ManualRead, boardVars
  <2>3. HandlerVouched(h)'
    BY <2>1, <2>2 DEF HandlerVouched, ProposeVouched, ApproveVouched, OtherVouched
  <2> QED
    BY <2>1, <2>2, <2>3, ClerkSteps, RowsFrame
<1>11. CASE ManualSave(w)
  <2>1. PICK row, h :
          /\ SaveCandidate(g.cand, row) /\ row = [g.snap EXCEPT !.state = g.goal]
          /\ clerk' = [clerk EXCEPT ![w] = h] /\ h = [g EXCEPT !.at = "row"]
    BY <1>11 DEF ManualSave
  <2>2. g.at = "cand" /\ row.state = g.goal
        /\ h.at = "row" /\ h.op = g.op /\ h.walk = g.walk /\ h.cand = g.cand
    BY <1>11, <1>a, <2>1 DEF ManualSave, ClerkState, CandidateRow
  <2>3. g.goal \notin MoneyStates
    BY <1>b, <2>2 DEF OtherVouched, ManualTargets, MoneyStates
  <2>4. Vouched(g.cand, row.state)'
    BY <2>2, <2>3 DEF Vouched, Logged, MoneyStates
  <2>5. RowsVouched'
    BY <1>c, <2>1, <2>2, <2>4, RowSaved
  <2>6. HandlerVouched(h)'
    BY <1>b, <1>d, <2>2
       DEF HandlerVouched, ProposeVouched, ApproveVouched, OtherVouched, Grows, ApproverRow
  <2> QED
    BY <2>1, <2>5, <2>6, ClerkSteps
<1>12. CASE ManualAppend(w) \/ ClerkCrash(w)
  <2>1. clerk' = [clerk EXCEPT ![w] = IdleClerk] /\ cands' = cands
    BY <1>12 DEF ManualAppend, ClerkCrash, Crash
  <2> QED
    BY <1>f, <2>1, ClerkSteps, RowsFrame
<1> QED
  BY <1>1, <1>2, <1>3, <1>4, <1>5, <1>6, <1>7, <1>8, <1>9, <1>10, <1>11, <1>12
     DEF ClerkStep, ManualStep

-----------------------------------------------------------------------------
(* Scans and board reads.                                                  *)

LEMMA ScannerSteps ==
  ASSUME TypeInv, VouchInv, [Next]_vars, NEW s \in Scanners, NEW h,
         scanner' = [scanner EXCEPT ![s] = h],
         \A c \in Candidates : /\ Vouched(c, h.listed[c].state)'
                               /\ h.made[c].state \notin MoneyStates
  PROVE  ScannerVouched'
<1>1. scanner'[s] = h /\ \A r \in Scanners \ {s} : scanner'[r] = scanner[r]
  BY DEF TypeInv, TypeOK, ScanTypeOK
<1> SUFFICES ASSUME NEW r \in Scanners, NEW c \in Candidates
             PROVE  /\ Vouched(c, scanner[r].listed[c].state)'
                    /\ scanner'[r].made[c].state \notin MoneyStates
  BY DEF ScannerVouched
<1>2. CASE r = s
  BY <1>1, <1>2
<1>3. CASE r # s
  <2>1. /\ Vouched(c, scanner[r].listed[c].state)
        /\ scanner[r].made[c].state \notin MoneyStates
    BY DEF VouchInv, ScannerVouched
  <2>2. \A state : Vouched(c, state) => Vouched(c, state)'
    BY EvidenceStays
  <2> QED
    BY <1>1, <1>3, <2>1, <2>2
<1> QED
  BY <1>2, <1>3

\* A state that commits no money needs no evidence.
LEMMA PlainVouched == \A c, state : state \notin MoneyStates => Vouched(c, state) /\ Vouched(c, state)'
BY DEF Vouched, Logged, MoneyStates

LEMMA RowsListed ==
  ASSUME VouchInv, NEW zero, NEW c \in Candidates
  PROVE  Vouched(c, BoardRows(zero)[c].state)
BY PlainVouched DEF VouchInv, RowsVouched, BoardRows, AbsentRow, MoneyStates

\* g names the state the scan is in before the step.
LEMMA ScanVouches ==
  ASSUME TypeInv, VouchInv, [Next]_vars, ScanStep
  PROVE  RowsVouched' /\ ScannerVouched'
<1> SUFFICES ASSUME NEW s \in Scanners, NEW g, scanner[s] = g,
               \/ ScanCreate(s) \/ ScanAppend(s) \/ BoardRead(s) \/ ScanList(s)
               \/ SweepSave(s) \/ SweepAppend(s) \/ SweepDone(s)
               \/ RetireSave(s) \/ MarkPicks(s) \/ MarkSave(s) \/ ScanCrash(s)
             PROVE  RowsVouched' /\ ScannerVouched'
  BY DEF ScanStep
<1>a. /\ scanner \in [Scanners -> ScannerState] /\ g \in ScannerState
      /\ g.made \in Rows /\ g.listed \in Rows
  BY DEF TypeInv, TypeOK, ScanTypeOK, ScannerState
<1>b. \A c \in Candidates : /\ Vouched(c, g.listed[c].state)
                            /\ Vouched(c, g.listed[c].state)'
                            /\ g.made[c].state \notin MoneyStates
  BY EvidenceStays DEF VouchInv, ScannerVouched
<1>c. \A zero : \A c \in Candidates : Vouched(c, BoardRows(zero)[c].state)
  BY RowsListed
<1>d. "ABSENT" \notin MoneyStates /\ "EXPIRED" \notin MoneyStates
  BY DEF MoneyStates
<1>e. \A h : h.listed = NoRows /\ h.made = NoRows =>
        \A c \in Candidates : Vouched(c, h.listed[c].state)' /\ h.made[c].state \notin MoneyStates
  BY <1>d, PlainVouched DEF NoRows, AbsentRow
<1>f. /\ IdleScanner.listed = NoRows /\ IdleScanner.made = NoRows
  BY DEF IdleScanner
<1>1. CASE ScanCreate(s)
  <2>1. PICK c \in Candidates, contract \in Contracts : \E state \in Classified(contract) :
          LET row == [state |-> state, contract |-> contract, pick |-> FALSE, detected |-> today]
          IN  /\ SaveCandidate(c, row)
              /\ scanner' = [scanner EXCEPT ![s] = [g EXCEPT
                   !.at = "rows", !.zero = c \in ZeroDTE,
                   !.made = Put(g.made, c, row), !.cur = c]]
    BY <1>1 DEF ScanCreate
  <2>2. PICK row, h :
          /\ SaveCandidate(c, row) /\ row.state \in Classified(contract)
          /\ scanner' = [scanner EXCEPT ![s] = h]
          /\ h = [g EXCEPT !.at = "rows", !.zero = c \in ZeroDTE,
                           !.made = Put(g.made, c, row), !.cur = c]
    BY <2>1
  <2>3. row.state \notin MoneyStates
    BY <2>1, <2>2 DEF Classified, MoneyStates
  <2>4. h.listed = g.listed /\ h.made = [g.made EXCEPT ![c] = row]
    BY <1>a, <2>2 DEF ScannerState, Put
  <2>5. \A d \in Candidates : h.made[d].state \notin MoneyStates
    BY <1>a, <1>b, <2>3, <2>4 DEF Rows
  <2>6. ScannerVouched'
    BY <1>b, <2>2, <2>4, <2>5, ScannerSteps
  <2> QED
    BY <2>2, <2>3, <2>6, PlainVouched, RowSaved
<1>2. CASE ScanAppend(s) \/ SweepAppend(s)
  <2>1. PICK h : scanner' = [scanner EXCEPT ![s] = h] /\ h.listed = g.listed /\ h.made = g.made
    <3>1. CASE ScanAppend(s)
      <4>0. PICK state, to :
              scanner' = [scanner EXCEPT ![s] =
                IF to = state
                THEN [g EXCEPT !.at = "made", !.cur = Unset, !.walk = "ABSENT"]
                ELSE [g EXCEPT !.walk = to]]
        BY <3>1 DEF ScanAppend
      <4>1. PICK h :
              /\ scanner' = [scanner EXCEPT ![s] = h]
              /\ h = IF to = state
                     THEN [g EXCEPT !.at = "made", !.cur = Unset, !.walk = "ABSENT"]
                     ELSE [g EXCEPT !.walk = to]
        BY <4>0
      <4>2. h.listed = g.listed /\ h.made = g.made
        BY <1>a, <4>1 DEF ScannerState
      <4> QED
        BY <4>1, <4>2
    <3>2. CASE SweepAppend(s)
      <4>1. PICK h : /\ scanner' = [scanner EXCEPT ![s] = h]
                     /\ h = [g EXCEPT !.at = "sweep", !.cur = Unset]
        BY <3>2 DEF SweepAppend
      <4>2. h.listed = g.listed /\ h.made = g.made
        BY <1>a, <4>1 DEF ScannerState
      <4> QED
        BY <4>1, <4>2
    <3> QED
      BY <1>2, <3>1, <3>2
  <2>2. cands' = cands
    BY <1>2 DEF ScanAppend, SweepAppend
  <2> QED
    BY <1>b, <2>1, <2>2, ScannerSteps, RowsFrame
<1>3. CASE BoardRead(s) \/ ScanList(s)
  <2>1. PICK zero, h : /\ scanner' = [scanner EXCEPT ![s] = h]
                       /\ h.listed = BoardRows(zero) /\ h.made \in {g.made, NoRows}
    <3>1. CASE BoardRead(s)
      <4>1. PICK zero, due, h :
              /\ scanner' = [scanner EXCEPT ![s] = h]
              /\ h = [IdleScanner EXCEPT !.at = "sweep", !.zero = zero,
                        !.listed = BoardRows(zero), !.due = due]
        BY <3>1 DEF BoardRead
      <4>2. h.listed = BoardRows(zero) /\ h.made = NoRows
        BY <4>1 DEF IdleScanner
      <4> QED
        BY <4>1, <4>2
    <3>2. CASE ScanList(s)
      <4>1. PICK due, h :
              /\ scanner' = [scanner EXCEPT ![s] = h]
              /\ h = [g EXCEPT !.at = "sweep", !.listed = BoardRows(g.zero), !.due = due]
        BY <3>2 DEF ScanList
      <4>2. h.listed = BoardRows(g.zero) /\ h.made = g.made
        BY <1>a, <4>1 DEF ScannerState
      <4> QED
        BY <4>1, <4>2
    <3> QED
      BY <1>3, <3>1, <3>2
  <2>2. cands' = cands
    BY <1>3 DEF BoardRead, ScanList, boardVars
  <2>3. \A c \in Candidates : Vouched(c, h.listed[c].state)' /\ h.made[c].state \notin MoneyStates
    <3> TAKE c \in Candidates
    <3>1. Vouched(c, h.listed[c].state)
      BY <1>c, <2>1
    <3>2. Vouched(c, h.listed[c].state)'
      BY <3>1, EvidenceStays
    <3>3. h.made[c].state \notin MoneyStates
      BY <1>b, <1>d, <2>1 DEF NoRows, AbsentRow
    <3> QED
      BY <3>2, <3>3
  <2> QED
    BY <2>1, <2>2, <2>3, ScannerSteps, RowsFrame
<1>4. CASE SweepSave(s)
  <2>1. PICK c, row, h :
          /\ c \in Candidates
          /\ SaveCandidate(c, row) /\ row = [g.listed[c] EXCEPT !.state = "EXPIRED"]
          /\ scanner' = [scanner EXCEPT ![s] = h]
          /\ h = [g EXCEPT !.at = "sweepRow", !.listed = Put(g.listed, c, row),
                           !.due = g.due \ {c}, !.cur = c]
    BY <1>4, <1>a DEF SweepSave, ScannerState
  <2>2. row.state = "EXPIRED"
    BY <1>a, <2>1 DEF Rows, CandidateRow
  <2>3. h.listed = [g.listed EXCEPT ![c] = row] /\ h.made = g.made
    BY <1>a, <2>1 DEF ScannerState, Put
  <2>4. \A d \in Candidates : Vouched(d, h.listed[d].state)'
    BY <1>a, <1>b, <1>d, <2>2, <2>3, PlainVouched DEF Rows
  <2>5. ScannerVouched'
    BY <1>b, <2>1, <2>3, <2>4, ScannerSteps
  <2> QED
    BY <1>d, <2>1, <2>2, <2>5, PlainVouched, RowSaved
<1>5. CASE SweepDone(s)
  <2>1. PICK h :
          /\ scanner' = [scanner EXCEPT ![s] = h]
          /\ h = IF g.made = NoRows THEN IdleScanner
                 ELSE [g EXCEPT !.at = "retire", !.listed = Retired(g.listed, g.made)]
    BY <1>5 DEF SweepDone
  <2>2. cands' = cands
    BY <1>5 DEF SweepDone, boardVars
  <2>3. CASE g.made = NoRows
    BY <1>e, <1>f, <2>1, <2>2, <2>3, ScannerSteps, RowsFrame
  <2>4. CASE g.made # NoRows
    <3>1. h.listed = Retired(g.listed, g.made) /\ h.made = g.made
      BY <1>a, <2>1, <2>4 DEF ScannerState
    <3>2. \A c \in Candidates : \/ h.listed[c].state = g.listed[c].state
                                \/ h.listed[c].state = "ABSENT"
      BY <1>a, <3>1 DEF Retired, Rows, CandidateRow, AbsentRow
    <3>3. \A c \in Candidates : Vouched(c, h.listed[c].state)'
      BY <1>b, <1>d, <3>2, PlainVouched
    <3> QED
      BY <1>b, <2>1, <2>2, <3>1, <3>3, ScannerSteps, RowsFrame
  <2> QED
    BY <2>3, <2>4
<1>6. CASE RetireSave(s)
  <2>1. PICK c, h :
          /\ c \in Candidates
          /\ SaveCandidate(c, g.listed[c])
          /\ scanner' = [scanner EXCEPT ![s] = h]
          /\ h = [g EXCEPT !.listed = Put(g.listed, c, AbsentRow)]
    BY <1>6 DEF RetireSave
  <2>2. h.listed = [g.listed EXCEPT ![c] = AbsentRow] /\ h.made = g.made
    BY <1>a, <2>1 DEF ScannerState, Put
  <2>3. \A d \in Candidates : Vouched(d, h.listed[d].state)'
    BY <1>a, <1>b, <1>d, <2>2, PlainVouched DEF Rows, AbsentRow
  <2>4. ScannerVouched'
    BY <1>b, <2>1, <2>2, <2>3, ScannerSteps
  <2> QED
    BY <1>b, <2>1, <2>4, RowSaved
<1>7. CASE MarkPicks(s)
  <2>1. PICK picked, h :
          /\ scanner' = [scanner EXCEPT ![s] = h]
          /\ h = IF picked = {} THEN IdleScanner
                 ELSE [g EXCEPT !.at = "mark", !.made = Marked(g.made, picked)]
    BY <1>7 DEF MarkPicks
  <2>2. cands' = cands
    BY <1>7 DEF MarkPicks, boardVars
  <2>3. CASE picked = {}
    BY <1>e, <1>f, <2>1, <2>2, <2>3, ScannerSteps, RowsFrame
  <2>4. CASE picked # {}
    <3>1. h.listed = g.listed /\ h.made = Marked(g.made, picked)
      BY <1>a, <2>1, <2>4 DEF ScannerState
    <3>2. \A c \in Candidates : h.made[c].state \in {g.made[c].state, "ABSENT"}
      BY <1>a, <3>1 DEF Marked, Rows, CandidateRow, AbsentRow
    <3>3. \A c \in Candidates : h.made[c].state \notin MoneyStates
      BY <1>b, <1>d, <3>2
    <3> QED
      BY <1>b, <2>1, <2>2, <3>1, <3>3, ScannerSteps, RowsFrame
  <2> QED
    BY <2>3, <2>4
<1>8. CASE MarkSave(s)
  <2>1. PICK c, rest, h :
          /\ c \in Candidates
          /\ SaveCandidate(c, g.made[c]) /\ rest = Put(g.made, c, AbsentRow)
          /\ scanner' = [scanner EXCEPT ![s] = h]
          /\ h = IF rest = NoRows THEN IdleScanner ELSE [g EXCEPT !.made = rest]
    BY <1>8 DEF MarkSave
  <2>2. RowsVouched'
    BY <1>b, <2>1, PlainVouched, RowSaved
  <2>3. CASE rest = NoRows
    BY <1>e, <1>f, <2>1, <2>2, <2>3, ScannerSteps
  <2>4. CASE rest # NoRows
    <3>1. h.listed = g.listed /\ h.made = [g.made EXCEPT ![c] = AbsentRow]
      BY <1>a, <2>1, <2>4 DEF ScannerState, Put
    <3>2. \A d \in Candidates : h.made[d].state \notin MoneyStates
      BY <1>a, <1>b, <1>d, <3>1 DEF Rows, AbsentRow
    <3> QED
      BY <1>b, <2>1, <2>2, <3>1, <3>2, ScannerSteps
  <2> QED
    BY <2>3, <2>4
<1>9. CASE ScanCrash(s)
  BY <1>9, <1>e, <1>f, ScannerSteps, RowsFrame DEF ScanCrash, Crash
<1> QED
  BY <1>1, <1>2, <1>3, <1>4, <1>5, <1>6, <1>7, <1>8, <1>9

-----------------------------------------------------------------------------
LEMMA VouchInvInit == Init => VouchInv
<1> SUFFICES ASSUME Init PROVE VouchInv
  OBVIOUS
<1> USE DEF Init, BoardInit, PaperInit, ProposalInit, ScanInit
<1>1. \A c : Vouched(c, "ABSENT")
  BY DEF Vouched, Logged, MoneyStates
<1>2. RowsVouched /\ TradesBlank
  BY <1>1 DEF RowsVouched, TradesBlank, AbsentRow, NoTradeRow
<1>3. OpenerVouched /\ MonitorVouched
  BY DEF OpenerVouched, MonitorVouched, IdleOpener, IdleMonitor
<1>4. ClerkVouched
  BY DEF ClerkVouched, ProposeVouched, ApproveVouched, OtherVouched, IdleClerk
<1>5. ScannerVouched
  BY <1>1 DEF ScannerVouched, IdleScanner, NoRows, AbsentRow, MoneyStates
<1> QED
  BY <1>2, <1>3, <1>4, <1>5 DEF VouchInv

LEMMA VouchInvStep ==
  ASSUME TypeInv, VouchInv, [Next]_vars
  PROVE  VouchInv'
<1> USE DEF paperVars, proposalVars, boardVars
<1>a. trades' = trades => TradesBlank'
  BY DEF VouchInv, TradesBlank
<1>1. CASE NextDay /\ UNCHANGED <<paperVars, proposalVars, scanner>>
  BY <1>1, <1>a, RowsFrame, OpenersFrame, MonitorsFrame, ClerksFrame, ScannersFrame
     DEF NextDay, VouchInv
<1>2. CASE PaperStep /\ UNCHANGED <<proposalVars, scanner>>
  <2>1. ClerkVouched' /\ ScannerVouched'
    BY <1>2, ClerksFrame, ScannersFrame
  <2>2. ASSUME NEW o \in Openers, OpenStep(o) \/ OpenCrash(o) PROVE VouchInv'
    <3>1. monitor' = monitor
      BY <2>2 DEF OpenStep, OpenStart, OpenSavePaper, OpenSaveTrade, OpenAppend,
         OpenSaveCandidate, OpenCrash
    <3> QED
      BY <2>1, <2>2, <3>1, OpenVouches, MonitorsFrame DEF VouchInv
  <2>3. ASSUME NEW m \in Monitors, MonitorStep(m) \/ MonitorCrash(m) PROVE VouchInv'
    BY <2>1, <2>3, MonitorVouches DEF VouchInv
  <2>4. ASSUME NEW k \in Requests, CloseRead(k) \/ CloseSave(k) \/ TagSave(k) \/ Purge(k)
        PROVE  VouchInv'
    <3>1. cands' = cands /\ trades' = trades /\ opener' = opener /\ monitor' = monitor
      BY <2>4 DEF CloseRead, CloseSave, TagSave, Purge
    <3> QED
      BY <1>a, <2>1, <3>1, RowsFrame, OpenersFrame, MonitorsFrame DEF VouchInv
  <2> QED
    BY <1>2, <2>2, <2>3, <2>4 DEF PaperStep
<1>3. CASE ProposalStep /\ UNCHANGED <<paperVars, scanner>>
  <2>1. RowsVouched' /\ ClerkVouched'
    <3>1. CASE Lapse
      BY <3>1, RowsFrame, ClerksFrame DEF Lapse
    <3>2. CASE \E w \in Clerks : ClerkStep(w) \/ ManualStep(w) \/ ClerkCrash(w)
      BY <3>2, ClerkVouches
    <3> QED
      BY <1>3, <3>1, <3>2 DEF ProposalStep
  <2> QED
    BY <1>3, <1>a, <2>1, OpenersFrame, MonitorsFrame, ScannersFrame DEF VouchInv
<1>4. CASE ScanStep /\ UNCHANGED <<paperVars, proposalVars>>
  BY <1>4, <1>a, ScanVouches, OpenersFrame, MonitorsFrame, ClerksFrame DEF VouchInv
<1>5. CASE UNCHANGED vars
  BY <1>5, <1>a, RowsFrame, OpenersFrame, MonitorsFrame, ClerksFrame, ScannersFrame
     DEF vars, VouchInv
<1> QED
  BY <1>1, <1>2, <1>3, <1>4, <1>5 DEF Next

LEMMA VouchInvariant == Spec => []VouchInv
<1>1. Init => VouchInv
  BY VouchInvInit
<1>2. TypeInv /\ VouchInv /\ [Next]_vars => VouchInv'
  BY VouchInvStep
<1> QED
  BY <1>1, <1>2, TypeInvariant, PTL DEF Spec

\* The audit trail runs ahead of the money: whichever handlers interleave and
\* wherever they die, a candidate reads PROPOSED, APPROVED, OPEN or CLOSED only
\* over an audit row that says so.
THEOREM AuditTheorem == Spec => []MoneyStateAudited
<1>1. VouchInv => MoneyStateAudited
  BY DEF VouchInv, RowsVouched, Vouched, Logged, MoneyStateAudited
<1> QED
  BY <1>1, VouchInvariant, PTL

\* No money without a human: a candidate reads APPROVED only when a named
\* approver's audit row and a decided ticket of its own are on record, whoever
\* saved the row and from however old a copy.
THEOREM ApprovalTheorem == Spec => []ApprovedByHuman
<1>1. VouchInv => ApprovedByHuman
  BY DEF VouchInv, RowsVouched, Vouched, Approved, ApproverRow, Decided, ApprovedByHuman
<1> QED
  BY <1>1, VouchInvariant, PTL

\* A position behind every OPEN or CLOSED candidate.
THEOREM PositionTheorem == Spec => []PositionHasTrade
<1>1. VouchInv => PositionHasTrade
  BY DEF VouchInv, RowsVouched, Vouched, Traded, PositionHasTrade
<1> QED
  BY <1>1, VouchInvariant, PTL

OneLoop == (\A m, n \in Monitors : m = n) /\ Requests = {}

Reasons == {"rule", "expiry"}

\* The pass keeps off the rows it has still to visit; before it acts, its row
\* is as it found it; and the exit it books is the one in the market.
PassBooks(m) ==
  LET pass == monitor[m] IN
  /\ \A t \in pass.todo : trades[t].status = "open"
  /\ pass.at \notin {"idle", "next"} => pass.trade \notin pass.todo
  /\ pass.at = "paper" =>
       /\ pass.mode \in {"settle", "exit"} /\ pass.exit \in Reasons
       /\ papers[pass.trade] = "open" /\ trades[pass.trade].status = "open"
  /\ pass.at = "trade" =>
       /\ trades[pass.trade].status = "open"
       /\ IF pass.mode = "mark" THEN pass.exit = "open"
          ELSE pass.exit \in Reasons /\ pass.exit = papers[pass.trade]
  /\ pass.at \in {"read", "append", "cand"} =>
       /\ pass.mode # "mark"
       /\ pass.exit \in Reasons /\ pass.exit = papers[pass.trade]
       /\ trades[pass.trade].status = IF pass.mode = "exit" THEN "open" ELSE pass.exit

BookInv ==
  /\ \A t \in Trades : /\ papers[t] \in {"none", "open"} \cup Reasons
                       /\ trades[t].status \in {"none", "open", papers[t]}
  /\ \A o \in Openers : opener[o].at = "trade" => papers[opener[o].trade] = "open"
  /\ \A m \in Monitors : PassBooks(m)

\* The book's step under the mapping, written out.
BookStep ==
  \/ papers' = papers /\ \A t \in Trades : trades'[t].status = trades[t].status
  \/ \E p \in Trades :
       \/ /\ papers[p] = "none" /\ papers' = [papers EXCEPT ![p] = "open"]
          /\ \A t \in Trades : trades'[t].status = trades[t].status
       \/ /\ papers[p] = "open" /\ \E r \in Reasons : papers' = [papers EXCEPT ![p] = r]
          /\ \A t \in Trades : trades'[t].status = trades[t].status
       \/ /\ papers' = papers /\ trades'[p].status # trades[p].status
          /\ \A t \in Trades \ {p} : trades'[t].status = trades[t].status
          /\ \/ trades[p].status = "none" /\ papers[p] = "open" /\ trades'[p].status = "open"
             \/ /\ trades[p].status = "open" /\ papers[p] \in Reasons
                /\ trades'[p].status = papers[p]

USE BoardAssumption, PaperAssumption, ProposalAssumption, ScanAssumption

-----------------------------------------------------------------------------
LEMMA BookInvInit == Init => BookInv
BY DEF Init, PaperInit, BookInv, PassBooks, IdleMonitor, IdleOpener, NoTradeRow

\* An open touches a position no pass has listed.
LEMMA OpenKeepsBook ==
  ASSUME TypeInv, VouchInv, BookInv, NEW o \in Openers, OpenStep(o) \/ OpenCrash(o)
  PROVE  BookInv' /\ BookStep
<1>a. /\ opener \in [Openers -> OpenerState] /\ papers \in [Trades -> PaperStatus]
      /\ trades \in [Trades -> TradeRow]
      /\ \A m \in Monitors : monitor[m].todo \subseteq Trades
  BY DEF TypeInv, TypeOK, PaperTypeOK, MonitorState
<1>b. \A m \in Monitors : monitor[m].at \notin {"idle", "next"} =>
        /\ monitor[m].trade \in Trades /\ trades[monitor[m].trade].status # "none"
        /\ papers[monitor[m].trade] # "none"
  BY DEF TypeInv, MonitorShape, TradesShape
<1>c. \A q \in Openers : opener[q].at = "trade" =>
        /\ opener[q].trade \in Trades /\ trades[opener[q].trade].status = "none"
        /\ papers[opener[q].trade] = "open"
  BY DEF VouchInv, OpenerVouched, BookInv, TypeInv, OpenerShape
<1>d. \A m \in Monitors : \A t \in monitor[m].todo : papers[t] # "none"
  BY <1>a DEF BookInv, PassBooks, TypeInv, TradesShape
<1>1. CASE OpenSavePaper(o)
  <2>0. PICK t \in Trades :
          /\ papers[t] = "none" /\ papers' = [papers EXCEPT ![t] = "open"]
          /\ opener' = [opener EXCEPT ![o] = [opener[o] EXCEPT !.at = "trade", !.trade = t]]
    BY <1>1 DEF OpenSavePaper
  <2>1. PICK h : /\ opener' = [opener EXCEPT ![o] = h]
                 /\ h = [opener[o] EXCEPT !.at = "trade", !.trade = t]
    BY <2>0
  <2>h. h.trade = t
    BY <1>a, <2>1 DEF OpenerState
  <2>2. trades' = trades /\ monitor' = monitor
    BY <1>1 DEF OpenSavePaper
  <2>3. /\ papers'[t] = "open" /\ \A u \in Trades \ {t} : papers'[u] = papers[u]
        /\ opener'[o] = h /\ \A q \in Openers \ {o} : opener'[q] = opener[q]
    BY <1>a, <2>0, <2>1
  <2>4. \A m \in Monitors : PassBooks(m)'
    BY <1>b, <2>0, <2>2, <2>3 DEF BookInv, PassBooks
  <2>5. trades[t].status = "none"
    BY <2>0 DEF TypeInv, TradesShape
  <2>6. BookInv'
    BY <1>c, <2>h, <2>0, <2>2, <2>3, <2>4, <2>5 DEF BookInv
  <2> QED
    BY <2>0, <2>2, <2>6 DEF BookStep
<1>2. CASE OpenSaveTrade(o)
  <2>1. PICK p \in Trades : opener[o].at = "trade" /\ p = opener[o].trade
    BY <1>2, <1>c DEF OpenSaveTrade
  <2>2. /\ papers' = papers /\ monitor' = monitor
        /\ trades'[p].status = "open" /\ \A t \in Trades \ {p} : trades'[t] = trades[t]
        /\ \A q \in Openers : opener'[q].at = "trade" => opener'[q] = opener[q]
    BY <1>2, <1>a, <2>1 DEF OpenSaveTrade, OpenerState, IdleOpener
  <2>3. trades[p].status = "none" /\ papers[p] = "open"
    BY <1>c, <2>1
  <2>4. \A m \in Monitors : PassBooks(m)'
    BY <1>a, <1>b, <2>2, <2>3 DEF BookInv, PassBooks
  <2>5. BookInv'
    BY <2>2, <2>3, <2>4 DEF BookInv
  <2> QED
    BY <2>2, <2>3, <2>5 DEF BookStep
<1>3. CASE OpenStart(o) \/ OpenAppend(o) \/ OpenSaveCandidate(o) \/ OpenCrash(o)
  <2>1. /\ papers' = papers /\ trades' = trades /\ monitor' = monitor
        /\ \A q \in Openers : opener'[q].at = "trade" => opener'[q] = opener[q]
    <3>1. CASE OpenStart(o)
      <4>1. PICK c, snap :
              opener' = [opener EXCEPT ![o] = [IdleOpener EXCEPT
                           !.at = "paper", !.cand = c, !.snap = snap]]
        BY <3>1 DEF OpenStart
      <4>2. opener'[o].at = "paper" /\ \A q \in Openers \ {o} : opener'[q] = opener[q]
        BY <1>a, <4>1 DEF IdleOpener
      <4> QED
        BY <3>1, <4>2 DEF OpenStart
    <3>2. CASE OpenAppend(o)
      <4>1. opener'[o].at = "walk" /\ \A q \in Openers \ {o} : opener'[q] = opener[q]
        BY <1>a, <3>2 DEF OpenAppend, OpenerState
      <4> QED
        BY <3>2, <4>1 DEF OpenAppend
    <3>3. CASE OpenSaveCandidate(o) \/ OpenCrash(o)
      BY <1>a, <3>3 DEF OpenSaveCandidate, OpenCrash, IdleOpener
    <3> QED
      BY <1>3, <3>1, <3>2, <3>3
  <2> QED
    BY <2>1 DEF BookInv, PassBooks, BookStep
<1> QED
  BY <1>1, <1>2, <1>3 DEF OpenStep

\* What a pass in state g is entitled to, with the tables before its step.
LEMMA PassFacts ==
  ASSUME TypeInv, VouchInv, BookInv, NEW m \in Monitors, NEW g, monitor[m] = g
  PROVE  /\ g \in MonitorState /\ g.todo \in SUBSET Trades
         /\ \A t \in g.todo : /\ trades[t].status = "open"
                              /\ papers[t] \in {"open"} \cup Reasons
         /\ g.at \notin {"idle", "next"} =>
              /\ g.trade \in Trades /\ g.trade \notin g.todo
         /\ g.at = "paper" =>
              /\ g.mode \in {"settle", "exit"} /\ g.exit \in Reasons
              /\ papers[g.trade] = "open" /\ trades[g.trade].status = "open"
         /\ g.at = "trade" =>
              /\ trades[g.trade].status = "open"
              /\ IF g.mode = "mark" THEN g.exit = "open"
                 ELSE g.exit \in Reasons /\ g.exit = papers[g.trade]
         /\ g.at \in {"read", "append", "cand"} =>
              /\ g.mode # "mark"
              /\ g.exit \in Reasons /\ g.exit = papers[g.trade]
              /\ trades[g.trade].status = IF g.mode = "exit" THEN "open" ELSE g.exit
<1>1. g \in MonitorState /\ g.todo \in SUBSET Trades
  BY DEF TypeInv, TypeOK, PaperTypeOK, MonitorState
<1>2. PassBooks(m)
  BY DEF BookInv
<1>3. \A t \in Trades : trades[t].status = "open" => papers[t] \in {"open"} \cup Reasons
  BY DEF BookInv, TypeInv, TradesShape
<1>4. g.at \notin {"idle", "next"} => g.trade \in Trades
  BY DEF TypeInv, MonitorShape
<1> QED
  BY <1>1, <1>2, <1>3, <1>4 DEF PassBooks

\* A step of the pass that leaves the tables alone.
LEMMA PassMoves ==
  ASSUME OneLoop, TypeInv, BookInv, NEW m \in Monitors, NEW h,
         monitor' = [monitor EXCEPT ![m] = h],
         papers' = papers, trades' = trades, opener' = opener,
         \A t \in h.todo : trades[t].status = "open",
         h.at \notin {"idle", "next"} => h.trade \notin h.todo,
         h.at = "paper" =>
           /\ h.mode \in {"settle", "exit"} /\ h.exit \in Reasons
           /\ papers[h.trade] = "open" /\ trades[h.trade].status = "open",
         h.at = "trade" =>
           /\ trades[h.trade].status = "open"
           /\ IF h.mode = "mark" THEN h.exit = "open"
              ELSE h.exit \in Reasons /\ h.exit = papers[h.trade],
         h.at \in {"read", "append", "cand"} =>
           /\ h.mode # "mark"
           /\ h.exit \in Reasons /\ h.exit = papers[h.trade]
           /\ trades[h.trade].status = IF h.mode = "exit" THEN "open" ELSE h.exit
  PROVE  BookInv' /\ BookStep
<1>1. monitor'[m] = h /\ \A n \in Monitors : n = m
  BY DEF TypeInv, TypeOK, PaperTypeOK, OneLoop
<1>2. \A n \in Monitors : PassBooks(n)'
  BY <1>1 DEF PassBooks
<1> QED
  BY <1>2 DEF BookInv, BookStep

LEMMA MonitorKeepsBook ==
  ASSUME OneLoop, TypeInv, VouchInv, BookInv, NEW m \in Monitors,
         MonitorStep(m) \/ MonitorCrash(m), NEW g, monitor[m] = g
  PROVE  BookInv' /\ BookStep
<1>a. /\ g \in MonitorState /\ g.todo \in SUBSET Trades
      /\ \A t \in g.todo : /\ trades[t].status = "open"
                           /\ papers[t] \in {"open"} \cup Reasons
      /\ g.at \notin {"idle", "next"} => g.trade \in Trades /\ g.trade \notin g.todo
  BY PassFacts
<1>b. /\ g.at = "paper" =>
           /\ g.mode \in {"settle", "exit"} /\ g.exit \in Reasons
           /\ papers[g.trade] = "open" /\ trades[g.trade].status = "open"
      /\ g.at = "trade" =>
           /\ trades[g.trade].status = "open"
           /\ IF g.mode = "mark" THEN g.exit = "open"
              ELSE g.exit \in Reasons /\ g.exit = papers[g.trade]
      /\ g.at \in {"read", "append", "cand"} =>
           /\ g.mode # "mark"
           /\ g.exit \in Reasons /\ g.exit = papers[g.trade]
           /\ trades[g.trade].status = IF g.mode = "exit" THEN "open" ELSE g.exit
  BY PassFacts
<1>c. /\ monitor \in [Monitors -> MonitorState]
      /\ papers \in [Trades -> PaperStatus] /\ trades \in [Trades -> TradeRow]
      /\ \A n \in Monitors : n = m
  BY DEF TypeInv, TypeOK, PaperTypeOK, OneLoop
<1>d. /\ IdleMonitor.at = "idle" /\ IdleMonitor.todo = {}
      /\ \A todo \in SUBSET Trades : /\ Rest(g, todo).at \in {"idle", "next"}
                                     /\ Rest(g, todo).todo \subseteq todo
  BY <1>a, Rested DEF IdleMonitor
<1>1. CASE MonitorList(m) \/ MonitorSkip(m) \/ MonitorCrash(m)
  <2>1. PICK h : /\ monitor' = [monitor EXCEPT ![m] = h] /\ h.at \in {"idle", "next"}
                 /\ \A t \in h.todo : trades[t].status = "open"
    <3>1. CASE MonitorList(m)
      <4>1. PICK h : /\ monitor' = [monitor EXCEPT ![m] = h]
                     /\ h = [IdleMonitor EXCEPT !.at = "next", !.now = today,
                               !.todo = {t \in Trades : trades[t].status = "open"}]
        BY <3>1 DEF MonitorList, IdleMonitor
      <4>2. h.at = "next" /\ h.todo = {t \in Trades : trades[t].status = "open"}
        BY <4>1 DEF IdleMonitor
      <4> QED
        BY <4>1, <4>2
    <3>2. CASE MonitorSkip(m)
      <4>1. PICK t : monitor' = [monitor EXCEPT ![m] = Rest(g, g.todo \ {t})]
        BY <3>2 DEF MonitorSkip
      <4>2. g.todo \ {t} \in SUBSET Trades
        BY <1>a
      <4>3. PICK h : monitor' = [monitor EXCEPT ![m] = h] /\ h = Rest(g, g.todo \ {t})
        BY <4>1
      <4>4. h.at \in {"idle", "next"} /\ h.todo \subseteq g.todo \ {t}
        BY <1>d, <4>2, <4>3
      <4> QED
        BY <1>a, <4>3, <4>4
    <3>3. CASE MonitorCrash(m)
      BY <1>d, <3>3 DEF MonitorCrash
    <3> QED
      BY <1>1, <3>1, <3>2, <3>3
  <2>2. papers' = papers /\ trades' = trades /\ opener' = opener
    BY <1>1 DEF MonitorList, MonitorSkip, MonitorCrash
  <2> QED
    BY <2>1, <2>2, PassMoves
<1>2. CASE MonitorMirror(m) \/ MonitorSettle(m) \/ MonitorExit(m) \/ MonitorMark(m)
  <2>1. PICK t, at, mode, exit :
          /\ t \in Trades /\ t \in g.todo /\ TakeUp(m, t, at, mode, exit)
          /\ \/ /\ at = "trade" /\ mode = "mirror"
                /\ exit \in Reasons /\ exit = papers[t]
             \/ /\ at = "paper" /\ mode \in {"settle", "exit"}
                /\ exit \in Reasons /\ papers[t] = "open"
             \/ at = "trade" /\ mode = "mark" /\ exit = "open"
    <3>1. CASE MonitorMirror(m)
      <4>1. PICK t \in Trades :
              /\ t \in g.todo /\ papers[t] # "open"
              /\ TakeUp(m, t, "trade", "mirror",
                        IF papers[t] = "gone" THEN "orphaned" ELSE papers[t])
        BY <3>1 DEF MonitorMirror, TakesUp
      <4> QED
        BY <1>a, <4>1 DEF Reasons
    <3>2. CASE MonitorSettle(m) \/ MonitorExit(m)
      BY <3>2 DEF MonitorSettle, MonitorExit, TakesUp, Reasons
    <3>3. CASE MonitorMark(m)
      BY <3>3 DEF MonitorMark, TakesUp
    <3> QED
      BY <1>2, <3>1, <3>2, <3>3
  <2>2. PICK h : /\ monitor' = [monitor EXCEPT ![m] = h]
                 /\ h = [g EXCEPT !.at = at, !.todo = g.todo \ {t}, !.trade = t,
                                  !.mode = mode, !.exit = exit]
    BY <2>1 DEF TakeUp
  <2>3. /\ h.at = at /\ h.todo = g.todo \ {t} /\ h.trade = t /\ h.mode = mode
        /\ h.exit = exit
    BY <1>a, <2>2 DEF MonitorState
  <2>4. papers' = papers /\ trades' = trades /\ opener' = opener
    BY <1>2 DEF MonitorMirror, MonitorSettle, MonitorExit, MonitorMark
  <2>5. /\ \A u \in h.todo : trades[u].status = "open"
        /\ h.at \notin {"idle", "next"} => h.trade \notin h.todo
    BY <1>a, <2>3
  <2>6. trades[t].status = "open"
    BY <1>a, <2>1
  <2>7. /\ h.at = "paper" =>
             /\ h.mode \in {"settle", "exit"} /\ h.exit \in Reasons
             /\ papers[h.trade] = "open" /\ trades[h.trade].status = "open"
        /\ h.at = "trade" =>
             /\ trades[h.trade].status = "open"
             /\ IF h.mode = "mark" THEN h.exit = "open"
                ELSE h.exit \in Reasons /\ h.exit = papers[h.trade]
        /\ h.at \notin {"read", "append", "cand"}
    BY <2>1, <2>3, <2>6
  <2> QED
    BY <2>2, <2>4, <2>5, <2>7, PassMoves
<1>3. CASE MonitorSavePaper(m)
  <2>1. PICK h : /\ monitor' = [monitor EXCEPT ![m] = h]
                 /\ h = [g EXCEPT !.at = IF g.mode = "settle" THEN "trade" ELSE "read"]
    BY <1>3 DEF MonitorSavePaper
  <2>2. /\ h.at = (IF g.mode = "settle" THEN "trade" ELSE "read") /\ h.todo = g.todo
        /\ h.trade = g.trade /\ h.mode = g.mode /\ h.exit = g.exit
    BY <1>a, <2>1 DEF MonitorState
  <2>3. /\ g.at = "paper" /\ trades' = trades /\ opener' = opener
        /\ papers' = [papers EXCEPT ![g.trade] = g.exit]
    BY <1>3 DEF MonitorSavePaper
  <2>4. papers'[g.trade] = g.exit /\ \A t \in Trades \ {g.trade} : papers'[t] = papers[t]
    BY <1>a, <1>c, <2>3
  <2>5. monitor'[m] = h
    BY <1>c, <2>1
  <2>6. PassBooks(m)'
    BY <1>a, <1>b, <2>2, <2>3, <2>4, <2>5 DEF PassBooks
  <2>7. \A o \in Openers : opener[o].at = "trade" => opener[o].trade # g.trade
    BY <1>b, <2>3 DEF VouchInv, OpenerVouched
  <2>8. BookInv'
    BY <1>a, <1>b, <1>c, <2>3, <2>4, <2>6, <2>7 DEF BookInv, TypeInv, OpenerShape
  <2> QED
    BY <1>a, <1>b, <2>3, <2>8 DEF BookStep
<1>4. CASE MonitorSaveTrade(m)
  <2>1. PICK h : /\ monitor' = [monitor EXCEPT ![m] = h]
                 /\ h = IF g.mode \in {"mark", "exit"} THEN Rest(g, g.todo)
                        ELSE [g EXCEPT !.at = "read"]
    BY <1>4 DEF MonitorSaveTrade
  <2>2. \/ /\ g.mode \in {"mark", "exit"}
           /\ h.at \in {"idle", "next"} /\ h.todo \subseteq g.todo
        \/ /\ g.mode \notin {"mark", "exit"} /\ h.at = "read" /\ h.todo = g.todo
           /\ h.trade = g.trade /\ h.mode = g.mode /\ h.exit = g.exit
    BY <1>a, <1>d, <2>1 DEF MonitorState
  <2>3. /\ g.at = "trade" /\ papers' = papers /\ opener' = opener
        /\ trades' = [trades EXCEPT ![g.trade].status = g.exit]
    BY <1>4 DEF MonitorSaveTrade
  <2>4. /\ trades'[g.trade].status = g.exit
        /\ \A t \in Trades \ {g.trade} : trades'[t] = trades[t]
    BY <1>a, <1>c, <2>3 DEF TradeRow
  <2>5. monitor'[m] = h
    BY <1>c, <2>1
  <2>6. PassBooks(m)'
    BY <1>a, <1>b, <2>2, <2>3, <2>4, <2>5 DEF PassBooks
  <2>7. BookInv'
    BY <1>a, <1>b, <1>c, <2>3, <2>4, <2>6 DEF BookInv
  <2>8. BookStep
    BY <1>a, <1>b, <2>3, <2>4 DEF BookStep
  <2> QED
    BY <2>7, <2>8
<1>5. CASE MonitorReadCandidate(m)
  <2>1. PICK snap, h :
          /\ monitor' = [monitor EXCEPT ![m] = h]
          /\ h = IF snap.state \in {"OPEN", "MANAGING"}
                 THEN [g EXCEPT !.at = "append", !.snap = snap]
                 ELSE AfterCandidate(g)
    BY <1>5 DEF MonitorReadCandidate
  <2>2. \/ h.at \in {"idle", "next"} /\ h.todo \subseteq g.todo
        \/ /\ h.at = "append" \/ (h.at = "trade" /\ g.mode = "exit")
           /\ h.todo \subseteq g.todo
           /\ h.trade = g.trade /\ h.mode = g.mode /\ h.exit = g.exit
    <3>1. CASE snap.state \in {"OPEN", "MANAGING"}
      BY <1>a, <2>1, <3>1 DEF MonitorState
    <3>2. CASE snap.state \notin {"OPEN", "MANAGING"}
      BY <1>a, <2>1, <3>2, AfterCandidateTyped
    <3> QED
      BY <3>1, <3>2
  <2>3. g.at = "read" /\ papers' = papers /\ trades' = trades /\ opener' = opener
    BY <1>5 DEF MonitorReadCandidate
  <2>4. /\ \A t \in h.todo : trades[t].status = "open"
        /\ h.at \notin {"idle", "next"} => h.trade \notin h.todo
    BY <1>a, <2>2, <2>3
  <2>5. /\ h.at # "paper"
        /\ h.at = "trade" =>
             /\ trades[h.trade].status = "open"
             /\ IF h.mode = "mark" THEN h.exit = "open"
                ELSE h.exit \in Reasons /\ h.exit = papers[h.trade]
        /\ h.at \in {"read", "append", "cand"} =>
             /\ h.mode # "mark"
             /\ h.exit \in Reasons /\ h.exit = papers[h.trade]
             /\ trades[h.trade].status = IF h.mode = "exit" THEN "open" ELSE h.exit
    BY <1>b, <2>2, <2>3
  <2>6. h.at = "paper" =>
          /\ h.mode \in {"settle", "exit"} /\ h.exit \in Reasons
          /\ papers[h.trade] = "open" /\ trades[h.trade].status = "open"
    BY <2>5
  <2>7. monitor' = [monitor EXCEPT ![m] = h]
    BY <2>1
  <2> QED
    BY <2>3, <2>4, <2>5, <2>6, <2>7, PassMoves
<1>6. CASE MonitorAppend(m)
  <2>1. PICK h : monitor' = [monitor EXCEPT ![m] = h] /\ h = [g EXCEPT !.at = "cand"]
    BY <1>6 DEF MonitorAppend
  <2>2. /\ h.at = "cand" /\ h.todo = g.todo
        /\ h.trade = g.trade /\ h.mode = g.mode /\ h.exit = g.exit
    BY <1>a, <2>1 DEF MonitorState
  <2>3. g.at = "append" /\ papers' = papers /\ trades' = trades /\ opener' = opener
    BY <1>6 DEF MonitorAppend
  <2>4. /\ \A t \in h.todo : trades[t].status = "open"
        /\ h.at \notin {"idle", "next"} => h.trade \notin h.todo
    BY <1>a, <2>2, <2>3
  <2>5. /\ h.at # "paper"
        /\ h.at = "trade" =>
             /\ trades[h.trade].status = "open"
             /\ IF h.mode = "mark" THEN h.exit = "open"
                ELSE h.exit \in Reasons /\ h.exit = papers[h.trade]
        /\ h.at \in {"read", "append", "cand"} =>
             /\ h.mode # "mark"
             /\ h.exit \in Reasons /\ h.exit = papers[h.trade]
             /\ trades[h.trade].status = IF h.mode = "exit" THEN "open" ELSE h.exit
    BY <1>b, <2>2, <2>3
  <2>6. h.at = "paper" =>
          /\ h.mode \in {"settle", "exit"} /\ h.exit \in Reasons
          /\ papers[h.trade] = "open" /\ trades[h.trade].status = "open"
    BY <2>5
  <2>7. monitor' = [monitor EXCEPT ![m] = h]
    BY <2>1
  <2> QED
    BY <2>3, <2>4, <2>5, <2>6, <2>7, PassMoves
<1>7. CASE MonitorSaveCandidate(m)
  <2>1. PICK h : monitor' = [monitor EXCEPT ![m] = h] /\ h = AfterCandidate(g)
    BY <1>7 DEF MonitorSaveCandidate
  <2>2. \/ h.at \in {"idle", "next"} /\ h.todo \subseteq g.todo
        \/ /\ h.at = "trade" /\ g.mode = "exit" /\ h.todo \subseteq g.todo
           /\ h.trade = g.trade /\ h.mode = g.mode /\ h.exit = g.exit
    BY <1>a, <2>1, AfterCandidateTyped
  <2>3. g.at = "cand" /\ papers' = papers /\ trades' = trades /\ opener' = opener
    BY <1>7 DEF MonitorSaveCandidate
  <2>4. /\ \A t \in h.todo : trades[t].status = "open"
        /\ h.at \notin {"idle", "next"} => h.trade \notin h.todo
    BY <1>a, <2>2, <2>3
  <2>5. /\ h.at # "paper"
        /\ h.at = "trade" =>
             /\ trades[h.trade].status = "open"
             /\ IF h.mode = "mark" THEN h.exit = "open"
                ELSE h.exit \in Reasons /\ h.exit = papers[h.trade]
        /\ h.at \in {"read", "append", "cand"} =>
             /\ h.mode # "mark"
             /\ h.exit \in Reasons /\ h.exit = papers[h.trade]
             /\ trades[h.trade].status = IF h.mode = "exit" THEN "open" ELSE h.exit
    BY <1>b, <2>2, <2>3
  <2>6. h.at = "paper" =>
          /\ h.mode \in {"settle", "exit"} /\ h.exit \in Reasons
          /\ papers[h.trade] = "open" /\ trades[h.trade].status = "open"
    BY <2>5
  <2>7. monitor' = [monitor EXCEPT ![m] = h]
    BY <2>1
  <2> QED
    BY <2>3, <2>4, <2>5, <2>6, <2>7, PassMoves
<1> QED
  BY <1>1, <1>2, <1>3, <1>4, <1>5, <1>6, <1>7 DEF MonitorStep

\* The whole step relation.
LEMMA BookInvStep ==
  ASSUME OneLoop, TypeInv, VouchInv, BookInv, [Next]_vars
  PROVE  BookInv' /\ BookStep
<1> USE DEF paperVars, proposalVars, boardVars
<1>a. papers' = papers /\ trades' = trades /\ opener' = opener /\ monitor' = monitor
        => BookInv' /\ BookStep
  BY DEF BookInv, PassBooks, BookStep
<1>1. CASE PaperStep /\ UNCHANGED <<proposalVars, scanner>>
  <2>1. Requests = {}
    BY DEF OneLoop
  <2>2. ASSUME NEW m \in Monitors, MonitorStep(m) \/ MonitorCrash(m)
        PROVE  BookInv' /\ BookStep
    <3>1. PICK g : monitor[m] = g
      OBVIOUS
    <3> QED
      BY <2>2, <3>1, MonitorKeepsBook
  <2> QED
    BY <1>1, <2>1, <2>2, OpenKeepsBook DEF PaperStep
<1>2. CASE NextDay /\ UNCHANGED <<paperVars, proposalVars, scanner>>
  BY <1>2, <1>a
<1>3. CASE ProposalStep /\ UNCHANGED <<paperVars, scanner>>
  BY <1>3, <1>a
<1>4. CASE ScanStep /\ UNCHANGED <<paperVars, proposalVars>>
  BY <1>4, <1>a
<1>5. CASE UNCHANGED vars
  BY <1>5, <1>a DEF vars
<1> QED
  BY <1>1, <1>2, <1>3, <1>4, <1>5 DEF Next

LEMMA BookInvariant ==
  ASSUME OneLoop
  PROVE  Spec => []BookInv
<1>1. Init => BookInv
  BY BookInvInit
<1>2. TypeInv /\ VouchInv /\ BookInv /\ [Next]_vars => BookInv'
  BY BookInvStep
<1> QED
  BY <1>1, <1>2, TypeInvariant, VouchInvariant, PTL DEF Spec

\* The books agree: with one loop, a closed trade row carries the very exit its
\* PaperTrade took, also when the pass that closed the PaperTrade died first.
THEOREM BooksTheorem ==
  ASSUME OneLoop
  PROVE  Spec => []BooksAgree
<1>1. BookInv => BooksAgree
  BY DEF BookInv, BooksAgree, TradeClosed, Exits
<1> QED
  BY <1>1, BookInvariant, PTL

-----------------------------------------------------------------------------
\* The journal of the mapping is a function whose values are the row statuses.
LEMMA BookStepMaps ==
  ASSUME TypeInv, BookInv, BookStep
  PROVE  [Book!BookNext]_(Book!bookVars)
<1> DEFINE journal == [t \in Trades |-> trades[t].status]
<1> USE DEF Reasons
<1>a. papers \in [Trades -> PaperStatus]
  BY DEF TypeInv, TypeOK, PaperTypeOK
<1>b. (\A t \in Trades : trades'[t].status = trades[t].status) => journal' = journal
  OBVIOUS
<1>1. CASE papers' = papers /\ \A t \in Trades : trades'[t].status = trades[t].status
  BY <1>1, <1>b DEF Book!bookVars
<1>2. ASSUME NEW p \in Trades, papers[p] = "none", papers' = [papers EXCEPT ![p] = "open"],
             \A t \in Trades : trades'[t].status = trades[t].status
      PROVE  Book!BookNext
  BY <1>2, <1>b DEF Book!BookNext, Book!Enter
<1>3. ASSUME NEW p \in Trades, papers[p] = "open",
             \E r \in Reasons : papers' = [papers EXCEPT ![p] = r],
             \A t \in Trades : trades'[t].status = trades[t].status
      PROVE  Book!BookNext
  BY <1>3, <1>b DEF Book!BookNext, Book!Leave
<1>4. ASSUME NEW p \in Trades, papers' = papers,
             \A t \in Trades \ {p} : trades'[t].status = trades[t].status,
             \/ trades[p].status = "none" /\ papers[p] = "open" /\ trades'[p].status = "open"
             \/ /\ trades[p].status = "open" /\ papers[p] \in Reasons
                /\ trades'[p].status = papers[p]
      PROVE  Book!BookNext
  <2>1. journal' = [journal EXCEPT ![p] = trades'[p].status]
    BY <1>4
  <2>2. journal[p] = trades[p].status
    OBVIOUS
  <2>3. CASE trades[p].status = "none" /\ papers[p] = "open" /\ trades'[p].status = "open"
    BY <1>4, <2>1, <2>2, <2>3 DEF Book!BookNext, Book!NoteOpen
  <2>4. CASE /\ trades[p].status = "open" /\ papers[p] \in Reasons
             /\ trades'[p].status = papers[p]
    BY <1>4, <2>1, <2>2, <2>4 DEF Book!BookNext, Book!NoteClose
  <2> QED
    BY <1>4, <2>3, <2>4
<1> QED
  BY <1>1, <1>2, <1>3, <1>4 DEF BookStep

\* The paper desk implements the position book: a position is entered once and
\* left once, and its journal follows, step by step.
THEOREM BookRefined ==
  ASSUME OneLoop
  PROVE  Spec => ImplementsBook
<1>1. Init => Book!BookInit
  BY DEF Init, PaperInit, NoTradeRow, Book!BookInit
<1>2. TypeInv /\ VouchInv /\ BookInv /\ [Next]_vars => [Book!BookNext]_(Book!bookVars)
  BY BookInvStep, BookStepMaps
<1> QED
  BY <1>1, <1>2, TypeInvariant, VouchInvariant, BookInvariant, PTL
     DEF Spec, ImplementsBook, Book!BookSpec

-----------------------------------------------------------------------------
(* The engine's picks.                                                       *)
(*                                                                           *)
(* They stay within their limit on each board, at every moment of a scan and *)
(* wherever a scan dies, for any number of candidates and any limit, when    *)
(* scans do not overlap and no other handler holds a copy of a candidate.    *)
(* The sweep saves listed copies, so it never adds a flag; by the time the   *)
(* retirement is done its board has no pick left; and what is marked from    *)
(* there on, with what is still to be marked, is one scan's worth.           *)

ScansAlone ==
  /\ \A r, s \in Scanners : r = s
  /\ Openers = {} /\ Monitors = {} /\ Clerks = {}

Picks(zero) == {c \in Candidates : OnBoard(c, zero) /\ cands[c].pick}
Pending(h) == {c \in Candidates : h.made[c].pick}

\* The rows this scan has made are on its board and not picked yet.
MadeFresh(h) ==
  \A c \in Candidates : h.made[c].state # "ABSENT" =>
    OnBoard(c, h.zero) /\ ~cands[c].pick

\* Its copy of the board carries the flags of the board.
ListedAsHeld(h) ==
  \A c \in Candidates :
    /\ h.listed[c].pick <=> OnBoard(c, h.zero) /\ cands[c].pick
    /\ h.listed[c].pick => h.listed[c].state # "ABSENT"

\* What is still picked on its board is still to be retired.
ListedToRetire(h) ==
  \A c \in Candidates :
    /\ ~h.listed[c].pick
    /\ OnBoard(c, h.zero) /\ cands[c].pick => h.listed[c].state # "ABSENT"

\* The marks still to be saved are of its board and leave room for each other.
MarksFit(h) ==
  /\ Pending(h) \subseteq {c \in Candidates : OnBoard(c, h.zero) /\ h.made[c].state # "ABSENT"}
  /\ Cardinality(Picks(h.zero) \cup Pending(h)) <= PickLimit

ScanPicks(h) ==
  /\ h.at = "idle" => h.made = NoRows
  /\ h.at # "mark" => MadeFresh(h)
  /\ h.at # "mark" => \A c \in Candidates : ~h.made[c].pick
  /\ h.at \in {"sweep", "sweepRow"} => ListedAsHeld(h)
  /\ h.at = "retire" => ListedToRetire(h)
  /\ h.at = "mark" => MarksFit(h)

PicksFlagged == \A c \in Candidates : cands[c].pick => cands[c].state # "ABSENT"
PicksFew == \A zero \in BOOLEAN : Cardinality(Picks(zero)) <= PickLimit

PicksInv == PicksFlagged /\ PicksFew /\ \A s \in Scanners : ScanPicks(scanner[s])
-----------------------------------------------------------------------------
LEMMA PicksInvInit ==
  ASSUME Init
  PROVE  PicksInv
<1>1. cands = [c \in Candidates |-> AbsentRow] /\ ~AbsentRow.pick
  BY DEF Init, BoardInit, AbsentRow
<1>2. \A zero : Picks(zero) = {}
  BY <1>1 DEF Picks
<1>3. PicksFlagged /\ PicksFew
  BY <1>1, <1>2, FS_EmptySet DEF PicksFlagged, PicksFew
<1>4. \A s \in Scanners : ScanPicks(scanner[s])
  BY DEF Init, ScanInit, IdleScanner, ScanPicks, MadeFresh, NoRows, AbsentRow
<1> QED
  BY <1>3, <1>4 DEF PicksInv

\* A step that flags nobody keeps the boards within the limit.
LEMMA PicksShrink ==
  ASSUME IsFiniteSet(Candidates), TypeInv, PicksFew,
         \A c \in Candidates : cands'[c].pick => cands[c].pick
  PROVE  PicksFew'
<1> SUFFICES ASSUME NEW zero \in BOOLEAN
             PROVE  Cardinality(Picks(zero)') <= PickLimit
  BY DEF PicksFew
<1>1. Picks(zero) \in SUBSET Candidates /\ Picks(zero)' \in SUBSET Picks(zero)
  BY DEF Picks, OnBoard
<1>2. IsFiniteSet(Picks(zero))
  BY <1>1, FS_Subset
<1>3. IsFiniteSet(Picks(zero)') /\ Cardinality(Picks(zero)') <= Cardinality(Picks(zero))
  BY <1>1, <1>2, FS_Subset
<1>4. Cardinality(Picks(zero)) <= PickLimit
  BY DEF PicksFew
<1> QED
  BY <1>2, <1>3, <1>4, FS_CardinalityType

\* The one scan moves to state h.
LEMMA ScanMoves ==
  ASSUME ScansAlone, TypeInv, NEW s \in Scanners, NEW h,
         scanner' = [scanner EXCEPT ![s] = h],
         PicksFlagged', PicksFew', ScanPicks(h)'
  PROVE  PicksInv'
<1>1. scanner'[s] = h /\ \A r \in Scanners : r = s
  BY DEF TypeInv, TypeOK, ScanTypeOK, ScansAlone
<1> QED
  BY <1>1 DEF PicksInv, ScanPicks, MadeFresh, ListedAsHeld, ListedToRetire, MarksFit, Pending

\* A scan that has died or is done holds nothing.
LEMMA IdlePicks == ScanPicks(IdleScanner) /\ ScanPicks(IdleScanner)'
BY DEF IdleScanner, ScanPicks, MadeFresh, NoRows, AbsentRow

\* A row whose flag is down replaces another.
LEMMA RowLowered ==
  ASSUME IsFiniteSet(Candidates), TypeInv, PicksFlagged, PicksFew,
         NEW c \in Candidates, NEW row, cands' = [cands EXCEPT ![c] = row],
         row.pick => cands[c].pick /\ row.state # "ABSENT"
  PROVE  /\ PicksFlagged' /\ PicksFew'
         /\ cands'[c] = row /\ \A d \in Candidates \ {c} : cands'[d] = cands[d]
<1>1. cands'[c] = row /\ \A d \in Candidates \ {c} : cands'[d] = cands[d]
  BY DEF TypeInv, TypeOK, BoardTypeOK
<1>2. \A d \in Candidates : cands'[d].pick => cands[d].pick
  BY <1>1
<1> QED
  BY <1>1, <1>2, PicksShrink DEF PicksFlagged

LEMMA ScanKeepsPicks ==
  ASSUME ScansAlone, IsFiniteSet(Candidates), TypeInv, PicksInv,
         NEW s \in Scanners, NEW g, scanner[s] = g,
         \/ ScanCreate(s) \/ ScanAppend(s) \/ BoardRead(s) \/ ScanList(s)
         \/ SweepSave(s) \/ SweepAppend(s) \/ SweepDone(s)
         \/ RetireSave(s) \/ MarkPicks(s) \/ MarkSave(s) \/ ScanCrash(s)
  PROVE  PicksInv'
<1>a. /\ g \in ScannerState /\ g.made \in Rows /\ g.listed \in Rows
      /\ g.zero \in BOOLEAN /\ g.due \in SUBSET Candidates
      /\ cands \in [Candidates -> CandidateRow]
  BY DEF TypeInv, TypeOK, ScanTypeOK, BoardTypeOK, ScannerState
<1>b. PicksFlagged /\ PicksFew /\ ScanPicks(g)
  BY DEF PicksInv
<1>c. \A c \in Candidates : ~NoRows[c].pick /\ NoRows[c].state = "ABSENT" /\ NoRows[c] = AbsentRow
  BY DEF NoRows, AbsentRow
<1>d. cands' = cands => PicksFlagged' /\ PicksFew'
  BY <1>b DEF PicksFlagged, PicksFew, Picks, OnBoard
<1>1. CASE ScanCreate(s)
  <2>1. PICK c \in Candidates, contract \in Contracts : 
          /\ ~Exists(c) /\ g.at \in {"idle", "made"}
          /\ g.at = "made" => (c \in ZeroDTE) = g.zero
          /\ \E state \in Classified(contract) :
               LET row == [state |-> state, contract |-> contract,
                           pick |-> FALSE, detected |-> today]
               IN  /\ SaveCandidate(c, row)
                   /\ scanner' = [scanner EXCEPT ![s] = [g EXCEPT
                        !.at = "rows", !.zero = c \in ZeroDTE,
                        !.made = Put(g.made, c, row), !.cur = c]]
    BY <1>1 DEF ScanCreate
  <2>row. PICK row :
          /\ cands' = [cands EXCEPT ![c] = row] /\ ~row.pick
          /\ scanner' = [scanner EXCEPT ![s] = [g EXCEPT
               !.at = "rows", !.zero = c \in ZeroDTE,
               !.made = Put(g.made, c, row), !.cur = c]]
    <3>1. PICK state : LET row == [state |-> state, contract |-> contract,
                                   pick |-> FALSE, detected |-> today]
                       IN  /\ SaveCandidate(c, row)
                           /\ scanner' = [scanner EXCEPT ![s] = [g EXCEPT
                                !.at = "rows", !.zero = c \in ZeroDTE,
                                !.made = Put(g.made, c, row), !.cur = c]]
      BY <2>1
    <3> DEFINE row == [state |-> state, contract |-> contract,
                       pick |-> FALSE, detected |-> today]
    <3>2. ~row.pick
      OBVIOUS
    <3> QED
      BY <3>1, <3>2 DEF SaveCandidate
  <2>2. PICK h : /\ scanner' = [scanner EXCEPT ![s] = h]
                 /\ h = [g EXCEPT !.at = "rows", !.zero = c \in ZeroDTE,
                                  !.made = Put(g.made, c, row), !.cur = c]
    BY <2>row
  <2>3. h.at = "rows" /\ h.zero = (c \in ZeroDTE) /\ h.made = [g.made EXCEPT ![c] = row]
    BY <1>a, <2>2 DEF ScannerState, Put
  <2>4. h.made[c] = row /\ \A d \in Candidates \ {c} : h.made[d] = g.made[d]
    BY <1>a, <2>3 DEF Rows
  <2>5. /\ PicksFlagged' /\ PicksFew'
        /\ cands'[c] = row /\ \A d \in Candidates \ {c} : cands'[d] = cands[d]
    BY <1>b, <2>row, RowLowered
  <2>6. \A d \in Candidates \ {c} : h.made[d].state # "ABSENT" =>
          OnBoard(d, h.zero) /\ ~cands[d].pick
    <3>1. CASE g.at = "idle"
      BY <1>b, <1>c, <2>4, <3>1 DEF ScanPicks
    <3>2. CASE g.at = "made"
      BY <1>b, <2>1, <2>3, <2>4, <3>2 DEF ScanPicks, MadeFresh
    <3> QED
      BY <2>1, <3>1, <3>2
  <2>7. ScanPicks(h)'
    BY <1>b, <2>1, <2>row, <2>3, <2>4, <2>5, <2>6 DEF ScanPicks, MadeFresh, OnBoard
  <2> QED
    BY <2>2, <2>5, <2>7, ScanMoves
<1>2. CASE ScanAppend(s) \/ SweepAppend(s)
  <2>1. PICK h : /\ scanner' = [scanner EXCEPT ![s] = h] /\ cands' = cands
                 /\ h.made = g.made /\ h.listed = g.listed /\ h.zero = g.zero
                 /\ \/ g.at = "rows" /\ h.at \in {"rows", "made"}
                    \/ g.at = "sweepRow" /\ h.at = "sweep"
    <3>1. CASE ScanAppend(s)
      <4>1. PICK to, h :
              /\ scanner' = [scanner EXCEPT ![s] = h]
              /\ \/ h = [g EXCEPT !.at = "made", !.cur = Unset, !.walk = "ABSENT"]
                 \/ h = [g EXCEPT !.walk = to]
        BY <3>1 DEF ScanAppend
      <4>2. /\ h.made = g.made /\ h.listed = g.listed /\ h.zero = g.zero
            /\ h.at = "made" \/ h.at = g.at
        BY <1>a, <4>1 DEF ScannerState
      <4> QED
        BY <3>1, <4>1, <4>2 DEF ScanAppend
    <3>2. CASE SweepAppend(s)
      <4>1. PICK h : /\ scanner' = [scanner EXCEPT ![s] = h]
                     /\ h = [g EXCEPT !.at = "sweep", !.cur = Unset]
        BY <3>2 DEF SweepAppend
      <4>2. h.made = g.made /\ h.listed = g.listed /\ h.zero = g.zero /\ h.at = "sweep"
        BY <1>a, <4>1 DEF ScannerState
      <4> QED
        BY <3>2, <4>1, <4>2 DEF SweepAppend
    <3> QED
      BY <1>2, <3>1, <3>2
  <2>2. ScanPicks(h)'
    BY <1>b, <2>1 DEF ScanPicks, MadeFresh, ListedAsHeld, OnBoard
  <2> QED
    BY <1>d, <2>1, <2>2, ScanMoves
<1>3. CASE BoardRead(s) \/ ScanList(s)
  <2>1. PICK h : /\ scanner' = [scanner EXCEPT ![s] = h] /\ cands' = cands
                 /\ h.at = "sweep" /\ h.listed = BoardRows(h.zero)
                 /\ \/ h.made = NoRows
                    \/ g.at = "made" /\ h.made = g.made /\ h.zero = g.zero
    <3>1. CASE BoardRead(s)
      <4>1. PICK zero, h :
              /\ scanner' = [scanner EXCEPT ![s] = h]
              /\ h = [IdleScanner EXCEPT !.at = "sweep", !.zero = zero,
                        !.listed = BoardRows(zero), !.due = StaleOn(zero)]
        BY <3>1 DEF BoardRead
      <4>2. /\ h.at = "sweep" /\ h.zero = zero /\ h.listed = BoardRows(h.zero)
            /\ h.made = NoRows
        BY <4>1 DEF IdleScanner
      <4> QED
        BY <3>1, <4>1, <4>2 DEF BoardRead, boardVars
    <3>2. CASE ScanList(s)
      <4>1. PICK h : /\ scanner' = [scanner EXCEPT ![s] = h]
                     /\ h = [g EXCEPT !.at = "sweep", !.listed = BoardRows(g.zero),
                                      !.due = StaleOn(g.zero)]
        BY <3>2 DEF ScanList
      <4>2. /\ h.at = "sweep" /\ h.zero = g.zero /\ h.listed = BoardRows(h.zero)
            /\ h.made = g.made
        BY <1>a, <4>1 DEF ScannerState
      <4> QED
        BY <3>2, <4>1, <4>2 DEF ScanList, boardVars
    <3> QED
      BY <1>3, <3>1, <3>2
  <2>2. \A c \in Candidates :
          /\ h.listed[c].pick <=> OnBoard(c, h.zero) /\ cands[c].pick
          /\ h.listed[c].pick => h.listed[c].state # "ABSENT"
    BY <1>b, <2>1 DEF BoardRows, AbsentRow, PicksFlagged
  <2>3. /\ \A c \in Candidates : h.made[c].state # "ABSENT" =>
             OnBoard(c, h.zero) /\ ~cands[c].pick
        /\ \A c \in Candidates : ~h.made[c].pick
    BY <1>b, <1>c, <2>1 DEF ScanPicks, MadeFresh
  <2>4. ScanPicks(h)'
    BY <2>1, <2>2, <2>3 DEF ScanPicks, MadeFresh, ListedAsHeld, OnBoard
  <2> QED
    BY <1>d, <2>1, <2>4, ScanMoves
<1>4. CASE SweepSave(s)
  <2>1. PICK c \in g.due : \E row :
          /\ row = [g.listed[c] EXCEPT !.state = "EXPIRED"]
          /\ SaveCandidate(c, row)
          /\ scanner' = [scanner EXCEPT ![s] = [g EXCEPT
               !.at = "sweepRow", !.listed = Put(g.listed, c, row),
               !.due = g.due \ {c}, !.cur = c]]
    BY <1>4 DEF SweepSave
  <2>2. PICK row, h :
          /\ row = [g.listed[c] EXCEPT !.state = "EXPIRED"]
          /\ cands' = [cands EXCEPT ![c] = row]
          /\ scanner' = [scanner EXCEPT ![s] = h]
          /\ h = [g EXCEPT !.at = "sweepRow", !.listed = Put(g.listed, c, row),
                           !.due = g.due \ {c}, !.cur = c]
    BY <2>1 DEF SaveCandidate
  <2>3. c \in Candidates /\ g.at = "sweep" /\ g.listed[c] \in CandidateRow
    BY <1>a, <1>4, <2>1 DEF SweepSave, Rows
  <2>4. row.pick = g.listed[c].pick /\ row.state = "EXPIRED"
    BY <2>2, <2>3 DEF CandidateRow
  <2>5. /\ h.at = "sweepRow" /\ h.zero = g.zero /\ h.made = g.made
        /\ h.listed = [g.listed EXCEPT ![c] = row]
    BY <1>a, <2>2 DEF ScannerState, Put
  <2>6. h.listed[c] = row /\ \A d \in Candidates \ {c} : h.listed[d] = g.listed[d]
    BY <1>a, <2>3, <2>5 DEF Rows
  <2>7. ListedAsHeld(g) /\ MadeFresh(g) /\ \A d \in Candidates : ~g.made[d].pick
    BY <1>b, <2>3 DEF ScanPicks
  <2>8. row.pick => OnBoard(c, g.zero) /\ cands[c].pick
    BY <2>3, <2>4, <2>7 DEF ListedAsHeld
  <2>9. /\ PicksFlagged' /\ PicksFew'
        /\ cands'[c] = row /\ \A d \in Candidates \ {c} : cands'[d] = cands[d]
    BY <1>b, <2>2, <2>3, <2>4, <2>8, RowLowered
  <2>10. ListedAsHeld(h)'
    BY <2>4, <2>5, <2>6, <2>7, <2>8, <2>9 DEF ListedAsHeld, OnBoard
  <2>11. MadeFresh(h)'
    BY <2>5, <2>7, <2>8, <2>9 DEF MadeFresh, OnBoard
  <2>12. ScanPicks(h)'
    BY <2>5, <2>7, <2>10, <2>11 DEF ScanPicks
  <2> QED
    BY <2>2, <2>9, <2>12, ScanMoves
<1>5. CASE SweepDone(s)
  <2>1. PICK h : /\ scanner' = [scanner EXCEPT ![s] = h]
                 /\ h = IF g.made = NoRows THEN IdleScanner
                        ELSE [g EXCEPT !.at = "retire", !.listed = Retired(g.listed, g.made)]
    BY <1>5 DEF SweepDone
  <2>2. cands' = cands /\ g.at = "sweep"
    BY <1>5 DEF SweepDone, boardVars
  <2>3. CASE g.made = NoRows
    BY <1>d, <2>1, <2>2, <2>3, IdlePicks, ScanMoves
  <2>4. CASE g.made # NoRows
    <3>1. /\ h.at = "retire" /\ h.zero = g.zero /\ h.made = g.made
          /\ h.listed = Retired(g.listed, g.made)
      BY <1>a, <2>1, <2>4 DEF ScannerState
    <3>2. ListedAsHeld(g) /\ MadeFresh(g) /\ \A d \in Candidates : ~g.made[d].pick
      BY <1>b, <2>2 DEF ScanPicks
    <3>3. \A c \in Candidates :
            \/ /\ g.listed[c].pick /\ g.made[c].state = "ABSENT"
               /\ ~h.listed[c].pick /\ h.listed[c].state = g.listed[c].state
            \/ /\ ~(g.listed[c].pick /\ g.made[c].state = "ABSENT")
               /\ ~h.listed[c].pick
      <4>1. ASSUME NEW c \in Candidates, NEW row, row = g.listed[c]
            PROVE  /\ [row EXCEPT !.pick = FALSE].state = row.state
                   /\ ~[row EXCEPT !.pick = FALSE].pick
        <5>1. row \in CandidateRow
          BY <1>a, <4>1 DEF Rows
        <5> QED
          BY <5>1 DEF CandidateRow
      <4>2. ~AbsentRow.pick
        BY DEF AbsentRow
      <4> QED
        BY <3>1, <4>1, <4>2 DEF Retired
    <3>4. \A c \in Candidates : ~h.listed[c].pick
      BY <3>3
    <3>5. \A c \in Candidates :
            OnBoard(c, g.zero) /\ cands[c].pick => h.listed[c].state # "ABSENT"
      BY <3>2, <3>3 DEF ListedAsHeld, MadeFresh
    <3>6. ScanPicks(h)'
      BY <2>2, <3>1, <3>2, <3>4, <3>5 DEF ScanPicks, ListedToRetire, MadeFresh, OnBoard
    <3> QED
      BY <1>d, <2>1, <2>2, <3>6, ScanMoves
  <2> QED
    BY <2>3, <2>4
<1>6. CASE RetireSave(s)
  <2>1. PICK c \in Candidates :
          /\ cands' = [cands EXCEPT ![c] = g.listed[c]]
          /\ g.listed[c].state # "ABSENT"
          /\ scanner' = [scanner EXCEPT ![s] = [g EXCEPT
                           !.listed = Put(g.listed, c, AbsentRow)]]
    BY <1>6 DEF RetireSave, SaveCandidate
  <2>2. PICK h : /\ scanner' = [scanner EXCEPT ![s] = h]
                 /\ h = [g EXCEPT !.listed = Put(g.listed, c, AbsentRow)]
    BY <2>1
  <2>3. /\ g.at = "retire" /\ h.at = "retire" /\ h.zero = g.zero /\ h.made = g.made
        /\ h.listed = [g.listed EXCEPT ![c] = AbsentRow]
    BY <1>a, <1>6, <2>2 DEF ScannerState, Put, RetireSave
  <2>4. h.listed[c] = AbsentRow /\ \A d \in Candidates \ {c} : h.listed[d] = g.listed[d]
    BY <1>a, <2>3 DEF Rows
  <2>5. ListedToRetire(g) /\ MadeFresh(g) /\ \A d \in Candidates : ~g.made[d].pick
    BY <1>b, <2>3 DEF ScanPicks
  <2>6. PICK row : row = g.listed[c] /\ ~row.pick /\ cands' = [cands EXCEPT ![c] = row]
    BY <2>1, <2>5 DEF ListedToRetire
  <2>7. /\ PicksFlagged' /\ PicksFew'
        /\ cands'[c] = row /\ \A d \in Candidates \ {c} : cands'[d] = cands[d]
    BY <1>b, <2>6, RowLowered
  <2>8. ListedToRetire(h)'
    BY <2>3, <2>4, <2>5, <2>6, <2>7 DEF ListedToRetire, OnBoard, AbsentRow
  <2>9. ScanPicks(h)'
    BY <2>3, <2>5, <2>6, <2>7, <2>8 DEF ScanPicks, MadeFresh, OnBoard
  <2> QED
    BY <2>2, <2>7, <2>9, ScanMoves
<1>7. CASE MarkPicks(s)
  <2>1. PICK picked \in SUBSET Pickable(g.made) :
          /\ Cardinality(picked) <= PickLimit
          /\ scanner' = [scanner EXCEPT ![s] =
               IF picked = {} THEN IdleScanner
               ELSE [g EXCEPT !.at = "mark", !.made = Marked(g.made, picked)]]
    BY <1>7 DEF MarkPicks
  <2>2. cands' = cands /\ g.at = "retire" /\ g.listed = NoRows
    BY <1>7 DEF MarkPicks, boardVars
  <2>3. CASE picked = {}
    BY <1>d, <2>1, <2>2, <2>3, IdlePicks, ScanMoves
  <2>4. CASE picked # {}
    <3>1. PICK h : /\ scanner' = [scanner EXCEPT ![s] = h]
                   /\ h = [g EXCEPT !.at = "mark", !.made = Marked(g.made, picked)]
      BY <2>1, <2>4
    <3>2. h.at = "mark" /\ h.zero = g.zero /\ h.made = Marked(g.made, picked)
      BY <1>a, <3>1 DEF ScannerState
    <3>3. \A c \in Candidates : h.made[c].pick <=> c \in picked
      <4>1. \A c \in Candidates : g.made[c] \in CandidateRow
        BY <1>a DEF Rows
      <4> QED
        BY <3>2, <4>1 DEF Marked, CandidateRow, AbsentRow
    <3>4. picked \in SUBSET Candidates /\ \A c \in picked : OnBoard(c, g.zero)
      BY <1>b, <2>2 DEF Pickable, ScanPicks, MadeFresh
    <3>made. \A c \in picked : h.made[c].state # "ABSENT"
      <4>1. \A c \in Candidates : g.made[c] \in CandidateRow
        BY <1>a DEF Rows
      <4>2. \A c \in picked : g.made[c].state # "ABSENT"
        BY DEF Pickable
      <4> QED
        BY <3>2, <3>4, <4>1, <4>2 DEF Marked, CandidateRow
    <3>5. Pending(h) = picked
      BY <3>3, <3>4 DEF Pending
    <3>6. Picks(g.zero) = {}
      BY <1>b, <1>c, <2>2 DEF ScanPicks, ListedToRetire, Picks
    <3>7. Picks(g.zero)' = {}
      BY <2>2, <3>6 DEF Picks, OnBoard
    <3>8. MarksFit(h)'
      BY <2>1, <3>2, <3>4, <3>5, <3>7, <3>made DEF MarksFit, OnBoard, Pending
    <3>9. ScanPicks(h)'
      BY <3>2, <3>8 DEF ScanPicks
    <3> QED
      BY <1>d, <2>2, <3>1, <3>9, ScanMoves
  <2> QED
    BY <2>3, <2>4
<1>8. CASE MarkSave(s)
  <2>1. PICK c \in Candidates :
          /\ g.made[c].pick /\ cands' = [cands EXCEPT ![c] = g.made[c]]
          /\ scanner' = [scanner EXCEPT ![s] =
               IF Put(g.made, c, AbsentRow) = NoRows THEN IdleScanner
               ELSE [g EXCEPT !.made = Put(g.made, c, AbsentRow)]]
    BY <1>8 DEF MarkSave, SaveCandidate
  <2>2. g.at = "mark" /\ MarksFit(g)
    BY <1>b, <1>8 DEF MarkSave, ScanPicks
  <2>3. cands'[c] = g.made[c] /\ \A d \in Candidates \ {c} : cands'[d] = cands[d]
    BY <1>a, <2>1
  <2>4. OnBoard(c, g.zero) /\ c \in Pending(g)
    BY <2>1, <2>2 DEF MarksFit, Pending
  <2>5. Picks(g.zero)' = Picks(g.zero) \cup {c}
    BY <2>1, <2>3, <2>4 DEF Picks, OnBoard
  <2>6. \A zero \in BOOLEAN : zero # g.zero => Picks(zero)' = Picks(zero)
    BY <1>a, <2>3, <2>4 DEF Picks, OnBoard
  <2>7. IsFiniteSet(Picks(g.zero) \cup Pending(g))
    <3>1. Picks(g.zero) \cup Pending(g) \in SUBSET Candidates
      BY DEF Picks, Pending
    <3> QED
      BY <3>1, FS_Subset
  <2>8. \A S \in SUBSET (Picks(g.zero) \cup Pending(g)) : Cardinality(S) <= PickLimit
    <3>1. SUFFICES ASSUME NEW S \in SUBSET (Picks(g.zero) \cup Pending(g))
                   PROVE  Cardinality(S) <= PickLimit
      OBVIOUS
    <3>2. /\ IsFiniteSet(S)
          /\ Cardinality(S) <= Cardinality(Picks(g.zero) \cup Pending(g))
      BY <2>7, FS_Subset
    <3>3. Cardinality(Picks(g.zero) \cup Pending(g)) <= PickLimit
      BY <2>2 DEF MarksFit
    <3> QED
      BY <2>7, <3>2, <3>3, FS_CardinalityType
  <2>9. PicksFew'
    <3>1. Picks(g.zero)' \in SUBSET (Picks(g.zero) \cup Pending(g))
      BY <2>4, <2>5
    <3>2. Cardinality(Picks(g.zero)') <= PickLimit
      BY <2>8, <3>1
    <3>3. \A zero \in BOOLEAN : Cardinality(Picks(zero)') <= PickLimit
      BY <1>b, <2>6, <3>2 DEF PicksFew
    <3> QED
      BY <3>3 DEF PicksFew
  <2>10. PicksFlagged'
    BY <1>b, <2>2, <2>3, <2>4 DEF PicksFlagged, MarksFit
  <2>11. CASE Put(g.made, c, AbsentRow) = NoRows
    BY <2>1, <2>9, <2>10, <2>11, IdlePicks, ScanMoves
  <2>12. CASE Put(g.made, c, AbsentRow) # NoRows
    <3>1. PICK h : /\ scanner' = [scanner EXCEPT ![s] = h]
                   /\ h = [g EXCEPT !.made = Put(g.made, c, AbsentRow)]
      BY <2>1, <2>12
    <3>2. h.at = "mark" /\ h.zero = g.zero /\ h.made = [g.made EXCEPT ![c] = AbsentRow]
      BY <1>a, <2>2, <3>1 DEF ScannerState, Put
    <3>3. /\ ~h.made[c].pick
          /\ \A d \in Candidates \ {c} : h.made[d] = g.made[d]
      BY <1>a, <3>2 DEF Rows, AbsentRow
    <3>4. Pending(h) = Pending(g) \ {c}
      BY <3>3 DEF Pending
    <3>5. Pending(h) \subseteq {d \in Candidates : OnBoard(d, h.zero) /\ h.made[d].state # "ABSENT"}
      BY <2>2, <3>2, <3>3, <3>4 DEF MarksFit, OnBoard
    <3>6. Picks(h.zero)' \cup Pending(h) \in SUBSET (Picks(g.zero) \cup Pending(g))
      BY <2>4, <2>5, <3>2, <3>4 DEF Picks, OnBoard
    <3>7. Cardinality(Picks(h.zero)' \cup Pending(h)) <= PickLimit
      BY <2>8, <3>6
    <3>8. ScanPicks(h)'
      BY <3>2, <3>5, <3>7 DEF ScanPicks, MarksFit, OnBoard, Pending
    <3> QED
      BY <2>9, <2>10, <3>1, <3>8, ScanMoves
  <2> QED
    BY <2>11, <2>12
<1>9. CASE ScanCrash(s)
  BY <1>9, <1>d, IdlePicks, ScanMoves DEF ScanCrash, Crash
<1> QED
  BY <1>1, <1>2, <1>3, <1>4, <1>5, <1>6, <1>7, <1>8, <1>9

-----------------------------------------------------------------------------
LEMMA PicksInvStep ==
  ASSUME ScansAlone, IsFiniteSet(Candidates), TypeInv, PicksInv, [Next]_vars
  PROVE  PicksInv'
<1> USE DEF paperVars, proposalVars, boardVars
<1>a. cands' = cands /\ scanner' = scanner => PicksInv'
  <2> SUFFICES ASSUME cands' = cands, scanner' = scanner PROVE PicksInv'
    OBVIOUS
  <2>1. \A zero : Picks(zero)' = Picks(zero)
    BY DEF Picks, OnBoard
  <2>2. \A h : Pending(h)' = Pending(h) /\ MadeFresh(h)' = MadeFresh(h)
    BY DEF Pending, MadeFresh, OnBoard
  <2>3. \A h : ListedAsHeld(h)' = ListedAsHeld(h) /\ ListedToRetire(h)' = ListedToRetire(h)
    BY DEF ListedAsHeld, ListedToRetire, OnBoard
  <2>4. ASSUME NEW s \in Scanners, NEW h, scanner[s] = h PROVE ScanPicks(scanner[s])'
    <3>1. ScanPicks(h)
      BY <2>4 DEF PicksInv
    <3>2. MarksFit(h) => MarksFit(h)'
      BY <2>1, <2>2 DEF MarksFit, OnBoard
    <3>3. ScanPicks(h)'
      BY <2>2, <2>3, <3>1, <3>2 DEF ScanPicks
    <3>4. scanner'[s] = h
      BY <2>4
    <3> QED
      BY <3>3, <3>4 DEF ScanPicks, MadeFresh, ListedAsHeld, ListedToRetire, MarksFit, Pending
  <2>5. PicksFlagged' /\ PicksFew'
    BY <2>1 DEF PicksInv, PicksFlagged, PicksFew
  <2> QED
    BY <2>4, <2>5 DEF PicksInv
<1>1. CASE NextDay /\ UNCHANGED <<paperVars, proposalVars, scanner>>
  BY <1>1, <1>a DEF NextDay
<1>2. CASE PaperStep /\ UNCHANGED <<proposalVars, scanner>>
  BY <1>2, <1>a DEF ScansAlone, PaperStep, CloseRead, CloseSave, TagSave, Purge
<1>3. CASE ProposalStep /\ UNCHANGED <<paperVars, scanner>>
  BY <1>3, <1>a DEF ScansAlone, ProposalStep, Lapse
<1>4. CASE ScanStep /\ UNCHANGED <<paperVars, proposalVars>>
  <2>1. PICK s \in Scanners :
          \/ ScanCreate(s) \/ ScanAppend(s) \/ BoardRead(s) \/ ScanList(s)
          \/ SweepSave(s) \/ SweepAppend(s) \/ SweepDone(s)
          \/ RetireSave(s) \/ MarkPicks(s) \/ MarkSave(s) \/ ScanCrash(s)
    BY <1>4 DEF ScanStep
  <2>2. PICK g : scanner[s] = g
    OBVIOUS
  <2> QED
    BY <2>1, <2>2, ScanKeepsPicks
<1>5. CASE UNCHANGED vars
  BY <1>5, <1>a DEF vars
<1> QED
  BY <1>1, <1>2, <1>3, <1>4, <1>5 DEF Next

\* One scan's worth of picks: however a scan is interrupted and whatever day its
\* rows are from, no board ever carries more flagged candidates than the limit.
THEOREM PicksTheorem ==
  ASSUME ScansAlone, IsFiniteSet(Candidates)
  PROVE  Spec => []PicksWithinLimit
<1>1. Init => PicksInv
  BY PicksInvInit
<1>2. TypeInv /\ PicksInv /\ [Next]_vars => PicksInv'
  BY PicksInvStep
<1>3. PicksInv => PicksWithinLimit
  BY DEF PicksInv, PicksFew, Picks, PicksWithinLimit
<1> QED
  BY <1>1, <1>2, <1>3, TypeInvariant, PTL DEF Spec
===============================================================================
