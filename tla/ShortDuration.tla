---------------------------- MODULE ShortDuration ----------------------------
(***************************************************************************)
(* The short-duration module as it runs: scans and board reads, paper      *)
(* opens and monitor passes, approvals and manual actions, all over the    *)
(* same candidate table, each handler interleaved with the others at every *)
(* repository call.                                                        *)
(***************************************************************************)
EXTENDS PaperDesk, ProposalDesk, ScanDesk

vars == <<boardVars, paperVars, proposalVars, scanner>>

Init == BoardInit /\ PaperInit /\ ProposalInit /\ ScanInit

Next ==
  \/ NextDay /\ UNCHANGED <<paperVars, proposalVars, scanner>>
  \/ PaperStep /\ UNCHANGED <<proposalVars, scanner>>
  \/ ProposalStep /\ UNCHANGED <<paperVars, scanner>>
  \/ ScanStep /\ UNCHANGED <<paperVars, proposalVars>>

Spec == Init /\ [][Next]_vars

\* The scheduler's loop keeps running monitor passes, and the provider calls
\* of a pass return; an expiry-day close that is asked for again and again is
\* answered in the end.
MonitorRuns(m) == MonitorStep(m) /\ UNCHANGED <<proposalVars, scanner>>
MonitorSettles(m) == MonitorSettle(m) /\ UNCHANGED <<proposalVars, scanner>>

FairSpec ==
  /\ Spec
  /\ \A m \in Monitors : WF_vars(MonitorRuns(m)) /\ SF_vars(MonitorSettles(m))

TypeOK == BoardTypeOK /\ PaperTypeOK /\ ProposalTypeOK /\ ScanTypeOK

-----------------------------------------------------------------------------
(* What the interleavings never break.                                     *)

\* The journal follows the market: a trade row exists only over a saved
\* PaperTrade, and is closed only when that PaperTrade is closed or gone.  A
\* handler that dies in between leaves a trade the next pass mirrors, never a
\* position that is in the market but off the books.
JournalFollowsMarket ==
  \A t \in Trades : /\ trades[t].status # "none" => papers[t] # "none"
                    /\ TradeClosed(t) => papers[t] # "open"

\* A candidate reads OPEN or CLOSED only once a trade row for it is on record,
\* whoever saved the candidate and from however old a copy.
PositionHasTrade ==
  \A c \in Candidates :
    cands[c].state \in {"OPEN", "CLOSED"} => \E t \in Trades : trades[t].cand = c

\* The states that commit money are in the audit trail before they are in
\* the candidate row: propose, approve, open and close append first.
MoneyStateAudited ==
  \A c \in Candidates :
    cands[c].state \in MoneyStates => Audited(c, cands[c].state)

\* A candidate that reads APPROVED was approved by a named human on a ticket of
\* its own, although the walk of a paper open also writes an APPROVED row.
ApprovedByHuman ==
  \A c \in Candidates :
    cands[c].state = "APPROVED"
      => /\ [cand |-> c, to |-> "APPROVED", by |-> "approver"] \in trail
         /\ \E p \in Proposals : /\ proposals[p].cand = c
                                 /\ proposals[p].status \in {"approved", "rejected"}

\* A PaperTrade that is closed or deleted is never open again.
PaperStaysClosed ==
  [][\A t \in Trades : papers[t] \notin {"none", "open"} => papers'[t] # "open"]_vars

-----------------------------------------------------------------------------
(* What holds when one monitor loop runs and nobody closes by hand.        *)

\* A closed trade row books the very exit the PaperTrade took, also when the
\* pass that closed the PaperTrade died before it saved the trade row.
BooksAgree ==
  \A t \in Trades : TradeClosed(t) => trades[t].status = papers[t]

Book == INSTANCE PositionBook WITH
          Positions <- Trades,
          Reasons <- {"rule", "expiry"},
          market <- papers,
          journal <- [t \in Trades |-> trades[t].status]

\* The desk implements the position book: entered once, left once, and the
\* journal follows.
ImplementsBook == Book!BookSpec

\* A trade row left open over a closed PaperTrade (the pass died between the
\* two saves) is closed by a later pass.
OrphansMirrored ==
  \A t \in Trades :
    (trades[t].status = "open" /\ papers[t] # "open") ~> TradeClosed(t)

\* A position held past its expiration is settled, however many passes find no
\* expiry-day close first.
ExpiredSettled ==
  \A t \in Trades :
    (/\ trades[t].status = "open"
     /\ Expiry(trades[t].cand) < today) ~> TradeClosed(t)

-----------------------------------------------------------------------------
(* What holds of the picks when scans of a board do not overlap.           *)

\* At most one scan's worth of picks is live on a board, at every moment of a
\* scan and wherever one dies: the old ones go before the new ones come.
PicksWithinLimit ==
  \A zero \in BOOLEAN :
    Cardinality({c \in Candidates : OnBoard(c, zero) /\ cands[c].pick}) <= PickLimit
=============================================================================
