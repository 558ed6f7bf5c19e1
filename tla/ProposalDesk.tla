----------------------------- MODULE ProposalDesk -----------------------------
(***************************************************************************)
(* The human-approval path (app/shortduration/proposals.py over            *)
(* app/modes/proposals.py) and the manual board actions of the API route   *)
(* POST /short-duration/candidates/{id}/{action}.                          *)
(*                                                                         *)
(* Each handler saves the proposal before it turns to the candidate, and   *)
(* reads and writes whole rows, like every handler of the board.           *)
(***************************************************************************)
EXTENDS CandidateBoard

CONSTANTS Proposals,   \* proposal ids
          Clerks,      \* handlers of the propose / approve / reject / manual routes
          Nobody       \* "no candidate / no proposal"

ASSUME ProposalAssumption == Nobody \notin Candidates /\ Nobody \notin Proposals

VARIABLES proposals,   \* the order_proposals rows
          lapsed,      \* proposals whose expires_at has passed
          clerk        \* local state of each handler

proposalVars == <<proposals, lapsed, clerk>>

ProposalStatus == {"none", "pending", "approved", "rejected"}

ProposalRow == [status : ProposalStatus, cand : Candidates \cup {Nobody}]
NoProposal == [status |-> "none", cand |-> Nobody]

\* Rows of the audit trail are written one by one; walk is the state the
\* trail has reached and goal the state the in-memory candidate is in.
ClerkOps == {"propose", "approve", "reject", "manual"}
ClerkState ==
  [at : {"idle", "proposal", "read", "walk", "cand", "row"}, op : ClerkOps,
   cand : Candidates \cup {Nobody}, snap : CandidateRow,
   prop : Proposals \cup {Nobody},
   walk : States \cup {"ABSENT"}, goal : States \cup {"ABSENT"}]
IdleClerk == [at |-> "idle", op |-> "manual", cand |-> Nobody,
              snap |-> AbsentRow, prop |-> Nobody,
              walk |-> "ABSENT", goal |-> "ABSENT"]

ProposalTypeOK ==
  /\ proposals \in [Proposals -> ProposalRow]
  /\ lapsed \subseteq Proposals
  /\ clerk \in [Clerks -> ClerkState]

ProposalInit ==
  /\ proposals = [p \in Proposals |-> NoProposal]
  /\ lapsed = {}
  /\ clerk = [w \in Clerks |-> IdleClerk]

-----------------------------------------------------------------------------
(* propose: the ticket is saved before `advance` is asked whether the      *)
(* candidate can go to PROPOSED at all.                                    *)

ProposeRead(w) ==
  /\ clerk[w].at = "idle"
  /\ \E c \in Candidates :
       /\ Exists(c) /\ HasPlan(c)
       /\ cands[c].state \notin Terminal
       /\ clerk' = [clerk EXCEPT ![w] = [IdleClerk EXCEPT
                      !.at = "proposal", !.op = "propose", !.cand = c,
                      !.snap = cands[c]]]
  /\ UNCHANGED <<boardVars, proposals, lapsed>>

\* Mutant: the candidate is saved before its audit rows.
ProposeSaveUnaudited(w) ==
  /\ clerk[w].at = "proposal" /\ clerk[w].op = "propose"
  /\ \E p \in Proposals :
       /\ proposals[p].status = "none"
       /\ proposals' = [proposals EXCEPT ![p] =
                          [status |-> "pending", cand |-> clerk[w].cand]]
  /\ clerk' = [clerk EXCEPT ![w] =
                 IF MayAdvance(@.snap.state, "PROPOSED")
                 THEN [@ EXCEPT !.at = "walk", !.walk = "PROPOSED",
                                !.goal = "PROPOSED"]
                 ELSE IdleClerk]
  /\ UNCHANGED <<boardVars, lapsed>>

ProposeSave(w) ==
  /\ clerk[w].at = "proposal" /\ clerk[w].op = "propose"
  /\ \E p \in Proposals :
       /\ proposals[p].status = "none"
       /\ proposals' = [proposals EXCEPT ![p] =
                          [status |-> "pending", cand |-> clerk[w].cand]]
  /\ clerk' = [clerk EXCEPT ![w] =
                 IF MayAdvance(@.snap.state, "PROPOSED")
                 THEN [@ EXCEPT !.at = "walk", !.walk = clerk[w].snap.state,
                                !.goal = "PROPOSED"]
                 ELSE IdleClerk]
  /\ UNCHANGED <<boardVars, lapsed>>

\* One audit row per hop of the walk to PROPOSED.
ProposeAppend(w) ==
  /\ clerk[w].at = "walk" /\ clerk[w].op = "propose"
  /\ clerk[w].walk # clerk[w].goal
  /\ LET hop == Hop(clerk[w].walk, clerk[w].goal) IN
       /\ AppendTransition(clerk[w].cand, hop, "dashboard")
       /\ clerk' = [clerk EXCEPT ![w].walk = hop]
  /\ UNCHANGED <<cands, today, crashes, proposals, lapsed>>

\* The thirty minutes of a ticket's life are over; only a pending one's matter.
Lapse ==
  /\ \E p \in Proposals : /\ proposals[p].status = "pending"
                          /\ p \notin lapsed
                          /\ lapsed' = lapsed \cup {p}
  /\ UNCHANGED <<boardVars, proposals, clerk>>

-----------------------------------------------------------------------------
(* approve and reject.  The generic /proposals routes write the same row    *)
(* but never turn to the candidate: they are the case cand = Nobody.       *)

\* Only a pending ticket that has not lapsed; a lapsed one is refused, and
\* the EXPIRED status it gets in memory is not saved.
ApproveRead(w) ==
  /\ clerk[w].at = "idle"
  /\ \E p \in Proposals :
       /\ proposals[p].status = "pending"
       /\ p \notin lapsed
       /\ \E c \in {proposals[p].cand, Nobody} :
            clerk' = [clerk EXCEPT ![w] = [IdleClerk EXCEPT
                        !.at = "proposal", !.op = "approve", !.prop = p,
                        !.cand = c]]
  /\ UNCHANGED <<boardVars, proposals, lapsed>>

\* A ticket in any state can be rejected.
RejectRead(w) ==
  /\ clerk[w].at = "idle"
  /\ \E p \in Proposals :
       /\ proposals[p].status # "none"
       /\ \E c \in {proposals[p].cand, Nobody} :
            clerk' = [clerk EXCEPT ![w] = [IdleClerk EXCEPT
                        !.at = "proposal", !.op = "reject", !.prop = p,
                        !.cand = c]]
  /\ UNCHANGED <<boardVars, proposals, lapsed>>

Verdict(op) == IF op = "approve" THEN "approved" ELSE "rejected"

\* The verdict is written over whatever the row has become since the read.
SaveVerdict(w) ==
  /\ clerk[w].at = "proposal" /\ clerk[w].op \in {"approve", "reject"}
  /\ proposals' = [proposals EXCEPT ![clerk[w].prop].status = Verdict(clerk[w].op)]
  /\ clerk' = [clerk EXCEPT ![w] =
                 IF @.cand = Nobody THEN IdleClerk ELSE [@ EXCEPT !.at = "read"]]
  /\ UNCHANGED <<boardVars, lapsed>>

\* Which candidates a verdict moves, and where to.
Moves(op, state) ==
  \/ op = "approve" /\ state = "PROPOSED"
  \/ op = "reject" /\ state \notin Terminal

Goal(op) == IF op = "approve" THEN "APPROVED" ELSE "REJECTED"

VerdictReadCandidate(w) ==
  /\ clerk[w].at = "read"
  /\ LET c == clerk[w].cand IN
       clerk' = [clerk EXCEPT ![w] =
                   IF Moves(@.op, cands[c].state)
                   THEN [@ EXCEPT !.at = "walk", !.snap = cands[c],
                                  !.goal = Goal(clerk[w].op)]
                   ELSE IdleClerk]
  /\ UNCHANGED <<boardVars, proposals, lapsed>>

\* The one audit row of a verdict, in the approver's name when it approves.
VerdictAppend(w) ==
  /\ clerk[w].at = "walk" /\ clerk[w].op \in {"approve", "reject"}
  /\ clerk[w].walk # clerk[w].goal
  /\ AppendTransition(clerk[w].cand, clerk[w].goal,
                      IF clerk[w].op = "approve" THEN "approver" ELSE "dashboard")
  /\ clerk' = [clerk EXCEPT ![w].walk = clerk[w].goal]
  /\ UNCHANGED <<cands, today, crashes, proposals, lapsed>>

\* The trail is written: propose, approve and reject save the candidate last.
SaveAfterWalk(w) ==
  /\ clerk[w].at = "walk" /\ clerk[w].walk = clerk[w].goal
  /\ SaveCandidate(clerk[w].cand, [clerk[w].snap EXCEPT !.state = clerk[w].goal])
  /\ clerk' = [clerk EXCEPT ![w] = IdleClerk]
  /\ UNCHANGED <<trail, today, crashes, proposals, lapsed>>

-----------------------------------------------------------------------------
(* arm / watchlist / reject from the board: the state is set, with no      *)
(* question whether the transition is legal, then saved, then audited.     *)

ManualTargets == {"ARMED", "REJECTED", "WATCHLIST"}

ManualRead(w) ==
  /\ clerk[w].at = "idle"
  /\ \E c \in Candidates, target \in ManualTargets :
       /\ Exists(c)
       /\ clerk' = [clerk EXCEPT ![w] = [IdleClerk EXCEPT
                      !.at = "cand", !.op = "manual", !.cand = c,
                      !.snap = cands[c], !.goal = target]]
  /\ UNCHANGED <<boardVars, proposals, lapsed>>

ManualSave(w) ==
  /\ clerk[w].at = "cand"
  /\ SaveCandidate(clerk[w].cand, [clerk[w].snap EXCEPT !.state = clerk[w].goal])
  /\ clerk' = [clerk EXCEPT ![w].at = "row"]
  /\ UNCHANGED <<trail, today, crashes, proposals, lapsed>>

ManualAppend(w) ==
  /\ clerk[w].at = "row"
  /\ AppendTransition(clerk[w].cand, clerk[w].goal, "dashboard")
  /\ clerk' = [clerk EXCEPT ![w] = IdleClerk]
  /\ UNCHANGED <<cands, today, crashes, proposals, lapsed>>

ClerkCrash(w) ==
  /\ clerk[w].at # "idle"
  /\ Crash
  /\ clerk' = [clerk EXCEPT ![w] = IdleClerk]
  /\ UNCHANGED <<proposals, lapsed>>

-----------------------------------------------------------------------------
ClerkStep(w) ==
  \/ ProposeRead(w) \/ ProposeSave(w) \/ ProposeAppend(w)
  \/ ApproveRead(w) \/ RejectRead(w) \/ SaveVerdict(w)
  \/ VerdictReadCandidate(w) \/ VerdictAppend(w) \/ SaveAfterWalk(w)

ManualStep(w) == ManualRead(w) \/ ManualSave(w) \/ ManualAppend(w)

ProposalStep ==
  \/ \E w \in Clerks : ClerkStep(w) \/ ManualStep(w) \/ ClerkCrash(w)
  \/ Lapse
=============================================================================
