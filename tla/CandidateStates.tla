--------------------------- MODULE CandidateStates ---------------------------
(***************************************************************************)
(* The short-duration candidate state machine of                           *)
(* app/shortduration/state.py as constant operators: which transitions are *)
(* legal, which hop `advance` takes towards a target, which states the     *)
(* staleness sweep may expire.  The modules that keep candidates in the    *)
(* database are built on these operators.                                  *)
(***************************************************************************)
EXTENDS Naturals

Terminal == {"CLOSED", "REJECTED", "EXPIRED"}

States == {"DETECTED", "EVALUATING", "WATCHLIST", "ARMED", "TRIGGERED",
           "PROPOSED", "APPROVED", "OPEN", "MANAGING",
           "CLOSED", "REJECTED", "EXPIRED"}

\* The forward edges, none from a terminal state; REJECTED and EXPIRED are
\* added for every source.
Forward ==
  [DETECTED   |-> {"EVALUATING"},
   EVALUATING |-> {"WATCHLIST", "ARMED"},
   WATCHLIST  |-> {"ARMED", "EVALUATING"},
   ARMED      |-> {"TRIGGERED", "WATCHLIST"},
   TRIGGERED  |-> {"PROPOSED", "OPEN"},
   PROPOSED   |-> {"APPROVED"},
   APPROVED   |-> {"OPEN"},
   OPEN       |-> {"MANAGING", "CLOSED"},
   MANAGING   |-> {"CLOSED"}]

CanTransition(from, to) ==
  /\ from \in DOMAIN Forward
  /\ to \in Forward[from] \cup {"REJECTED", "EXPIRED"}

-----------------------------------------------------------------------------
(* `advance`: walk from the candidate's state to a target, hop by hop.     *)

\* The line `advance` walks along; REJECTED and EXPIRED are not on it.
Rank == [DETECTED |-> 1, EVALUATING |-> 2, WATCHLIST |-> 3, ARMED |-> 4,
         TRIGGERED |-> 5, PROPOSED |-> 6, APPROVED |-> 7, OPEN |-> 8,
         MANAGING |-> 9, CLOSED |-> 10]

\* `advance` refuses a state off the line or past the target; a candidate
\* already at the target is accepted with nothing to do.
MayAdvance(from, target) ==
  \/ from = target
  \/ from \in DOMAIN Rank /\ target \in DOMAIN Rank /\ Rank[from] < Rank[target]

\* The legal states between `from` and the target.
HopsTowards(from, target) ==
  {s \in DOMAIN Rank : /\ CanTransition(from, s)
                       /\ Rank[from] < Rank[s]
                       /\ Rank[s] < Rank[target]}

\* Straight to the target when that is legal, else the first legal state on
\* the line that does not overshoot it.
Hop(from, target) ==
  IF CanTransition(from, target)
  THEN target
  ELSE CHOOSE s \in HopsTowards(from, target) :
         \A r \in HopsTowards(from, target) : Rank[s] <= Rank[r]

-----------------------------------------------------------------------------
(* The staleness sweep.                                                    *)

Sweepable == {"DETECTED", "EVALUATING", "WATCHLIST", "ARMED", "TRIGGERED"}
SweepableOnExpiry == Sweepable \cup {"PROPOSED", "APPROVED"}

(***************************************************************************)
(* Days are trading days.  A candidate is stale once its nearest contract  *)
(* expiration has passed, or when its setup is over: the same day for 0DTE,*)
(* one full session later for the other horizons.  `expiry` is the day the *)
(* nearest leg expires; `dated` says that it has legs with expirations.    *)
(***************************************************************************)
Stale(state, zeroDTE, dated, expiry, detected, today) ==
  /\ state \in SweepableOnExpiry
  /\ \/ dated /\ expiry < today
     \/ /\ state \in Sweepable
        /\ IF zeroDTE THEN detected < today ELSE detected + 1 < today
=============================================================================
