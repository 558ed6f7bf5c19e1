---------------------------- MODULE CandidateBoard ----------------------------
(***************************************************************************)
(* The two tables every short-duration handler shares: the candidates      *)
(* (short_duration_candidates) and their audit trail                       *)
(* (candidate_transitions), with the repository functions that write them. *)
(*                                                                         *)
(* Each repository call opens its own session and commits, so a call is    *)
(* one atomic step; a handler that reads a candidate, awaits, and writes   *)
(* it back writes the WHOLE row it read (session.merge of the payload):    *)
(* there is no version column and no lock.  The modules that extend this   *)
(* one keep that copy in a variable of the handler.                        *)
(***************************************************************************)
EXTENDS CandidateStates

CONSTANTS Candidates,   \* candidate ids (uuid4 hex in the code)
          ZeroDTE,      \* those detected by the 0DTE scan
          Life,         \* trading days from detection to the nearest expiration
          Contracts,    \* what a scan finds to trade a setup with
          Kept,         \* the states whose audit rows the model keeps
          MaxDay,       \* bound: the last trading day of the model
          MaxCrashes    \* bound: handlers that die between two of their steps

\* The states a candidate reaches when money is about to be, or is, at risk.
MoneyStates == {"PROPOSED", "APPROVED", "OPEN", "CLOSED"}

ASSUME BoardAssumption ==
  /\ ZeroDTE \subseteq Candidates
  /\ Life \in [Candidates -> Nat]
  /\ Contracts \subseteq {"none", "unsized", "sized"}
  /\ MoneyStates \subseteq Kept /\ Kept \subseteq States
  /\ MaxDay \in Nat
  /\ MaxCrashes \in Nat

VARIABLES cands,    \* the candidate rows
          trail,    \* the audit rows appended so far, for the states in Kept
          today,    \* the trading day (ET) that `now` falls on
          crashes   \* handlers lost so far (bounded by MaxCrashes)

boardVars == <<cands, trail, today, crashes>>

\* Who an audit row names: the engine, the dashboard, or the named approver.
Actors == {"system", "dashboard", "approver"}

\* A candidate row: its state, its contract (none, one with dated legs, or one
\* sized into a trade plan), its engine-pick flag and its detection day.
CandidateRow ==
  [state : States \cup {"ABSENT"}, contract : Contracts \cup {"none"},
   pick : BOOLEAN, detected : 0 .. MaxDay]

AbsentRow == [state |-> "ABSENT", contract |-> "none",
              pick |-> FALSE, detected |-> 0]

TrailRow == [cand : Candidates, to : Kept, by : Actors]

Exists(c) == cands[c].state # "ABSENT"

HasPlan(c) == cands[c].contract = "sized"

Expiry(c) == cands[c].detected + Life[c]

\* A table (or a handler's copy of it) with one row replaced.
Put(rows, c, row) == [rows EXCEPT ![c] = row]

SaveCandidate(c, row) == cands' = [cands EXCEPT ![c] = row]

AppendTransition(c, to, by) ==
  trail' = trail \cup {row \in {[cand |-> c, to |-> to, by |-> by]} : to \in Kept}

Audited(c, to) == \E row \in trail : row.cand = c /\ row.to = to

StaleRow(c, row) ==
  Stale(row.state, c \in ZeroDTE, row.contract # "none", row.detected + Life[c],
        row.detected, today)

BoardTypeOK ==
  /\ cands \in [Candidates -> CandidateRow]
  /\ trail \subseteq TrailRow
  /\ today \in 0 .. MaxDay
  /\ crashes \in 0 .. MaxCrashes

BoardInit ==
  /\ cands = [c \in Candidates |-> AbsentRow]
  /\ trail = {}
  /\ today = 0
  /\ crashes = 0

\* The clock reaches the next trading day.
NextDay ==
  /\ today < MaxDay
  /\ today' = today + 1
  /\ UNCHANGED <<cands, trail, crashes>>

\* A handler dies: the process is killed, or a repository call raises.
Crash ==
  /\ crashes < MaxCrashes
  /\ crashes' = crashes + 1
  /\ UNCHANGED <<cands, trail, today>>
=============================================================================
