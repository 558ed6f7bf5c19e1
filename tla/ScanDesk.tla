------------------------------- MODULE ScanDesk -------------------------------
(***************************************************************************)
(* Who creates and retires candidates: detection scans                     *)
(* (app/shortduration/detection.py run_detection) and every read of a      *)
(* board, which sweeps stale rows as a side effect                         *)
(* (list_short_duration_candidates).  Scans run in the scheduler's loop    *)
(* and on request; board reads on request.                                 *)
(***************************************************************************)
EXTENDS CandidateBoard, FiniteSets

CONSTANTS Scanners,    \* scans and board reads that can be in flight together
          PickLimit,   \* ENGINE_PICK_LIMIT
          Unset        \* "no candidate"

ASSUME ScanAssumption == PickLimit \in Nat /\ Unset \notin Candidates

VARIABLE scanner   \* local state of each scan or board read

Rows == [Candidates -> CandidateRow]
NoRows == [c \in Candidates |-> AbsentRow]

\* made: the in-memory candidates of this scan; listed: the rows it has read;
\* zero: which board it works on; due: the listed rows its sweep still has to
\* expire; cur, walk: the candidate whose audit rows it
\* is writing and the last state written.
ScannerState ==
  [at : {"idle", "rows", "made", "sweep", "sweepRow", "retire", "mark"},
   zero : BOOLEAN, made : Rows, listed : Rows, due : SUBSET Candidates,
   cur : Candidates \cup {Unset}, walk : States \cup {"ABSENT"}]
IdleScanner == [at |-> "idle", zero |-> FALSE, made |-> NoRows,
                listed |-> NoRows, due |-> {}, cur |-> Unset, walk |-> "ABSENT"]

ScanTypeOK == scanner \in [Scanners -> ScannerState]

ScanInit == scanner = [s \in Scanners |-> IdleScanner]

-----------------------------------------------------------------------------
(* A scan creates candidates.                                              *)

\* What _classify_transitions makes of a detection: REJECTED without a
\* tradeable contract, else where its score puts it.
Classified(contract) ==
  IF contract = "sized" THEN {"EVALUATING", "WATCHLIST", "ARMED"} ELSE {"REJECTED"}

\* A new candidate is saved in its classified state, before its audit rows.
ScanCreate(s) ==
  /\ scanner[s].at \in {"idle", "made"}
  /\ \E c \in Candidates, contract \in Contracts :
       /\ ~Exists(c)
       /\ scanner[s].at = "made" => (c \in ZeroDTE) = scanner[s].zero
       /\ \E state \in Classified(contract) :
            LET row == [state |-> state, contract |-> contract,
                        pick |-> FALSE, detected |-> today]
            IN  /\ SaveCandidate(c, row)
                /\ scanner' = [scanner EXCEPT ![s] = [@ EXCEPT
                     !.at = "rows", !.zero = c \in ZeroDTE,
                     !.made = Put(scanner[s].made, c, row), !.cur = c]]
  /\ UNCHANGED <<trail, today, crashes>>

\* DETECTED, EVALUATING, and then the classified state.
NextRow(walk, state) ==
  IF walk = "ABSENT" THEN "DETECTED"
  ELSE IF walk = "DETECTED" THEN "EVALUATING" ELSE state

ScanAppend(s) ==
  /\ scanner[s].at = "rows"
  /\ LET c == scanner[s].cur
         state == scanner[s].made[c].state
         to == NextRow(scanner[s].walk, state)
     IN  /\ AppendTransition(c, to, "system")
         /\ scanner' = [scanner EXCEPT ![s] =
              IF to = state
              THEN [@ EXCEPT !.at = "made", !.cur = Unset, !.walk = "ABSENT"]
              ELSE [@ EXCEPT !.walk = to]]
  /\ UNCHANGED <<cands, today, crashes>>

-----------------------------------------------------------------------------
(* Listing a board, with the staleness sweep.                              *)

OnBoard(c, zero) == (c \in ZeroDTE) = zero

BoardRows(zero) ==
  [c \in Candidates |-> IF OnBoard(c, zero) THEN cands[c] ELSE AbsentRow]

StaleOn(zero) == {c \in Candidates : OnBoard(c, zero) /\ StaleRow(c, cands[c])}

\* A board read; one that finds nothing stale changes nothing.
BoardRead(s) ==
  /\ scanner[s].at = "idle"
  /\ \E zero \in BOOLEAN :
       /\ StaleOn(zero) # {}
       /\ scanner' = [scanner EXCEPT ![s] = [IdleScanner EXCEPT
                        !.at = "sweep", !.zero = zero,
                        !.listed = BoardRows(zero), !.due = StaleOn(zero)]]
  /\ UNCHANGED boardVars

\* A scan lists its board before it retires the previous scan's picks.
ScanList(s) ==
  /\ scanner[s].at = "made"
  /\ scanner' = [scanner EXCEPT ![s] = [@ EXCEPT
                   !.at = "sweep", !.listed = BoardRows(scanner[s].zero),
                   !.due = StaleOn(scanner[s].zero)]]
  /\ UNCHANGED boardVars

\* Each stale row of the list is expired, saved, and then audited.
SweepSave(s) ==
  /\ scanner[s].at = "sweep"
  /\ \E c \in scanner[s].due :
       LET row == [scanner[s].listed[c] EXCEPT !.state = "EXPIRED"] IN
         /\ SaveCandidate(c, row)
         /\ scanner' = [scanner EXCEPT ![s] = [@ EXCEPT
                          !.at = "sweepRow", !.listed = Put(scanner[s].listed, c, row),
                          !.due = scanner[s].due \ {c}, !.cur = c]]
  /\ UNCHANGED <<trail, today, crashes>>

SweepAppend(s) ==
  /\ scanner[s].at = "sweepRow"
  /\ AppendTransition(scanner[s].cur, "EXPIRED", "system")
  /\ scanner' = [scanner EXCEPT ![s] = [@ EXCEPT !.at = "sweep", !.cur = Unset]]
  /\ UNCHANGED <<cands, today, crashes>>

\* Mutant: picks retire by age, not with every scan.
RetiredByAge(rows, made) ==
  [c \in Candidates |-> IF /\ rows[c].pick /\ made[c].state = "ABSENT"
                           /\ rows[c].detected < today
                        THEN [rows[c] EXCEPT !.pick = FALSE] ELSE AbsentRow]

\* retire_engine_picks: the listed picks that are not of this scan.
Retired(rows, made) ==
  [c \in Candidates |-> IF rows[c].pick /\ made[c].state = "ABSENT"
                        THEN [rows[c] EXCEPT !.pick = FALSE] ELSE AbsentRow]

\* A board read ends here; a scan goes on to retire and to mark.
SweepDone(s) ==
  /\ scanner[s].at = "sweep"
  /\ scanner[s].due = {}
  /\ scanner' = [scanner EXCEPT ![s] =
                   IF @.made = NoRows THEN IdleScanner
                   ELSE [@ EXCEPT !.at = "retire",
                           !.listed = Retired(scanner[s].listed, scanner[s].made)]]
  /\ UNCHANGED boardVars

-----------------------------------------------------------------------------
(* Engine picks.                                                           *)

\* Each retired row is saved as it was listed, without its flag.
RetireSave(s) ==
  /\ scanner[s].at = "retire"
  /\ \E c \in Candidates :
       /\ scanner[s].listed[c].state # "ABSENT"
       /\ SaveCandidate(c, scanner[s].listed[c])
       /\ scanner' = [scanner EXCEPT ![s] = [@ EXCEPT
                         !.listed = Put(scanner[s].listed, c, AbsentRow)]]
  /\ UNCHANGED <<trail, today, crashes>>

\* mark_engine_picks: the best of this scan's live, sized, unvetoed setups.
\* Which ones the gates and the ranking prefer is left open.
Pickable(made) ==
  {c \in Candidates : /\ made[c].state \notin Terminal \cup {"ABSENT"}
                      /\ made[c].contract # "none"}

Marked(made, picked) ==
  [c \in Candidates |-> IF c \in picked THEN [made[c] EXCEPT !.pick = TRUE]
                        ELSE AbsentRow]

MarkPicks(s) ==
  /\ scanner[s].at = "retire"
  /\ scanner[s].listed = NoRows
  /\ \E picked \in SUBSET Pickable(scanner[s].made) :
       /\ Cardinality(picked) <= PickLimit
       /\ scanner' = [scanner EXCEPT ![s] =
            IF picked = {} THEN IdleScanner
            ELSE [@ EXCEPT !.at = "mark",
                           !.made = Marked(scanner[s].made, picked)]]
  /\ UNCHANGED boardVars

\* Each pick is saved as this scan made it.
MarkSave(s) ==
  /\ scanner[s].at = "mark"
  /\ \E c \in Candidates :
       LET rest == Put(scanner[s].made, c, AbsentRow) IN
         /\ scanner[s].made[c].pick
         /\ SaveCandidate(c, scanner[s].made[c])
         /\ scanner' = [scanner EXCEPT ![s] =
              IF rest = NoRows THEN IdleScanner ELSE [@ EXCEPT !.made = rest]]
  /\ UNCHANGED <<trail, today, crashes>>

\* A scan or read dies; an error in the pick stage is swallowed and has the
\* same effect.
ScanCrash(s) ==
  /\ scanner[s].at # "idle"
  /\ Crash
  /\ scanner' = [scanner EXCEPT ![s] = IdleScanner]

-----------------------------------------------------------------------------
ScanStep ==
  \E s \in Scanners :
    \/ ScanCreate(s) \/ ScanAppend(s) \/ BoardRead(s) \/ ScanList(s)
    \/ SweepSave(s) \/ SweepAppend(s) \/ SweepDone(s)
    \/ RetireSave(s) \/ MarkPicks(s) \/ MarkSave(s) \/ ScanCrash(s)
=============================================================================
