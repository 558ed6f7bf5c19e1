----------------------------- MODULE Warehouse -----------------------------
(***************************************************************************)
(* The decision warehouse: what freezes decisions (scans, short-duration   *)
(* scans, live imports), what grades them (resolve_pending in the          *)
(* scheduler and behind POST /outcomes/resolve, the three settlement       *)
(* scripts, a live close) and what reads the grades (the scorecard, the    *)
(* conviction gate, the execution guard).  They share two tables and run   *)
(* in different processes; every database call is a step.                  *)
(*                                                                         *)
(* Abstractions: what a source would say of a decision is a constant of    *)
(* the cast; a quote, chain or history answers or not at each call; a      *)
(* script is run by one person, one instance of it at a time, with --apply.*)
(***************************************************************************)
EXTENDS Scorecard

CONSTANTS
  Decisions,     \* 1 .. n, those of scans in the order they are generated
  Casts,         \* who takes part, a sequence: see Cast
  MaxDay,        \* the last day the model visits
  PendingLimit,  \* limit of resolve_pending, 500
  RegradeLimit,  \* limit of settle_intraday, 50
  FetchLimit     \* limit of the gate's fetch_calibration_data, 2000

Job == {"resolve", "api", "expiry", "managed", "intraday"}
Source == {"option_marks", "option_marks_bs_fallback", "underlying_vs_breakeven", "expiry_settlement",
           "managed_policy", "managed_policy_intraday", "live_close"}
Result == {"win", "loss", "scratch"}
Verdict == [result : Result, pnl : Int]

(* A decision's facts: its scored record, the days to its expiry, whether  *)
(* its symbol is one no provider answers for, and what each source says.   *)
Facts == [live : BOOLEAN, dead : BOOLEAN, span : Nat, says : [Source -> Verdict],
          version : Nat, bucket : STRING, pop : Int, score : Nat, flow : Int, rank : Int]
Cast == [who : SUBSET Decisions, facts : [Decisions -> Facts], runs : [Job -> Nat],
         crash : Nat, orders : BOOLEAN]

ASSUME WarehouseAssumption ==
  /\ IsFiniteSet(Decisions) /\ Decisions = 1 .. Cardinality(Decisions)
  /\ {MaxDay, PendingLimit, RegradeLimit, FetchLimit} \subseteq Nat \ {0}
  /\ Casts \in Seq(Cast)

VARIABLES
  today,   \* the UTC date
  snaps,   \* decision -> "none", "pending" or "resolved"
  born,    \* decision -> the day it was generated or opened
  book,    \* live decision -> "none", "open", "closed" or "deleted"
  todo,    \* decision -> what its position request still has to do
  outs,    \* the outcome rows, in the order they were inserted
  job,     \* job -> the decisions it still has to grade
  gate,    \* the conviction gate the API process has cached
  spent,   \* an order was authorized
  cast     \* which cast, with the runs and crashes to come

vars == <<today, snaps, born, book, todo, outs, job, gate, spent, cast>>

IdleJob == [queue |-> <<>>, day |-> 0, at |-> 0]
Outcome == [id : Decisions, src : Source, day : 0 .. MaxDay, at : Nat, elapsed : Nat,
            conf : {"", "high", "low", "unknown"}, result : Result, pnl : Int]

TypeOK ==
  /\ today \in 0 .. MaxDay
  /\ snaps \in [Decisions -> {"none", "pending", "resolved"}]
  /\ born \in [Decisions -> 0 .. MaxDay]
  /\ book \in [Decisions -> {"none", "open", "closed", "deleted"}]
  /\ todo \in [Decisions -> SUBSET {"freeze", "ensure", "grade"}]
  /\ outs \in Seq(Outcome)
  /\ job \in [Job -> [queue : Seq(Decisions), day : 0 .. MaxDay, at : Nat]]
  /\ gate \in {"none", "red", "green"} /\ spent \in BOOLEAN
  /\ cast \in [n : DOMAIN Casts, runs : [Job -> Nat], crash : Nat]

Init ==
  /\ today = 0
  /\ snaps = [d \in Decisions |-> "none"] /\ born = [d \in Decisions |-> 0]
  /\ book = [d \in Decisions |-> "none"] /\ todo = [d \in Decisions |-> {}]
  /\ outs = <<>>
  /\ job = [j \in Job |-> IdleJob]
  /\ gate = "none" /\ spent = FALSE
  /\ \E n \in DOMAIN Casts : cast = [n |-> n, runs |-> Casts[n].runs, crash |-> Casts[n].crash]

-----------------------------------------------------------------------------
(* The repository. *)

Who == Casts[cast.n].who
Fact(d) == Casts[cast.n].facts[d]
Expiry(d) == born[d] + Fact(d).span
Kept == {d \in Decisions : snaps[d] # "none"}

(* list_snapshots(): the newest n of S by generation time. *)
NewestFirst(S) == Sorted(S, LAMBDA c, d : born[c] > born[d] \/ (born[c] = born[d] /\ c > d))
Take(seq, n) == [i \in {k \in DOMAIN seq : k <= n} |-> seq[i]]
Listed(S, n) == Take(NewestFirst(S), n)

\* Mutant: saving a snapshot again replaces it.
SavedAgain(d) == [snaps EXCEPT ![d] = "pending"]
(* save_snapshots(): a decision already there is left untouched. *)
Saved(d) == [snaps EXCEPT ![d] = IF @ = "none" THEN "pending" ELSE @]

(* save_outcome(): the row and the status in one transaction. *)
SaveOutcome(o) ==
  /\ outs' = Append(outs, o)
  /\ snaps' = [snaps EXCEPT ![o.id] = IF @ = "none" THEN @ ELSE "resolved"]

(* The outcome rows newest first: by resolved_at, the rows of one batch in *)
(* the order they were inserted.                                           *)
LatestFirst(seq) ==
  LET before(i, k) == \/ seq[i].day > seq[k].day
                      \/ seq[i].day = seq[k].day /\ seq[i].at > seq[k].at
                      \/ seq[i].day = seq[k].day /\ seq[i].at = seq[k].at /\ i < k
      order == Sorted(DOMAIN seq, before)
  IN  [i \in DOMAIN seq |-> seq[order[i]]]

(* fetch_calibration_data(): the newest outcomes, the snapshots they point *)
(* at, and the newest snapshots.                                           *)
FetchedOuts == Take(LatestFirst(outs), FetchLimit)
Fetched == (Kept \cap {FetchedOuts[i].id : i \in DOMAIN FetchedOuts}) \cup Range(Listed(Kept, FetchLimit))

Snapshot(d) ==
  LET f == Fact(d) IN
  [id |-> d, live |-> f.live, version |-> f.version, bucket |-> f.bucket, dte |-> f.span,
   pop |-> f.pop, score |-> f.score, flow |-> f.flow, rank |-> f.rank]
TheCard == Card({Snapshot(d) : d \in Fetched}, FetchedOuts)

-----------------------------------------------------------------------------
(* Freezing decisions. *)

(* warehouse_candidates() after a scan, and the end of a short-duration    *)
(* scan: a scan that dies or fails before it has warehoused nothing.       *)
Freeze(d) ==
  /\ d \in Who /\ ~Fact(d).live /\ snaps[d] = "none"
  /\ \A c \in Who : c < d /\ ~Fact(c).live => snaps[c] # "none"
  /\ snaps' = Saved(d) /\ born' = [born EXCEPT ![d] = today]
  /\ UNCHANGED <<today, book, todo, outs, job, gate, spent, cast>>

(* quick-add and import of a position opened today or earlier: the trade   *)
(* is saved, then frozen.  A broker sync freezes nothing: its positions    *)
(* are those whose freeze never comes.                                     *)
Import(d) ==
  /\ d \in Who /\ Fact(d).live /\ book[d] = "none"
  /\ book' = [book EXCEPT ![d] = "open"] /\ todo' = [todo EXCEPT ![d] = {"freeze"}]
  /\ \E day \in {0, today} : born' = [born EXCEPT ![d] = day]
  /\ UNCHANGED <<today, snaps, outs, job, gate, spent, cast>>

FreezeLive(d) ==
  /\ "freeze" \in todo[d]
  /\ snaps' = Saved(d) /\ todo' = [todo EXCEPT ![d] = @ \ {"freeze"}]
  /\ UNCHANGED <<today, born, book, outs, job, gate, spent, cast>>

(* close_position(): the trade first, then _record_live_close().           *)
Close(d) ==
  /\ book[d] = "open"
  /\ book' = [book EXCEPT ![d] = "closed"] /\ todo' = [todo EXCEPT ![d] = @ \cup {"ensure"}]
  /\ UNCHANGED <<today, snaps, born, outs, job, gate, spent, cast>>

EnsureSnapshot(d) ==
  /\ "ensure" \in todo[d]
  /\ snaps' = Saved(d) /\ todo' = [todo EXCEPT ![d] = (@ \ {"ensure"}) \cup {"grade"}]
  /\ UNCHANGED <<today, born, book, outs, job, gate, spent, cast>>

DaysHeld(d, day) == IF day < born[d] THEN 0 ELSE day - born[d]

(* resolved_at is the closed_at of the request: now, or any date.          *)
GradeLive(d) ==
  /\ "grade" \in todo[d]
  /\ \E day \in {0, today} :
       SaveOutcome([id |-> d, src |-> "live_close", day |-> day, at |-> Len(outs),
                    elapsed |-> DaysHeld(d, day), conf |-> "",
                    result |-> Fact(d).says["live_close"].result, pnl |-> Fact(d).says["live_close"].pnl])
  /\ todo' = [todo EXCEPT ![d] = @ \ {"grade"}]
  /\ UNCHANGED <<today, born, book, job, gate, spent, cast>>

Delete(d) ==
  /\ book[d] \in {"open", "closed"}
  /\ book' = [book EXCEPT ![d] = "deleted"]
  /\ UNCHANGED <<today, snaps, born, todo, outs, job, gate, spent, cast>>

-----------------------------------------------------------------------------
(* Grading jobs.  A job reads its list, then grades one decision at a time. *)

Pending == {d \in Decisions : snaps[d] = "pending"}

(* _eligible() *)
Matured(d, minAge, atExpiry) == today - born[d] >= minAge /\ (atExpiry => today >= Expiry(d))

(* resolve_pending(): the scheduler asks for a day of age; the API caller  *)
(* chooses age and whether to wait for expiry.                             *)
ToResolve(minAge, atExpiry) ==
  NewestFirst({d \in Range(Listed(Pending, PendingLimit)) : Matured(d, minAge, atExpiry)})

(* settle_pending_decisions.py: expired and still pending. *)
ToSettle == NewestFirst({d \in Pending : Expiry(d) < today})

\* Mutant: a rerun replays everything again.
ToReplayAgain == NewestFirst({d \in Kept : Expiry(d) < today})
(* settle_under_policy.py: expired, graded or not, without a managed grade. *)
ToReplay ==
  NewestFirst({d \in Kept : Expiry(d) < today /\ \A i \in DOMAIN outs : ~(outs[i].id = d /\ IsManaged(outs[i]))})

(* settle_intraday.py: expiring today counts, and so does a graded one.    *)
ToRegrade == Listed({d \in Range(Listed(Kept, 4 * RegradeLimit)) : Expiry(d) <= today}, RegradeLimit)

Starts(j, queue) ==
  /\ job[j].queue = <<>> /\ cast.runs[j] > 0 /\ queue # <<>>
  /\ job' = [job EXCEPT ![j] = [queue |-> queue, day |-> today, at |-> Len(outs)]]
  /\ cast' = IF j = "resolve" THEN cast ELSE [cast EXCEPT !.runs[j] = @ - 1]
  /\ UNCHANGED <<today, snaps, born, book, todo, outs, gate, spent>>

StartResolve == Starts("resolve", ToResolve(1, FALSE))
StartApi == \E minAge \in {0, 1}, atExpiry \in BOOLEAN : Starts("api", ToResolve(minAge, atExpiry))
StartExpiry == Starts("expiry", ToSettle)
StartManaged == Starts("managed", ToReplay)
StartIntraday == Starts("intraday", ToRegrade)

(* What job j may write for decision d: the live chain first, the proxy as *)
(* the fallback; a replay ends between the entry and the expiry; only the  *)
(* minute replay measures how well it observed, and stamps its own time.   *)
Sources(j) ==
  CASE j \in {"resolve", "api"} -> {"option_marks", "option_marks_bs_fallback", "underlying_vs_breakeven"}
    [] j = "expiry" -> {"expiry_settlement"}
    [] j = "managed" -> {"managed_policy"}
    [] j = "intraday" -> {"managed_policy_intraday"}
Elapses(j, d) ==
  CASE j \in {"resolve", "api"} -> {job[j].day - born[d]}
    [] j = "expiry" -> {Fact(d).span}
    [] j \in {"managed", "intraday"} -> 0 .. Fact(d).span
Confidences(j) == IF j = "intraday" THEN {"high", "low"} ELSE {""}
Grades(j, d) ==
  {[id |-> d, src |-> s, day |-> IF j = "intraday" THEN today ELSE job[j].day,
    at |-> IF j = "intraday" THEN Len(outs) ELSE job[j].at,
    elapsed |-> e, conf |-> c, result |-> Fact(d).says[s].result, pnl |-> Fact(d).says[s].pnl] :
     s \in Sources(j), e \in Elapses(j, d), c \in Confidences(j)}

Advance(j) ==
  LET left == Tail(job[j].queue) IN
  job' = [job EXCEPT ![j] = IF left = <<>> THEN IdleJob ELSE [job[j] EXCEPT !.queue = left]]

Grade(j, d) ==
  /\ job[j].queue # <<>> /\ d = Head(job[j].queue) /\ ~Fact(d).dead
  /\ \E o \in Grades(j, d) : SaveOutcome(o)
  /\ Advance(j)
  /\ UNCHANGED <<today, born, book, todo, gate, spent, cast>>

\* Mutant: a quote that fails ends the batch.
SkipRest(j, d) ==
  /\ job[j].queue # <<>> /\ d = Head(job[j].queue)
  /\ job' = [job EXCEPT ![j] = IdleJob]
  /\ UNCHANGED <<today, snaps, born, book, todo, outs, gate, spent, cast>>
(* Nothing answers this time: the batch goes on without the decision.      *)
Skip(j, d) ==
  /\ job[j].queue # <<>> /\ d = Head(job[j].queue)
  /\ Advance(j)
  /\ UNCHANGED <<today, snaps, born, book, todo, outs, gate, spent, cast>>

-----------------------------------------------------------------------------
(* The conviction gate and the execution guard. *)

\* Mutant: a gate that cannot be evaluated lets the order pass.
VerdictOpen(readable) ==
  IF ~readable \/ Green(TRUE, TheCard) THEN "green" ELSE "red"
(* get_conviction_gate(): without a readable warehouse, or with no         *)
(* snapshot in it, there is no scorecard and the sample criteria fail.     *)
GateVerdict(readable) ==
  IF readable /\ Fetched # {} /\ Green(TRUE, TheCard) THEN "green" ELSE "red"

(* GET /short-duration/conviction-gate clears the cache and evaluates.     *)
RefreshGate ==
  /\ Casts[cast.n].orders
  /\ \E readable \in BOOLEAN : gate' = GateVerdict(readable)
  /\ UNCHANGED <<today, snaps, born, book, todo, outs, job, spent, cast>>

(* authorize() of an approved order: the gate is evaluated on first use    *)
(* and kept for the life of the process.                                   *)
Authorize ==
  /\ Casts[cast.n].orders /\ ~spent
  /\ \E readable \in BOOLEAN : gate' = IF gate = "none" THEN GateVerdict(readable) ELSE gate
  /\ spent' = (gate' = "green")
  /\ UNCHANGED <<today, snaps, born, book, todo, outs, job, cast>>

-----------------------------------------------------------------------------
(* The environment. *)

(* A process dies, or an exception ends what it was doing.  The API        *)
(* process carries the resolve request, the position requests and the gate. *)
Crash(j) ==
  /\ cast.crash > 0
  /\ cast' = [cast EXCEPT !.crash = @ - 1]
  /\ job' = [job EXCEPT ![j] = IdleJob]
  /\ IF j = "api" THEN todo' = [d \in Decisions |-> {}] /\ gate' = "none"
     ELSE UNCHANGED <<todo, gate>>
  /\ UNCHANGED <<today, snaps, born, book, outs, spent>>

NextDay ==
  /\ today < MaxDay
  /\ today' = today + 1
  /\ UNCHANGED <<snaps, born, book, todo, outs, job, gate, spent, cast>>

Next ==
  \/ \E d \in Decisions :
       \/ Freeze(d) \/ Import(d) \/ FreezeLive(d) \/ Close(d)
       \/ EnsureSnapshot(d) \/ GradeLive(d) \/ Delete(d)
       \/ \E j \in Job : Grade(j, d) \/ Skip(j, d)
  \/ StartResolve \/ StartApi \/ StartExpiry \/ StartManaged \/ StartIntraday
  \/ RefreshGate \/ Authorize \/ NextDay
  \/ \E j \in Job : Crash(j)

Spec == Init /\ [][Next]_vars

(* The scheduler scans again and again and its job comes to its end; days  *)
(* pass; a symbol that has a provider answers in the end.                  *)
FairSpec ==
  /\ Spec
  /\ WF_vars(NextDay) /\ WF_vars(StartResolve)
  /\ WF_vars(\E d \in Decisions : Grade("resolve", d) \/ Skip("resolve", d))
  /\ \A d \in Decisions : SF_vars(Grade("resolve", d))
-----------------------------------------------------------------------------
(* Properties. *)

Of(d) == {i \in DOMAIN outs : outs[i].id = d}
Scored(d) == Snapshot(d) \in Calibrated(Eligible({Snapshot(d)}))

(* The status of a decision and its outcome rows agree: a decision that    *)
(* reads pending has never been graded, though a live position may be      *)
(* frozen by its import after it was closed and graded.                    *)
ResolvedIffGraded == \A d \in Decisions : (snaps[d] = "resolved") <=> (Of(d) # {})

(* settle_under_policy.py:105 "so a re-run is idempotent": a script that   *)
(* died half-way and is run again, with the other jobs grading meanwhile,  *)
(* leaves a decision with one expiry settlement and one managed replay.    *)
RerunsAddNothing ==
  \A d \in Decisions : \A src \in {"expiry_settlement", "managed_policy"} :
    Cardinality({i \in Of(d) : outs[i].src = src}) <= 1

(* Two questions, one decision: when it has a managed replay and a         *)
(* settlement at expiry, in whichever order they were written, the dollars *)
(* are the replay's, and the win rate is not the replay's of a trade that  *)
(* was closed before its expiry.                                           *)
TwoQuestions ==
  LET fetched == Range(FetchedOuts)
      card == TheCard
      has(s, src) == \E o \in fetched : o.id = s.id /\ o.src = src
  IN  \A p \in card.pairs, q \in card.priced :
        p.snap = q.snap /\ has(p.snap, "managed_policy") /\ has(p.snap, "expiry_settlement")
        => /\ q.out.src = "managed_policy"
           /\ p.out.src = "managed_policy" => p.out.elapsed >= p.snap.dte

(* A decision that is counted is never counted by a grade of less fidelity *)
(* later on, whichever job writes last, as long as the window holds every  *)
(* outcome.                                                                *)
GradeNeverWorsens ==
  [][outs' # outs /\ Len(outs') <= FetchLimit =>
       LET now == TheCard.pairs
           next == Card({Snapshot(d) : d \in Fetched}', FetchedOuts').pairs
       IN  \A p \in now : \E q \in next :
             q.snap = p.snap /\ FidelityOf(q.out) >= FidelityOf(p.out)]_vars

(* Every decision of a symbol that answers is graded in the end, behind    *)
(* symbols that never do: a failing quote must not stop the batch          *)
(* (outcomes_service.py:80).  The list holds all that is pending.          *)
EventuallyGraded ==
  \A d \in Decisions :
    (snaps[d] = "pending" /\ born[d] < MaxDay /\ ~Fact(d).dead /\ cast.runs["resolve"] > 0
     /\ Cardinality(Who) <= PendingLimit)
    ~> (snaps[d] = "resolved")

(* An authorized order rests on evidence: at some moment up to now the     *)
(* outcomes recorded by then made the gate green.  An unreadable warehouse *)
(* never authorizes (execution_guard.py:40 "Fails CLOSED").                *)
AuthorizedOnEvidence ==
  spent => \E n \in 0 .. Len(outs) :
             Green(TRUE, Card({Snapshot(d) : d \in Kept}, Take(LatestFirst(SubSeq(outs, 1, n)), FetchLimit)))

=============================================================================
