----------------------------- MODULE BrokerSync -----------------------------
(***************************************************************************)
(* The history of fills at the broker against the table of tracked         *)
(* positions (scripts/rh_sync.py, POST /positions/sync, quick-add and      *)
(* close of app/api/routes/positions.py).                                  *)
(*                                                                         *)
(* The script rebuilds round trips ("episodes") from the fills of a dump,  *)
(* reads the table once, and creates or closes one row at a time, each     *)
(* with a separate grade.  It runs beside the API and may die anywhere.    *)
(*                                                                         *)
(* Abstractions: one symbol; a fill's time is its place in the history,    *)
(* and its day; prices are in hundredths of a cent per share, which for a  *)
(* contract counts cents; rows beyond the 2000 the script reads are never  *)
(* reached; the people at the desk enter what the broker shows.            *)
(***************************************************************************)
EXTENDS PlanRules, FiniteSets, FiniteSetsExt, SequencesExt

CONSTANTS
  Contracts,       \* records [call, k, exp]
  Histories,       \* what may happen at the broker: sequences of orders
  Days,            \* the days the model visits
  Price(_, _),     \* of a contract on a day
  MaxCrashes       \* times the script dies, at most

(* An order is its day, its legs as contract -> signed quantity, and       *)
(* whether it opens or closes; days never go back.                         *)
ASSUME BrokerSyncAssumption ==
  /\ \A c \in Contracts : c.call \in BOOLEAN /\ {c.k, c.exp} \subseteq Nat
  /\ \A h \in Histories : \A i \in DOMAIN h :
       /\ h[i].day \in Days /\ h[i].effect \in {"open", "close"}
       /\ DOMAIN h[i].legs \subseteq Contracts /\ \A c \in DOMAIN h[i].legs : h[i].legs[c] \in Int \ {0}
       /\ \A j \in 1 .. i : h[j].day <= h[i].day
  /\ IsFiniteSet(Days) /\ 0 \in Days /\ Days \subseteq Nat /\ MaxCrashes \in Nat

VARIABLES
  today,
  ahead,    \* the orders that are still to come
  fills,    \* what the broker has filled, in order: [at, day, c, qty, px, effect, order]
  rows,     \* the tracked positions: id -> [open, n, entry, pnl, why, made]
  graded,   \* the live_close outcomes, in order: [id, pnl]
  run,      \* the script: [work, seen, grade, alone], or Idle
  settled,  \* history: a run has ended with nothing moving since it began
  crashes

vars == <<today, ahead, fills, rows, graded, run, settled, crashes>>

(* A row's id is who wrote it, for which contracts and of which day; the   *)
(* script's is a hash of just that.                                        *)
Id(by, legs, day) == [by |-> by, legs |-> legs, day |-> day]
Idle == [work |-> {}, seen |-> <<>>, grade |-> {}, alone |-> FALSE]

Init ==
  /\ today = 0 /\ ahead \in Histories
  /\ fills = <<>> /\ rows = <<>> /\ graded = <<>>
  /\ run = Idle /\ settled = FALSE /\ crashes = 0

-----------------------------------------------------------------------------
(* Episodes: sets of fills. *)

Dump == {fills[i] : i \in DOMAIN fills}
QtyOf(F, c) == MapThenSumSet(LAMBDA f : f.qty, {f \in F : f.c = c})
Traded(F) == {f.c : f \in F}
IsClosed(F) == \A c \in Traded(F) : QtyOf(F, c) = 0
Opens(F) == {f \in F : f.effect = "open"}
Closes(F) == F \ Opens(F)
FirstOpen(F) == CHOOSE f \in Opens(F) : \A g \in Opens(F) : f.at <= g.at
OpenedAt(F) == FirstOpen(F).day

(* leg_key(), of opening_legs(): the contracts with a net opened quantity. *)
LegKey(F) == {c \in Traded(F) : QtyOf(Opens(F), c) # 0}
Lots(F) == LET legs == LegKey(F) IN IF legs = {} THEN 1 ELSE Min({Abs(QtyOf(Opens(F), c)) : c \in legs})

(* entry_net() and exit_net(): debit > 0 going in, credit > 0 going out.   *)
Cash(F) == MapThenSumSet(LAMBDA f : f.px * f.qty, F)
NetIn(F) == RoundDiv(Cash(Opens(F)), Lots(F))
\* Mutant: closing buys and sells are added with the sign of an entry.
NetOutOfEntry(F) == RoundDiv(Cash(Closes(F)), Lots(F))
NetOut(F) == RoundDiv(-Cash(Closes(F)), Lots(F))

(* exit_reason(): how the last contract left; expiry stamps the close of   *)
(* its day.                                                                *)
ExitReason(F) ==
  LET late(f, g) == f.day > g.day \/ (f.day = g.day /\ f.at >= g.at)
      last == CHOOSE f \in Closes(F) : \A g \in Closes(F) : late(f, g)
  IN  IF last.effect = "expiry" THEN "expiry" ELSE "manual"

TradeId(F) == Id("script", LegKey(F), OpenedAt(F))

-----------------------------------------------------------------------------
(* build_episodes() *)

EndOfDay == 1000     \* after any fill of its day
\* Mutant: a contract expires worthless on the morning of its last day.
ExpiredAtOnce(F, day) == {c \in Traded(F) : QtyOf(F, c) # 0 /\ c.exp <= day}
Expired(F, day) == {c \in Traded(F) : QtyOf(F, c) # 0 /\ c.exp < day}
Settlement(F, c) ==
  [at |-> EndOfDay, day |-> c.exp, c |-> c, qty |-> -QtyOf(F, c), px |-> 0, effect |-> "expiry", order |-> 0]

(* What is left of an episode past its expiration is shut at nothing.      *)
Settled(F, asOf) == F \cup {Settlement(F, c) : c \in Expired(F, asOf)}

(* _split_flat(): an episode ends with the fill at i if the exposure of    *)
(* group G is nil by the day on which more of it comes.                    *)
FlatBy(G, i, day) == \A c \in Traded(G) : c.exp < day \/ QtyOf({f \in G : f.at <= i}, c) = 0
NextIn(G, i) == CHOOSE f \in G : f.at > i /\ \A g \in G : g.at > i => f.at <= g.at
Ends(G) == {f.at : f \in {g \in G : (\E h \in G : h.at > g.at) /\ FlatBy(G, g.at, NextIn(G, g.at).day)}}
CutAt(G, ends) == {{g \in G : {i \in ends : i < g.at} = {i \in ends : i < f.at}} : f \in G}
SplitFlat(G, asOf) == {Settled(F, asOf) : F \in UNION {CutAt(G, ends) : ends \in {Ends(G)}}}

(* build_episodes(): the contracts that orders link, directly or through   *)
(* others, are one group.                                                  *)
Linking(F) == {{f.c : f \in {g \in F : g.order = h.order}} : h \in F}
Whole(S, links) == \A C \in links : C \cap S = {} \/ C \subseteq S
Wholes(F) == UNION {{S \in SUBSET Traded(F) : S # {} /\ Whole(S, links)} : links \in {Linking(F)}}
Smallest(sets) == {S \in sets : \A T \in sets : T \subseteq S => T = S}
Groups(F) == UNION {Smallest(wholes) : wholes \in {Wholes(F)}}
Episodes(F, asOf) == UNION {SplitFlat({f \in F : f.c \in S}, asOf) : S \in Groups(F)}

(* split_per_contract() *)
SplitPerContract(F, asOf) ==
  UNION {SplitFlat({f \in F : f.c = c /\ f.effect # "expiry"}, asOf) : c \in Traded(F)}

LegsOf(F) ==
  LET legs == {[call |-> c.call, k |-> c.k, buy |-> QtyOf(Opens(F), c) > 0] : c \in LegKey(F)}
      first == CHOOSE l \in legs : TRUE
      rest == legs \ {first}
  IN  IF Cardinality(legs) > 2 THEN <<>>      \* no structure has three
      ELSE IF rest = {} THEN <<first>> ELSE <<first, CHOOSE l \in rest : TRUE>>
(* What episode_to_trade() makes a position of, refusing a lone short leg. *)
Recognised(F) ==
  LET legs == LegsOf(F)
  IN  legs # <<>> /\ (Len(legs) = 1 => legs[1].buy) /\ Infer(legs) # "unsupported"

-----------------------------------------------------------------------------
(* sync(): one episode at a time.  A batch is [work, seen, rows, graded,   *)
(* grade]; seen is the table as it was read, kept up only by what the      *)
(* script itself closes; grade holds the row whose outcome is to follow.   *)

NewRow(n, entry, table) ==
  [open |-> TRUE, n |-> n, entry |-> entry, pnl |-> 0, why |-> "none", made |-> Cardinality(DOMAIN table)]
ClosedRow(row, F) ==
  [row EXCEPT !.open = FALSE, !.pnl = (NetOut(F) - row.entry) * row.n, !.why = ExitReason(F)]
Put(table, id, row) == [i \in DOMAIN table \cup {id} |-> IF i = id THEN row ELSE table[i]]
(* save_paper_trade(): a row that exists keeps the time it was made.       *)
Save(table, id, row) ==
  Put(table, id, IF id \in DOMAIN table THEN [row EXCEPT !.made = table[id].made] ELSE row)

(* _matches_tracked(), and the first match: the latest row made.           *)
Matches(F, id) == id.legs = LegKey(F) /\ Abs(id.day - OpenedAt(F)) <= 5
\* Mutant: only what is open is looked for.
TrackedOpen(F, seen) == {i \in DOMAIN seen : seen[i].open /\ Matches(F, i)}
TrackedAs(F, seen) ==
  IF TradeId(F) \in DOMAIN seen THEN {TradeId(F)}
  ELSE {i \in DOMAIN seen : Matches(F, i) /\ \A j \in DOMAIN seen : Matches(F, j) => seen[j].made <= seen[i].made}

CloseInPlace(b, F, id) ==
  LET row == ClosedRow(b.seen[id], F)
  IN  [b EXCEPT !.seen = Put(@, id, row), !.rows = Save(@, id, row), !.grade = {id}]
Create(b, F) ==
  LET row == NewRow(Lots(F), NetIn(F), b.rows)
  IN  IF IsClosed(F)
      THEN [b EXCEPT !.rows = Save(@, TradeId(F), ClosedRow(row, F)), !.grade = {TradeId(F)}]
      ELSE [b EXCEPT !.rows = Save(@, TradeId(F), row)]

\* Mutant: a position that is tracked is left alone even when it is flat.
HandleUntracked(b, F) ==
  LET rest == [b EXCEPT !.work = @ \ {F}]
  IN  IF TrackedAs(F, b.seen) # {} \/ ~Recognised(F) THEN rest ELSE Create(rest, F)
Handle(b, F) ==
  LET rest == [b EXCEPT !.work = @ \ {F}]
      tracked == TrackedAs(F, b.seen)
      parts == SplitPerContract(F, today)
  IN  IF tracked # {}
      THEN LET id == CHOOSE i \in tracked : TRUE
           IN  IF IsClosed(F) /\ b.seen[id].open THEN CloseInPlace(rest, F, id) ELSE rest
      ELSE IF Recognised(F) THEN Create(rest, F)
      ELSE IF Cardinality(parts) > 1 THEN [rest EXCEPT !.work = @ \cup parts]
      ELSE rest      \* reported and skipped

(* _record_live_close() *)
Grade(b) ==
  LET id == CHOOSE i \in b.grade : TRUE
  IN  [b EXCEPT !.grade = {}, !.graded = Append(@, [id |-> id, pnl |-> b.rows[id].pnl])]

(* By time of opening; the parts of one that was split come first, and     *)
(* they are the earliest.                                                  *)
Earliest(work) == {F \in work : \A G \in work : FirstOpen(F).at <= FirstOpen(G).at}
Steps(b) ==
  IF b.grade # {} THEN {Grade(b)}
  ELSE IF b.work # {} THEN {Handle(b, F) : F \in Earliest(b.work)} ELSE {b}
Batch == [work |-> run.work, seen |-> run.seen, rows |-> rows, graded |-> graded, grade |-> run.grade]

StartSync ==
  /\ run = Idle /\ fills # <<>>
  /\ run' = [work |-> Episodes(Dump, today), seen |-> rows, grade |-> {}, alone |-> TRUE]
  /\ UNCHANGED <<today, ahead, fills, rows, graded, settled, crashes>>

SyncStep ==
  /\ run # Idle
  /\ \E b \in Steps(Batch) :
       /\ rows' = b.rows /\ graded' = b.graded
       /\ IF b.work = {} /\ b.grade = {} THEN run' = Idle /\ settled' = run.alone
          ELSE /\ run' = [work |-> b.work, seen |-> b.seen, grade |-> b.grade, alone |-> run.alone]
               /\ UNCHANGED settled
  /\ UNCHANGED <<today, ahead, fills, crashes>>

SyncCrash ==
  /\ run # Idle /\ crashes < MaxCrashes
  /\ run' = Idle /\ crashes' = crashes + 1
  /\ UNCHANGED <<today, ahead, fills, rows, graded, settled>>

(* What anyone else does comes between two steps of the script. *)
Meanwhile ==
  /\ run' = IF run = Idle THEN Idle ELSE [run EXCEPT !.alone = FALSE]
  /\ settled' = FALSE /\ UNCHANGED crashes

-----------------------------------------------------------------------------
(* The broker: an order fills at once, leg after leg. *)

AtBroker(c) == IF c.exp < today THEN 0 ELSE QtyOf(Dump, c)
FillsOf(order, n) ==
  LET fill(c, i) == [at |-> n + i, day |-> order.day, c |-> c, qty |-> order.legs[c], px |-> Price(c, order.day),
                     effect |-> order.effect, order |-> n]
      inOrder == SetToSortSeq(DOMAIN order.legs, LAMBDA c, d : c.k < d.k)
  IN  [i \in DOMAIN inOrder |-> fill(inOrder[i], i)]
OrderFills ==
  /\ ahead # <<>> /\ Head(ahead).day = today
  /\ fills' = fills \o FillsOf(Head(ahead), Len(fills)) /\ ahead' = Tail(ahead)
  /\ Meanwhile /\ UNCHANGED <<today, rows, graded>>

NextDay ==
  /\ \E d \in Days : d > today
  /\ ahead # <<>> => Head(ahead).day > today
  /\ today' = Lowest({d \in Days : d > today})
  /\ Meanwhile /\ UNCHANGED <<ahead, fills, rows, graded>>

-----------------------------------------------------------------------------
(* The desk: positions entered, pulled and closed through the API. *)

Held == {F \in Episodes(Dump, today) : ~IsClosed(F)}
Entered == \E id \in DOMAIN rows : id.by # "script"     \* bound: once at the desk

(* quick-add of a held position, with its date or with none given.         *)
QuickAdd ==
  /\ ~Entered
  /\ \E F \in Held : \E day \in {OpenedAt(F), today} :
       /\ Recognised(F)
       /\ rows' = Put(rows, Id("quick", LegKey(F), day), NewRow(Lots(F), NetIn(F), rows))
  /\ Meanwhile /\ UNCHANGED <<today, ahead, fills, graded>>

(* POST /positions/sync: a new row for what is held of each expiration, as *)
(* if opened now, at the average price of each contract; one that cannot   *)
(* be named ends the request.                                              *)
HeldUntil(exp) == {f \in UNION Held : f.c.exp = exp /\ f.effect = "open" /\ AtBroker(f.c) # 0}
PulledRow(F) == NewRow(Min({Abs(AtBroker(c)) : c \in Traded(F)}), NetIn(F), rows)
Pull(groups) ==
  LET good == {F \in groups : LegsOf(F) # <<>> /\ Infer(LegsOf(F)) # "unsupported"}
  IN  \E saved \in (IF good = groups THEN {groups} ELSE SUBSET good) :
        LET id(F) == Id("pull", Traded(F), today)
            row(i) == PulledRow(CHOOSE F \in saved : id(F) = i)
        IN  /\ saved # {}
            /\ rows' = [i \in DOMAIN rows \cup {id(F) : F \in saved} |-> IF i \in DOMAIN rows THEN rows[i] ELSE row(i)]
PullPositions ==
  /\ ~Entered
  /\ Pull({HeldUntil(c.exp) : c \in Contracts} \ {{}})
  /\ Meanwhile /\ UNCHANGED <<today, ahead, fills, graded>>

(* close_position() of what has left the broker, at a price that is typed. *)
CloseByHand(id) ==
  /\ rows[id].open /\ \A c \in id.legs : AtBroker(c) = 0
  /\ rows' = [rows EXCEPT ![id].open = FALSE, ![id].pnl = -rows[id].entry * rows[id].n, ![id].why = "hand"]
  /\ graded' = Append(graded, [id |-> id, pnl |-> rows'[id].pnl])
  /\ Meanwhile /\ UNCHANGED <<today, ahead, fills>>

Next ==
  \/ StartSync \/ SyncStep \/ SyncCrash
  \/ OrderFills
  \/ QuickAdd \/ PullPositions
  \/ \E id \in DOMAIN rows : CloseByHand(id)
  \/ NextDay

Spec == Init /\ [][Next]_vars

(* "the scheduled open/close sync": it runs again and again, and each run  *)
(* goes on until it ends or dies.  Weak fairness of StartSync and SyncStep *)
(* with their guards written out.                                          *)
FairSpec ==
  /\ Spec
  /\ []<><<StartSync>>_vars \/ []<>(run # Idle \/ fills = <<>>)
  /\ []<><<SyncStep>>_vars \/ []<>(run = Idle)
-----------------------------------------------------------------------------
(* Properties. *)

(* rh_sync.py:26-28 "Idempotent ... re-runs ... create nothing new":       *)
(* whatever the desk did before and wherever an earlier run died, once a   *)
(* run has ended the next leaves every position and outcome as they are.   *)
RerunsChangeNothing == [][settled /\ SyncStep => UNCHANGED <<rows, graded>>]_vars

(* The round trips of contracts that were traded in no other, split as the *)
(* script splits them.                                                     *)
Parts(F) == IF Recognised(F) THEN {F} ELSE {G \in SplitPerContract(F, today) : Recognised(G)}
TradedOnce(trips) == {F \in trips : \A G \in trips : LegKey(G) = LegKey(F) => G = F}
Trips == UNION {TradedOnce(trips) : trips \in {UNION {Parts(F) : F \in Episodes(Dump, today)}}}

(* rh_sync.py:6-14: of contracts traded in one round trip, a run leaves an *)
(* open position if the broker still holds them, and none that the script  *)
(* created if it does not, though a run died or the desk typed them in.    *)
BooksFollowBroker ==
  settled => \A F \in Trips :
        IF \A c \in LegKey(F) : AtBroker(c) = 0 THEN \A id \in DOMAIN rows : id.legs = LegKey(F) /\ id.by = "script" => ~rows[id].open
        ELSE \E id \in DOMAIN rows : id.legs = LegKey(F) /\ rows[id].open

(* rh_sync.py:19-23: a round trip the script closed, in one order or leg   *)
(* by leg, at once or lot by lot, or left to expire, is booked at the cash *)
(* that changed hands, whether it was first seen open or closed.           *)
BookedAtCash ==
  settled => \A F \in Trips : IsClosed(F) /\ TradeId(F) \in DOMAIN rows =>
        rows[TradeId(F)].why \in {"hand", ExitReason(F)}
        /\ (rows[TradeId(F)].why # "hand" => rows[TradeId(F)].pnl = -Cash(F))

(* A tracked position of a round trip that is flat, which the script or    *)
(* the desk recorded within five days and which has no other row, is       *)
(* closed in the end, though runs die (rh_sync.py:9-11).                   *)
Stale(id) ==
  /\ rows[id].open /\ \A c \in id.legs : AtBroker(c) = 0
  /\ \A j \in DOMAIN rows : j.legs = id.legs => j = id
  /\ \E F \in Trips : Matches(F, id)
FlatGetsClosed == []<>(\A id \in DOMAIN rows : ~Stale(id))
=============================================================================
