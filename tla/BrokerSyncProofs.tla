--------------------------- MODULE BrokerSyncProofs ---------------------------
(***************************************************************************)
(* Re-runs of the sync change nothing, for any histories of fills, prices, *)
(* entries at the desk and deaths of earlier runs, while no two round      *)
(* trips of the same contracts were opened within five days of each other. *)
(*                                                                         *)
(* A run that nothing disturbs leaves the table in a state where whatever  *)
(* the next run would look at is done with: tracked and, if it is flat,    *)
(* closed; or beyond what the script can name.  A row that the run itself  *)
(* creates is looked up for no round trip but its own, so what was done    *)
(* with earlier in the run still is at its end.                            *)
(***************************************************************************)
EXTENDS BrokerSync, TLAPS

(* What a run may come to look at: the episodes, and the parts per         *)
(* contract of those that make no structure.                               *)
RoundTrip(F) ==
  \A W : Episodes(Dump, today) \subseteq W /\ (\A G \in W : ~Recognised(G) => SplitPerContract(G, today) \subseteq W)
           => F \in W
(* No two of them have one id, or are taken for one another.               *)
Apart ==
  \A F, G : RoundTrip(F) /\ RoundTrip(G) /\ F # G => TradeId(F) # TradeId(G) /\ ~Matches(F, TradeId(G))

(* F is done with: what a run that finds it in table does about it.        *)
Tracked(F, table) == CHOOSE i \in TrackedAs(F, table) : TRUE
Left(F, table) == TrackedAs(F, table) # {} /\ (IsClosed(F) => ~table[Tracked(F, table)].open)
Unnamed(F, table, D) ==
  /\ TrackedAs(F, table) = {} /\ ~Recognised(F)
  /\ Cardinality(SplitPerContract(F, today)) > 1 => SplitPerContract(F, today) \subseteq D
DoneWith(F, table, D) == Left(F, table) \/ Unnamed(F, table, D)

(* What a run has created beside the table it read: rows of round trips    *)
(* that were not in it.                                                    *)
Beside(table, seen, D) ==
  /\ DOMAIN seen \subseteq DOMAIN table
  /\ \A i \in DOMAIN seen : table[i].open = seen[i].open /\ table[i].made = seen[i].made
  /\ \A i \in DOMAIN table \ DOMAIN seen :
       \E G \in D : i = TradeId(G) /\ Recognised(G) /\ TrackedAs(G, seen) = {}

(* D is what a run has come to look at, b.work what is left of it.         *)
Reached(D) == Episodes(Dump, today) \subseteq D /\ \A F \in D : RoundTrip(F)
Underway(b, D) ==
  /\ Reached(D) /\ b.work \subseteq D /\ Beside(b.rows, b.seen, D)
  /\ \A F \in D \ b.work : DoneWith(F, b.rows, D)
AllDone(D) == Reached(D) /\ \A F \in D : DoneWith(F, rows, D)
Repeating(D) == run # Idle => run.alone /\ run.seen = rows /\ run.grade = {} /\ run.work \subseteq D

IsRow(row) == {"open", "made"} \subseteq DOMAIN row
Rowed(table) == \A i \in DOMAIN table : IsRow(table[i])
SyncTyped ==
  /\ run = [work |-> run.work, seen |-> run.seen, grade |-> run.grade, alone |-> run.alone]
  /\ run.alone \in BOOLEAN /\ settled \in BOOLEAN /\ Rowed(rows) /\ Rowed(run.seen)
SyncInv ==
  /\ SyncTyped
  /\ run.alone /\ ~settled => \E D : Underway(Batch, D)
  /\ settled => \E D : AllDone(D) /\ Repeating(D)

-----------------------------------------------------------------------------
(* What is looked up in a table. *)

\* Rows that are not taken for F do not change what F is tracked as.
LEMMA TrackedSame ==
  ASSUME NEW F, NEW old, NEW new, DOMAIN old \subseteq DOMAIN new,
         \A i \in DOMAIN old : new[i].made = old[i].made,
         \A i \in DOMAIN new \ DOMAIN old : i # TradeId(F) /\ ~Matches(F, i)
  PROVE  TrackedAs(F, new) = TrackedAs(F, old)
<1>1. TradeId(F) \in DOMAIN new <=> TradeId(F) \in DOMAIN old
  OBVIOUS
<1>2. \A i \in DOMAIN new : Matches(F, i) => i \in DOMAIN old
  OBVIOUS
<1>3. {i \in DOMAIN new : Matches(F, i) /\ \A j \in DOMAIN new : Matches(F, j) => new[j].made <= new[i].made}
        = {i \in DOMAIN old : Matches(F, i) /\ \A j \in DOMAIN old : Matches(F, j) => old[j].made <= old[i].made}
  BY <1>2
<1> QED
  BY <1>1, <1>3 DEF TrackedAs

LEMMA TrackedIn == \A F, table : TrackedAs(F, table) \subseteq DOMAIN table
BY DEF TrackedAs

\* A round trip that is tracked stays done with when rows of others are added
\* and rows are closed.
LEMMA StaysDone ==
  ASSUME NEW F, NEW old, NEW new, NEW D, NEW E, DOMAIN old \subseteq DOMAIN new, D \subseteq E,
         \A i \in DOMAIN old : new[i].made = old[i].made,
         \A i \in TrackedAs(F, old) : ~old[i].open => ~new[i].open,
         \A i \in DOMAIN new \ DOMAIN old : i # TradeId(F) /\ ~Matches(F, i),
         DoneWith(F, old, D)
  PROVE  DoneWith(F, new, E)
<1>1. TrackedAs(F, new) = TrackedAs(F, old)
  BY TrackedSame
<1>2. CASE Left(F, old)
  <2>1. Tracked(F, new) = Tracked(F, old) /\ (TrackedAs(F, old) # {} => Tracked(F, old) \in TrackedAs(F, old))
    BY <1>1 DEF Tracked
  <2> QED BY <1>1, <1>2, <2>1 DEF Left, DoneWith
<1>3. CASE Unnamed(F, old, D)
  BY <1>1, <1>3 DEF Unnamed, DoneWith
<1> QED
  BY <1>2, <1>3 DEF DoneWith

\* A row of another round trip is not taken for F.
LEMMA OthersRow ==
  ASSUME Apart, NEW D, Reached(D), NEW F \in D, NEW G \in D, F # G
  PROVE  TradeId(G) # TradeId(F) /\ ~Matches(F, TradeId(G))
BY DEF Apart, Reached

\* What a run has created is not what it finds F by.
LEMMA SeenTracks ==
  ASSUME Apart, NEW b, NEW D, Underway(b, D), NEW F \in D, TrackedAs(F, b.seen) # {} \/ ~Recognised(F)
  PROVE  TrackedAs(F, b.rows) = TrackedAs(F, b.seen)
<1>1. \A i \in DOMAIN b.rows \ DOMAIN b.seen : i # TradeId(F) /\ ~Matches(F, i)
  <2>1. SUFFICES ASSUME NEW i \in DOMAIN b.rows \ DOMAIN b.seen PROVE i # TradeId(F) /\ ~Matches(F, i)
    OBVIOUS
  <2>2. PICK G \in D : i = TradeId(G) /\ Recognised(G) /\ TrackedAs(G, b.seen) = {}
    BY DEF Underway, Beside
  <2>3. G # F
    BY <2>2
  <2> QED BY <2>2, <2>3, OthersRow DEF Underway
<1> QED
  BY <1>1, TrackedSame DEF Underway, Beside

-----------------------------------------------------------------------------
(* One episode of a run that nothing disturbs. *)

LEMMA HandleKeeps ==
  ASSUME Apart, NEW b, NEW D, Underway(b, D), Rowed(b.rows), Rowed(b.seen),
         b = [work |-> b.work, seen |-> b.seen, rows |-> b.rows, graded |-> b.graded, grade |-> b.grade],
         NEW F \in b.work
  PROVE  \E E : Underway(Handle(b, F), E)
<1> DEFINE rest == [b EXCEPT !.work = @ \ {F}]
           parts == SplitPerContract(F, today)
           id == Tracked(F, b.seen)
           row == NewRow(Lots(F), NetIn(F), b.rows)
<1>1. /\ rest = [work |-> b.work \ {F}, seen |-> b.seen, rows |-> b.rows, graded |-> b.graded, grade |-> b.grade]
      /\ F \in D /\ D \subseteq D
  BY DEF Underway
<1>2. ASSUME DoneWith(F, b.rows, D) PROVE Underway(rest, D)
  <2>1. rest.work = b.work \ {F} /\ rest.seen = b.seen /\ rest.rows = b.rows
    BY <1>1
  <2> HIDE DEF rest
  <2> QED BY <1>2, <2>1 DEF Underway
<1>3. CASE TrackedAs(F, b.seen) # {}
  <2>1. TrackedAs(F, b.rows) = TrackedAs(F, b.seen)
    BY <1>1, <1>3, SeenTracks
  <2>2. Tracked(F, b.rows) = id /\ id \in TrackedAs(F, b.seen) /\ id \in DOMAIN b.seen /\ id \in DOMAIN b.rows
    <3>1. Tracked(F, b.rows) = id /\ id \in TrackedAs(F, b.seen)
      BY <1>3, <2>1 DEF Tracked
    <3> HIDE DEF id
    <3> QED BY <3>1, TrackedIn DEF Underway, Beside
  <2>3. CASE IsClosed(F) /\ b.seen[id].open
    <3> DEFINE shut == ClosedRow(b.seen[id], F)
               new == Save(b.rows, id, shut)
               kept == Put(b.seen, id, shut)
               after == CloseInPlace(rest, F, id)
    <3>1. shut.open = FALSE /\ shut.made = b.seen[id].made /\ IsRow(shut)
      <4>1. IsRow(b.seen[id])
        BY <2>2 DEF Rowed
      <4> QED BY <4>1 DEF ClosedRow, IsRow
    <3>2. DOMAIN new = DOMAIN b.rows /\ new[id].open = FALSE /\ new[id].made = b.rows[id].made
          /\ \A i \in DOMAIN b.rows : i # id => new[i] = b.rows[i]
      <4>1. PICK put : put = [shut EXCEPT !.made = b.rows[id].made]
        OBVIOUS
      <4>2. put.open = FALSE /\ put.made = b.rows[id].made
        BY <3>1, <4>1 DEF IsRow
      <4>3. new = Put(b.rows, id, put)
        BY <2>2, <4>1 DEF Save
      <4>4. /\ DOMAIN new = DOMAIN b.rows \cup {id} /\ new[id] = put
            /\ \A i \in DOMAIN b.rows : i # id => new[i] = b.rows[i]
        <5> HIDE DEF new, id
        <5> QED BY <4>3 DEF Put
      <4> HIDE DEF new, id
      <4> QED BY <2>2, <4>2, <4>4
    <3>3. DOMAIN kept = DOMAIN b.seen /\ kept[id] = shut /\ \A i \in DOMAIN b.seen : i # id => kept[i] = b.seen[i]
      <4>1. /\ DOMAIN kept = DOMAIN b.seen \cup {id} /\ kept[id] = shut
            /\ \A i \in DOMAIN b.seen : i # id => kept[i] = b.seen[i]
        <5>1. kept = Put(b.seen, id, shut)
          OBVIOUS
        <5> HIDE DEF shut, id, kept
        <5> QED BY <5>1 DEF Put
      <4> HIDE DEF shut, id, kept
      <4> QED BY <2>2, <4>1
    <3>4. after.work = b.work \ {F} /\ after.seen = kept /\ after.rows = new
      BY <1>1 DEF CloseInPlace
    <3>5. Handle(b, F) = after
      BY <1>3, <2>3 DEF Handle, Tracked
    <3> HIDE DEF shut, new, kept, after, rest, id
    <3>6. \A i \in DOMAIN b.rows : new[i].made = b.rows[i].made /\ (~b.rows[i].open => ~new[i].open)
      BY <3>2
    <3>7. b.rows[id].made = b.seen[id].made /\ DOMAIN b.seen \subseteq DOMAIN b.rows
      BY <2>2 DEF Underway, Beside
    <3>8. \A G : TrackedAs(G, kept) = TrackedAs(G, b.seen)
      <4>1. \A i \in DOMAIN b.seen : kept[i].made = b.seen[i].made
        BY <3>1, <3>3
      <4> QED BY <3>3, <4>1, TrackedSame
    <3>9. Beside(new, kept, D)
      <4>1. \A i \in DOMAIN kept : new[i].open = kept[i].open /\ new[i].made = kept[i].made
        <5>1. \A i \in DOMAIN b.seen : i # id => new[i] = b.rows[i] /\ kept[i] = b.seen[i]
          BY <3>2, <3>3, <3>7
        <5> QED BY <3>1, <3>2, <3>3, <3>7, <5>1 DEF Underway, Beside
      <4>2. \A i \in DOMAIN new \ DOMAIN kept : \E G \in D : i = TradeId(G) /\ Recognised(G) /\ TrackedAs(G, kept) = {}
        BY <3>2, <3>3, <3>8 DEF Underway, Beside
      <4> QED BY <3>2, <3>3, <3>7, <4>1, <4>2 DEF Beside
    <3>10. ASSUME NEW G \in D \ after.work PROVE DoneWith(G, new, D)
      <4>1. CASE G = F
        <5>1. TrackedAs(F, new) = TrackedAs(F, b.rows)
          BY <3>2, <3>6, TrackedSame
        <5>2. Tracked(F, new) = id
          BY <2>2, <5>1 DEF Tracked
        <5> QED BY <1>3, <2>1, <3>2, <4>1, <5>1, <5>2 DEF Left, DoneWith
      <4>2. CASE G # F
        <5>1. G \in D \ b.work
          BY <3>4, <3>10, <4>2
        <5>2. DoneWith(G, b.rows, D)
          BY <5>1 DEF Underway
        <5>3. \A i \in TrackedAs(G, b.rows) : ~b.rows[i].open => ~new[i].open
          BY <3>6, TrackedIn
        <5> QED BY <1>1, <3>2, <3>6, <5>2, <5>3, StaysDone
      <4> QED BY <4>1, <4>2
    <3>11. after.work \subseteq D /\ Reached(D)
      BY <3>4 DEF Underway
    <3> QED BY <3>4, <3>5, <3>9, <3>10, <3>11 DEF Underway
  <2>4. CASE ~(IsClosed(F) /\ b.seen[id].open)
    <3>1. Handle(b, F) = rest
      BY <1>3, <2>4 DEF Handle, Tracked
    <3>2. DoneWith(F, b.rows, D)
      <4>1. b.rows[id].open = b.seen[id].open
        BY <2>2 DEF Underway, Beside
      <4> QED BY <1>3, <2>1, <2>2, <2>4, <4>1 DEF Left, DoneWith
    <3> HIDE DEF rest
    <3> QED BY <1>2, <3>1, <3>2
  <2> QED BY <2>3, <2>4
<1>4. CASE TrackedAs(F, b.seen) = {} /\ Recognised(F)
  <2> DEFINE made == IF IsClosed(F) THEN ClosedRow(row, F) ELSE row
             new == Save(b.rows, TradeId(F), made)
             after == Create(rest, F)
  <2>1. made.open = ~IsClosed(F) /\ IsRow(made)
    BY DEF ClosedRow, NewRow, IsRow
  <2>2. after.work = b.work \ {F} /\ after.seen = b.seen /\ after.rows = new
    <3>1. rest.rows = b.rows
      BY <1>1
    <3> QED BY <1>1, <3>1 DEF Create
  <2>3. Handle(b, F) = after
    BY <1>4 DEF Handle
  <2>4. TradeId(F) \notin DOMAIN b.seen
    BY <1>4 DEF TrackedAs
  <2>5. /\ DOMAIN new = DOMAIN b.rows \cup {TradeId(F)} /\ new[TradeId(F)].open = ~IsClosed(F)
        /\ TradeId(F) \in DOMAIN b.rows => new[TradeId(F)].made = b.rows[TradeId(F)].made
        /\ \A i \in DOMAIN b.rows : i # TradeId(F) => new[i] = b.rows[i]
    <3>1. PICK put : /\ new = Put(b.rows, TradeId(F), put)
                     /\ put = IF TradeId(F) \in DOMAIN b.rows THEN [made EXCEPT !.made = b.rows[TradeId(F)].made] ELSE made
      BY DEF Save
    <3>2. put.open = made.open /\ (TradeId(F) \in DOMAIN b.rows => put.made = b.rows[TradeId(F)].made)
      BY <2>1, <3>1 DEF IsRow
    <3>3. /\ DOMAIN new = DOMAIN b.rows \cup {TradeId(F)} /\ new[TradeId(F)] = put
          /\ \A i \in DOMAIN b.rows : i # TradeId(F) => new[i] = b.rows[i]
      <4> HIDE DEF new, made
      <4> QED BY <3>1 DEF Put
    <3> HIDE DEF new, made
    <3> QED BY <2>1, <3>2, <3>3
  <2> HIDE DEF made, new, after, rest, row
  <2>6. Beside(new, b.seen, D)
    <3>1. \A i \in DOMAIN b.seen : i \in DOMAIN b.rows /\ i # TradeId(F) /\ new[i] = b.rows[i]
      BY <2>4, <2>5 DEF Underway, Beside
    <3>2. \A i \in DOMAIN new \ DOMAIN b.seen : \E G \in D : i = TradeId(G) /\ Recognised(G) /\ TrackedAs(G, b.seen) = {}
      BY <1>1, <1>4, <2>5 DEF Underway, Beside
    <3> QED BY <2>5, <3>1, <3>2 DEF Underway, Beside
  <2>7. ASSUME NEW G \in D \ after.work PROVE DoneWith(G, new, D)
    <3>1. CASE G = F
      <4>1. TrackedAs(F, new) = {TradeId(F)}
        BY <2>5 DEF TrackedAs
      <4>2. Tracked(F, new) = TradeId(F)
        BY <4>1 DEF Tracked
      <4> QED BY <2>5, <3>1, <4>1, <4>2 DEF Left, DoneWith
    <3>2. CASE G # F
      <4>1. DoneWith(G, b.rows, D)
        BY <2>2, <2>7, <3>2 DEF Underway
      <4>2. TradeId(F) # TradeId(G) /\ ~Matches(G, TradeId(F))
        BY <1>1, <3>2, OthersRow DEF Underway
      <4>3. \A i \in TrackedAs(G, b.rows) : i \in DOMAIN b.rows /\ i # TradeId(F)
        BY <4>2 DEF TrackedAs
      <4>4. \A i \in DOMAIN b.rows : new[i].made = b.rows[i].made
        BY <2>5
      <4>5. \A i \in DOMAIN new \ DOMAIN b.rows : i # TradeId(G) /\ ~Matches(G, i)
        BY <2>5, <4>2
      <4>6. \A i \in TrackedAs(G, b.rows) : ~b.rows[i].open => ~new[i].open
        BY <2>5, <4>3
      <4> QED BY <1>1, <2>5, <4>1, <4>4, <4>5, <4>6, StaysDone
    <3> QED BY <3>1, <3>2
  <2>8. after.work \subseteq D /\ Reached(D)
    BY <2>2 DEF Underway
  <2> QED BY <2>2, <2>3, <2>6, <2>7, <2>8 DEF Underway
<1>5. CASE TrackedAs(F, b.seen) = {} /\ ~Recognised(F)
  <2>1. TrackedAs(F, b.rows) = {}
    BY <1>1, <1>5, SeenTracks
  <2>2. CASE Cardinality(parts) > 1
    <3> DEFINE after == [rest EXCEPT !.work = @ \cup parts]
               E == D \cup parts
    <3>1. Handle(b, F) = after
      BY <1>5, <2>2 DEF Handle
    <3>2. after.work = (b.work \ {F}) \cup parts /\ after.seen = b.seen /\ after.rows = b.rows
      BY <1>1
    <3> HIDE DEF after, rest
    <3>3. Reached(E)
      <4>1. ASSUME NEW P \in parts PROVE RoundTrip(P)
        <5>1. RoundTrip(F)
          BY <1>1 DEF Underway, Reached
        <5> QED BY <1>5, <5>1 DEF RoundTrip
      <4> QED BY <4>1 DEF Underway, Reached
    <3>4. Beside(b.rows, b.seen, E)
      BY DEF Underway, Beside
    <3>5. ASSUME NEW G \in E \ after.work PROVE DoneWith(G, b.rows, E)
      <4>1. CASE G = F
        BY <1>5, <2>1, <4>1 DEF Unnamed, DoneWith
      <4>2. CASE G # F
        <5>1. G \in D \ b.work
          BY <3>2, <3>5, <4>2
        <5>2. DoneWith(G, b.rows, D)
          BY <5>1 DEF Underway
        <5> QED BY <5>2, StaysDone
      <4> QED BY <4>1, <4>2
    <3>6. after.work \subseteq E
      BY <3>2 DEF Underway
    <3> QED BY <3>1, <3>2, <3>3, <3>4, <3>5, <3>6 DEF Underway
  <2>3. CASE ~(Cardinality(parts) > 1)
    <3>1. Handle(b, F) = rest
      BY <1>5, <2>3 DEF Handle
    <3>2. DoneWith(F, b.rows, D)
      BY <1>5, <2>1, <2>3 DEF Unnamed, DoneWith
    <3> HIDE DEF rest
    <3> QED BY <1>2, <3>1, <3>2
  <2> QED BY <2>2, <2>3
<1> QED
  BY <1>3, <1>4, <1>5

\* A run over a table with which all is done with only passes over it.
LEMMA HandlePasses ==
  ASSUME NEW b, NEW D, b.work \subseteq D, \A F \in D : DoneWith(F, b.rows, D), b.seen = b.rows,
         b = [work |-> b.work, seen |-> b.seen, rows |-> b.rows, graded |-> b.graded, grade |-> b.grade],
         NEW F \in b.work
  PROVE  \E work \in SUBSET D :
           Handle(b, F) = [work |-> work, seen |-> b.seen, rows |-> b.rows, graded |-> b.graded, grade |-> b.grade]
<1> DEFINE rest == [b EXCEPT !.work = @ \ {F}]
           parts == SplitPerContract(F, today)
           as(work) == [work |-> work, seen |-> b.seen, rows |-> b.rows, graded |-> b.graded, grade |-> b.grade]
<1>1. rest = as(b.work \ {F}) /\ b.work \ {F} \in SUBSET D
  OBVIOUS
<1>2. CASE Left(F, b.rows)
  <2>1. Handle(b, F) = rest
    BY <1>2 DEF Handle, Left, Tracked
  <2> HIDE DEF rest
  <2> QED BY <1>1, <2>1
<1>3. CASE Unnamed(F, b.rows, D) /\ Cardinality(parts) > 1
  <2>1. Handle(b, F) = [rest EXCEPT !.work = @ \cup parts]
    BY <1>3 DEF Handle, Unnamed
  <2>2. [rest EXCEPT !.work = @ \cup parts] = as((b.work \ {F}) \cup parts)
    <3>1. PICK left : left = as(b.work \ {F})
      OBVIOUS
    <3>2. PICK split : split = parts
      OBVIOUS
    <3>3. left.work = b.work \ {F}
      BY <3>1
    <3>4. [left EXCEPT !.work = @ \cup split] = as((b.work \ {F}) \cup split)
      BY <3>1, <3>3
    <3> HIDE DEF parts, rest, as
    <3> QED BY <1>1, <3>1, <3>2, <3>4
  <2>3. (b.work \ {F}) \cup parts \in SUBSET D
    BY <1>1, <1>3 DEF Unnamed
  <2> HIDE DEF rest
  <2> QED BY <2>1, <2>2, <2>3
<1>4. CASE Unnamed(F, b.rows, D) /\ ~(Cardinality(parts) > 1)
  <2>1. Handle(b, F) = rest
    BY <1>4 DEF Handle, Unnamed
  <2> HIDE DEF rest
  <2> QED BY <1>1, <2>1
<1> QED
  BY <1>2, <1>3, <1>4 DEF DoneWith

-----------------------------------------------------------------------------
(* The steps of the script, and what others do meanwhile. *)

LEMMA RowsStay ==
  ASSUME NEW b, Rowed(b.rows), Rowed(b.seen),
         b = [work |-> b.work, seen |-> b.seen, rows |-> b.rows, graded |-> b.graded, grade |-> b.grade],
         NEW c \in Steps(b)
  PROVE  /\ Rowed(c.rows) /\ Rowed(c.seen)
         /\ c = [work |-> c.work, seen |-> c.seen, rows |-> c.rows, graded |-> c.graded, grade |-> c.grade]
<1> DEFINE Shaped(x) == x = [work |-> x.work, seen |-> x.seen, rows |-> x.rows, graded |-> x.graded, grade |-> x.grade]
<1>1. CASE b.grade # {}
  <2>1. c = Grade(b)
    BY <1>1 DEF Steps
  <2>2. c.rows = b.rows /\ c.seen = b.seen /\ Shaped(c)
    BY <2>1 DEF Grade
  <2> QED BY <2>2
<1>2. CASE b.grade = {} /\ b.work = {}
  BY <1>2 DEF Steps
<1>3. CASE b.grade = {} /\ b.work # {}
  <2>1. PICK F \in b.work : c = Handle(b, F)
    BY <1>3 DEF Steps, Earliest
  <2> DEFINE rest == [b EXCEPT !.work = @ \ {F}]
             parts == SplitPerContract(F, today)
             id == Tracked(F, b.seen)
  <2>2. rest.rows = b.rows /\ rest.seen = b.seen /\ Shaped(rest)
    OBVIOUS
  <2>3. ASSUME NEW table, Rowed(table), NEW i, NEW row, IsRow(row) PROVE Rowed(Put(table, i, row)) /\ Rowed(Save(table, i, row))
    <3>1. \A new : IsRow(new) => Rowed(Put(table, i, new))
      BY <2>3 DEF Put, Rowed
    <3>2. IsRow([row EXCEPT !.made = table[i].made])
      BY <2>3 DEF IsRow
    <3> QED BY <2>3, <3>1, <3>2 DEF Save
  <2>4. CASE c = rest \/ c = [rest EXCEPT !.work = @ \cup parts]
    <3>1. c.rows = b.rows /\ c.seen = b.seen /\ Shaped(c)
      BY <2>2, <2>4
    <3> QED BY <3>1
  <2>5. CASE TrackedAs(F, b.seen) # {} /\ c = CloseInPlace(rest, F, id)
    <3> DEFINE shut == ClosedRow(b.seen[id], F)
    <3>1. id \in DOMAIN b.seen
      BY <2>5, TrackedIn DEF Tracked
    <3>2. IsRow(b.seen[id])
      <4> HIDE DEF id
      <4> QED BY <3>1 DEF Rowed
    <3>3. IsRow(shut)
      <4> HIDE DEF id
      <4> QED BY <3>2 DEF ClosedRow, IsRow
    <3>4. c.rows = Save(b.rows, id, shut) /\ c.seen = Put(b.seen, id, shut) /\ Shaped(c)
      <4> HIDE DEF id
      <4> QED BY <2>2, <2>5 DEF CloseInPlace
    <3> HIDE DEF shut, id
    <3> QED BY <2>3, <3>3, <3>4
  <2>6. CASE c = Create(rest, F)
    <3>1. PICK row : row = NewRow(Lots(F), NetIn(F), b.rows)
      OBVIOUS
    <3>2. IsRow(row) /\ IsRow(ClosedRow(row, F))
      BY <3>1 DEF NewRow, ClosedRow, IsRow
    <3>3. \/ c = [rest EXCEPT !.rows = Save(@, TradeId(F), ClosedRow(row, F)), !.grade = {TradeId(F)}]
          \/ c = [rest EXCEPT !.rows = Save(@, TradeId(F), row)]
      <4>1. rest.rows = b.rows
        BY <2>2
      <4> HIDE DEF rest
      <4> QED BY <2>6, <3>1, <4>1 DEF Create
    <3>4. CASE c = [rest EXCEPT !.rows = Save(@, TradeId(F), ClosedRow(row, F)), !.grade = {TradeId(F)}]
      <4>1. c.rows = Save(b.rows, TradeId(F), ClosedRow(row, F)) /\ c.seen = b.seen /\ Shaped(c)
        BY <3>4
      <4> HIDE DEF Shaped, rest
      <4> QED BY <2>3, <3>2, <4>1 DEF Shaped
    <3>5. CASE c = [rest EXCEPT !.rows = Save(@, TradeId(F), row)]
      <4>1. c.rows = Save(b.rows, TradeId(F), row) /\ c.seen = b.seen /\ Shaped(c)
        BY <3>5
      <4> HIDE DEF Shaped, rest
      <4> QED BY <2>3, <3>2, <4>1 DEF Shaped
    <3> QED BY <3>3, <3>4, <3>5
  <2> HIDE DEF rest, parts, id
  <2>7. \/ c = rest \/ c = [rest EXCEPT !.work = @ \cup parts]
        \/ TrackedAs(F, b.seen) # {} /\ c = CloseInPlace(rest, F, id)
        \/ c = Create(rest, F)
    BY <2>1 DEF Handle, Tracked, rest, parts, id
  <2> QED BY <2>4, <2>5, <2>6, <2>7
<1> QED
  BY <1>1, <1>2, <1>3

\* A run that repeats a finished one changes no row and grades nothing.
LEMMA RepeatsNothing ==
  ASSUME SyncTyped, run # Idle, NEW D, AllDone(D), Repeating(D), NEW b \in Steps(Batch)
  PROVE  b.rows = rows /\ b.graded = graded /\ b.seen = rows /\ b.grade = {} /\ b.work \subseteq D
<1>1. PICK batch : batch = Batch
  OBVIOUS
<1>2. /\ batch.work = run.work /\ batch.seen = rows /\ batch.rows = rows /\ batch.graded = graded /\ batch.grade = {}
      /\ batch = [work |-> batch.work, seen |-> batch.seen, rows |-> batch.rows, graded |-> batch.graded, grade |-> batch.grade]
      /\ run.work \subseteq D
  BY <1>1 DEF Batch, Repeating
<1>3. CASE run.work = {}
  <2>1. b = batch
    BY <1>1, <1>2, <1>3 DEF Steps
  <2> QED BY <1>2, <2>1
<1>4. CASE run.work # {}
  <2>1. PICK F \in batch.work : b = Handle(batch, F)
    BY <1>1, <1>2, <1>4 DEF Steps, Earliest
  <2>2. \A G \in D : DoneWith(G, batch.rows, D)
    BY <1>2 DEF AllDone
  <2>3. PICK work \in SUBSET D :
          b = [work |-> work, seen |-> batch.seen, rows |-> batch.rows, graded |-> batch.graded, grade |-> batch.grade]
    BY <1>2, <2>1, <2>2, HandlePasses
  <2> QED BY <1>2, <2>3
<1> QED
  BY <1>3, <1>4

LEMMA SyncInit == Init => SyncInv
<1>1. SUFFICES ASSUME Init PROVE SyncInv
  OBVIOUS
<1>2. run = Idle /\ rows = <<>> /\ settled = FALSE
  BY <1>1 DEF Init
<1>3. Idle.alone = FALSE /\ Idle.seen = <<>> /\ Rowed(<<>>)
      /\ Idle = [work |-> Idle.work, seen |-> Idle.seen, grade |-> Idle.grade, alone |-> Idle.alone]
  BY DEF Idle, Rowed
<1> QED
  BY <1>2, <1>3 DEF SyncInv, SyncTyped

LEMMA SyncKeeps ==
  ASSUME SyncInv, Apart, SyncStep
  PROVE  SyncInv'
<1>1. PICK b \in Steps(Batch) :
        /\ rows' = b.rows /\ graded' = b.graded
        /\ IF b.work = {} /\ b.grade = {} THEN run' = Idle /\ settled' = run.alone
           ELSE /\ run' = [work |-> b.work, seen |-> b.seen, grade |-> b.grade, alone |-> run.alone]
                /\ settled' = settled
  BY DEF SyncStep
<1>2. run # Idle /\ today' = today /\ fills' = fills
  BY DEF SyncStep
<1>3. PICK batch : batch = Batch
  OBVIOUS
<1>4. /\ batch = [work |-> batch.work, seen |-> batch.seen, rows |-> batch.rows, graded |-> batch.graded, grade |-> batch.grade]
      /\ batch.rows = rows /\ batch.seen = run.seen /\ batch.work = run.work /\ Rowed(batch.rows) /\ Rowed(batch.seen)
  BY <1>3 DEF Batch, SyncInv, SyncTyped
<1>5. /\ Rowed(b.rows) /\ Rowed(b.seen)
      /\ b = [work |-> b.work, seen |-> b.seen, rows |-> b.rows, graded |-> b.graded, grade |-> b.grade]
  BY <1>1, <1>3, <1>4, RowsStay
<1>6. SyncTyped'
  <2>1. Rowed(<<>>) /\ Idle.seen = <<>> /\ Idle.alone = FALSE
    BY DEF Rowed, Idle
  <2>2. Rowed(rows)'
    BY <1>1, <1>5 DEF Rowed, IsRow
  <2>3. CASE run' = Idle /\ settled' = run.alone
    BY <2>1, <2>2, <2>3 DEF SyncInv, SyncTyped, Idle, Rowed
  <2>4. CASE run' = [work |-> b.work, seen |-> b.seen, grade |-> b.grade, alone |-> run.alone] /\ settled' = settled
    <3>1. run'.seen = b.seen /\ run'.alone = run.alone /\ run'.work = b.work /\ run'.grade = b.grade
      BY <2>4
    <3>2. Rowed(run.seen)'
      BY <1>5, <3>1 DEF Rowed, IsRow
    <3> QED BY <2>2, <2>4, <3>1, <3>2 DEF SyncInv, SyncTyped
  <2> QED BY <1>1, <2>3, <2>4
<1>7. \A D : (Reached(D) <=> Reached(D)') /\ \A F, table : DoneWith(F, table, D) <=> DoneWith(F, table, D)'
  BY <1>2 DEF Reached, RoundTrip, Dump, DoneWith, Unnamed, Left
<1>8. CASE settled
  <2>1. PICK D : AllDone(D) /\ Repeating(D)
    BY <1>8 DEF SyncInv
  <2>2. b.rows = rows /\ b.graded = graded /\ b.seen = rows /\ b.grade = {} /\ b.work \subseteq D
    BY <1>1, <1>2, <2>1, RepeatsNothing DEF SyncInv
  <2>3. AllDone(D)'
    BY <1>1, <1>7, <2>1, <2>2 DEF AllDone
  <2>4. Repeating(D)'
    <3>1. CASE run' = Idle
      BY <3>1 DEF Repeating, Idle
    <3>2. CASE run' # Idle
      <4>1. run' = [work |-> b.work, seen |-> b.seen, grade |-> b.grade, alone |-> run.alone]
        BY <1>1, <3>2
      <4>2. run'.alone = run.alone /\ run'.seen = b.seen /\ run'.grade = b.grade /\ run'.work = b.work
        BY <4>1
      <4> QED BY <1>1, <1>2, <2>1, <2>2, <4>2 DEF Repeating
    <3> QED BY <3>1, <3>2
  <2>5. settled'
    BY <1>1, <1>2, <1>8, <2>1 DEF Repeating
  <2> QED BY <1>6, <2>3, <2>4, <2>5 DEF SyncInv
<1>9. CASE ~settled /\ ~run.alone
  <2>1. ~settled' /\ ~run'.alone
    BY <1>1, <1>9 DEF Idle
  <2> QED BY <1>6, <2>1 DEF SyncInv
<1>10. CASE ~settled /\ run.alone
  <2>1. PICK D : Underway(batch, D)
    BY <1>3, <1>10 DEF SyncInv
  <2>2. PICK E : Underway(b, E)
    <3>1. CASE batch.grade # {}
      <4>1. b = Grade(batch)
        BY <1>1, <1>3, <3>1 DEF Steps
      <4>2. b.work = batch.work /\ b.seen = batch.seen /\ b.rows = batch.rows
        BY <1>4, <4>1 DEF Grade
      <4> QED BY <2>1, <4>2 DEF Underway
    <3>2. CASE batch.grade = {} /\ batch.work = {}
      BY <1>1, <1>3, <2>1, <3>2 DEF Steps
    <3>3. CASE batch.grade = {} /\ batch.work # {}
      <4>1. PICK F \in batch.work : b = Handle(batch, F)
        BY <1>1, <1>3, <3>3 DEF Steps, Earliest
      <4> QED BY <1>4, <2>1, <4>1, HandleKeeps
    <3> QED BY <3>1, <3>2, <3>3
  <2>3. CASE b.work = {} /\ b.grade = {}
    <3>1. run' = Idle /\ settled' /\ ~run'.alone
      BY <1>1, <1>10, <2>3 DEF Idle
    <3>2. AllDone(E)'
      BY <1>1, <1>7, <2>2, <2>3 DEF AllDone, Underway
    <3> QED BY <1>6, <3>1, <3>2 DEF SyncInv, Repeating
  <2>4. CASE ~(b.work = {} /\ b.grade = {})
    <3>1. run' = [work |-> b.work, seen |-> b.seen, grade |-> b.grade, alone |-> run.alone] /\ ~settled'
      BY <1>1, <1>10, <2>4
    <3>2. run'.work = b.work /\ run'.seen = b.seen /\ run'.grade = b.grade
      BY <3>1
    <3>3. PICK next : next = Batch'
      OBVIOUS
    <3>4. next.work = b.work /\ next.seen = b.seen /\ next.rows = b.rows
      BY <1>1, <3>2, <3>3 DEF Batch
    <3>5. Underway(next, E)
      BY <2>2, <3>4 DEF Underway
    <3>6. Underway(Batch, E)'
      BY <1>7, <3>3, <3>5 DEF Underway, Beside
    <3> QED BY <1>6, <3>1, <3>6 DEF SyncInv
  <2> QED BY <2>3, <2>4
<1> QED
  BY <1>8, <1>9, <1>10 DEF SyncInv, SyncTyped

LEMMA SyncStarts ==
  ASSUME SyncInv, StartSync
  PROVE  SyncInv'
<1>0. PICK D : D = Episodes(Dump, today)
  OBVIOUS
<1>1. /\ run' = [work |-> D, seen |-> rows, grade |-> {}, alone |-> TRUE] /\ rows' = rows
      /\ settled' = settled /\ today' = today /\ fills' = fills
  BY <1>0 DEF StartSync
<1>2. run'.work = D /\ run'.seen = rows /\ run'.grade = {} /\ run'.alone = TRUE
  BY <1>1
<1>3. SyncTyped'
  <2>1. Rowed(rows)' /\ Rowed(run.seen)'
    BY <1>1, <1>2 DEF SyncInv, SyncTyped, Rowed, IsRow
  <2> QED BY <1>1, <1>2, <2>1 DEF SyncInv, SyncTyped
<1>4. \A E : (Reached(E) <=> Reached(E)') /\ \A F, table : DoneWith(F, table, E) <=> DoneWith(F, table, E)'
  BY <1>1 DEF Reached, RoundTrip, Dump, DoneWith, Unnamed, Left
<1>5. CASE settled
  <2>1. PICK E : AllDone(E) /\ Repeating(E)
    BY <1>5 DEF SyncInv
  <2>2. AllDone(E)'
    BY <1>1, <1>4, <2>1 DEF AllDone
  <2>3. D \subseteq E
    BY <1>0, <2>1 DEF AllDone, Reached
  <2>4. Repeating(E)'
    BY <1>1, <1>2, <2>3 DEF Repeating
  <2> QED BY <1>1, <1>3, <1>5, <2>2, <2>4 DEF SyncInv
<1>6. CASE ~settled
  <2>1. PICK next : next = Batch'
    OBVIOUS
  <2>2. next.work = D /\ next.seen = rows /\ next.rows = rows
    BY <1>1, <1>2, <2>1 DEF Batch
  <2>3. Reached(D)
    BY <1>0 DEF Reached, RoundTrip
  <2>4. Underway(next, D)
    BY <2>2, <2>3 DEF Underway, Beside
  <2>5. Underway(Batch, D)'
    BY <1>4, <2>1, <2>4 DEF Underway, Beside
  <2> QED BY <1>1, <1>3, <1>6, <2>5 DEF SyncInv
<1> QED
  BY <1>5, <1>6

LEMMA SyncDies ==
  ASSUME SyncInv, SyncCrash
  PROVE  SyncInv'
<1>1. run' = Idle /\ rows' = rows /\ settled' = settled /\ today' = today /\ fills' = fills
  BY DEF SyncCrash
<1>2. Idle.alone = FALSE /\ Idle.seen = <<>> /\ Rowed(<<>>)
      /\ Idle = [work |-> Idle.work, seen |-> Idle.seen, grade |-> Idle.grade, alone |-> Idle.alone]
  BY DEF Idle, Rowed
<1>3. SyncTyped'
  <2>1. Rowed(rows)' /\ Rowed(run.seen)'
    BY <1>1, <1>2 DEF SyncInv, SyncTyped, Rowed, IsRow
  <2> QED BY <1>1, <1>2, <2>1 DEF SyncInv, SyncTyped
<1>4. \A E : AllDone(E) => AllDone(E)'
  BY <1>1 DEF AllDone, Reached, RoundTrip, Dump, DoneWith, Unnamed, Left
<1>5. \A E : Repeating(E)'
  BY <1>1 DEF Repeating
<1> QED
  BY <1>1, <1>2, <1>3, <1>4, <1>5 DEF SyncInv

\* What others do meanwhile is known of, whatever it does.
LEMMA OthersMeanwhile ==
  ASSUME SyncInv, Meanwhile, Rowed(rows)'
  PROVE  SyncInv'
<1>1. settled' = FALSE /\ run'.alone = FALSE /\ run'.seen = run.seen
      /\ run' = [work |-> run'.work, seen |-> run'.seen, grade |-> run'.grade, alone |-> run'.alone]
  <2>1. CASE run = Idle
    BY <2>1 DEF Meanwhile, Idle
  <2>2. CASE run # Idle
    <3>1. run' = [run EXCEPT !.alone = FALSE] /\ settled' = FALSE
      BY <2>2 DEF Meanwhile
    <3>2. run = [work |-> run.work, seen |-> run.seen, grade |-> run.grade, alone |-> run.alone]
      BY DEF SyncInv, SyncTyped
    <3> QED BY <3>1, <3>2
  <2> QED BY <2>1, <2>2
<1>2. Rowed(run.seen)'
  BY <1>1 DEF SyncInv, SyncTyped, Rowed, IsRow
<1> QED
  BY <1>1, <1>2 DEF SyncInv, SyncTyped

LEMMA NextKeeps ==
  ASSUME SyncInv, Apart, [Next]_vars
  PROVE  SyncInv'
<1>1. Rowed(rows)
  BY DEF SyncInv, SyncTyped
<1>2. \A n, entry, table : IsRow(NewRow(n, entry, table))
  BY DEF IsRow, NewRow
<1>3. CASE StartSync
  BY <1>3, SyncStarts
<1>4. CASE SyncStep
  BY <1>4, SyncKeeps
<1>5. CASE SyncCrash
  BY <1>5, SyncDies
<1>6. ASSUME UNCHANGED rows, Meanwhile PROVE SyncInv'
  <2>1. Rowed(rows)'
    BY <1>1, <1>6 DEF Rowed, IsRow
  <2> QED BY <1>6, <2>1, OthersMeanwhile
<1>7. CASE OrderFills
  BY <1>6, <1>7 DEF OrderFills
<1>8. CASE NextDay
  BY <1>6, <1>8 DEF NextDay
<1>9. CASE QuickAdd
  <2>1. PICK id, row : rows' = Put(rows, id, row) /\ IsRow(row)
    BY <1>2, <1>9 DEF QuickAdd
  <2>2. Rowed(rows)'
    BY <1>1, <2>1 DEF Put, Rowed, IsRow
  <2> QED BY <1>9, <2>2, OthersMeanwhile DEF QuickAdd
<1>10. CASE PullPositions
  <2>1. \A i \in DOMAIN rows' : (rows'[i] = rows[i] /\ i \in DOMAIN rows) \/ IsRow(rows'[i])
    <3>1. PICK groups : Pull(groups)
      BY <1>10 DEF PullPositions
    <3>2. \A F : IsRow(PulledRow(F))
      BY <1>2 DEF PulledRow
    <3> QED BY <3>1, <3>2 DEF Pull
  <2>2. Rowed(rows)'
    BY <1>1, <2>1 DEF Rowed, IsRow
  <2> QED BY <1>10, <2>2, OthersMeanwhile DEF PullPositions
<1>11. ASSUME NEW id \in DOMAIN rows, CloseByHand(id) PROVE SyncInv'
  <2>1. PICK shut : rows' = [rows EXCEPT ![id] = shut] /\ IsRow(shut)
    <3>1. PICK pnl : rows' = [rows EXCEPT ![id].open = FALSE, ![id].pnl = pnl, ![id].why = "hand"]
      BY <1>11 DEF CloseByHand
    <3>2. PICK shut : shut = [rows[id] EXCEPT !.open = FALSE, !.pnl = pnl, !.why = "hand"]
      OBVIOUS
    <3>3. IsRow(shut)
      BY <1>1, <1>11, <3>2 DEF IsRow, Rowed
    <3>4. rows' = [rows EXCEPT ![id] = shut]
      BY <1>11, <3>1, <3>2
    <3> QED BY <3>3, <3>4
  <2>2. Rowed(rows)'
    BY <1>1, <2>1 DEF Rowed, IsRow
  <2> QED BY <1>11, <2>2, OthersMeanwhile DEF CloseByHand
<1>12. CASE UNCHANGED vars
  <2>1. Batch' = Batch /\ Dump' = Dump
    BY <1>12 DEF vars, Batch, Dump
  <2>2. \A E : (AllDone(E) <=> AllDone(E)') /\ (Repeating(E) <=> Repeating(E)') /\ (Underway(Batch, E) <=> Underway(Batch, E)')
    BY <1>12, <2>1 DEF vars, AllDone, Repeating, Reached, RoundTrip, DoneWith, Unnamed, Left, Underway, Beside
  <2>3. SyncTyped'
    BY <1>12 DEF vars, SyncInv, SyncTyped, Rowed, IsRow
  <2> QED BY <1>12, <2>2, <2>3 DEF vars, SyncInv
<1> QED
  BY <1>3, <1>4, <1>5, <1>7, <1>8, <1>9, <1>10, <1>11, <1>12 DEF Next

(* rh_sync.py:26-28: a run that begins where nothing has moved since one   *)
(* that ended changes no row and records no outcome, for any histories of  *)
(* orders, prices, entries and closes at the desk and deaths of the        *)
(* script, while the round trips of the same contracts lie apart.          *)
THEOREM IdempotentTheorem == Spec /\ []Apart => RerunsChangeNothing
<1>1. SyncInv /\ [Next]_vars => [settled /\ SyncStep => UNCHANGED <<rows, graded>>]_vars
  <2>1. SUFFICES ASSUME SyncInv, settled, SyncStep PROVE UNCHANGED <<rows, graded>>
    OBVIOUS
  <2>2. PICK D : AllDone(D) /\ Repeating(D)
    BY <2>1 DEF SyncInv
  <2>3. PICK b \in Steps(Batch) : rows' = b.rows /\ graded' = b.graded
    BY <2>1 DEF SyncStep
  <2>4. run # Idle /\ SyncTyped
    BY <2>1 DEF SyncStep, SyncInv
  <2> QED BY <2>2, <2>3, <2>4, RepeatsNothing
<1>2. Init => SyncInv
  BY SyncInit
<1>3. SyncInv /\ Apart /\ [Next]_vars => SyncInv'
  BY NextKeeps
<1> QED
  BY <1>1, <1>2, <1>3, PTL DEF Spec, RerunsChangeNothing
=============================================================================
