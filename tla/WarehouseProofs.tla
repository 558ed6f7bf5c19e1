--------------------------- MODULE WarehouseProofs ---------------------------
(***************************************************************************)
(* The decision warehouse: the status of a decision and its outcome rows   *)
(* agree, a rerun of a settlement script adds nothing, a grade never gets  *)
(* worse, the two questions keep their own answers, and an authorized      *)
(* order rests on recorded outcomes; for any decisions, casts, limits,     *)
(* days and crashes, and any thresholds of the gate.                       *)
(***************************************************************************)
EXTENDS Warehouse, FiniteSetTheorems, SequenceTheorems, TLAPS

-----------------------------------------------------------------------------
(* Ranks: in a strict total order of a finite set, every rank is taken.    *)

LEMMA RankGrows ==
  ASSUME NEW S, IsFiniteSet(S), NEW low \in [S -> SUBSET S],
         \A x \in S : x \notin low[x],
         \A x, y, z \in S : x \in low[y] /\ y \in low[z] => x \in low[z],
         NEW x \in S, NEW y \in S, x \in low[y]
  PROVE  Cardinality(low[x]) < Cardinality(low[y])
<1>1. low[x] \in SUBSET (low[y] \ {x}) /\ IsFiniteSet(low[y])
  BY FS_Subset
<1>2. /\ IsFiniteSet(low[y] \ {x})
      /\ Cardinality(low[y] \ {x}) = Cardinality(low[y]) - 1
  BY <1>1, FS_RemoveElement
<1>3. IsFiniteSet(low[x]) /\ Cardinality(low[x]) <= Cardinality(low[y] \ {x})
  BY <1>1, <1>2, FS_Subset
<1> QED
  BY <1>1, <1>2, <1>3, FS_CardinalityType

LEMMA Ranking ==
  ASSUME NEW S, IsFiniteSet(S), NEW low \in [S -> SUBSET S],
         \A x \in S : x \notin low[x],
         \A x, y \in S : x # y => x \in low[y] \/ y \in low[x],
         \A x, y, z \in S : x \in low[y] /\ y \in low[z] => x \in low[z]
  PROVE  /\ Cardinality(S) \in Nat
         /\ \A i \in 1 .. Cardinality(S) : \E x \in S : Cardinality(low[x]) = i - 1
         /\ \A x, y \in S : Cardinality(low[x]) = Cardinality(low[y]) => x = y
         /\ \A x \in S : Cardinality(low[x]) + 1 \in 1 .. Cardinality(S)
<1> DEFINE n == Cardinality(S)
           rank == [x \in S |-> Cardinality(low[x]) + 1]
<1>1. n \in Nat
  BY FS_CardinalityType
<1>2. \A x \in S : Cardinality(low[x]) \in Nat
  BY FS_Subset, FS_CardinalityType
<1>3. \A x, y \in S : Cardinality(low[x]) = Cardinality(low[y]) => x = y
  <2>1. SUFFICES ASSUME NEW x \in S, NEW y \in S, x # y PROVE Cardinality(low[x]) # Cardinality(low[y])
    OBVIOUS
  <2>2. CASE x \in low[y]
    BY <1>2, <2>2, RankGrows
  <2>3. CASE y \in low[x]
    BY <1>2, <2>3, RankGrows
  <2> QED BY <2>1, <2>2, <2>3
<1>4. \A x \in S : Cardinality(low[x]) + 1 \in 1 .. n
  <2>1. TAKE x \in S
  <2>2. low[x] \in SUBSET (S \ {x}) /\ IsFiniteSet(S \ {x}) /\ Cardinality(S \ {x}) = n - 1
    BY FS_RemoveElement
  <2>3. Cardinality(low[x]) <= n - 1
    BY <2>2, FS_Subset
  <2> QED BY <1>1, <1>2, <2>3
<1>5. rank \in Injection(S, 1 .. n)
  <2>1. rank \in [S -> 1 .. n]
    BY <1>4
  <2>2. ASSUME NEW x \in S, NEW y \in S, rank[x] = rank[y] PROVE x = y
    BY <1>2, <1>3, <2>2
  <2> QED BY <2>1, <2>2 DEF Injection, IsInjective
<1>6. IsFiniteSet(1 .. n) /\ Cardinality(1 .. n) = n
  BY <1>1, FS_Interval
<1>7. rank \in Surjection(S, 1 .. n)
  <2> HIDE DEF rank
  <2> QED BY <1>5, <1>6, FS_Injection
<1>8. ASSUME NEW i \in 1 .. n PROVE \E x \in S : Cardinality(low[x]) = i - 1
  <2>1. PICK x \in S : rank[x] = i
    BY <1>7 DEF Surjection
  <2>2. Cardinality(low[x]) + 1 = i
    BY <2>1
  <2>3. Cardinality(low[x]) = i - 1
    BY <1>1, <1>2, <2>2
  <2> QED BY <2>3
<1> QED
  BY <1>1, <1>3, <1>4, <1>8

\* The last in a strict total order of a finite set.
LEMMA LastOne ==
  ASSUME NEW S, IsFiniteSet(S), S # {}, NEW low \in [S -> SUBSET S],
         \A x \in S : x \notin low[x],
         \A x, y \in S : x # y => x \in low[y] \/ y \in low[x],
         \A x, y, z \in S : x \in low[y] /\ y \in low[z] => x \in low[z]
  PROVE  \E x \in S : low[x] = S \ {x}
<1>1. Cardinality(S) \in Nat /\ Cardinality(S) # 0
  BY FS_CardinalityType, FS_EmptySet
<1>2. \A i \in 1 .. Cardinality(S) : \E x \in S : Cardinality(low[x]) = i - 1
  BY Ranking
<1>3. Cardinality(S) \in 1 .. Cardinality(S)
  BY <1>1
<1>4. PICK x \in S : Cardinality(low[x]) = Cardinality(S) - 1
  BY <1>2, <1>3
<1>5. low[x] \in SUBSET (S \ {x}) /\ IsFiniteSet(S \ {x}) /\ Cardinality(S \ {x}) = Cardinality(S) - 1
  BY FS_RemoveElement
<1>6. low[x] = S \ {x}
  BY <1>4, <1>5, FS_Subset
<1> QED BY <1>6

-----------------------------------------------------------------------------
(* The lists of the repository.                                            *)

LEMMA Constants ==
  /\ IsFiniteSet(Decisions) /\ Decisions \subseteq Nat
  /\ MaxDay \in Nat /\ PendingLimit \in Nat /\ RegradeLimit \in Nat /\ FetchLimit \in Nat
  /\ Casts \in Seq(Cast)
<1>1. Cardinality(Decisions) \in Nat
  BY WarehouseAssumption, FS_CardinalityType
<1> QED
  BY <1>1, WarehouseAssumption

LEMMA NewestList ==
  ASSUME NEW S, S \subseteq Decisions, born \in [Decisions -> Int]
  PROVE  /\ NewestFirst(S) \in Seq(S)
         /\ \A i, j \in DOMAIN NewestFirst(S) : NewestFirst(S)[i] = NewestFirst(S)[j] => i = j
<1> DEFINE before(c, d) == born[c] > born[d] \/ (born[c] = born[d] /\ c > d)
           low == [d \in S |-> {c \in S : before(c, d)}]
           at(i) == CHOOSE d \in S : Cardinality({c \in S : before(c, d)}) = i - 1
<1>1. IsFiniteSet(S) /\ S \subseteq Int
  <2>1. IsFiniteSet(S)
    BY Constants, FS_Subset
  <2>2. S \subseteq Int
    BY Constants
  <2> QED BY <2>1, <2>2
<1>2. \A d \in S : born[d] \in Int
  OBVIOUS
<1>3. low \in [S -> SUBSET S]
  OBVIOUS
<1>4. \A d \in S : d \notin low[d]
  BY <1>1, <1>2
<1>5. \A c, d \in S : c # d => c \in low[d] \/ d \in low[c]
  BY <1>1, <1>2
<1>6. \A b, c, d \in S : b \in low[c] /\ c \in low[d] => b \in low[d]
  BY <1>1, <1>2
<1>7. /\ Cardinality(S) \in Nat
      /\ \A i \in 1 .. Cardinality(S) : \E d \in S : Cardinality(low[d]) = i - 1
  <2> HIDE DEF low
  <2> QED BY <1>1, <1>3, <1>4, <1>5, <1>6, Ranking
<1>8. \A i \in 1 .. Cardinality(S) : at(i) \in S /\ Cardinality(low[at(i)]) = i - 1
  <2>1. TAKE i \in 1 .. Cardinality(S)
  <2>2. \E d \in S : Cardinality({c \in S : before(c, d)}) = i - 1
    BY <1>7
  <2> HIDE DEF before
  <2>3. at(i) \in S /\ Cardinality({c \in S : before(c, at(i))}) = i - 1
    BY <2>2
  <2>4. low[at(i)] = {c \in S : before(c, at(i))}
    BY <2>3
  <2> QED BY <2>3, <2>4
<1>9. NewestFirst(S) = [i \in 1 .. Cardinality(S) |-> at(i)]
  BY DEF NewestFirst, Sorted
<1> HIDE DEF at, before, low
<1>10. NewestFirst(S) \in Seq(S)
  BY <1>7, <1>8, <1>9
<1>11. ASSUME NEW i \in 1 .. Cardinality(S), NEW j \in 1 .. Cardinality(S), at(i) = at(j)
       PROVE  i = j
  BY <1>7, <1>8, <1>11
<1>12. \A i, j \in DOMAIN NewestFirst(S) : NewestFirst(S)[i] = NewestFirst(S)[j] => i = j
  BY <1>9, <1>11
<1> QED BY <1>10, <1>12

LEMMA TakeList ==
  ASSUME NEW S, NEW seq \in Seq(S), NEW n \in Nat
  PROVE  /\ Take(seq, n) \in Seq(S)
         /\ DOMAIN Take(seq, n) = {i \in DOMAIN seq : i <= n}
         /\ \A i \in DOMAIN Take(seq, n) : Take(seq, n)[i] = seq[i]
         /\ Len(seq) <= n => Take(seq, n) = seq
<1>1. PICK m \in Nat : m = IF Len(seq) < n THEN Len(seq) ELSE n
  BY LenProperties
<1>2. DOMAIN seq = 1 .. Len(seq) /\ Len(seq) \in Nat /\ \A i \in DOMAIN seq : seq[i] \in S
  BY LenProperties
<1>3. {i \in DOMAIN seq : i <= n} = 1 .. m
  <2>1. CASE Len(seq) < n
    BY <1>1, <1>2, <2>1
  <2>2. CASE ~(Len(seq) < n)
    BY <1>1, <1>2, <2>2
  <2> QED BY <2>1, <2>2
<1>4. Take(seq, n) = [i \in 1 .. m |-> seq[i]]
  BY <1>3 DEF Take
<1>5. Take(seq, n) \in Seq(S)
  BY <1>2, <1>3, <1>4
<1>6. Len(seq) <= n => Take(seq, n) = seq
  BY <1>1, <1>2, <1>4
<1> QED BY <1>3, <1>4, <1>5, <1>6

LEMMA ListedAll ==
  ASSUME NEW S, S \subseteq Decisions, born \in [Decisions -> Int], NEW n \in Nat
  PROVE  /\ Listed(S, n) \in Seq(S)
         /\ \A i, j \in DOMAIN Listed(S, n) : Listed(S, n)[i] = Listed(S, n)[j] => i = j
         /\ Range(Listed(S, n)) \subseteq S
<1>1. NewestFirst(S) \in Seq(S)
  BY NewestList
<1>2. \A i, j \in DOMAIN NewestFirst(S) : NewestFirst(S)[i] = NewestFirst(S)[j] => i = j
  BY NewestList
<1>3. /\ Listed(S, n) \in Seq(S)
      /\ DOMAIN Listed(S, n) \subseteq DOMAIN NewestFirst(S)
      /\ \A i \in DOMAIN Listed(S, n) : Listed(S, n)[i] = NewestFirst(S)[i]
  BY <1>1, TakeList DEF Listed
<1>4. Range(Listed(S, n)) \subseteq S
  BY <1>3, LenProperties, ElementOfSeq DEF Range
<1> QED BY <1>2, <1>3, <1>4

-----------------------------------------------------------------------------
(* Types.  What a job has listed is kept, and was born when it listed it;  *)
(* nothing is frozen or owed for a position that was never opened.         *)

JobState == [queue : Seq(Decisions), day : 0 .. MaxDay, at : Nat]

Listing(j) ==
  \A i \in DOMAIN job[j].queue :
    snaps[job[j].queue[i]] # "none" /\ born[job[j].queue[i]] <= job[j].day

Opened(d) ==
  /\ Fact(d).live /\ snaps[d] # "none" => book[d] # "none"
  /\ todo[d] # {} => book[d] # "none"
  /\ "grade" \in todo[d] => snaps[d] # "none"

TypeInv ==
  /\ TypeOK
  /\ \A j \in Job : Listing(j)
  /\ \A d \in Decisions : Opened(d)

LEMMA FactTypes ==
  ASSUME TypeOK
  PROVE  /\ \A d \in Decisions : Fact(d) \in Facts
         /\ cast.runs \in [Job -> Nat]
<1>1. cast.n \in DOMAIN Casts /\ cast.runs \in [Job -> Nat]
  BY DEF TypeOK
<1>2. Casts[cast.n] \in Cast
  BY <1>1, Constants
<1> QED
  BY <1>1, <1>2 DEF Fact, Cast

LEMMA InitTypes == Init => TypeInv
<1> SUFFICES ASSUME Init PROVE TypeInv
  OBVIOUS
<1>1. PICK n \in DOMAIN Casts : cast = [n |-> n, runs |-> Casts[n].runs, crash |-> Casts[n].crash]
  BY DEF Init
<1>2. Casts[n] \in Cast
  BY Constants
<1>3. IdleJob \in JobState /\ IdleJob.queue = <<>>
  BY Constants DEF IdleJob, JobState
<1>4. TypeOK
  <2>1. cast \in [n : DOMAIN Casts, runs : [Job -> Nat], crash : Nat]
    BY <1>1, <1>2 DEF Cast
  <2>2. job \in [Job -> JobState]
    BY <1>3 DEF Init
  <2>3. /\ today \in 0 .. MaxDay /\ born \in [Decisions -> 0 .. MaxDay]
        /\ outs \in Seq(Outcome)
    BY Constants DEF Init
  <2> QED BY <2>1, <2>2, <2>3 DEF Init, TypeOK, JobState
<1>5. \A j \in Job : Listing(j)
  BY <1>3 DEF Init, Listing
<1>6. \A d \in Decisions : Opened(d)
  BY DEF Init, Opened
<1> QED BY <1>4, <1>5, <1>6 DEF TypeInv

\* What a job has listed shrinks, and stays kept.
Shrinks(j) ==
  \/ job'[j] = job[j]
  \/ job'[j].queue = <<>>
  \/ job[j].queue # <<>> /\ job'[j] = [job[j] EXCEPT !.queue = Tail(@)]

LEMMA ListingKept ==
  ASSUME TypeInv, NEW j \in Job, Shrinks(j),
         \A d \in Decisions : snaps[d] # "none" => snaps'[d] # "none" /\ born'[d] = born[d]
  PROVE  Listing(j)'
<1> DEFINE q == job[j].queue
<1>1. /\ Listing(j) /\ job[j] \in JobState
  BY DEF TypeInv, TypeOK, JobState
<1>2. q \in Seq(Decisions) /\ \A i \in DOMAIN q : q[i] \in Decisions
  BY <1>1 DEF JobState
<1>3. CASE job'[j] = job[j]
  BY <1>1, <1>2, <1>3 DEF Listing
<1>4. CASE job'[j].queue = <<>>
  BY <1>4 DEF Listing
<1>5. CASE q # <<>> /\ job'[j] = [job[j] EXCEPT !.queue = Tail(@)]
  <2>1. job'[j].queue = Tail(q) /\ job'[j].day = job[j].day
    BY <1>1, <1>5 DEF JobState
  <2>2. /\ DOMAIN Tail(q) = 1 .. Len(q) - 1 /\ Len(q) \in Nat
        /\ \A i \in DOMAIN Tail(q) : i + 1 \in DOMAIN q /\ Tail(q)[i] = q[i + 1]
    BY <1>2, <1>5
  <2> QED BY <1>1, <1>2, <2>1, <2>2 DEF Listing
<1> QED BY <1>3, <1>4, <1>5 DEF Shrinks

LEMMA AdvanceShrinks ==
  ASSUME TypeInv, NEW j \in Job, job[j].queue # <<>>, Advance(j)
  PROVE  /\ job' \in [Job -> JobState]
         /\ \A k \in Job : Shrinks(k)
         /\ job'[j].queue = Tail(job[j].queue)
         /\ \A k \in Job \ {j} : job'[k] = job[k]
<1> DEFINE g == job[j]
<1>1. job \in [Job -> JobState] /\ g \in JobState /\ g.queue \in Seq(Decisions)
  BY DEF TypeInv, TypeOK, JobState
<1>2. IdleJob \in JobState /\ IdleJob.queue = <<>>
  BY Constants DEF IdleJob, JobState
<1>3. PICK h : h = [g EXCEPT !.queue = Tail(g.queue)]
  OBVIOUS
<1>4. h \in JobState /\ h.queue = Tail(g.queue)
  <2>1. Tail(g.queue) \in Seq(Decisions)
    BY <1>1, HeadTailProperties
  <2> QED BY <1>1, <1>3, <2>1 DEF JobState
<1>5. CASE Tail(g.queue) = <<>>
  <2>1. job' = [job EXCEPT ![j] = IdleJob]
    BY <1>5 DEF Advance
  <2> QED BY <1>1, <1>2, <1>5, <2>1 DEF Shrinks
<1>6. CASE Tail(g.queue) # <<>>
  <2>1. job' = [job EXCEPT ![j] = h]
    BY <1>3, <1>6 DEF Advance
  <2>2. h = [job[j] EXCEPT !.queue = Tail(@)]
    BY <1>3
  <2> QED BY <1>1, <1>4, <2>1, <2>2 DEF Shrinks
<1> QED BY <1>5, <1>6

\* The steps that keep or open a decision.
Keeping(d) == Freeze(d) \/ Import(d) \/ FreezeLive(d) \/ Close(d) \/ EnsureSnapshot(d) \/ Delete(d)

LEMMA KeepingSteps ==
  ASSUME TypeInv, NEW d \in Decisions, Keeping(d)
  PROVE  /\ TypeOK' /\ UNCHANGED <<cast, outs, job, gate, spent>>
         /\ Opened(d)'
         /\ \A c \in Decisions \ {d} :
              snaps'[c] = snaps[c] /\ born'[c] = born[c] /\ book'[c] = book[c] /\ todo'[c] = todo[c]
         /\ snaps'[d] = snaps[d] \/ (snaps[d] = "none" /\ snaps'[d] = "pending")
         /\ snaps[d] # "none" => born'[d] = born[d]
<1> USE DEF TypeInv
<1>1. Opened(d) /\ TypeOK
  OBVIOUS
<1>2. CASE Freeze(d)
  BY <1>1, <1>2 DEF Freeze, TypeOK, Opened, Saved, Fact
<1>3. CASE Import(d)
  BY <1>1, <1>3, Constants DEF Import, TypeOK, Opened, Fact
<1>4. CASE FreezeLive(d)
  BY <1>1, <1>4 DEF FreezeLive, TypeOK, Opened, Saved, Fact
<1>5. CASE Close(d)
  BY <1>1, <1>5 DEF Close, TypeOK, Opened, Fact
<1>6. CASE EnsureSnapshot(d)
  BY <1>1, <1>6 DEF EnsureSnapshot, TypeOK, Opened, Saved, Fact
<1>7. CASE Delete(d)
  BY <1>1, <1>7 DEF Delete, TypeOK, Opened, Fact
<1> QED BY <1>2, <1>3, <1>4, <1>5, <1>6, <1>7 DEF Keeping

\* Its confidence was not measured.
Unmeasured(o) == o.conf = ""

\* An outcome is what its source may say, of a decision that is kept.
Honest(o) ==
  /\ o \in Outcome /\ snaps[o.id] # "none"
  /\ o.src \in {"expiry_settlement", "managed_policy"} => Unmeasured(o)
  /\ o.src = "expiry_settlement" => o.elapsed = Fact(o.id).span

LEMMA HeadListed ==
  ASSUME TypeInv, NEW j \in Job, job[j].queue # <<>>, NEW d, d = Head(job[j].queue)
  PROVE  /\ d \in Decisions /\ job[j] \in JobState
         /\ snaps[d] # "none" /\ born[d] <= job[j].day
<1>1. Listing(j) /\ job[j] \in JobState /\ job[j].queue \in Seq(Decisions)
  BY DEF TypeInv, TypeOK, JobState
<1>2. 1 \in DOMAIN job[j].queue /\ d = job[j].queue[1] /\ d \in Decisions
  BY <1>1
<1> QED BY <1>1, <1>2 DEF Listing

LEMMA GradeTypes ==
  ASSUME TypeInv, NEW j \in Job, job[j].queue # <<>>, NEW d, d = Head(job[j].queue), NEW o \in Grades(j, d)
  PROVE  /\ Honest(o) /\ o.id = d
         /\ o.src = "expiry_settlement" => j = "expiry"
         /\ o.src = "managed_policy" => j = "managed"
<1>1. /\ d \in Decisions /\ job[j] \in JobState
      /\ snaps[d] # "none" /\ born[d] <= job[j].day
  BY HeadListed
<1>2. /\ Fact(d) \in Facts /\ TypeOK
      /\ today \in 0 .. MaxDay /\ born[d] \in 0 .. MaxDay /\ Len(outs) \in Nat
  BY <1>1, FactTypes, LenProperties DEF TypeInv, TypeOK
<1>3. PICK s \in Sources(j), e \in Elapses(j, d), c \in Confidences(j) :
        o = [id |-> d, src |-> s, day |-> IF j = "intraday" THEN today ELSE job[j].day,
             at |-> IF j = "intraday" THEN Len(outs) ELSE job[j].at,
             elapsed |-> e, conf |-> c, result |-> Fact(d).says[s].result, pnl |-> Fact(d).says[s].pnl]
  BY DEF Grades
<1>4. /\ s \in Source
      /\ s = "expiry_settlement" <=> j = "expiry"
      /\ s = "managed_policy" <=> j = "managed"
  BY DEF Sources, Source, Job
<1>5. /\ e \in Nat
      /\ j = "expiry" => e = Fact(d).span
  <2>1. Fact(d).span \in Nat
    BY <1>2 DEF Facts
  <2>2. CASE j \in {"resolve", "api"}
    <3>1. Elapses(j, d) = {job[j].day - born[d]}
      BY <2>2 DEF Elapses
    <3>2. job[j].day \in Nat /\ born[d] \in Nat
      BY <1>1, <1>2, Constants DEF JobState
    <3> QED BY <1>1, <2>2, <3>1, <3>2
  <2>3. CASE j = "expiry"
    BY <2>1, <2>3 DEF Elapses
  <2>4. CASE j \in {"managed", "intraday"}
    <3>1. Elapses(j, d) = 0 .. Fact(d).span
      BY <2>4 DEF Elapses
    <3> QED BY <2>1, <2>4, <3>1
  <2> QED BY <2>2, <2>3, <2>4 DEF Job
<1>6. Fact(d).says[s].result \in Result /\ Fact(d).says[s].pnl \in Int
  BY <1>2, <1>4 DEF Facts, Verdict
<1>7. /\ c \in {"", "high", "low"}
      /\ j # "intraday" => c = ""
  BY DEF Confidences
<1>8. /\ (IF j = "intraday" THEN today ELSE job[j].day) \in 0 .. MaxDay
      /\ (IF j = "intraday" THEN Len(outs) ELSE job[j].at) \in Nat
  BY <1>1, <1>2 DEF JobState
<1>9. o \in Outcome /\ o.id = d /\ o.src = s /\ o.elapsed = e /\ o.conf = c
  BY <1>1, <1>3, <1>4, <1>5, <1>6, <1>7, <1>8 DEF Outcome
<1>10. j # "intraday" => Unmeasured(o)
  BY <1>7, <1>9 DEF Unmeasured
<1> QED BY <1>1, <1>4, <1>5, <1>9, <1>10 DEF Honest

\* A row is appended and the status of its decision set.
Records(o) ==
  /\ Honest(o)
  /\ outs' = Append(outs, o) /\ snaps' = [snaps EXCEPT ![o.id] = "resolved"]

LEMMA SaveRecords ==
  ASSUME NEW o, Honest(o), SaveOutcome(o)
  PROVE  Records(o)
BY DEF SaveOutcome, Records, Honest

LEMMA GradeSteps ==
  ASSUME TypeInv, NEW j \in Job, NEW d \in Decisions, Grade(j, d)
  PROVE  /\ d = Head(job[j].queue) /\ job[j].queue # <<>> /\ Advance(j)
         /\ UNCHANGED <<today, born, book, todo, gate, spent, cast>>
         /\ \E o \in Outcome : /\ Records(o) /\ o.id = d
                               /\ o.src = "expiry_settlement" => j = "expiry"
                               /\ o.src = "managed_policy" => j = "managed"
<1>1. /\ d = Head(job[j].queue) /\ job[j].queue # <<>> /\ Advance(j)
      /\ UNCHANGED <<today, born, book, todo, gate, spent, cast>>
  BY DEF Grade
<1>2. PICK o \in Grades(j, d) : SaveOutcome(o)
  BY DEF Grade
<1>3. /\ Honest(o) /\ o.id = d
      /\ o.src = "expiry_settlement" => j = "expiry"
      /\ o.src = "managed_policy" => j = "managed"
  BY <1>1, GradeTypes
<1>4. Records(o) /\ o \in Outcome
  BY <1>2, <1>3, SaveRecords DEF Honest
<1> QED BY <1>1, <1>3, <1>4

LEMMA GradeLiveSteps ==
  ASSUME TypeInv, NEW d \in Decisions, GradeLive(d)
  PROVE  /\ todo' = [todo EXCEPT ![d] = @ \ {"grade"}]
         /\ UNCHANGED <<today, born, book, job, gate, spent, cast>>
         /\ \E o \in Outcome : Records(o) /\ o.src = "live_close"
<1>1. PICK day \in {0, today} :
        SaveOutcome([id |-> d, src |-> "live_close", day |-> day, at |-> Len(outs),
                     elapsed |-> DaysHeld(d, day), conf |-> "",
                     result |-> Fact(d).says["live_close"].result, pnl |-> Fact(d).says["live_close"].pnl])
  BY DEF GradeLive
<1>2. /\ Fact(d) \in Facts /\ "grade" \in todo[d] /\ Opened(d)
      /\ today \in 0 .. MaxDay /\ born[d] \in 0 .. MaxDay /\ Len(outs) \in Nat
  BY FactTypes, LenProperties DEF TypeInv, TypeOK, GradeLive
<1>3. day \in 0 .. MaxDay /\ DaysHeld(d, day) \in Nat
  BY <1>2, Constants DEF DaysHeld
<1>4. /\ Fact(d).says["live_close"].result \in Result
      /\ Fact(d).says["live_close"].pnl \in Int
  BY <1>2 DEF Facts, Verdict, Source
<1>5. PICK o : o = [id |-> d, src |-> "live_close", day |-> day, at |-> Len(outs),
                    elapsed |-> DaysHeld(d, day), conf |-> "",
                    result |-> Fact(d).says["live_close"].result, pnl |-> Fact(d).says["live_close"].pnl]
  OBVIOUS
<1>6. o \in Outcome /\ o.id = d /\ o.src = "live_close"
  BY <1>2, <1>3, <1>4, <1>5 DEF Outcome, Source
<1>7. Honest(o)
  BY <1>2, <1>6 DEF Honest, Opened, Unmeasured
<1>8. Records(o)
  BY <1>1, <1>5, <1>7, SaveRecords
<1> QED BY <1>6, <1>8 DEF GradeLive

\* A list of decisions that are kept and born by now, each once.
Fit(q) ==
  /\ q \in Seq(Decisions)
  /\ \A i, k \in DOMAIN q : q[i] = q[k] => i = k
  /\ \A i \in DOMAIN q : snaps[q[i]] # "none" /\ born[q[i]] <= today

LEMMA FitLists ==
  ASSUME TypeInv, NEW S, S \subseteq Kept, \A d \in S : born[d] <= today
  PROVE  /\ Fit(NewestFirst(S)) /\ \A i \in DOMAIN NewestFirst(S) : NewestFirst(S)[i] \in S
         /\ \A n \in Nat : Fit(Listed(S, n))
<1>1. S \subseteq Decisions /\ born \in [Decisions -> Int] /\ \A d \in S : snaps[d] # "none"
  BY Constants DEF TypeInv, TypeOK, Kept
<1>2. /\ NewestFirst(S) \in Seq(S)
      /\ \A i, j \in DOMAIN NewestFirst(S) : NewestFirst(S)[i] = NewestFirst(S)[j] => i = j
  BY <1>1, NewestList
<1>3. \A i \in DOMAIN NewestFirst(S) : NewestFirst(S)[i] \in S
  BY <1>2
<1>4. Fit(NewestFirst(S))
  BY <1>1, <1>2, <1>3 DEF Fit
<1>5. ASSUME NEW n \in Nat PROVE Fit(Listed(S, n))
  <2>1. /\ Listed(S, n) \in Seq(S)
        /\ \A i, j \in DOMAIN Listed(S, n) : Listed(S, n)[i] = Listed(S, n)[j] => i = j
    BY <1>1, ListedAll
  <2>2. \A i \in DOMAIN Listed(S, n) : Listed(S, n)[i] \in S
    BY <2>1
  <2> QED BY <1>1, <2>1, <2>2 DEF Fit
<1> QED BY <1>3, <1>4, <1>5

LEMMA JobLists ==
  ASSUME TypeInv
  PROVE  /\ \A minAge \in {0, 1}, atExpiry \in BOOLEAN : Fit(ToResolve(minAge, atExpiry))
         /\ Fit(ToSettle) /\ \A i \in DOMAIN ToSettle : snaps[ToSettle[i]] = "pending"
         /\ Fit(ToReplay)
         /\ \A i \in DOMAIN ToReplay, k \in DOMAIN outs :
              ~(outs[k].id = ToReplay[i] /\ outs[k].src = "managed_policy")
         /\ Fit(ToRegrade)
<1>1. /\ today \in Nat /\ born \in [Decisions -> Int]
      /\ \A d \in Decisions : born[d] \in Nat /\ Fact(d).span \in Nat /\ (snaps[d] = "pending" => d \in Kept)
  <2>1. TypeOK /\ \A d \in Decisions : Fact(d) \in Facts
    BY FactTypes DEF TypeInv
  <2>2. \A d \in Decisions : Fact(d).span \in Nat
    BY <2>1 DEF Facts
  <2>3. /\ today \in Nat /\ born \in [Decisions -> Int]
        /\ \A d \in Decisions : born[d] \in Nat
    BY <2>1, Constants DEF TypeOK
  <2> QED BY <2>2, <2>3 DEF Kept
<1>2. Kept \subseteq Decisions /\ Pending \subseteq Kept
  BY <1>1 DEF Kept, Pending
<1>3. \A d \in Kept : Expiry(d) <= today => born[d] <= today
  BY <1>1, <1>2 DEF Expiry
<1>4. ASSUME NEW minAge \in {0, 1}, NEW atExpiry \in BOOLEAN
      PROVE  Fit(ToResolve(minAge, atExpiry))
  <2> DEFINE S == {d \in Range(Listed(Pending, PendingLimit)) : Matured(d, minAge, atExpiry)}
  <2>1. Range(Listed(Pending, PendingLimit)) \subseteq Pending
    BY <1>1, <1>2, ListedAll, Constants
  <2>2. S \subseteq Kept /\ \A d \in S : born[d] <= today
    BY <1>1, <1>2, <2>1 DEF Matured
  <2> HIDE DEF S
  <2>3. Fit(NewestFirst(S))
    BY <2>2, FitLists
  <2> QED BY <2>3 DEF ToResolve, S
<1>5. Fit(ToSettle) /\ \A i \in DOMAIN ToSettle : snaps[ToSettle[i]] = "pending"
  <2> DEFINE S == {d \in Pending : Expiry(d) < today}
  <2>1. S \subseteq Kept /\ \A d \in S : born[d] <= today /\ snaps[d] = "pending"
    BY <1>1, <1>2 DEF Expiry, Pending
  <2> HIDE DEF S
  <2>2. Fit(NewestFirst(S)) /\ \A i \in DOMAIN NewestFirst(S) : NewestFirst(S)[i] \in S
    BY <2>1, FitLists
  <2>3. ToSettle = NewestFirst(S)
    BY DEF ToSettle, S
  <2> QED BY <2>1, <2>2, <2>3
<1>6. /\ Fit(ToReplay)
      /\ \A i \in DOMAIN ToReplay, k \in DOMAIN outs :
           ~(outs[k].id = ToReplay[i] /\ outs[k].src = "managed_policy")
  <2> DEFINE S == {d \in Kept : Expiry(d) < today /\ \A i \in DOMAIN outs : ~(outs[i].id = d /\ IsManaged(outs[i]))}
  <2>1. /\ S \subseteq Kept
        /\ \A d \in S : /\ born[d] <= today
                        /\ \A k \in DOMAIN outs : ~(outs[k].id = d /\ outs[k].src = "managed_policy")
    BY <1>1, <1>2 DEF Expiry, IsManaged
  <2>2. ToReplay = NewestFirst(S)
    BY DEF ToReplay
  <2> HIDE DEF S
  <2>3. Fit(NewestFirst(S)) /\ \A i \in DOMAIN NewestFirst(S) : NewestFirst(S)[i] \in S
    BY <2>1, FitLists
  <2> QED BY <2>1, <2>2, <2>3
<1>7. Fit(ToRegrade)
  <2> DEFINE S == {d \in Range(Listed(Kept, 4 * RegradeLimit)) : Expiry(d) <= today}
  <2>1. Range(Listed(Kept, 4 * RegradeLimit)) \subseteq Kept
    <3>1. 4 * RegradeLimit \in Nat
      BY Constants
    <3> QED BY <1>1, <1>2, <3>1, ListedAll
  <2>2. S \subseteq Kept /\ \A d \in S : born[d] <= today
    BY <1>3, <2>1
  <2> HIDE DEF S
  <2>3. Fit(Listed(S, RegradeLimit))
    BY <2>2, FitLists, Constants
  <2> QED BY <2>3 DEF ToRegrade, S
<1> QED BY <1>4, <1>5, <1>6, <1>7

\* What a step does to the rows and to the lists of the jobs.
Spends(j, o) == job[j].queue # <<>> /\ o.id = Head(job[j].queue) /\ job'[j].queue = Tail(job[j].queue)
Quiet ==
  /\ outs' = outs
  /\ \A d \in Decisions : snaps'[d] = snaps[d] \/ (snaps[d] = "none" /\ snaps'[d] = "pending")
RowAdded ==
  \E o \in Outcome :
    /\ Records(o)
    /\ o.src = "expiry_settlement" => Spends("expiry", o)
    /\ o.src = "managed_policy" => Spends("managed", o)
Lists(j) ==
  /\ outs' = outs /\ snaps' = snaps /\ born' = born
  /\ Fit(job'[j].queue) /\ job'[j].day = today
  /\ j = "expiry" => \A i \in DOMAIN job'[j].queue : snaps[job'[j].queue[i]] = "pending"
  /\ j = "managed" => \A i \in DOMAIN job'[j].queue, k \in DOMAIN outs :
                        ~(outs[k].id = job'[j].queue[i] /\ outs[k].src = "managed_policy")
KeepsBirth(d) == snaps[d] # "none" => snaps'[d] # "none" /\ born'[d] = born[d]

Moves ==
  /\ cast'.n = cast.n
  /\ \A d \in Decisions : KeepsBirth(d)
  /\ Quiet \/ RowAdded
  /\ \A j \in Job : Shrinks(j) \/ Lists(j)

Good == TypeOK' /\ (\A d \in Decisions : Opened(d)') /\ Moves

LEMMA KeepingGood ==
  ASSUME TypeInv, NEW d \in Decisions, Keeping(d)
  PROVE  Good
<1>1. /\ TypeOK' /\ UNCHANGED <<cast, outs, job, gate, spent>>
      /\ Opened(d)'
      /\ \A c \in Decisions \ {d} :
           snaps'[c] = snaps[c] /\ born'[c] = born[c] /\ book'[c] = book[c] /\ todo'[c] = todo[c]
      /\ snaps'[d] = snaps[d] \/ (snaps[d] = "none" /\ snaps'[d] = "pending")
      /\ snaps[d] # "none" => born'[d] = born[d]
  BY KeepingSteps
<1>2. \A c \in Decisions : Opened(c)'
  BY <1>1 DEF TypeInv, Opened, Fact
<1>3. Moves
  BY <1>1 DEF Moves, Quiet, Shrinks, KeepsBirth
<1> QED BY <1>1, <1>2, <1>3 DEF Good

LEMMA RowTypes ==
  ASSUME TypeInv, NEW o \in Outcome, Records(o)
  PROVE  /\ outs' \in Seq(Outcome)
         /\ snaps' \in [Decisions -> {"none", "pending", "resolved"}]
         /\ \A d \in Decisions : snaps[d] # "none" => snaps'[d] # "none"
         /\ \A d \in Decisions : snaps[d] = "none" => snaps'[d] = "none"
<1>1. outs \in Seq(Outcome) /\ snaps \in [Decisions -> {"none", "pending", "resolved"}] /\ o.id \in Decisions
  BY DEF TypeInv, TypeOK, Outcome
<1>2. snaps' = [snaps EXCEPT ![o.id] = "resolved"] /\ snaps[o.id] # "none" /\ outs' = Append(outs, o)
  BY DEF Records, Honest
<1> QED BY <1>1, <1>2

LEMMA GradeGood ==
  ASSUME TypeInv, NEW j \in Job, NEW d \in Decisions, Grade(j, d)
  PROVE  Good
<1>1. /\ d = Head(job[j].queue) /\ job[j].queue # <<>> /\ Advance(j)
      /\ UNCHANGED <<today, born, book, todo, gate, spent, cast>>
  BY GradeSteps
<1>2. PICK o \in Outcome : /\ Records(o) /\ o.id = d
                           /\ o.src = "expiry_settlement" => j = "expiry"
                           /\ o.src = "managed_policy" => j = "managed"
  BY GradeSteps
<1>3. /\ job' \in [Job -> JobState] /\ \A k \in Job : Shrinks(k)
      /\ job'[j].queue = Tail(job[j].queue)
  BY <1>1, AdvanceShrinks
<1>4. /\ outs' \in Seq(Outcome)
      /\ snaps' \in [Decisions -> {"none", "pending", "resolved"}]
      /\ \A c \in Decisions : snaps[c] # "none" => snaps'[c] # "none"
      /\ \A c \in Decisions : snaps[c] = "none" => snaps'[c] = "none"
  BY <1>2, RowTypes
<1>5. TypeOK'
  BY <1>1, <1>3, <1>4 DEF TypeInv, TypeOK, JobState
<1>6. \A c \in Decisions : Opened(c)'
  BY <1>1, <1>4 DEF TypeInv, Opened, Fact
<1>7. RowAdded
  BY <1>1, <1>2, <1>3 DEF RowAdded, Spends
<1>8. Moves
  BY <1>1, <1>3, <1>4, <1>7 DEF Moves, KeepsBirth
<1> QED BY <1>5, <1>6, <1>8 DEF Good

LEMMA GradeLiveGood ==
  ASSUME TypeInv, NEW d \in Decisions, GradeLive(d)
  PROVE  Good
<1>1. /\ todo' = [todo EXCEPT ![d] = @ \ {"grade"}]
      /\ UNCHANGED <<today, born, book, job, gate, spent, cast>>
  BY GradeLiveSteps
<1>2. PICK o \in Outcome : Records(o) /\ o.src = "live_close"
  BY GradeLiveSteps
<1>3. /\ outs' \in Seq(Outcome)
      /\ snaps' \in [Decisions -> {"none", "pending", "resolved"}]
      /\ \A c \in Decisions : snaps[c] # "none" => snaps'[c] # "none"
      /\ \A c \in Decisions : snaps[c] = "none" => snaps'[c] = "none"
  BY <1>2, RowTypes
<1>4. TypeOK'
  BY <1>1, <1>3 DEF TypeInv, TypeOK
<1>5. \A c \in Decisions : Opened(c)'
  BY <1>1, <1>3 DEF TypeInv, TypeOK, Opened, Fact
<1>6. RowAdded
  BY <1>2 DEF RowAdded
<1>7. Moves
  BY <1>1, <1>3, <1>6 DEF Moves, KeepsBirth, Shrinks
<1> QED BY <1>4, <1>5, <1>7 DEF Good

LEMMA SkipGood ==
  ASSUME TypeInv, NEW j \in Job, NEW d \in Decisions, Skip(j, d)
  PROVE  Good
<1>1. /\ job[j].queue # <<>> /\ Advance(j)
      /\ UNCHANGED <<today, snaps, born, book, todo, outs, gate, spent, cast>>
  BY DEF Skip
<1>2. job' \in [Job -> JobState] /\ \A k \in Job : Shrinks(k)
  BY <1>1, AdvanceShrinks
<1>3. TypeOK'
  BY <1>1, <1>2 DEF TypeInv, TypeOK, JobState
<1>4. \A c \in Decisions : Opened(c)'
  BY <1>1 DEF TypeInv, Opened, Fact
<1>5. Moves
  BY <1>1, <1>2 DEF Moves, Quiet, KeepsBirth
<1> QED BY <1>3, <1>4, <1>5 DEF Good

LEMMA StartsGood ==
  ASSUME TypeInv, NEW j \in Job, NEW q, Starts(j, q), Fit(q),
         j = "expiry" => \A i \in DOMAIN q : snaps[q[i]] = "pending",
         j = "managed" => \A i \in DOMAIN q, k \in DOMAIN outs :
                           ~(outs[k].id = q[i] /\ outs[k].src = "managed_policy")
  PROVE  Good
<1>1. /\ job' = [job EXCEPT ![j] = [queue |-> q, day |-> today, at |-> Len(outs)]]
      /\ cast.runs[j] > 0
      /\ UNCHANGED <<today, snaps, born, book, todo, outs, gate, spent>>
      /\ cast' = IF j = "resolve" THEN cast ELSE [cast EXCEPT !.runs[j] = @ - 1]
  BY DEF Starts
<1>2. TypeOK /\ job \in [Job -> JobState]
  BY DEF TypeInv, TypeOK, JobState
<1>3. PICK h : h = [queue |-> q, day |-> today, at |-> Len(outs)]
  OBVIOUS
<1>4. h \in JobState /\ h.queue = q /\ h.day = today
  BY <1>2, <1>3, LenProperties DEF JobState, Fit, TypeOK
<1>5. job' = [job EXCEPT ![j] = h]
  BY <1>1, <1>3
<1>6. job' \in [Job -> JobState] /\ job'[j] = h /\ \A k \in Job \ {j} : job'[k] = job[k]
  BY <1>2, <1>4, <1>5
<1>7. cast' \in [n : DOMAIN Casts, runs : [Job -> Nat], crash : Nat] /\ cast'.n = cast.n
  <2>1. cast \in [n : DOMAIN Casts, runs : [Job -> Nat], crash : Nat]
    BY <1>2 DEF TypeOK
  <2>2. PICK left \in Nat : left = cast.runs[j] - 1
    BY <1>1, <2>1
  <2>3. CASE j # "resolve"
    <3>1. cast' = [cast EXCEPT !.runs = [cast.runs EXCEPT ![j] = left]]
      BY <1>1, <2>1, <2>2, <2>3
    <3> QED BY <2>1, <3>1
  <2> QED BY <1>1, <2>1, <2>3
<1>8. TypeOK'
  BY <1>1, <1>2, <1>6, <1>7 DEF TypeOK, JobState
<1>9. \A c \in Decisions : Opened(c)'
  BY <1>1, <1>7 DEF TypeInv, Opened, Fact
<1>10. Lists(j)
  BY <1>1, <1>4, <1>6 DEF Lists
<1>11. Moves
  BY <1>1, <1>6, <1>7, <1>10 DEF Moves, Quiet, KeepsBirth, Shrinks
<1> QED BY <1>8, <1>9, <1>11 DEF Good

LEMMA StartJobsGood ==
  ASSUME TypeInv, StartResolve \/ StartApi \/ StartExpiry \/ StartManaged \/ StartIntraday
  PROVE  Good
<1>1. CASE StartResolve
  BY <1>1, JobLists, StartsGood DEF StartResolve, Job
<1>2. CASE StartApi
  <2>1. PICK minAge \in {0, 1}, atExpiry \in BOOLEAN : Starts("api", ToResolve(minAge, atExpiry))
    BY <1>2 DEF StartApi
  <2> QED BY <2>1, JobLists, StartsGood DEF Job
<1>3. CASE StartExpiry
  BY <1>3, JobLists, StartsGood DEF StartExpiry, Job
<1>4. CASE StartManaged
  BY <1>4, JobLists, StartsGood DEF StartManaged, Job
<1>5. CASE StartIntraday
  BY <1>5, JobLists, StartsGood DEF StartIntraday, Job
<1> QED BY <1>1, <1>2, <1>3, <1>4, <1>5

LEMMA GateGood ==
  ASSUME TypeInv, RefreshGate \/ Authorize \/ NextDay
  PROVE  Good
<1>1. UNCHANGED <<snaps, born, book, todo, outs, job, cast>>
  BY DEF RefreshGate, Authorize, NextDay
<1>2. TypeOK'
  <2>1. \A readable : GateVerdict(readable) \in {"red", "green"}
    BY DEF GateVerdict
  <2>2. CASE RefreshGate
    <3>1. gate' \in {"red", "green"} /\ today' = today /\ spent' = spent
      BY <2>1, <2>2 DEF RefreshGate
    <3> QED BY <1>1, <3>1 DEF TypeInv, TypeOK
  <2>3. CASE Authorize
    <3>1. gate' \in {"none", "red", "green"} /\ today' = today /\ spent' \in BOOLEAN
      BY <2>1, <2>3 DEF Authorize, TypeInv, TypeOK
    <3> QED BY <1>1, <3>1 DEF TypeInv, TypeOK
  <2>4. CASE NextDay
    <3>1. today' \in 0 .. MaxDay /\ UNCHANGED <<gate, spent>>
      BY <2>4, Constants DEF NextDay, TypeInv, TypeOK
    <3> QED BY <1>1, <3>1 DEF TypeInv, TypeOK
  <2> QED BY <2>2, <2>3, <2>4
<1>3. \A c \in Decisions : Opened(c)'
  BY <1>1 DEF TypeInv, Opened, Fact
<1>4. Moves
  BY <1>1 DEF Moves, Quiet, KeepsBirth, Shrinks
<1> QED BY <1>2, <1>3, <1>4 DEF Good

LEMMA CrashGood ==
  ASSUME TypeInv, NEW j \in Job, Crash(j)
  PROVE  Good
<1>1. /\ cast.crash > 0 /\ cast' = [cast EXCEPT !.crash = @ - 1]
      /\ job' = [job EXCEPT ![j] = IdleJob]
      /\ UNCHANGED <<today, snaps, born, book, outs, spent>>
      /\ todo' = [d \in Decisions |-> {}] \/ todo' = todo
      /\ gate' = "none" \/ gate' = gate
  BY DEF Crash
<1>2. IdleJob \in JobState /\ IdleJob.queue = <<>>
  BY Constants DEF IdleJob, JobState
<1>3. TypeOK /\ job \in [Job -> JobState]
  BY DEF TypeInv, TypeOK, JobState
<1>4. job' \in [Job -> JobState] /\ \A k \in Job : Shrinks(k)
  BY <1>1, <1>2, <1>3 DEF Shrinks
<1>5. cast' \in [n : DOMAIN Casts, runs : [Job -> Nat], crash : Nat] /\ cast'.n = cast.n
  <2>1. cast \in [n : DOMAIN Casts, runs : [Job -> Nat], crash : Nat]
    BY <1>3 DEF TypeOK
  <2>2. PICK left \in Nat : left = cast.crash - 1
    BY <1>1, <2>1
  <2>3. cast' = [cast EXCEPT !.crash = left]
    BY <1>1, <2>2
  <2> QED BY <2>1, <2>3
<1>6. TypeOK'
  BY <1>1, <1>3, <1>4, <1>5 DEF TypeOK, JobState
<1>7. \A c \in Decisions : Opened(c)'
  BY <1>1, <1>3, <1>5 DEF TypeInv, TypeOK, Opened, Fact
<1>8. Moves
  BY <1>1, <1>4, <1>5 DEF Moves, Quiet, KeepsBirth
<1> QED BY <1>6, <1>7, <1>8 DEF Good

LEMMA StepGood ==
  ASSUME TypeInv, [Next]_vars
  PROVE  TypeInv' /\ Moves
<1>1. Good
  <2>1. CASE UNCHANGED vars
    <3>1. TypeOK' /\ \A c \in Decisions : Opened(c)'
      BY <2>1 DEF vars, TypeInv, TypeOK, Opened, Fact
    <3>2. Moves
      BY <2>1 DEF vars, Moves, Quiet, KeepsBirth, Shrinks
    <3> QED BY <3>1, <3>2 DEF Good
  <2>2. ASSUME NEW d \in Decisions, Keeping(d) PROVE Good
    BY <2>2, KeepingGood
  <2>3. ASSUME NEW d \in Decisions, GradeLive(d) PROVE Good
    BY <2>3, GradeLiveGood
  <2>4. ASSUME NEW d \in Decisions, NEW j \in Job, Grade(j, d) \/ Skip(j, d) PROVE Good
    BY <2>4, GradeGood, SkipGood
  <2>5. CASE StartResolve \/ StartApi \/ StartExpiry \/ StartManaged \/ StartIntraday
    BY <2>5, StartJobsGood
  <2>6. CASE RefreshGate \/ Authorize \/ NextDay
    BY <2>6, GateGood
  <2>7. ASSUME NEW j \in Job, Crash(j) PROVE Good
    BY <2>7, CrashGood
  <2> QED BY <2>1, <2>2, <2>3, <2>4, <2>5, <2>6, <2>7 DEF Next, Keeping
<1>2. ASSUME NEW j \in Job PROVE Listing(j)'
  <2>1. CASE Shrinks(j)
    BY <1>1, <2>1, ListingKept DEF Good, Moves, KeepsBirth
  <2>2. CASE Lists(j)
    BY <2>2 DEF Lists, Fit, Listing
  <2> QED BY <1>1, <2>1, <2>2 DEF Good, Moves
<1> QED BY <1>1, <1>2 DEF Good, TypeInv

\* Every variable of the warehouse keeps its type: a job never meets a
\* decision without a snapshot, or one born after it was listed, so that the
\* days an outcome records are never negative.
THEOREM WarehouseTypes == Spec => []TypeOK
<1>1. Init => TypeInv
  BY InitTypes
<1>2. TypeInv /\ [Next]_vars => TypeInv'
  BY StepGood
<1>3. TypeInv => TypeOK
  BY DEF TypeInv
<1> QED BY <1>1, <1>2, <1>3, PTL DEF Spec

-----------------------------------------------------------------------------
(* Status and rows.                                                        *)

\* An outcome row joins the others at the end.
LEMMA RowJoins ==
  ASSUME TypeInv, NEW o \in Outcome, Records(o)
  PROVE  /\ Len(outs) \in Nat /\ DOMAIN outs = 1 .. Len(outs)
         /\ DOMAIN outs' = 1 .. Len(outs) + 1 /\ Len(outs') = Len(outs) + 1
         /\ outs'[Len(outs) + 1] = o
         /\ \A i \in DOMAIN outs : outs'[i] = outs[i]
<1>1. outs \in Seq(Outcome) /\ outs' = Append(outs, o)
  BY DEF TypeInv, TypeOK, Records
<1> QED BY <1>1

LEMMA StatusStep ==
  ASSUME TypeInv, ResolvedIffGraded, Moves
  PROVE  ResolvedIffGraded'
<1>1. CASE Quiet
  BY <1>1 DEF Quiet, ResolvedIffGraded, Of
<1>2. CASE RowAdded
  <2>1. PICK o \in Outcome : Records(o)
    BY <1>2 DEF RowAdded
  <2>2. /\ Len(outs) \in Nat /\ DOMAIN outs = 1 .. Len(outs)
        /\ DOMAIN outs' = 1 .. Len(outs) + 1
        /\ outs'[Len(outs) + 1] = o
        /\ \A i \in DOMAIN outs : outs'[i] = outs[i]
    BY <2>1, RowJoins
  <2>3. /\ o.id \in Decisions /\ snaps \in [Decisions -> {"none", "pending", "resolved"}]
        /\ snaps' = [snaps EXCEPT ![o.id] = "resolved"]
    BY <2>1 DEF TypeInv, TypeOK, Outcome, Records
  <2>4. ASSUME NEW d \in Decisions PROVE (snaps'[d] = "resolved") <=> (Of(d)' # {})
    <3>1. CASE d = o.id
      <4>1. Len(outs) + 1 \in Of(d)'
        BY <2>2, <3>1 DEF Of
      <4> QED BY <2>3, <3>1, <4>1
    <3>2. CASE d # o.id
      <4>1. Of(d)' = Of(d)
        BY <2>2, <3>2 DEF Of
      <4>2. snaps'[d] = snaps[d]
        BY <2>3, <3>2
      <4> QED BY <4>1, <4>2 DEF ResolvedIffGraded
    <3> QED BY <3>1, <3>2
  <2> QED BY <2>4 DEF ResolvedIffGraded
<1> QED BY <1>1, <1>2 DEF Moves

StatusInv == TypeInv /\ ResolvedIffGraded

LEMMA StatusInvariant == Spec => []StatusInv
<1>1. Init => StatusInv
  <2>1. Init => ResolvedIffGraded
    BY DEF Init, ResolvedIffGraded, Of
  <2> QED BY <2>1, InitTypes DEF StatusInv
<1>2. StatusInv /\ [Next]_vars => StatusInv'
  BY StepGood, StatusStep DEF StatusInv
<1> QED BY <1>1, <1>2, PTL DEF Spec

\* The status of a decision says whether it has been graded, whichever jobs,
\* requests and crashes come in between (repository.py save_outcome).
THEOREM StatusTheorem == Spec => []ResolvedIffGraded
<1>1. StatusInv => ResolvedIffGraded
  BY DEF StatusInv
<1> QED BY <1>1, StatusInvariant, PTL

-----------------------------------------------------------------------------
(* Reruns.  The expiry settlement and the managed replay are each written  *)
(* by one script, which listed the decision before it had such a row and   *)
(* comes to it once.                                                       *)

Script(j, src) ==
  \/ j = "expiry" /\ src = "expiry_settlement"
  \/ j = "managed" /\ src = "managed_policy"
Once(src) ==
  \A i, k \in DOMAIN outs :
    outs[i].src = src /\ outs[k].src = src /\ outs[i].id = outs[k].id => i = k
ToCome(j, src) ==
  /\ \A i, k \in DOMAIN job[j].queue : job[j].queue[i] = job[j].queue[k] => i = k
  /\ \A i \in DOMAIN job[j].queue, k \in DOMAIN outs :
       ~(outs[k].id = job[j].queue[i] /\ outs[k].src = src)

RerunInv ==
  /\ StatusInv
  /\ \A j \in Job, src \in Source : Script(j, src) => Once(src) /\ ToCome(j, src)

LEMMA RerunStep ==
  ASSUME StatusInv, Moves, NEW j \in Job, NEW src \in Source, Script(j, src), Once(src), ToCome(j, src)
  PROVE  Once(src)' /\ ToCome(j, src)'
<1> DEFINE q == job[j].queue
<1>1. TypeInv /\ ResolvedIffGraded /\ q \in Seq(Decisions) /\ job[j] \in JobState
  BY DEF StatusInv, TypeInv, TypeOK, JobState
<1>2. CASE Lists(j)
  <2>1. /\ outs' = outs /\ Fit(job'[j].queue)
        /\ j = "expiry" => \A i \in DOMAIN job'[j].queue : snaps[job'[j].queue[i]] = "pending"
        /\ j = "managed" => \A i \in DOMAIN job'[j].queue, k \in DOMAIN outs :
                              ~(outs[k].id = job'[j].queue[i] /\ outs[k].src = "managed_policy")
    BY <1>2 DEF Lists
  <2>2. \A i \in DOMAIN job'[j].queue : job'[j].queue[i] \in Decisions
    BY <2>1 DEF Fit
  <2>3. ASSUME NEW i \in DOMAIN job'[j].queue, NEW k \in DOMAIN outs, outs[k].id = job'[j].queue[i]
        PROVE  outs[k].src # src
    <3>1. CASE j = "expiry"
      <4>1. k \in Of(job'[j].queue[i])
        BY <2>3 DEF Of
      <4> QED BY <1>1, <2>1, <2>2, <3>1, <4>1 DEF ResolvedIffGraded
    <3>2. CASE j = "managed"
      BY <2>1, <2>3, <3>2 DEF Script
    <3> QED BY <3>1, <3>2 DEF Script
  <2> QED BY <2>1, <2>3 DEF Once, ToCome, Fit
<1>3. CASE Shrinks(j)
  <2> DEFINE r == job'[j].queue
             R == {q[m] : m \in DOMAIN q}
  <2>1. \/ r = q
        \/ r = <<>>
        \/ q # <<>> /\ r = Tail(q)
    BY <1>1, <1>3 DEF Shrinks, JobState
  <2>2. \A i, k \in DOMAIN q : q[i] = q[k] => i = k
    BY DEF ToCome
  <2>3. \A d \in R, k \in DOMAIN outs : ~(outs[k].id = d /\ outs[k].src = src)
    BY DEF ToCome
  <2>4. q # <<>> => /\ Len(q) \in Nat /\ DOMAIN q = 1 .. Len(q) /\ 1 \in DOMAIN q /\ Head(q) = q[1]
                    /\ DOMAIN Tail(q) = 1 .. Len(q) - 1
                    /\ \A i \in DOMAIN Tail(q) : i + 1 \in DOMAIN q /\ Tail(q)[i] = q[i + 1]
    BY <1>1
  <2>5. ASSUME r = q \/ r = <<>>
        PROVE  /\ \A i, k \in DOMAIN r : r[i] = r[k] => i = k
               /\ \A i \in DOMAIN r : r[i] \in R
    BY <2>2, <2>5
  <2>6. /\ \A i, k \in DOMAIN r : r[i] = r[k] => i = k
        /\ \A i \in DOMAIN r : r[i] \in R
    <3>1. CASE q # <<>> /\ r = Tail(q)
      <4>1. \A i \in DOMAIN r : i \in Nat /\ i + 1 \in DOMAIN q /\ r[i] = q[i + 1]
        BY <2>4, <3>1
      <4>2. \A i \in DOMAIN r : r[i] \in R
        BY <4>1
      <4>3. \A i, k \in DOMAIN r : r[i] = r[k] => i = k
        <5>1. TAKE i, k \in DOMAIN r
        <5>2. r[i] = r[k] => i + 1 = k + 1
          BY <2>2, <4>1
        <5> QED BY <4>1, <5>2
      <4> QED BY <4>2, <4>3
    <3> QED BY <2>1, <2>5, <3>1
  <2>7. CASE Quiet
    BY <2>3, <2>6, <2>7 DEF Quiet, Once, ToCome
  <2>8. CASE RowAdded
    <3>1. PICK o \in Outcome : /\ Records(o)
                               /\ o.src = "expiry_settlement" => Spends("expiry", o)
                               /\ o.src = "managed_policy" => Spends("managed", o)
      BY <2>8 DEF RowAdded
    <3>2. /\ Len(outs) \in Nat /\ DOMAIN outs = 1 .. Len(outs)
          /\ DOMAIN outs' = 1 .. Len(outs) + 1
          /\ outs'[Len(outs) + 1] = o
          /\ \A i \in DOMAIN outs : outs'[i] = outs[i]
      BY <1>1, <3>1, RowJoins
    <3>3. \A k \in DOMAIN outs' : k \in DOMAIN outs \/ k = Len(outs) + 1
      BY <3>2
    <3>4. CASE o.src # src
      BY <2>3, <2>6, <3>2, <3>3, <3>4 DEF Once, ToCome
    <3>5. CASE o.src = src
      <4>1. q # <<>> /\ o.id = Head(q) /\ r = Tail(q)
        BY <3>1, <3>5 DEF Script, Spends
      <4>2. o.id \in R
        BY <2>4, <4>1
      <4>3. \A i \in DOMAIN r : r[i] # o.id
        <5>1. TAKE i \in DOMAIN r
        <5>2. i \in Nat /\ i + 1 \in DOMAIN q /\ r[i] = q[i + 1] /\ i + 1 # 1
          BY <2>4, <4>1
        <5> QED BY <2>2, <2>4, <4>1, <5>2
      <4>4. Once(src)'
        BY <2>3, <3>2, <3>3, <4>2 DEF Once
      <4>5. ToCome(j, src)'
        BY <2>3, <2>6, <3>2, <3>3, <4>3 DEF ToCome
      <4> QED BY <4>4, <4>5
    <3> QED BY <3>4, <3>5
  <2> QED BY <2>7, <2>8 DEF Moves
<1> QED BY <1>2, <1>3 DEF Moves

LEMMA RerunInvariant == Spec => []RerunInv
<1>1. Init => RerunInv
  <2>1. SUFFICES ASSUME Init PROVE RerunInv
    OBVIOUS
  <2>2. StatusInv
    <3>1. ResolvedIffGraded
      BY <2>1 DEF Init, ResolvedIffGraded, Of
    <3> QED BY <2>1, <3>1, InitTypes DEF StatusInv
  <2>3. outs = <<>> /\ \A j \in Job : job[j].queue = <<>>
    <3>1. outs = <<>> /\ job = [j \in Job |-> IdleJob]
      BY <2>1 DEF Init
    <3>2. IdleJob.queue = <<>>
      BY DEF IdleJob
    <3> QED BY <3>1, <3>2
  <2> QED BY <2>2, <2>3 DEF RerunInv, Once, ToCome
<1>2. RerunInv /\ [Next]_vars => RerunInv'
  <2>1. SUFFICES ASSUME RerunInv, [Next]_vars PROVE RerunInv'
    OBVIOUS
  <2>2. StatusInv /\ StatusInv' /\ Moves
    BY <2>1, StepGood, StatusStep DEF RerunInv, StatusInv
  <2>3. ASSUME NEW j \in Job, NEW src \in Source, Script(j, src)
        PROVE  Once(src)' /\ ToCome(j, src)'
    BY <2>1, <2>2, <2>3, RerunStep DEF RerunInv
  <2> QED BY <2>2, <2>3 DEF RerunInv, Script
<1> QED BY <1>1, <1>2, PTL DEF Spec

\* However often the settlement scripts die and are run again, and whatever
\* the other jobs grade meanwhile, a decision has at most one settlement at
\* expiry and at most one managed replay (settle_under_policy.py:105).
THEOREM RerunTheorem == Spec => []RerunsAddNothing
<1>1. ASSUME RerunInv PROVE RerunsAddNothing
  <2>1. SUFFICES ASSUME NEW d \in Decisions, NEW src \in {"expiry_settlement", "managed_policy"}
                 PROVE  Cardinality({i \in Of(d) : outs[i].src = src}) <= 1
    BY DEF RerunsAddNothing
  <2>2. Once(src)
    <3>1. CASE src = "expiry_settlement"
      BY <1>1, <3>1 DEF RerunInv, Script, Job, Source
    <3>2. CASE src = "managed_policy"
      BY <1>1, <3>2 DEF RerunInv, Script, Job, Source
    <3> QED BY <3>1, <3>2
  <2> DEFINE I == {i \in Of(d) : outs[i].src = src}
  <2>3. \A i, k \in I : i = k
    BY <2>2 DEF Once, Of
  <2>4. CASE I = {}
    <3> HIDE DEF I
    <3>1. Cardinality(I) = 0
      BY <2>4, FS_EmptySet
    <3> QED BY <3>1 DEF I
  <2>5. CASE I # {}
    <3>1. PICK i \in I : I = {i}
      BY <2>3, <2>5
    <3> HIDE DEF I
    <3>2. Cardinality(I) = 1
      BY <3>1, FS_Singleton
    <3> QED BY <3>2 DEF I
  <2> QED BY <2>4, <2>5
<1> QED BY <1>1, RerunInvariant, PTL

-----------------------------------------------------------------------------
(* The outcomes the scorecard reads: rows of the table, all of them when   *)
(* the window holds them.                                                  *)

LEMMA LatestList ==
  ASSUME NEW seq \in Seq(Outcome)
  PROVE  /\ LatestFirst(seq) \in Seq(Outcome) /\ Len(LatestFirst(seq)) = Len(seq)
         /\ \A i \in DOMAIN LatestFirst(seq) : \E k \in DOMAIN seq : LatestFirst(seq)[i] = seq[k]
         /\ \A k \in DOMAIN seq : \E i \in DOMAIN LatestFirst(seq) : LatestFirst(seq)[i] = seq[k]
<1> DEFINE D == DOMAIN seq
           before(i, k) == \/ seq[i].day > seq[k].day
                           \/ seq[i].day = seq[k].day /\ seq[i].at > seq[k].at
                           \/ seq[i].day = seq[k].day /\ seq[i].at = seq[k].at /\ i < k
           low == [k \in D |-> {i \in D : before(i, k)}]
           order == Sorted(D, before)
           at(i) == CHOOSE x \in D : Cardinality({y \in D : before(y, x)}) = i - 1
<1>1. /\ D = 1 .. Len(seq) /\ Len(seq) \in Nat
      /\ IsFiniteSet(D) /\ Cardinality(D) = Len(seq)
  <2>1. D = 1 .. Len(seq) /\ Len(seq) \in Nat
    OBVIOUS
  <2>2. IsFiniteSet(1 .. Len(seq)) /\ Cardinality(1 .. Len(seq)) = Len(seq)
    BY <2>1, FS_Interval
  <2> QED BY <2>1, <2>2
<1>2. \A i \in D : seq[i] \in Outcome /\ seq[i].day \in Int /\ seq[i].at \in Int
  <2>1. ASSUME NEW o \in Outcome PROVE o.day \in Int /\ o.at \in Int
    <3>1. o.day \in 0 .. MaxDay /\ o.at \in Nat
      BY DEF Outcome
    <3> QED BY <3>1, Constants
  <2>2. \A i \in D : seq[i] \in Outcome
    OBVIOUS
  <2> QED BY <2>1, <2>2
<1>3. low \in [D -> SUBSET D]
  OBVIOUS
<1>4. \A i \in D : i \notin low[i]
  BY <1>1, <1>2
<1>5. \A i, k \in D : i # k => i \in low[k] \/ k \in low[i]
  BY <1>1, <1>2
<1>6. \A i, k, m \in D : i \in low[k] /\ k \in low[m] => i \in low[m]
  BY <1>1, <1>2
<1>7. /\ \A i \in 1 .. Len(seq) : \E x \in D : Cardinality(low[x]) = i - 1
      /\ \A x, y \in D : Cardinality(low[x]) = Cardinality(low[y]) => x = y
      /\ \A x \in D : Cardinality(low[x]) \in Nat /\ Cardinality(low[x]) + 1 \in 1 .. Len(seq)
  <2>a. IsFiniteSet(D)
    BY <1>1
  <2> HIDE DEF low, D
  <2>1. /\ \A i \in 1 .. Cardinality(D) : \E x \in D : Cardinality(low[x]) = i - 1
        /\ \A x, y \in D : Cardinality(low[x]) = Cardinality(low[y]) => x = y
        /\ \A x \in D : Cardinality(low[x]) + 1 \in 1 .. Cardinality(D)
    BY <2>a, <1>3, <1>4, <1>5, <1>6, Ranking
  <2>2. \A x \in D : Cardinality(low[x]) \in Nat
    <3>1. TAKE x \in D
    <3>2. low[x] \in SUBSET D
      BY <1>3
    <3> QED BY <1>1, <3>2, FS_Subset, FS_CardinalityType
  <2> QED BY <1>1, <2>1, <2>2
<1>8. \A i \in D : at(i) \in D /\ Cardinality(low[at(i)]) = i - 1
  <2>1. TAKE i \in D
  <2>2. \E x \in D : Cardinality({y \in D : before(y, x)}) = i - 1
    BY <1>1, <1>7
  <2> HIDE DEF before, D
  <2>3. at(i) \in D /\ Cardinality({y \in D : before(y, at(i))}) = i - 1
    BY <2>2
  <2>4. low[at(i)] = {y \in D : before(y, at(i))}
    BY <2>3
  <2> QED BY <2>3, <2>4
<1>9. order = [i \in 1 .. Cardinality(D) |-> at(i)]
  BY DEF Sorted
<1>10. LatestFirst(seq) = [i \in D |-> seq[order[i]]]
  BY DEF LatestFirst
<1> HIDE DEF at, before, low, order, D
<1>11. LatestFirst(seq) = [i \in D |-> seq[at(i)]]
  BY <1>1, <1>9, <1>10
<1>12. LatestFirst(seq) \in Seq(Outcome) /\ Len(LatestFirst(seq)) = Len(seq)
  BY <1>1, <1>2, <1>8, <1>11
<1>13. ASSUME NEW k \in D PROVE \E i \in D : at(i) = k
  <2>1. PICK i \in D : i = Cardinality(low[k]) + 1
    BY <1>1, <1>7
  <2>2. i - 1 = Cardinality(low[k])
    BY <1>7, <2>1
  <2>3. Cardinality(low[at(i)]) = Cardinality(low[k]) /\ at(i) \in D
    BY <1>8, <2>2
  <2> QED BY <1>7, <2>3
<1> QED BY <1>8, <1>11, <1>12, <1>13 DEF D

LEMMA FetchedList ==
  ASSUME NEW seq \in Seq(Outcome)
  PROVE  LET L == Take(LatestFirst(seq), FetchLimit)
         IN  /\ L \in Seq(Outcome)
             /\ \A i \in DOMAIN L : \E k \in DOMAIN seq : L[i] = seq[k]
             /\ Len(seq) <= FetchLimit =>
                  \A k \in DOMAIN seq : \E i \in DOMAIN L : L[i] = seq[k]
<1>1. /\ LatestFirst(seq) \in Seq(Outcome) /\ Len(LatestFirst(seq)) = Len(seq)
      /\ \A i \in DOMAIN LatestFirst(seq) : \E k \in DOMAIN seq : LatestFirst(seq)[i] = seq[k]
      /\ \A k \in DOMAIN seq : \E i \in DOMAIN LatestFirst(seq) : LatestFirst(seq)[i] = seq[k]
  BY LatestList
<1> DEFINE L == Take(LatestFirst(seq), FetchLimit)
<1>2. /\ L \in Seq(Outcome)
      /\ DOMAIN L \subseteq DOMAIN LatestFirst(seq)
      /\ \A i \in DOMAIN L : L[i] = LatestFirst(seq)[i]
      /\ Len(seq) <= FetchLimit => L = LatestFirst(seq)
  <2>1. LatestFirst(seq) \in Seq(Outcome) /\ FetchLimit \in Nat
    BY <1>1, Constants
  <2>2. /\ L \in Seq(Outcome)
        /\ DOMAIN L = {i \in DOMAIN LatestFirst(seq) : i <= FetchLimit}
        /\ \A i \in DOMAIN L : L[i] = LatestFirst(seq)[i]
        /\ Len(LatestFirst(seq)) <= FetchLimit => L = LatestFirst(seq)
    BY <2>1, TakeList
  <2> QED BY <1>1, <2>2
<1> HIDE DEF L
<1>3. \A i \in DOMAIN L : \E k \in DOMAIN seq : L[i] = seq[k]
  BY <1>1, <1>2
<1>4. Len(seq) <= FetchLimit => \A k \in DOMAIN seq : \E i \in DOMAIN L : L[i] = seq[k]
  BY <1>1, <1>2
<1> QED BY <1>2, <1>3, <1>4 DEF L

-----------------------------------------------------------------------------
(* The grade that is chosen for a decision: the last of the best.          *)

\* i is at least as good as k in a lexicographic order.
AtLeast(a, b, c, i, k) ==
  a[i] > a[k] \/ (a[i] = a[k] /\ (b[i] > b[k] \/ (b[i] = b[k] /\ c[i] >= c[k])))

LEMMA LexWinner ==
  ASSUME NEW I, IsFiniteSet(I), I # {}, I \subseteq Nat,
         NEW a \in [I -> Int], NEW b \in [I -> Int], NEW c \in [I -> Int]
  PROVE  \E i \in I : \A k \in I \ {i} :
           (k < i /\ AtLeast(a, b, c, i, k)) \/ (k > i /\ ~AtLeast(a, b, c, k, i))
<1> DEFINE beats(i, k) == (k < i /\ AtLeast(a, b, c, i, k)) \/ (k > i /\ ~AtLeast(a, b, c, k, i))
           low == [i \in I |-> {k \in I : beats(i, k)}]
<1>1. \A i \in I : i \in Int /\ a[i] \in Int /\ b[i] \in Int /\ c[i] \in Int
  OBVIOUS
<1>2. low \in [I -> SUBSET I]
  OBVIOUS
<1>3. \A i \in I : i \notin low[i]
  BY <1>1
<1>4. \A i, k \in I : i # k => i \in low[k] \/ k \in low[i]
  BY <1>1
<1>5. \A i, k, m \in I : i \in low[k] /\ k \in low[m] => i \in low[m]
  <2>1. TAKE i, k, m \in I
  <2>2. beats(k, i) /\ beats(m, k) => beats(m, i)
    BY <1>1 DEF AtLeast
  <2> QED BY <2>2
<1>6. PICK i \in I : low[i] = I \ {i}
  <2> HIDE DEF low
  <2> QED BY <1>2, <1>3, <1>4, <1>5, LastOne
<1>7. \A k \in I \ {i} : beats(i, k)
  BY <1>6
<1> QED BY <1>7

LEMMA SourceFidelity ==
  ASSUME NEW o
  PROVE  /\ FidelityOf(o) \in Nat
         /\ o.src \in {"managed_policy", "expiry_settlement"} => FidelityOf(o) = 3
<1>1. CASE o.src \in DOMAIN Fidelity
  BY <1>1 DEF FidelityOf, Fidelity
<1>2. CASE o.src \notin DOMAIN Fidelity
  BY <1>2 DEF FidelityOf, Fidelity
<1> QED BY <1>1, <1>2

LEMMA CountedFinite ==
  ASSUME NEW L \in Seq(Outcome), NEW I, I \subseteq DOMAIN L
  PROVE  IsFiniteSet(I) /\ I \subseteq Nat
<1>1. DOMAIN L = 1 .. Len(L) /\ Len(L) \in Nat
  OBVIOUS
<1>2. IsFiniteSet(1 .. Len(L))
  BY <1>1, FS_Interval
<1> QED BY <1>1, <1>2, FS_Subset

LEMMA ScoringChoice ==
  ASSUME NEW L \in Seq(Outcome)
  PROVE  /\ DOMAIN SelectScoring(L) = {L[i].id : i \in {k \in DOMAIN L : IsGradeable(L[k])}}
         /\ \A i \in DOMAIN L : IsGradeable(L[i]) =>
              \E w \in DOMAIN L :
                /\ SelectScoring(L)[L[i].id] = L[w] /\ L[w].id = L[i].id /\ IsGradeable(L[w])
                /\ \A k \in DOMAIN L : L[k].id = L[i].id /\ IsGradeable(L[k]) => AsGood(L[k], L[w])
<1> DEFINE of(id) == Counted(L, IsGradeable, id)
           winner(I) == CHOOSE i \in I : \A k \in I \ {i} : Stays(L, AsGood, i, k)
<1>1. SelectScoring(L) = [id \in {L[i].id : i \in {k \in DOMAIN L : IsGradeable(L[k])}} |-> L[winner(of(id))]]
  BY DEF SelectScoring, Selected
<1>2. ASSUME NEW i \in DOMAIN L, IsGradeable(L[i])
      PROVE  \E w \in DOMAIN L :
                /\ SelectScoring(L)[L[i].id] = L[w] /\ L[w].id = L[i].id /\ IsGradeable(L[w])
                /\ \A k \in DOMAIN L : L[k].id = L[i].id /\ IsGradeable(L[k]) => AsGood(L[k], L[w])
  <2> DEFINE I == of(L[i].id)
             a == [k \in I |-> 0]
             b == [k \in I |-> FidelityOf(L[k])]
             c == [k \in I |-> L[k].elapsed]
  <2>1. I = {k \in DOMAIN L : L[k].id = L[i].id /\ IsGradeable(L[k])} /\ i \in I
    BY <1>2 DEF Counted
  <2>2. IsFiniteSet(I) /\ I \subseteq Nat /\ I # {}
    BY <2>1, CountedFinite
  <2>3. \A k \in DOMAIN L : L[k].elapsed \in Nat
    <3>1. \A o \in Outcome : o.elapsed \in Nat
      BY DEF Outcome
    <3> QED BY <3>1
  <2>4. a \in [I -> Int] /\ b \in [I -> Int] /\ c \in [I -> Int]
    BY <2>1, <2>3, SourceFidelity
  <2>5. \A m, k \in I : AtLeast(a, b, c, m, k) <=> AsGood(L[k], L[m])
    BY <2>4 DEF AtLeast, AsGood
  <2> HIDE DEF I, a, b, c
  <2>6. PICK w0 \in I : \A k \in I \ {w0} :
          (k < w0 /\ AtLeast(a, b, c, w0, k)) \/ (k > w0 /\ ~AtLeast(a, b, c, k, w0))
    BY <2>2, <2>4, LexWinner
  <2>7. \A k \in I \ {w0} : Stays(L, AsGood, w0, k)
    BY <2>5, <2>6 DEF Stays
  <2>8. winner(I) \in I /\ \A k \in I \ {winner(I)} : Stays(L, AsGood, winner(I), k)
    BY <2>7
  <2>9. PICK w \in I : w = winner(I)
    BY <2>8
  <2> HIDE DEF winner
  <2>10. \A k \in I : AsGood(L[k], L[w])
    <3>1. TAKE k \in I
    <3>2. w \in DOMAIN L /\ k \in DOMAIN L /\ FidelityOf(L[w]) \in Nat /\ FidelityOf(L[k]) \in Nat
      BY <2>1, SourceFidelity
    <3>3. CASE k = w
      BY <2>3, <3>2, <3>3 DEF AsGood
    <3>4. CASE k # w
      BY <2>3, <2>8, <2>9, <3>2, <3>4 DEF AsGood, Stays
    <3> QED BY <3>3, <3>4
  <2>11. SelectScoring(L)[L[i].id] = L[w]
    BY <1>1, <1>2, <2>9 DEF I
  <2> QED BY <2>1, <2>10, <2>11
<1> QED BY <1>1, <1>2

LEMMA PnlChoice ==
  ASSUME NEW L \in Seq(Outcome)
  PROVE  /\ DOMAIN SelectPnl(L) = {L[i].id : i \in {k \in DOMAIN L : CountsPnl(L[k])}}
         /\ \A i \in DOMAIN L : CountsPnl(L[i]) =>
              \E w \in DOMAIN L :
                /\ SelectPnl(L)[L[i].id] = L[w] /\ L[w].id = L[i].id /\ CountsPnl(L[w])
                /\ \A k \in DOMAIN L : L[k].id = L[i].id /\ CountsPnl(L[k]) => PnlReplaces(L[k], L[w])
<1> DEFINE of(id) == Counted(L, CountsPnl, id)
           winner(I) == CHOOSE i \in I : \A k \in I \ {i} : Stays(L, PnlReplaces, i, k)
<1>1. SelectPnl(L) = [id \in {L[i].id : i \in {k \in DOMAIN L : CountsPnl(L[k])}} |-> L[winner(of(id))]]
  BY DEF SelectPnl, Selected
<1>2. ASSUME NEW i \in DOMAIN L, CountsPnl(L[i])
      PROVE  \E w \in DOMAIN L :
                /\ SelectPnl(L)[L[i].id] = L[w] /\ L[w].id = L[i].id /\ CountsPnl(L[w])
                /\ \A k \in DOMAIN L : L[k].id = L[i].id /\ CountsPnl(L[k]) => PnlReplaces(L[k], L[w])
  <2> DEFINE I == of(L[i].id)
             a == [k \in I |-> IF IsManaged(L[k]) THEN 1 ELSE 0]
             b == [k \in I |-> FidelityOf(L[k])]
             c == [k \in I |-> L[k].elapsed]
  <2>1. I = {k \in DOMAIN L : L[k].id = L[i].id /\ CountsPnl(L[k])} /\ i \in I
    BY <1>2 DEF Counted
  <2>2. IsFiniteSet(I) /\ I \subseteq Nat /\ I # {}
    BY <2>1, CountedFinite
  <2>3. \A k \in DOMAIN L : L[k].elapsed \in Nat
    <3>1. \A o \in Outcome : o.elapsed \in Nat
      BY DEF Outcome
    <3> QED BY <3>1
  <2>4. a \in [I -> Int] /\ b \in [I -> Int] /\ c \in [I -> Int]
    BY <2>1, <2>3, SourceFidelity
  <2>5. \A m, k \in I : AtLeast(a, b, c, m, k) <=> PnlReplaces(L[k], L[m])
    BY <2>4 DEF AtLeast, PnlReplaces, AsGood, IsManaged
  <2> HIDE DEF I, a, b, c
  <2>6. PICK w0 \in I : \A k \in I \ {w0} :
          (k < w0 /\ AtLeast(a, b, c, w0, k)) \/ (k > w0 /\ ~AtLeast(a, b, c, k, w0))
    BY <2>2, <2>4, LexWinner
  <2>7. \A k \in I \ {w0} : Stays(L, PnlReplaces, w0, k)
    BY <2>5, <2>6 DEF Stays
  <2>8. winner(I) \in I /\ \A k \in I \ {winner(I)} : Stays(L, PnlReplaces, winner(I), k)
    BY <2>7
  <2>9. PICK w \in I : w = winner(I)
    BY <2>8
  <2> HIDE DEF winner
  <2>10. \A k \in I : PnlReplaces(L[k], L[w])
    <3>1. TAKE k \in I
    <3>2. w \in DOMAIN L /\ k \in DOMAIN L /\ FidelityOf(L[w]) \in Nat /\ FidelityOf(L[k]) \in Nat
      BY <2>1, SourceFidelity
    <3>3. CASE k = w
      BY <2>3, <3>2, <3>3 DEF PnlReplaces, AsGood, IsManaged
    <3>4. CASE k # w
      BY <2>3, <2>8, <2>9, <3>2, <3>4 DEF PnlReplaces, AsGood, IsManaged, Stays
    <3> QED BY <3>3, <3>4
  <2>11. SelectPnl(L)[L[i].id] = L[w]
    BY <1>1, <1>2, <2>9 DEF I
  <2> QED BY <2>1, <2>10, <2>11
<1> QED BY <1>1, <1>2

-----------------------------------------------------------------------------
(* Two questions.                                                          *)

\* What the settlement and the replay of a decision say about themselves.
RowsHonest ==
  \A i \in DOMAIN outs :
    /\ outs[i].src \in {"expiry_settlement", "managed_policy"} => Unmeasured(outs[i])
    /\ outs[i].src = "expiry_settlement" => outs[i].elapsed = Fact(outs[i].id).span

LEMMA HonestInvariant == Spec => [](TypeInv /\ RowsHonest)
<1>1. Init => TypeInv /\ RowsHonest
  <2>1. ASSUME Init PROVE RowsHonest
    <3>1. outs = <<>>
      BY <2>1 DEF Init
    <3> QED BY <3>1 DEF RowsHonest
  <2> QED BY <2>1, InitTypes
<1>2. TypeInv /\ RowsHonest /\ [Next]_vars => (TypeInv /\ RowsHonest)'
  <2> SUFFICES ASSUME TypeInv, RowsHonest, [Next]_vars PROVE TypeInv' /\ RowsHonest'
    OBVIOUS
  <2>1. TypeInv' /\ Moves
    BY StepGood
  <2>2. cast'.n = cast.n
    BY <2>1 DEF Moves
  <2>3. CASE Quiet
    BY <2>1, <2>2, <2>3 DEF Quiet, RowsHonest, Fact
  <2>4. CASE RowAdded
    <3>1. PICK o \in Outcome : Records(o)
      BY <2>4 DEF RowAdded
    <3>2. /\ Len(outs) \in Nat /\ DOMAIN outs = 1 .. Len(outs)
          /\ DOMAIN outs' = 1 .. Len(outs) + 1
          /\ outs'[Len(outs) + 1] = o
          /\ \A i \in DOMAIN outs : outs'[i] = outs[i]
      BY <3>1, RowJoins
    <3>3. /\ o.src \in {"expiry_settlement", "managed_policy"} => Unmeasured(o)
          /\ o.src = "expiry_settlement" => o.elapsed = Fact(o.id).span
      BY <3>1 DEF Records, Honest
    <3> QED BY <2>1, <2>2, <3>2, <3>3 DEF RowsHonest, Fact
  <2> QED BY <2>1, <2>3, <2>4 DEF Moves
<1> QED BY <1>1, <1>2, PTL DEF Spec

\* What the scorecard has fetched, as far as the proofs need it.
LEMMA FetchedFacts ==
  ASSUME TypeInv
  PROVE  /\ FetchedOuts \in Seq(Outcome)
         /\ \A i \in DOMAIN FetchedOuts : \E k \in DOMAIN outs : FetchedOuts[i] = outs[k]
         /\ Fetched \subseteq Kept /\ Kept \subseteq Decisions
         /\ \A d \in Kept, i \in DOMAIN FetchedOuts : FetchedOuts[i].id = d => d \in Fetched
<1>1. /\ outs \in Seq(Outcome) /\ born \in [Decisions -> Int]
      /\ Kept \subseteq Decisions /\ FetchLimit \in Nat
  BY Constants DEF TypeInv, TypeOK, Kept
<1>2. Range(Listed(Kept, FetchLimit)) \subseteq Kept
  BY <1>1, ListedAll
<1> QED BY <1>1, <1>2, FetchedList DEF FetchedOuts, Fetched

LEMMA SnapshotFacts ==
  ASSUME NEW d
  PROVE  Snapshot(d).id = d /\ Snapshot(d).dte = Fact(d).span
BY DEF Snapshot

\* A replay answers for the dollars, and it answers for the win rate only if
\* it was held as long as the settlement: calibration.py select_pnl_outcomes
\* and select_scoring_outcomes read the same rows in any order.
THEOREM QuestionsTheorem == Spec => []TwoQuestions
<1>1. ASSUME TypeInv, RowsHonest PROVE TwoQuestions
  <2> DEFINE L == FetchedOuts
             S == {Snapshot(d) : d \in Fetched}
             has(s, src) == \E o \in Range(L) : o.id = s.id /\ o.src = src
  <2>1. /\ L \in Seq(Outcome)
        /\ \A i \in DOMAIN L : \E k \in DOMAIN outs : L[i] = outs[k]
        /\ Fetched \subseteq Decisions
    BY <1>1, FetchedFacts
  <2>2. \A i \in DOMAIN L :
          /\ L[i].src \in {"expiry_settlement", "managed_policy"} => Unmeasured(L[i])
          /\ L[i].src = "expiry_settlement" => L[i].elapsed = Fact(L[i].id).span
    BY <1>1, <2>1 DEF RowsHonest
  <2> HIDE DEF L
  <2>3. SUFFICES ASSUME NEW p \in Card(S, L).pairs, NEW q \in Card(S, L).priced,
                        p.snap = q.snap, has(p.snap, "managed_policy"), has(p.snap, "expiry_settlement")
                 PROVE  /\ q.out.src = "managed_policy"
                        /\ p.out.src = "managed_policy" => p.out.elapsed >= p.snap.dte
    BY DEF TwoQuestions, TheCard, L
  <2>4. PICK s \in S : p = [snap |-> s, out |-> SelectScoring(L)[s.id]] /\ s.id \in DOMAIN SelectScoring(L)
    BY <2>3 DEF Card, Paired, Calibrated, Eligible
  <2>5. PICK r \in S : q = [snap |-> r, out |-> SelectPnl(L)[r.id]] /\ r.id \in DOMAIN SelectPnl(L)
    BY <2>3 DEF Card, Paired, Calibrated, Eligible
  <2>6. s = r /\ p.snap = s /\ p.out = SelectScoring(L)[s.id] /\ q.out = SelectPnl(L)[s.id]
    BY <2>3, <2>4, <2>5
  <2>7. PICK d \in Fetched : s = Snapshot(d)
    OBVIOUS
  <2>8. s.id = d /\ s.dte = Fact(d).span
    BY <2>7, SnapshotFacts
  <2>9. PICK m \in DOMAIN L : L[m].id = d /\ L[m].src = "managed_policy"
    BY <2>3, <2>6, <2>8 DEF Range
  <2>10. PICK e \in DOMAIN L : L[e].id = d /\ L[e].src = "expiry_settlement"
    BY <2>3, <2>6, <2>8 DEF Range
  <2>11. /\ IsGradeable(L[m]) /\ CountsPnl(L[m]) /\ IsGradeable(L[e])
         /\ L[e].elapsed = Fact(d).span
    BY <2>2, <2>9, <2>10 DEF IsGradeable, CountsPnl, HasDollars, Unmeasured
  <2>12. q.out.src = "managed_policy"
    <3>1. PICK w \in DOMAIN L : /\ SelectPnl(L)[d] = L[w]
                                /\ \A k \in DOMAIN L : L[k].id = d /\ CountsPnl(L[k]) => PnlReplaces(L[k], L[w])
      BY <2>1, <2>9, <2>11, PnlChoice
    <3>2. PnlReplaces(L[m], L[w])
      BY <2>9, <2>11, <3>1
    <3>3. IsManaged(L[m])
      BY <2>9 DEF IsManaged
    <3> QED BY <2>6, <2>8, <3>1, <3>2, <3>3 DEF PnlReplaces, IsManaged
  <2>13. ASSUME p.out.src = "managed_policy" PROVE p.out.elapsed >= p.snap.dte
    <3>1. PICK w \in DOMAIN L : /\ SelectScoring(L)[d] = L[w]
                                /\ \A k \in DOMAIN L : L[k].id = d /\ IsGradeable(L[k]) => AsGood(L[k], L[w])
      BY <2>1, <2>10, <2>11, ScoringChoice
    <3>2. AsGood(L[e], L[w]) /\ p.out = L[w]
      BY <2>6, <2>8, <2>10, <2>11, <3>1
    <3>3. FidelityOf(L[e]) = 3 /\ FidelityOf(L[w]) = 3
      BY <2>10, <2>13, <3>2, SourceFidelity
    <3> QED BY <2>6, <2>8, <2>11, <3>2, <3>3 DEF AsGood
  <2> QED BY <2>12, <2>13
<1> QED BY <1>1, HonestInvariant, PTL

-----------------------------------------------------------------------------
(* Grades over time.                                                       *)

\* The pairs of a card, by decision.
LEMMA CardPairs ==
  ASSUME NEW D, NEW L
  PROVE  LET pairs == Card({Snapshot(d) : d \in D}, L).pairs
             counts(d) == Snapshot(d) \in Calibrated(Eligible({Snapshot(c) : c \in D}))
         IN  /\ \A p \in pairs : \E d \in D : /\ p = [snap |-> Snapshot(d), out |-> SelectScoring(L)[d]]
                                              /\ d \in DOMAIN SelectScoring(L) /\ ~Degraded(Snapshot(d))
                                              /\ Snapshot(d).bucket \notin ObservationOnly
             /\ \A d \in D :
                  /\ d \in DOMAIN SelectScoring(L) /\ ~Degraded(Snapshot(d))
                  /\ Snapshot(d).bucket \notin ObservationOnly
                  => [snap |-> Snapshot(d), out |-> SelectScoring(L)[d]] \in pairs
<1> DEFINE S == {Snapshot(d) : d \in D}
           kept == Calibrated(Eligible(S))
           chosen == SelectScoring(L)
<1>1. kept = {s \in S : ~Degraded(s) /\ s.bucket \notin ObservationOnly}
  BY DEF Calibrated, Eligible
<1>2. Card(S, L).pairs = {[snap |-> s, out |-> chosen[s.id]] : s \in {t \in kept : t.id \in DOMAIN chosen}}
  BY DEF Card, Paired
<1>3. \A d \in D : Snapshot(d) \in S /\ Snapshot(d).id = d
  BY SnapshotFacts
<1> HIDE DEF kept, chosen
<1>4. ASSUME NEW p \in Card(S, L).pairs
      PROVE  \E d \in D : /\ p = [snap |-> Snapshot(d), out |-> chosen[d]]
                          /\ d \in DOMAIN chosen /\ ~Degraded(Snapshot(d))
                          /\ Snapshot(d).bucket \notin ObservationOnly
  <2>1. PICK s \in kept : p = [snap |-> s, out |-> chosen[s.id]] /\ s.id \in DOMAIN chosen
    BY <1>2, <1>4
  <2>2. PICK d \in D : s = Snapshot(d)
    BY <1>1, <2>1
  <2> QED BY <1>1, <1>3, <2>1, <2>2
<1>5. ASSUME NEW d \in D, d \in DOMAIN chosen, ~Degraded(Snapshot(d)),
             Snapshot(d).bucket \notin ObservationOnly
      PROVE  [snap |-> Snapshot(d), out |-> chosen[d]] \in Card(S, L).pairs
  <2>1. Snapshot(d) \in kept /\ Snapshot(d).id = d
    BY <1>1, <1>3, <1>5
  <2> QED BY <1>2, <1>5, <2>1
<1> QED BY <1>4, <1>5 DEF chosen

LEMMA GradesImprove ==
  ASSUME TypeInv, Moves, TypeInv', outs' # outs, Len(outs') <= FetchLimit,
         NEW p \in TheCard.pairs
  PROVE  \E q \in Card({Snapshot(d) : d \in Fetched}', FetchedOuts').pairs :
           q.snap = p.snap /\ FidelityOf(q.out) >= FidelityOf(p.out)
<1>1. PICK L : L = FetchedOuts
  OBVIOUS
<1>2. PICK M : M = FetchedOuts'
  OBVIOUS
<1>3. PICK o \in Outcome : Records(o)
  BY DEF Moves, Quiet, RowAdded
<1>4. \A k \in DOMAIN outs : k \in DOMAIN outs' /\ outs'[k] = outs[k]
  <2>1. /\ Len(outs) \in Nat /\ DOMAIN outs = 1 .. Len(outs) /\ DOMAIN outs' = 1 .. Len(outs) + 1
        /\ \A i \in DOMAIN outs : outs'[i] = outs[i]
    BY <1>3, RowJoins
  <2> QED BY <2>1
<1>5. L \in Seq(Outcome) /\ \A i \in DOMAIN L : \E k \in DOMAIN outs : L[i] = outs[k]
  BY <1>1, FetchedFacts
<1>6. M \in Seq(Outcome) /\ \A k \in DOMAIN outs' : \E i \in DOMAIN M : M[i] = outs'[k]
  <2>1. outs' \in Seq(Outcome)
    BY DEF TypeInv, TypeOK
  <2> QED BY <1>2, <2>1, FetchedList DEF FetchedOuts
<1>7. {Snapshot(d) : d \in Fetched}' = {Snapshot(d) : d \in Fetched'}
  BY DEF Moves, Snapshot, Fact
<1>8. PICK d \in Fetched : /\ p = [snap |-> Snapshot(d), out |-> SelectScoring(L)[d]]
                           /\ d \in DOMAIN SelectScoring(L) /\ ~Degraded(Snapshot(d))
                           /\ Snapshot(d).bucket \notin ObservationOnly
  BY <1>1, CardPairs DEF TheCard
<1>9. PICK w \in DOMAIN L : SelectScoring(L)[d] = L[w] /\ L[w].id = d /\ IsGradeable(L[w])
  <2>1. DOMAIN SelectScoring(L) = {L[i].id : i \in {k \in DOMAIN L : IsGradeable(L[k])}}
    BY <1>5, ScoringChoice
  <2>2. PICK i \in DOMAIN L : L[i].id = d /\ IsGradeable(L[i])
    BY <1>8, <2>1
  <2> QED BY <1>5, <2>2, ScoringChoice
<1>10. PICK k \in DOMAIN M : M[k] = L[w]
  BY <1>4, <1>5, <1>6
<1>11. PICK b \in DOMAIN M : SelectScoring(M)[d] = M[b] /\ AsGood(M[k], M[b])
  BY <1>6, <1>9, <1>10, ScoringChoice
<1>12. d \in DOMAIN SelectScoring(M)
  <2>1. DOMAIN SelectScoring(M) = {M[i].id : i \in {m \in DOMAIN M : IsGradeable(M[m])}}
    BY <1>6, ScoringChoice
  <2>2. M[k].id = d /\ IsGradeable(M[k])
    BY <1>9, <1>10
  <2> QED BY <2>1, <2>2
<1>13. d \in Fetched'
  <2>1. d \in Kept /\ d \in Decisions
    BY <1>8, FetchedFacts
  <2>2. d \in Kept'
    BY <2>1 DEF Moves, KeepsBirth, Kept
  <2> QED BY <1>2, <1>9, <1>10, <2>2 DEF Fetched
<1>14. FidelityOf(M[b]) >= FidelityOf(L[w])
  BY <1>10, <1>11, SourceFidelity DEF AsGood
<1>15. [snap |-> Snapshot(d), out |-> M[b]] \in Card({Snapshot(c) : c \in Fetched'}, M).pairs
  BY <1>8, <1>11, <1>12, <1>13, CardPairs
<1>16. p.snap = Snapshot(d) /\ p.out = L[w]
  BY <1>8, <1>9
<1> DEFINE q == [snap |-> Snapshot(d), out |-> M[b]]
<1>17. q \in Card({Snapshot(c) : c \in Fetched}', FetchedOuts').pairs
  BY <1>2, <1>7, <1>15
<1>18. q.snap = Snapshot(d) /\ q.out = M[b]
  OBVIOUS
<1> HIDE DEF q
<1> QED BY <1>14, <1>16, <1>17, <1>18

\* A decision that is counted is never counted by a grade of less fidelity
\* later on: calibration.py select_scoring_outcomes, as long as the window
\* holds every outcome.
THEOREM WorsensTheorem == Spec => GradeNeverWorsens
<1>1. Init => TypeInv
  BY InitTypes
<1>2. TypeInv /\ [Next]_vars => TypeInv'
  BY StepGood
<1>3. ASSUME TypeInv, [Next]_vars, TypeInv', outs' # outs, Len(outs') <= FetchLimit
      PROVE  LET now == TheCard.pairs
                 next == Card({Snapshot(d) : d \in Fetched}', FetchedOuts').pairs
             IN  \A p \in now : \E q \in next :
                   q.snap = p.snap /\ FidelityOf(q.out) >= FidelityOf(p.out)
  BY <1>3, StepGood, GradesImprove
<1> QED BY <1>1, <1>2, <1>3, PTL DEF Spec, GradeNeverWorsens

-----------------------------------------------------------------------------
(* Evidence behind an order.                                               *)

\* A decision without a row in the list adds nothing to the card.
LEMMA CardGrown ==
  ASSUME NEW L \in Seq(Outcome), NEW A, NEW B, A \subseteq B,
         \A d \in B \ A : \A i \in DOMAIN L : L[i].id # d
  PROVE  Card({Snapshot(d) : d \in A}, L) = Card({Snapshot(d) : d \in B}, L)
<1> DEFINE kept(D) == Calibrated(Eligible({Snapshot(d) : d \in D}))
           graded(D, chosen) == {t \in kept(D) : t.id \in DOMAIN chosen}
<1>1. \A D : kept(D) = {s \in {Snapshot(d) : d \in D} : ~Degraded(s) /\ s.bucket \notin ObservationOnly}
  BY DEF Calibrated, Eligible
<1>2. \A d \in B : Snapshot(d).id = d
  BY SnapshotFacts
<1> HIDE DEF kept
<1>3. ASSUME NEW chosen, DOMAIN chosen \subseteq {L[i].id : i \in DOMAIN L}
      PROVE  graded(A, chosen) = graded(B, chosen)
  <2>1. ASSUME NEW d \in B, d \in DOMAIN chosen PROVE d \in A
    <3>1. PICK i \in DOMAIN L : L[i].id = d
      BY <1>3, <2>1
    <3> QED BY <3>1
  <2>2. ASSUME NEW t \in graded(B, chosen) PROVE t \in graded(A, chosen)
    <3>1. t \in kept(B) /\ t.id \in DOMAIN chosen
      OBVIOUS
    <3>2. PICK d \in B : t = Snapshot(d)
      BY <1>1, <3>1
    <3>3. d \in A
      BY <1>2, <2>1, <3>1, <3>2
    <3> QED BY <1>1, <3>1, <3>2, <3>3
  <2>3. ASSUME NEW t \in graded(A, chosen) PROVE t \in graded(B, chosen)
    <3>1. t \in kept(A) /\ t.id \in DOMAIN chosen
      OBVIOUS
    <3>2. PICK d \in A : t = Snapshot(d)
      BY <1>1, <3>1
    <3> QED BY <1>1, <3>1, <3>2
  <2> QED BY <2>2, <2>3
<1>4. DOMAIN SelectScoring(L) \subseteq {L[i].id : i \in DOMAIN L}
  <2>1. DOMAIN SelectScoring(L) = {L[i].id : i \in {k \in DOMAIN L : IsGradeable(L[k])}}
    BY ScoringChoice
  <2> QED BY <2>1
<1>5. DOMAIN SelectPnl(L) \subseteq {L[i].id : i \in DOMAIN L}
  <2>1. DOMAIN SelectPnl(L) = {L[i].id : i \in {k \in DOMAIN L : CountsPnl(L[k])}}
    BY PnlChoice
  <2> QED BY <2>1
<1>6. graded(A, SelectScoring(L)) = graded(B, SelectScoring(L))
  BY <1>3, <1>4
<1>7. graded(A, SelectPnl(L)) = graded(B, SelectPnl(L))
  BY <1>3, <1>5
<1>8. \A D, chosen : Paired(kept(D), chosen) = {[snap |-> s, out |-> chosen[s.id]] : s \in graded(D, chosen)}
  BY DEF Paired
<1> HIDE DEF graded
<1>9. Paired(kept(A), SelectScoring(L)) = Paired(kept(B), SelectScoring(L))
  BY <1>6, <1>8
<1>10. Paired(kept(A), SelectPnl(L)) = Paired(kept(B), SelectPnl(L))
  BY <1>7, <1>8
<1>11. \A D : Card({Snapshot(d) : d \in D}, L) =
                [pairs |-> Paired(kept(D), SelectScoring(L)), priced |-> Paired(kept(D), SelectPnl(L))]
  BY DEF Card, kept
<1> QED BY <1>9, <1>10, <1>11

\* The rows the gate had fetched when the first n were recorded.
RowsThen(n) == Take(LatestFirst(SubSeq(outs, 1, n)), FetchLimit)
Evidence(n) == Green(TRUE, Card({Snapshot(d) : d \in Kept}, RowsThen(n)))
Backed == \E n \in 0 .. Len(outs) : Evidence(n)

\* The first rows of the table, as a list.
LEMMA FirstRows ==
  ASSUME outs \in Seq(Outcome), NEW n \in 0 .. Len(outs)
  PROVE  /\ SubSeq(outs, 1, n) \in Seq(Outcome)
         /\ RowsThen(n) \in Seq(Outcome)
         /\ \A i \in DOMAIN RowsThen(n) : \E k \in DOMAIN outs : RowsThen(n)[i] = outs[k]
<1> DEFINE first == SubSeq(outs, 1, n)
<1>1. /\ first \in Seq(Outcome) /\ DOMAIN first \subseteq DOMAIN outs
      /\ \A i \in DOMAIN first : first[i] = outs[i]
  OBVIOUS
<1> HIDE DEF first
<1>2. /\ Take(LatestFirst(first), FetchLimit) \in Seq(Outcome)
      /\ \A i \in DOMAIN Take(LatestFirst(first), FetchLimit) :
           \E k \in DOMAIN first : Take(LatestFirst(first), FetchLimit)[i] = first[k]
  BY <1>1, FetchedList
<1>3. RowsThen(n) = Take(LatestFirst(first), FetchLimit)
  BY DEF RowsThen, first
<1>4. \A i \in DOMAIN RowsThen(n) : \E k \in DOMAIN outs : RowsThen(n)[i] = outs[k]
  <2>1. TAKE i \in DOMAIN RowsThen(n)
  <2>2. PICK k \in DOMAIN first : RowsThen(n)[i] = first[k]
    BY <1>2, <1>3
  <2> QED BY <1>1, <2>2
<1> QED BY <1>1, <1>2, <1>3, <1>4 DEF first

\* What made the gate green once makes it green for good: rows are only
\* added, and a decision frozen since has no row among the earlier ones.
LEMMA EvidenceKept ==
  ASSUME TypeInv, ResolvedIffGraded, Moves, Backed
  PROVE  Backed'
<1>1. PICK n \in 0 .. Len(outs) : Evidence(n)
  BY DEF Backed
<1>2. outs \in Seq(Outcome) /\ Len(outs) \in Nat /\ \A d \in Decisions : Snapshot(d)' = Snapshot(d)
  BY DEF TypeInv, TypeOK, Moves, Snapshot, Fact
<1>3. n \in 0 .. Len(outs') /\ SubSeq(outs', 1, n) = SubSeq(outs, 1, n)
  <2>1. CASE Quiet
    BY <1>2, <2>1 DEF Quiet
  <2>2. CASE RowAdded
    <3>1. PICK o \in Outcome : Records(o)
      BY <2>2 DEF RowAdded
    <3>2. outs' = Append(outs, o)
      BY <3>1 DEF Records
    <3> QED BY <1>2, <3>2
  <2> QED BY <2>1, <2>2 DEF Moves
<1>4. PICK L : L = RowsThen(n)
  OBVIOUS
<1>5. RowsThen(n)' = L
  BY <1>3, <1>4 DEF RowsThen
<1>6. PICK A : A = Kept
  OBVIOUS
<1>7. PICK B : B = Kept'
  OBVIOUS
<1>8. A \subseteq B /\ B \subseteq Decisions
  BY <1>6, <1>7 DEF Kept, Moves, KeepsBirth
<1>9. L \in Seq(Outcome) /\ \A i \in DOMAIN L : \E k \in DOMAIN outs : L[i] = outs[k]
  BY <1>2, <1>4, FirstRows
<1>10. \A d \in B \ A : \A i \in DOMAIN L : L[i].id # d
  <2>1. TAKE d \in B \ A
  <2>2. snaps[d] = "none" /\ d \in Decisions
    BY <1>6, <1>8 DEF Kept
  <2>3. \A k \in DOMAIN outs : outs[k].id # d
    BY <2>2 DEF ResolvedIffGraded, Of
  <2> QED BY <1>9, <2>3
<1>11. Card({Snapshot(d) : d \in A}, L) = Card({Snapshot(d) : d \in B}, L)
  BY <1>8, <1>9, <1>10, CardGrown
<1>12. {Snapshot(d) : d \in Kept}' = {Snapshot(d) : d \in B}
  BY <1>2, <1>7, <1>8
<1>13. Green(TRUE, Card({Snapshot(d) : d \in B}, L))
  BY <1>1, <1>4, <1>6, <1>11 DEF Evidence
<1>14. Evidence(n)'
  BY <1>5, <1>12, <1>13 DEF Evidence
<1> QED BY <1>3, <1>14 DEF Backed

\* A green verdict is backed by the rows recorded so far.
LEMMA VerdictBacked ==
  ASSUME TypeInv, ResolvedIffGraded, NEW readable, GateVerdict(readable) = "green"
  PROVE  Backed
<1>1. Green(TRUE, TheCard)
  BY DEF GateVerdict
<1>2. outs \in Seq(Outcome) /\ Len(outs) \in Nat /\ SubSeq(outs, 1, Len(outs)) = outs
  BY DEF TypeInv, TypeOK
<1>3. RowsThen(Len(outs)) = FetchedOuts
  BY <1>2 DEF RowsThen, FetchedOuts
<1>4. /\ FetchedOuts \in Seq(Outcome) /\ Fetched \subseteq Kept /\ Kept \subseteq Decisions
      /\ \A d \in Kept, i \in DOMAIN FetchedOuts : FetchedOuts[i].id = d => d \in Fetched
  BY FetchedFacts
<1>5. Card({Snapshot(d) : d \in Fetched}, FetchedOuts) = Card({Snapshot(d) : d \in Kept}, FetchedOuts)
  BY <1>4, CardGrown
<1>6. Evidence(Len(outs))
  BY <1>1, <1>3, <1>5 DEF Evidence, TheCard
<1> QED BY <1>2, <1>6 DEF Backed

LEMMA GateMoves ==
  ASSUME [Next]_vars, gate' = "green" \/ spent'
  PROVE  gate = "green" \/ spent \/ \E readable \in BOOLEAN : GateVerdict(readable) = "green"
<1>1. CASE RefreshGate
  BY <1>1 DEF RefreshGate
<1>2. CASE Authorize
  BY <1>2 DEF Authorize
<1>3. ASSUME NEW j \in Job, Crash(j) PROVE gate = "green" \/ spent
  BY <1>3 DEF Crash
<1>4. ASSUME NEW d \in Decisions, NEW j \in Job, Grade(j, d) \/ Skip(j, d) PROVE gate = "green" \/ spent
  BY <1>4 DEF Grade, Skip
<1>5. ASSUME NEW d \in Decisions, Keeping(d) \/ GradeLive(d) PROVE gate = "green" \/ spent
  BY <1>5 DEF Keeping, Freeze, Import, FreezeLive, Close, EnsureSnapshot, Delete, GradeLive
<1>6. CASE StartResolve \/ StartApi \/ StartExpiry \/ StartManaged \/ StartIntraday
  BY <1>6 DEF StartResolve, StartApi, StartExpiry, StartManaged, StartIntraday, Starts
<1>7. CASE NextDay \/ UNCHANGED vars
  BY <1>7 DEF NextDay, vars
<1> QED BY <1>1, <1>2, <1>3, <1>4, <1>5, <1>6, <1>7 DEF Next, Keeping

EvidenceInv == StatusInv /\ (gate = "green" \/ spent => Backed)

\* An authorized order rests on evidence, whatever crashes, reruns and
\* unreadable warehouses come in between: execution_guard.py authorize() and
\* conviction_gate.py get_conviction_gate().
THEOREM EvidenceTheorem == Spec => []AuthorizedOnEvidence
<1>1. Init => EvidenceInv
  <2>1. Init => StatusInv
    BY InitTypes DEF Init, StatusInv, ResolvedIffGraded, Of
  <2>2. Init => gate = "none" /\ ~spent
    BY DEF Init
  <2> QED BY <2>1, <2>2 DEF EvidenceInv
<1>2. EvidenceInv /\ [Next]_vars => EvidenceInv'
  <2> SUFFICES ASSUME EvidenceInv, [Next]_vars PROVE EvidenceInv'
    OBVIOUS
  <2>1. TypeInv /\ ResolvedIffGraded /\ TypeInv' /\ Moves
    BY StepGood DEF EvidenceInv, StatusInv
  <2>2. StatusInv'
    BY <2>1, StatusStep DEF StatusInv
  <2>3. ASSUME gate' = "green" \/ spent' PROVE Backed'
    <3>1. CASE gate = "green" \/ spent
      BY <2>1, <3>1, EvidenceKept DEF EvidenceInv
    <3>2. CASE \E readable \in BOOLEAN : GateVerdict(readable) = "green"
      <4>1. Backed
        BY <2>1, <3>2, VerdictBacked
      <4> QED BY <2>1, <4>1, EvidenceKept
    <3> QED BY <2>3, <3>1, <3>2, GateMoves
  <2> QED BY <2>2, <2>3 DEF EvidenceInv
<1>3. EvidenceInv => AuthorizedOnEvidence
  BY DEF EvidenceInv, Backed, Evidence, RowsThen, AuthorizedOnEvidence
<1> QED BY <1>1, <1>2, <1>3, PTL DEF Spec
=============================================================================
