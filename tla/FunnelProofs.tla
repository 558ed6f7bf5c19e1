----------------------------- MODULE FunnelProofs -----------------------------
(***************************************************************************)
(* The tier funnel: types, and the cascade.  In one tick of the scheduler  *)
(* tier 1 feeds tier 2 and tier 2 feeds tier 3, whichever symbols answer,  *)
(* whichever tiers are shed or fail and wherever the scheduler restarts,   *)
(* for any universe, calendar, caps and budget, in a deployment where      *)
(* nobody calls POST /tiers/run.                                           *)
(***************************************************************************)
EXTENDS TierFunnel, FiniteSetTheorems, TLAPS

RunState == [pc : Phase, queue : Seq(Tier), found : SUBSET Universe, seen : SUBSET Trades,
             risks : [Trades -> Action \cup {NoRow}], past : 0 .. MaxAge, done : SUBSET Tier]

\* A pass that is in a tier has it at the head of its queue.
AtTier(k, r) == r.queue # <<>> /\ Head(r.queue) = k
PhaseShape(r) ==
  /\ r.pc \in {"t1", "t1store"} => AtTier(BROAD, r)
  /\ r.pc \in {"t2", "t2sweep", "t2store"} => AtTier(WATCHLIST, r)
  /\ r.pc \in {"t3", "t3save", "t3alert"} => AtTier(CANDIDATES, r)
  /\ r.pc \in {"t4", "t4sweep", "t4store", "t4publish"} => AtTier(POSITIONS, r)

TypeInv ==
  /\ TypeOK
  /\ \A p \in Proc : PhaseShape(run[p])

\* The tiers of a pass run in their order, each once.
InOrder(r) ==
  /\ \A i, j \in DOMAIN r.queue : i < j => r.queue[i] < r.queue[j]
  /\ \A i \in DOMAIN r.queue : \A k \in r.done : k < r.queue[i]

\* What tier 2 and tier 3 of the tick are built from.
Nested(r) ==
  /\ r.pc = "t1store" => r.found = tier[BROAD]
  /\ r.pc \in {"t2sweep", "t2store"} => r.found = tier[WATCHLIST]
  /\ BROAD \in r.done => tier[WATCHLIST] \subseteq tier[BROAD]
  /\ WATCHLIST \in r.done /\ tier[WATCHLIST] # {} =>
       tier[CANDIDATES] \subseteq tier[WATCHLIST]

CascadeInv ==
  left.alone =>
    /\ left.api = 0 /\ run["api"].pc = "idle"
    /\ InOrder(run["sched"]) /\ Nested(run["sched"])

USE DEF BROAD, WATCHLIST, CANDIDATES, POSITIONS, Tier

-----------------------------------------------------------------------------
(* The queue of a tick.                                                    *)

\* q lists tiers below k in their order.
OrderedBelow(q, k) ==
  /\ q \in Seq(Tier)
  /\ \A i \in DOMAIN q : q[i] < k
  /\ \A i, j \in DOMAIN q : i < j => q[i] < q[j]

LEMMA DueAppends ==
  ASSUME NEW k \in Tier, NEW q, OrderedBelow(q, k)
  PROVE  OrderedBelow(q \o IfDue(k), k + 1)
<1>a. /\ k \in Int /\ \A i \in DOMAIN q : q[i] \in Int /\ q[i] < k
  <2>1. q \in Seq(Tier) /\ \A i \in DOMAIN q : q[i] < k
    BY DEF OrderedBelow
  <2>2. \A i \in DOMAIN q : q[i] \in Tier
    BY <2>1
  <2> QED
    BY <2>1, <2>2
<1>b. \A n \in Int : n < k => n < k + 1
  BY <1>a
<1>1. CASE IfDue(k) = <<>>
  <2>1. q \in Seq(Tier) /\ \A i \in DOMAIN q : q[i] \in Tier
    BY DEF OrderedBelow
  <2>2. q \o IfDue(k) = q
    BY <1>1, <2>1
  <2>3. \A i \in DOMAIN q : q[i] < k + 1
    BY <1>a, <1>b
  <2> QED
    BY <2>1, <2>2, <2>3 DEF OrderedBelow
<1>2. CASE IfDue(k) = <<k>>
  <2>1. PICK r : r = q \o <<k>>
    OBVIOUS
  <2>2. /\ r \in Seq(Tier) /\ Len(r) = Len(q) + 1
        /\ \A i \in 1 .. Len(q) : r[i] = q[i]
        /\ r[Len(q) + 1] = k
    BY <2>1 DEF OrderedBelow
  <2>3. DOMAIN r = 1 .. (Len(q) + 1) /\ DOMAIN q = 1 .. Len(q) /\ Len(q) \in Nat
    BY <2>2 DEF OrderedBelow
  <2>4. \A i \in DOMAIN q : q[i] \in Tier
    BY DEF OrderedBelow
  <2>5. \A i \in 1 .. Len(q) : q[i] < k
    BY <2>3 DEF OrderedBelow
  <2>6. \A i, j \in 1 .. Len(q) : i < j => q[i] < q[j]
    BY <2>3 DEF OrderedBelow
  <2>7. \A i \in DOMAIN r : r[i] < k + 1
    <3>1. \A i \in 1 .. Len(q) : r[i] < k + 1
      BY <1>a, <1>b, <2>2, <2>3
    <3>2. r[Len(q) + 1] < k + 1
      BY <1>a, <2>2
    <3>3. \A n \in Nat : \A i \in 1 .. (n + 1) : i \in 1 .. n \/ i = n + 1
      OBVIOUS
    <3>4. \A i \in DOMAIN r : i \in 1 .. Len(q) \/ i = Len(q) + 1
      BY <2>3, <3>3
    <3> QED
      BY <3>1, <3>2, <3>4
  <2>8. ASSUME NEW i \in DOMAIN r, NEW j \in DOMAIN r, i < j
        PROVE  r[i] < r[j]
    <3>1. i \in 1 .. Len(q)
      BY <2>3, <2>8
    <3>2. CASE j \in 1 .. Len(q)
      BY <2>2, <2>6, <2>8, <3>1, <3>2
    <3>3. CASE j = Len(q) + 1
      BY <2>2, <2>5, <3>1, <3>3
    <3> QED
      BY <2>3, <3>2, <3>3
  <2> QED
    BY <1>2, <2>1, <2>2, <2>7, <2>8 DEF OrderedBelow
<1> QED
  BY <1>1, <1>2 DEF IfDue

LEMMA DueTiersOrdered ==
  /\ DueTiers \in Seq(Tier)
  /\ \A i, j \in DOMAIN DueTiers : i < j => DueTiers[i] < DueTiers[j]
<1>0. OrderedBelow(<<>>, 1)
  BY DEF OrderedBelow
<1>1. OrderedBelow(<<>> \o IfDue(1), 2)
  <2>1. OrderedBelow(<<>> \o IfDue(1), 1 + 1)
    <3>1. PICK k \in Tier : k = 1
      OBVIOUS
    <3>2. OrderedBelow(<<>>, k)
      BY <1>0, <3>1
    <3>3. OrderedBelow(<<>> \o IfDue(k), k + 1)
      BY <3>2, DueAppends
    <3> QED
      BY <3>1, <3>3
  <2> QED
    BY <2>1
<1>e. <<>> \o IfDue(1) = IfDue(1)
  BY DEF IfDue
<1>2. OrderedBelow(IfDue(1) \o IfDue(2), 3)
  BY <1>1, <1>e, DueAppends
<1>3. OrderedBelow(IfDue(1) \o IfDue(2) \o IfDue(3), 4)
  BY <1>2, DueAppends
<1>4. OrderedBelow(IfDue(1) \o IfDue(2) \o IfDue(3) \o IfDue(4), 5)
  BY <1>3, DueAppends
<1> QED
  BY <1>4 DEF DueTiers, OrderedBelow

\* What is left of a queue when its head is taken off.
LEMMA TailOf ==
  ASSUME NEW q \in Seq(Tier), q # <<>>
  PROVE  /\ Head(q) \in Tier /\ Head(q) = q[1] /\ 1 \in DOMAIN q
         /\ Tail(q) \in Seq(Tier)
         /\ \A i \in DOMAIN Tail(q) : i + 1 \in DOMAIN q /\ Tail(q)[i] = q[i + 1] /\ 1 < i + 1
OBVIOUS

-----------------------------------------------------------------------------
(* Types.                                                                  *)

LEMMA Constants ==
  /\ WatchMax \in Nat /\ CandMax \in Nat /\ ListLimit \in Nat /\ Cap \in Nat \ {0}
  /\ IsFiniteSet(Universe) /\ IsFiniteSet(Trades)
  /\ Setups \subseteq [universe : SUBSET Universe, trades : SUBSET Trades, api : Nat,
                       alone : BOOLEAN, fail : Nat, restart : Nat]
  /\ \A s \in Setups : s.alone => s.api = 0
  /\ Len(Instants) \in Nat \ {0} /\ DOMAIN Instants = 1 .. Len(Instants)
  /\ \A i \in DOMAIN Instants : Instants[i][2] \in Int
<1>1. Instants \in Seq(DayKind \X (0 .. 24 * Hour - 1)) /\ Instants # <<>>
  BY FunnelAssumption
<1>2. \A i \in DOMAIN Instants : Instants[i] \in DayKind \X (0 .. 24 * Hour - 1)
  BY <1>1
<1>3. \A i \in DOMAIN Instants : Instants[i][2] \in 0 .. 24 * Hour - 1
  BY <1>2
<1> QED
  <2>1. \A n : 0 .. n \subseteq Int
    OBVIOUS
  <2>2. \A i \in DOMAIN Instants : Instants[i][2] \in Int
    BY <1>3, <2>1
  <2>3. Len(Instants) \in Nat \ {0} /\ DOMAIN Instants = 1 .. Len(Instants)
    BY <1>1
  <2> QED
    BY <2>2, <2>3, FunnelAssumption

LEMMA IdleTyped == Idle \in RunState /\ Idle.pc = "idle" /\ PhaseShape(Idle)
BY DEF Idle, RunState, Phase, NoRow, MaxAge, PhaseShape

\* Process p goes on in state h.
LEMMA PassMoves ==
  ASSUME TypeInv, NEW p \in Proc, NEW h \in RunState, PhaseShape(h),
         run' = [run EXCEPT ![p] = h]
  PROVE  /\ run' \in [Proc -> RunState] /\ \A q \in Proc : PhaseShape(run'[q])
         /\ run'[p] = h /\ \A q \in Proc \ {p} : run'[q] = run[q]
<1>1. run \in [Proc -> RunState]
  BY DEF TypeInv, TypeOK, RunState
<1>2. run'[p] = h /\ \A q \in Proc \ {p} : run'[q] = run[q]
  BY <1>1
<1> QED
  BY <1>1, <1>2 DEF TypeInv

\* A tier is over, well or badly.
LEMMA TierEnds ==
  ASSUME TypeInv, NEW p \in Proc, NEW g, run[p] = g, g.pc \notin {"idle", "next"},
         NEW ok \in BOOLEAN, Ended(p, ok)
  PROVE  /\ age' \in [Tier -> 0 .. MaxAge]
         /\ \E h \in RunState :
              /\ run' = [run EXCEPT ![p] = h] /\ PhaseShape(h)
              /\ h.pc = "next" /\ h.queue = Tail(g.queue)
              /\ h.done = IF ok THEN g.done \cup {Head(g.queue)} ELSE g.done
<1>1. g \in RunState /\ age \in [Tier -> 0 .. MaxAge]
  BY DEF TypeInv, TypeOK, RunState
<1>2. g.queue \in Seq(Tier) /\ g.past \in 0 .. MaxAge /\ g.done \in SUBSET Tier
  BY <1>1 DEF RunState
<1>3. g.queue # <<>>
  <2>1. PhaseShape(g) /\ g.pc \in Phase
    BY <1>1 DEF TypeInv, RunState
  <2> QED
    BY <2>1 DEF PhaseShape, AtTier, Phase
<1>4. Head(g.queue) \in Tier /\ Tail(g.queue) \in Seq(Tier)
  BY <1>2, <1>3, TailOf
<1>5. age' \in [Tier -> 0 .. MaxAge]
  BY <1>1, <1>2, <1>4 DEF Ended
<1>6. PICK done : done = IF ok THEN g.done \cup {Head(g.queue)} ELSE g.done
  OBVIOUS
<1>7. done \in SUBSET Tier
  BY <1>2, <1>4, <1>6
<1>8. PICK h : /\ run' = [run EXCEPT ![p] = h]
               /\ h = [Idle EXCEPT !.pc = "next", !.queue = Tail(g.queue),
                                   !.past = g.past, !.done = done]
  BY <1>6 DEF Ended
<1>9. h.pc = "next" /\ h.queue = Tail(g.queue) /\ h.done = done
  BY <1>8 DEF Idle
<1>10. h \in RunState
  BY <1>2, <1>4, <1>7, <1>8, IdleTyped DEF RunState, Phase
<1> QED
  BY <1>5, <1>6, <1>8, <1>9, <1>10 DEF PhaseShape

\* Charging keeps the counter within the cap.
LEMMA CallsTyped ==
  ASSUME TypeInv, NEW p \in Proc, NEW n \in Nat, Calls(p, n)
  PROVE  used' \in 0 .. Cap /\ oldDay' \in BOOLEAN
<1>1. used \in 0 .. Cap /\ oldDay \in BOOLEAN /\ Cap \in Nat
  BY Constants DEF TypeInv, TypeOK
<1>2. CASE used' = used /\ oldDay' = oldDay
  BY <1>1, <1>2
<1>3. CASE used' = Before + Granted(n) /\ oldDay' = FALSE
  <2>1. PICK before \in 0 .. Cap : before = Before
    BY <1>1 DEF Before
  <2>2. PICK granted : granted = IF before + n > Cap THEN Cap - before ELSE n
    OBVIOUS
  <2>3. used' = before + granted
    BY <1>3, <2>1, <2>2 DEF Granted
  <2>4. before + granted \in 0 .. Cap
    BY <1>1, <2>1, <2>2
  <2> QED
    BY <1>3, <2>3, <2>4
<1> QED
  BY <1>2, <1>3 DEF Calls, Charge

\* Every set a pass holds is finite, so that it can be counted.
LEMMA Counted ==
  ASSUME TypeInv
  PROVE  /\ Cardinality(left.universe) \in Nat
         /\ \A k \in 1 .. 3 : Cardinality(tier[k]) \in Nat
         /\ \A p \in Proc : /\ Cardinality(run[p].found) \in Nat
                            /\ Cardinality(run[p].seen) \in Nat
<1>1. /\ left.universe \in SUBSET Universe
      /\ \A k \in 1 .. 3 : tier[k] \in SUBSET Universe
      /\ \A p \in Proc : run[p].found \in SUBSET Universe /\ run[p].seen \in SUBSET Trades
  BY DEF TypeInv, TypeOK
<1>2. \A S \in SUBSET Universe : Cardinality(S) \in Nat
  BY Constants, FS_Subset, FS_CardinalityType
<1>4. \A S \in SUBSET Trades : Cardinality(S) \in Nat
  BY Constants, FS_Subset, FS_CardinalityType
<1> QED
  BY <1>1, <1>2, <1>4

LEMMA StepTyped ==
  ASSUME TypeInv, NEW p \in Proc, NEW g, run[p] = g, Step(p) \/ TierFails(p)
  PROVE  TypeInv'
<1>a. /\ g \in RunState /\ run \in [Proc -> RunState] /\ PhaseShape(g)
      /\ g.pc \in Phase /\ g.queue \in Seq(Tier) /\ g.found \in SUBSET Universe
      /\ g.seen \in SUBSET Trades /\ g.risks \in [Trades -> Action \cup {NoRow}]
      /\ g.past \in 0 .. MaxAge /\ g.done \in SUBSET Tier
  BY DEF TypeInv, TypeOK, RunState
<1>b. /\ tier \in [1 .. 3 -> SUBSET Universe] /\ left.universe \in SUBSET Universe
      /\ desk \in [saved : SUBSET Universe, alerted : SUBSET Universe]
      /\ heard \in SUBSET Trades
  BY DEF TypeInv, TypeOK
<1>1. CASE StartTier(p)
  <2>1. PICK h : /\ run' = [run EXCEPT ![p] = h]
                 /\ g.queue # <<>>
                 /\ \/ h = [g EXCEPT !.queue = Tail(g.queue)] /\ g.pc = "next"
                    \/ \E pc : /\ pc = <<"t1", "t2", "t3", "t4">>[Head(g.queue)]
                               /\ h = [g EXCEPT !.pc = pc]
    BY <1>1 DEF StartTier
  <2>2. Head(g.queue) \in 1 .. 4 /\ Tail(g.queue) \in Seq(Tier)
    BY <1>a, <2>1, TailOf
  <2>3. h \in RunState /\ PhaseShape(h)
    <3>1. CASE h = [g EXCEPT !.queue = Tail(g.queue)] /\ g.pc = "next"
      <4>1. h \in RunState /\ h.pc = "next"
        BY <1>a, <2>2, <3>1 DEF RunState
      <4> QED
        BY <4>1 DEF PhaseShape
    <3>2. ASSUME NEW pc, pc = <<"t1", "t2", "t3", "t4">>[Head(g.queue)], h = [g EXCEPT !.pc = pc]
          PROVE  h \in RunState /\ PhaseShape(h)
      <4>0. PICK k \in 1 .. 4 : k = Head(g.queue)
        BY <2>2
      <4>1. \/ Head(g.queue) = 1 /\ pc = "t1"
            \/ Head(g.queue) = 2 /\ pc = "t2"
            \/ Head(g.queue) = 3 /\ pc = "t3"
            \/ Head(g.queue) = 4 /\ pc = "t4"
        <5>1. k = 1 \/ k = 2 \/ k = 3 \/ k = 4
          OBVIOUS
        <5> QED
          BY <3>2, <4>0, <5>1
      <4>2. h \in RunState /\ h.pc = pc /\ h.queue = g.queue
        BY <1>a, <3>2, <4>1 DEF RunState, Phase
      <4> QED
        BY <2>1, <4>1, <4>2 DEF PhaseShape, AtTier
    <3> QED
      BY <2>1, <3>1, <3>2
  <2>4. run' \in [Proc -> RunState] /\ \A q \in Proc : PhaseShape(run'[q])
    BY <2>1, <2>3, PassMoves
  <2> QED
    BY <1>1, <2>4 DEF StartTier, TypeInv, TypeOK, RunState, PhaseShape, AtTier
<1>2. CASE EndPass(p)
  <2>1. run' \in [Proc -> RunState] /\ \A q \in Proc : PhaseShape(run'[q])
    BY <1>2, IdleTyped, PassMoves DEF EndPass
  <2> QED
    BY <1>2, <2>1 DEF EndPass, TypeInv, TypeOK, RunState, PhaseShape, AtTier
<1>3. CASE TierFails(p)
  <2>1. g.pc \notin {"idle", "next"}
    BY <1>3 DEF TierFails, InTier
  <2>2. age' \in [Tier -> 0 .. MaxAge] /\ run' \in [Proc -> RunState] /\ \A q \in Proc : PhaseShape(run'[q])
    <3>1. CASE Ended(p, FALSE)
      BY <2>1, <3>1, TierEnds, PassMoves
    <3>2. CASE run' = [run EXCEPT ![p] = Idle] /\ age' = age
      BY <3>2, IdleTyped, PassMoves DEF TypeInv, TypeOK
    <3> QED
      BY <1>3, <3>1, <3>2 DEF TierFails
  <2>3. left' \in [universe : SUBSET Universe, trades : SUBSET Trades, api : Nat, alone : BOOLEAN,
                   fail : Nat, restart : Nat]
    <3>1. left.fail \in Nat /\ left.fail > 0 /\ left' = [left EXCEPT !.fail = left.fail - 1]
      BY <1>3 DEF TierFails, TypeInv, TypeOK
    <3>2. PICK n \in Nat : n = left.fail - 1
      BY <3>1
    <3>3. left' = [left EXCEPT !.fail = n]
      BY <3>1, <3>2
    <3> QED
      BY <3>3 DEF TypeInv, TypeOK
  <2> QED
    BY <1>3, <2>2, <2>3 DEF TierFails, TypeInv, TypeOK, RunState, PhaseShape, AtTier
<1>4. CASE SweepBroad(p) \/ SweepWatchlist(p)
  <2>1. PICK S, pc, h :
          /\ S \in SUBSET Universe
          /\ run' = [run EXCEPT ![p] = h] /\ h = [g EXCEPT !.pc = pc, !.found = S]
          /\ tier' = [tier EXCEPT ![1] = S] \/ tier' = [tier EXCEPT ![2] = S]
          /\ \/ g.pc = "t1" /\ pc = "t1store"
             \/ g.pc = "t2sweep" /\ pc = "t2store"
    <3>1. CASE SweepBroad(p)
      <4>1. PICK S \in SUBSET left.universe :
              /\ run' = [run EXCEPT ![p].pc = "t1store", ![p].found = S]
              /\ tier' = [tier EXCEPT ![1] = S]
        BY <3>1 DEF SweepBroad
      <4>2. PICK h : h = [g EXCEPT !.pc = "t1store", !.found = S]
        OBVIOUS
      <4>3. run' = [run EXCEPT ![p] = h]
        BY <1>a, <4>1, <4>2
      <4>4. S \in SUBSET Universe /\ g.pc = "t1"
        BY <1>b, <3>1 DEF SweepBroad
      <4> QED
        BY <4>1, <4>2, <4>3, <4>4
    <3>2. CASE SweepWatchlist(p)
      <4>1. PICK S \in SUBSET g.found :
              /\ run' = [run EXCEPT ![p].pc = "t2store", ![p].found = S]
              /\ tier' = [tier EXCEPT ![2] = S]
        BY <3>2 DEF SweepWatchlist
      <4>2. PICK h : h = [g EXCEPT !.pc = "t2store", !.found = S]
        OBVIOUS
      <4>3. run' = [run EXCEPT ![p] = h]
        BY <1>a, <4>1, <4>2
      <4>4. S \in SUBSET Universe /\ g.pc = "t2sweep"
        BY <1>a, <3>2 DEF SweepWatchlist
      <4> QED
        BY <4>1, <4>2, <4>3, <4>4
    <3> QED
      BY <1>4, <3>1, <3>2
  <2>2. h \in RunState /\ h.pc = pc /\ h.queue = g.queue
    BY <1>a, <2>1 DEF RunState, Phase
  <2>3. PhaseShape(h)
    BY <1>a, <2>1, <2>2 DEF PhaseShape, AtTier
  <2>4. run' \in [Proc -> RunState] /\ \A q \in Proc : PhaseShape(run'[q])
    BY <2>1, <2>2, <2>3, PassMoves
  <2>5. tier' \in [1 .. 3 -> SUBSET Universe]
    BY <1>b, <2>1
  <2>6. used' \in 0 .. Cap /\ oldDay' \in BOOLEAN
    BY <1>4, Counted, CallsTyped DEF SweepBroad, SweepWatchlist
  <2> QED
    BY <1>4, <2>4, <2>5, <2>6
    DEF SweepBroad, SweepWatchlist, TypeInv, TypeOK, RunState, PhaseShape, AtTier
<1>5. CASE PromoteWatchlist(p) \/ PromoteCandidates(p)
  <2>1. PICK T \in SUBSET Universe :
          tier' = [tier EXCEPT ![2] = T] \/ tier' = [tier EXCEPT ![3] = T]
    BY <1>5 DEF PromoteWatchlist, PromoteCandidates
  <2>2. tier' \in [1 .. 3 -> SUBSET Universe]
    BY <1>b, <2>1
  <2>3. g.pc \notin {"idle", "next"} /\ Ended(p, TRUE)
    BY <1>5 DEF PromoteWatchlist, PromoteCandidates
  <2>4. age' \in [Tier -> 0 .. MaxAge] /\ run' \in [Proc -> RunState] /\ \A q \in Proc : PhaseShape(run'[q])
    BY <2>3, TierEnds, PassMoves
  <2> QED
    BY <1>5, <2>2, <2>4
    DEF PromoteWatchlist, PromoteCandidates, TypeInv, TypeOK, RunState, PhaseShape, AtTier
<1>6. CASE ReadWatchlist(p) \/ EvaluateCandidates(p)
  <2>1. age' \in [Tier -> 0 .. MaxAge] /\ run' \in [Proc -> RunState] /\ \A q \in Proc : PhaseShape(run'[q])
    <3>1. CASE Ended(p, TRUE)
      <4>1. g.pc \notin {"idle", "next"}
        BY <1>6 DEF ReadWatchlist, EvaluateCandidates
      <4> QED
        BY <3>1, <4>1, TierEnds, PassMoves
    <3>2. CASE ~Ended(p, TRUE)
      <4>1. PICK S, pc : /\ S \in SUBSET Universe /\ age' = age
                         /\ run' = [run EXCEPT ![p].pc = pc, ![p].found = S]
                         /\ \/ g.pc = "t2" /\ pc = "t2sweep"
                            \/ g.pc = "t3" /\ pc = "t3save"
        <5>1. CASE ReadWatchlist(p)
          <6>1. /\ run' = [run EXCEPT ![p].pc = "t2sweep", ![p].found = tier[2]]
                /\ age' = age /\ g.pc = "t2"
            BY <3>2, <5>1 DEF ReadWatchlist
          <6>2. tier[2] \in SUBSET Universe
            BY <1>b
          <6> QED
            BY <6>1, <6>2
        <5>2. CASE EvaluateCandidates(p)
          <6>1. PICK S \in SUBSET tier[3] :
                  run' = [run EXCEPT ![p].pc = "t3save", ![p].found = S] /\ age' = age
            BY <3>2, <5>2 DEF EvaluateCandidates
          <6>2. tier[3] \in SUBSET Universe
            BY <1>b
          <6>3. S \in SUBSET Universe /\ g.pc = "t3"
            BY <5>2, <6>2 DEF EvaluateCandidates
          <6> QED
            BY <6>1, <6>3
        <5> QED
          BY <1>6, <5>1, <5>2
      <4>2. PICK h : h = [g EXCEPT !.pc = pc, !.found = S]
        OBVIOUS
      <4>3. run' = [run EXCEPT ![p] = h]
        BY <1>a, <4>1, <4>2
      <4>4. h \in RunState /\ h.pc = pc /\ h.queue = g.queue
        BY <1>a, <4>1, <4>2 DEF RunState, Phase
      <4>5. PhaseShape(h)
        BY <1>a, <4>1, <4>4 DEF PhaseShape, AtTier
      <4>6. age' \in [Tier -> 0 .. MaxAge]
        BY <4>1 DEF TypeInv, TypeOK
      <4> QED
        BY <4>3, <4>4, <4>5, <4>6, PassMoves
    <3> QED
      BY <3>1, <3>2
  <2>2. used' \in 0 .. Cap /\ oldDay' \in BOOLEAN
    <3>1. CASE ReadWatchlist(p)
      BY <3>1 DEF ReadWatchlist, TypeInv, TypeOK
    <3>2. CASE EvaluateCandidates(p)
      BY <3>2, Counted, CallsTyped DEF EvaluateCandidates
    <3> QED
      BY <1>6, <3>1, <3>2
  <2> QED
    BY <1>6, <2>1, <2>2
    DEF ReadWatchlist, EvaluateCandidates, TypeInv, TypeOK, RunState, PhaseShape, AtTier
<1>7. CASE SaveScan(p)
  <2>1. PICK h : h = [g EXCEPT !.pc = "t3alert"]
    OBVIOUS
  <2>2. run' = [run EXCEPT ![p] = h]
    BY <1>7, <1>a, <2>1 DEF SaveScan, Goto
  <2>3. h \in RunState /\ h.pc = "t3alert" /\ h.queue = g.queue
    BY <1>a, <2>1 DEF RunState, Phase
  <2>4. PhaseShape(h)
    BY <1>a, <1>7, <2>3 DEF PhaseShape, AtTier, SaveScan
  <2>5. run' \in [Proc -> RunState] /\ \A q \in Proc : PhaseShape(run'[q])
    BY <2>2, <2>3, <2>4, PassMoves
  <2>6. desk' \in [saved : SUBSET Universe, alerted : SUBSET Universe]
    BY <1>7, <1>a, <1>b DEF SaveScan
  <2> QED
    BY <1>7, <2>5, <2>6 DEF SaveScan, TypeInv, TypeOK, RunState, PhaseShape, AtTier
<1>8. CASE AlertScan(p)
  <2>1. g.pc \notin {"idle", "next"} /\ Ended(p, TRUE)
    BY <1>8 DEF AlertScan
  <2>2. age' \in [Tier -> 0 .. MaxAge] /\ run' \in [Proc -> RunState] /\ \A q \in Proc : PhaseShape(run'[q])
    BY <2>1, TierEnds, PassMoves
  <2>3. desk' \in [saved : SUBSET Universe, alerted : SUBSET Universe]
    <3>1. PICK S \in SUBSET g.found : desk' = [desk EXCEPT !.alerted = @ \cup S]
      BY <1>8 DEF AlertScan
    <3> QED
      BY <1>a, <1>b, <3>1
  <2> QED
    BY <1>8, <2>2, <2>3 DEF AlertScan, TypeInv, TypeOK, RunState, PhaseShape, AtTier
<1>9. CASE ReadTrades(p) \/ PricePositions(p) \/ StoreRows(p)
  <2>1. PICK seen, risks, pc :
          /\ seen \in SUBSET Trades /\ risks \in [Trades -> Action \cup {NoRow}]
          /\ run' = [run EXCEPT ![p] = [g EXCEPT !.pc = pc, !.seen = seen, !.risks = risks]]
          /\ pc \in {"t4sweep", "t4store", "t4publish"}
    <3>1. CASE ReadTrades(p)
      <4>1. OpenTrades \in SUBSET Trades
        BY DEF OpenTrades, Listed
      <4>2. run' = [run EXCEPT ![p].pc = "t4sweep", ![p].seen = OpenTrades]
        BY <3>1 DEF ReadTrades
      <4>3. PICK h : h = [g EXCEPT !.pc = "t4sweep", !.seen = OpenTrades]
        OBVIOUS
      <4>4. run' = [run EXCEPT ![p] = h]
        BY <1>a, <4>2, <4>3
      <4>5. h = [g EXCEPT !.pc = "t4sweep", !.seen = OpenTrades, !.risks = g.risks]
        BY <1>a, <4>3 DEF RunState
      <4> QED
        BY <1>a, <4>1, <4>4, <4>5
    <3>2. CASE PricePositions(p)
      <4>0. PICK S \in SUBSET g.seen : \E marks \in [S -> Action] :
              run' = [run EXCEPT ![p].pc = "t4store",
                        ![p].risks = [t \in Trades |-> IF t \in S THEN marks[t] ELSE NoRow]]
        BY <3>2 DEF PricePositions
      <4>1. PICK risks :
              /\ \E marks \in [S -> Action] :
                   risks = [t \in Trades |-> IF t \in S THEN marks[t] ELSE NoRow]
              /\ run' = [run EXCEPT ![p].pc = "t4store", ![p].risks = risks]
        BY <4>0
      <4>2. risks \in [Trades -> Action \cup {NoRow}]
        BY <4>1
      <4>3. PICK h : h = [g EXCEPT !.pc = "t4store", !.risks = risks]
        OBVIOUS
      <4>4. run' = [run EXCEPT ![p] = h]
        BY <1>a, <4>1, <4>3
      <4>5. h = [g EXCEPT !.pc = "t4store", !.seen = g.seen, !.risks = risks]
        BY <1>a, <4>3 DEF RunState
      <4> QED
        BY <1>a, <4>2, <4>4, <4>5
    <3>3. CASE StoreRows(p)
      <4>1. PICK h : h = [g EXCEPT !.pc = "t4publish"]
        OBVIOUS
      <4>2. run' = [run EXCEPT ![p] = h]
        BY <1>a, <3>3, <4>1 DEF StoreRows, Goto
      <4>3. h = [g EXCEPT !.pc = "t4publish", !.seen = g.seen, !.risks = g.risks]
        BY <1>a, <4>1 DEF RunState
      <4> QED
        BY <1>a, <4>2, <4>3
    <3> QED
      BY <1>9, <3>1, <3>2, <3>3
  <2>2. PICK h : /\ run' = [run EXCEPT ![p] = h]
                 /\ h = [g EXCEPT !.pc = pc, !.seen = seen, !.risks = risks]
    BY <2>1
  <2>3. h \in RunState /\ h.pc = pc /\ h.queue = g.queue
    BY <1>a, <2>1, <2>2 DEF RunState, Phase
  <2>4. AtTier(4, g)
    BY <1>9, <1>a DEF ReadTrades, PricePositions, StoreRows, PhaseShape
  <2>5. PhaseShape(h)
    BY <2>1, <2>3, <2>4 DEF PhaseShape, AtTier
  <2>6. run' \in [Proc -> RunState] /\ \A q \in Proc : PhaseShape(run'[q])
    BY <2>2, <2>3, <2>5, PassMoves
  <2>7. used' \in 0 .. Cap /\ oldDay' \in BOOLEAN
    <3>1. CASE PricePositions(p)
      BY <3>1, Counted, CallsTyped DEF PricePositions
    <3>2. CASE ReadTrades(p) \/ StoreRows(p)
      BY <3>2 DEF ReadTrades, StoreRows, TypeInv, TypeOK
    <3> QED
      BY <1>9, <3>1, <3>2
  <2>8. rows' \in [Trades -> Action \cup {NoRow}] /\ heard' \in SUBSET Trades
    BY <1>9, <1>a DEF ReadTrades, PricePositions, StoreRows, TypeInv, TypeOK
  <2> QED
    BY <1>9, <2>6, <2>7, <2>8
    DEF ReadTrades, PricePositions, StoreRows, TypeInv, TypeOK, RunState, PhaseShape, AtTier
<1>10. CASE PublishRows(p)
  <2>1. g.pc \notin {"idle", "next"} /\ Ended(p, TRUE)
    BY <1>10 DEF PublishRows
  <2>2. age' \in [Tier -> 0 .. MaxAge] /\ run' \in [Proc -> RunState] /\ \A q \in Proc : PhaseShape(run'[q])
    BY <2>1, TierEnds, PassMoves
  <2>3. heard' \in SUBSET Trades
    BY <1>10, <1>b DEF PublishRows
  <2> QED
    BY <1>10, <2>2, <2>3 DEF PublishRows, TypeInv, TypeOK, RunState, PhaseShape, AtTier
<1> QED
  BY <1>1, <1>2, <1>3, <1>4, <1>5, <1>6, <1>7, <1>8, <1>9, <1>10 DEF Step

LEMMA ElapsedTyped == at \in DOMAIN Instants => Elapsed \in Nat /\ Following \in DOMAIN Instants
<1> SUFFICES ASSUME at \in DOMAIN Instants PROVE Elapsed \in Nat /\ Following \in DOMAIN Instants
  OBVIOUS
<1>1. Following \in DOMAIN Instants
  BY Constants DEF Following
<1>2. Instants[Following][2] \in Int /\ Now[2] \in Int
  BY <1>1, Constants DEF Now
<1>3. Elapsed \in Nat
  BY <1>2 DEF Elapsed, NewDay, MaxAge
<1> QED
  BY <1>1, <1>3

LEMMA LoopTyped ==
  ASSUME TypeInv, Tick \/ RunOnce \/ Restart \/ Advance
  PROVE  TypeInv'
<1>a. run \in [Proc -> RunState] /\ run["sched"] \in RunState
  BY DEF TypeInv, TypeOK, RunState, Proc
<1>b. "sched" \in Proc /\ "api" \in Proc
  BY DEF Proc
<1>1. CASE Tick
  <2>1. PICK h : /\ run' = [run EXCEPT !["sched"] = h]
                 /\ h = [Idle EXCEPT !.pc = "next", !.queue = DueTiers]
    BY <1>1 DEF Tick
  <2>2. h \in RunState /\ h.pc = "next"
    BY <2>1, IdleTyped, DueTiersOrdered DEF RunState, Phase
  <2>3. run' \in [Proc -> RunState] /\ \A q \in Proc : PhaseShape(run'[q])
    BY <1>b, <2>1, <2>2, PassMoves DEF PhaseShape
  <2> QED
    BY <1>1, <2>3 DEF Tick, TypeInv, TypeOK, RunState, PhaseShape, AtTier
<1>2. CASE RunOnce
  <2>1. PICK q : q = <<1, 2, 3, 4>>
    OBVIOUS
  <2>2. PICK h : /\ run' = [run EXCEPT !["api"] = h]
                 /\ h = [Idle EXCEPT !.pc = "next", !.queue = q]
    BY <1>2, <2>1 DEF RunOnce
  <2>3. q \in Seq(Tier)
    BY <2>1
  <2>4. h \in RunState /\ h.pc = "next"
    BY <2>2, <2>3, IdleTyped DEF RunState, Phase
  <2>5. run' \in [Proc -> RunState] /\ \A r \in Proc : PhaseShape(run'[r])
    BY <1>b, <2>2, <2>4, PassMoves DEF PhaseShape
  <2>6. PICK n \in Nat : n = left.api - 1
    BY <1>2 DEF RunOnce, TypeInv, TypeOK
  <2>7. left' = [left EXCEPT !.api = n]
    BY <1>2, <2>6 DEF RunOnce
  <2>8. left' \in [universe : SUBSET Universe, trades : SUBSET Trades, api : Nat, alone : BOOLEAN,
                   fail : Nat, restart : Nat]
    BY <2>7 DEF TypeInv, TypeOK
  <2> QED
    BY <1>2, <2>5, <2>8 DEF RunOnce, TypeInv, TypeOK, RunState, PhaseShape, AtTier
<1>3. CASE Restart
  <2>1. run' \in [Proc -> RunState] /\ \A q \in Proc : PhaseShape(run'[q])
    BY <1>3, <1>b, IdleTyped, PassMoves DEF Restart
  <2>2. PICK n \in Nat : n = left.restart - 1
    BY <1>3 DEF Restart, TypeInv, TypeOK
  <2>3. left' = [left EXCEPT !.restart = n]
    BY <1>3, <2>2 DEF Restart
  <2>4. left' \in [universe : SUBSET Universe, trades : SUBSET Trades, api : Nat, alone : BOOLEAN,
                   fail : Nat, restart : Nat]
    BY <2>3 DEF TypeInv, TypeOK
  <2>5. age' \in [Tier -> 0 .. MaxAge] /\ used' \in 0 .. Cap /\ oldDay' \in BOOLEAN /\ ticked' \in BOOLEAN
    <3>1. 0 \in 0 .. Cap /\ MaxAge \in 0 .. MaxAge
      BY Constants DEF MaxAge
    <3> QED
      BY <1>3, <3>1 DEF Restart
  <2> QED
    BY <1>3, <2>1, <2>4, <2>5 DEF Restart, TypeInv, TypeOK, RunState, PhaseShape, AtTier
<1>4. CASE Advance
  <2>1. PICK past : /\ run' = [run EXCEPT !["sched"].past = past]
                    /\ past = IF run["sched"].pc = "idle" THEN 0
                              ELSE Saturate(run["sched"].past + Elapsed)
    BY <1>4 DEF Advance
  <2>2. Elapsed \in Nat /\ Following \in DOMAIN Instants
    BY ElapsedTyped DEF TypeInv, TypeOK
  <2>3. \A n \in 0 .. MaxAge : Saturate(n + Elapsed) \in 0 .. MaxAge
    BY <2>2 DEF Saturate, MaxAge
  <2>4. past \in 0 .. MaxAge
    <3>1. run["sched"].past \in 0 .. MaxAge
      BY <1>a DEF RunState
    <3>2. 0 \in 0 .. MaxAge
      BY DEF MaxAge
    <3> QED
      BY <2>1, <2>3, <3>1, <3>2
  <2>5. PICK h : h = [run["sched"] EXCEPT !.past = past]
    OBVIOUS
  <2>6. run' = [run EXCEPT !["sched"] = h]
    BY <1>a, <1>b, <2>1, <2>5
  <2>7. h \in RunState /\ h.pc = run["sched"].pc /\ h.queue = run["sched"].queue
    BY <1>a, <2>4, <2>5 DEF RunState
  <2>8. PhaseShape(h)
    BY <1>b, <2>7 DEF TypeInv, PhaseShape, AtTier
  <2>9. run' \in [Proc -> RunState] /\ \A q \in Proc : PhaseShape(run'[q])
    BY <1>b, <2>6, <2>7, <2>8, PassMoves
  <2>10. age' \in [Tier -> 0 .. MaxAge] /\ oldDay' \in BOOLEAN
    BY <1>4, <2>3 DEF Advance, TypeInv, TypeOK
  <2> QED
    BY <1>4, <2>2, <2>9, <2>10 DEF Advance, TypeInv, TypeOK, RunState, PhaseShape, AtTier
<1> QED
  BY <1>1, <1>2, <1>3, <1>4

LEMMA TypeInvStep == TypeInv /\ [Next]_vars => TypeInv'
<1> SUFFICES ASSUME TypeInv, [Next]_vars PROVE TypeInv'
  OBVIOUS
<1>1. ASSUME NEW p \in Proc, Step(p) \/ TierFails(p) PROVE TypeInv'
  <2>1. PICK g : run[p] = g
    OBVIOUS
  <2> QED
    BY <1>1, <2>1, StepTyped
<1>2. ASSUME NEW t \in Trades, OpenTrade(t) \/ CloseTrade(t) PROVE TypeInv'
  BY <1>2 DEF OpenTrade, CloseTrade, TypeInv, TypeOK, PhaseShape, AtTier
<1>3. CASE UNCHANGED vars
  BY <1>3 DEF vars, TypeInv, TypeOK, PhaseShape, AtTier
<1> QED
  BY <1>1, <1>2, <1>3, LoopTyped DEF Next

LEMMA TypeInvInit == Init => TypeInv
<1> SUFFICES ASSUME Init PROVE TypeInv
  OBVIOUS
<1>1. \A p \in Proc : run[p] = Idle
  BY DEF Init
<1>2. run \in [Proc -> RunState] /\ \A p \in Proc : PhaseShape(run[p])
  BY <1>1, IdleTyped DEF Init
<1>3. at \in DOMAIN Instants /\ used \in 0 .. Cap /\ age \in [Tier -> 0 .. MaxAge]
  BY Constants DEF Init, MaxAge
<1>4. left \in [universe : SUBSET Universe, trades : SUBSET Trades, api : Nat, alone : BOOLEAN,
                fail : Nat, restart : Nat]
  BY Constants DEF Init
<1> QED
  BY <1>2, <1>3, <1>4 DEF Init, TypeInv, TypeOK, RunState, NoRow

LEMMA TypeInvariant == Spec => []TypeInv
BY TypeInvInit, TypeInvStep, PTL DEF Spec

-----------------------------------------------------------------------------
(* The cascade.                                                            *)

\* The scheduler, alone, goes on in state h with the memberships as they are
\* after the step.
LEMMA CascadeMoves ==
  ASSUME TypeInv, CascadeInv, left'.alone = left.alone, left'.api = left.api, NEW h,
         run' = [run EXCEPT !["sched"] = h], left.alone => InOrder(h) /\ Nested(h)'
  PROVE  CascadeInv'
<1>1. run'["sched"] = h /\ run'["api"] = run["api"]
  BY DEF TypeInv, TypeOK, Proc
<1> QED
  BY <1>1 DEF CascadeInv, InOrder, Nested

\* What is left of a pass that is over with the tier at its head.
LEMMA TailInOrder ==
  ASSUME NEW q \in Seq(Tier), q # <<>>, NEW done, NEW g, NEW h,
         InOrder(g), g.queue = q, h.queue = Tail(q),
         h.done \subseteq g.done \cup {Head(q)}
  PROVE  InOrder(h)
<1>1. /\ \A i, j \in DOMAIN q : i < j => q[i] < q[j]
      /\ \A i \in DOMAIN q : \A k \in g.done : k < q[i]
  BY DEF InOrder
<1>2. \A i \in DOMAIN q : i \in Nat
  OBVIOUS
<1>3. \A i \in DOMAIN Tail(q) : i + 1 \in DOMAIN q /\ Tail(q)[i] = q[i + 1] /\ 1 < i + 1 /\ i \in Nat
  BY TailOf
<1>4. \A i, j \in DOMAIN Tail(q) : i < j => Tail(q)[i] < Tail(q)[j]
  BY <1>1, <1>3
<1>5. \A i \in DOMAIN Tail(q) : \A k \in g.done \cup {Head(q)} : k < Tail(q)[i]
  BY <1>1, <1>3, TailOf
<1> QED
  BY <1>4, <1>5 DEF InOrder

\* The tier at the head of the queue has not run in this pass.
LEMMA HeadNotDone ==
  ASSUME TypeInv, NEW g, run["sched"] = g, InOrder(g), g.queue # <<>>
  PROVE  /\ Head(g.queue) \in Tier
         /\ \A k \in g.done : k < Head(g.queue)
<1>1. g \in RunState /\ g.queue \in Seq(Tier)
  BY DEF TypeInv, TypeOK, RunState, Proc
<1> QED
  BY <1>1, TailOf DEF InOrder

LEMMA StepCascades ==
  ASSUME TypeInv, CascadeInv, left.alone, NEW g, run["sched"] = g,
         Step("sched") \/ TierFails("sched")
  PROVE  CascadeInv'
<1>p. "sched" \in Proc
  BY DEF Proc
<1>a. /\ g \in RunState /\ run \in [Proc -> RunState] /\ PhaseShape(g)
      /\ g.pc \in Phase /\ g.queue \in Seq(Tier) /\ g.done \in SUBSET Tier
      /\ tier \in [1 .. 3 -> SUBSET Universe]
  BY <1>p DEF TypeInv, TypeOK, RunState
<1>b. InOrder(g) /\ Nested(g)
  BY DEF CascadeInv
<1>c. \A h : h.queue = g.queue /\ h.done = g.done => InOrder(h)
  BY <1>b DEF InOrder
<1>d. /\ g.pc \in {"t1", "t1store"} => 1 \notin g.done /\ 2 \notin g.done
      /\ g.pc \in {"t2", "t2sweep", "t2store"} => 2 \notin g.done
  <2>1. g.queue # <<>> => \A k \in g.done : k < Head(g.queue)
    BY <1>b, HeadNotDone
  <2>2. g.pc \in {"t1", "t1store"} => g.queue # <<>> /\ Head(g.queue) = 1
    BY <1>a DEF PhaseShape, AtTier
  <2>3. g.pc \in {"t2", "t2sweep", "t2store"} => g.queue # <<>> /\ Head(g.queue) = 2
    BY <1>a DEF PhaseShape, AtTier
  <2> QED
    BY <1>a, <2>1, <2>2, <2>3
\* A tier that is over leaves the queue in order; what it proved of the
\* memberships is up to the action.
<1>e. ASSUME NEW ok \in BOOLEAN, Ended("sched", ok), g.pc \notin {"idle", "next"}
      PROVE  \E h : /\ run' = [run EXCEPT !["sched"] = h] /\ InOrder(h)
                    /\ h.pc = "next"
                    /\ h.done = IF ok THEN g.done \cup {Head(g.queue)} ELSE g.done
  <2>1. PICK h : /\ run' = [run EXCEPT !["sched"] = h] /\ h.pc = "next"
                 /\ h.queue = Tail(g.queue)
                 /\ h.done = IF ok THEN g.done \cup {Head(g.queue)} ELSE g.done
    BY <1>e, <1>p, TierEnds
  <2>2. g.queue # <<>>
    BY <1>a, <1>e DEF PhaseShape, AtTier, Phase
  <2>3. InOrder(h)
    BY <1>a, <1>b, <2>1, <2>2, TailInOrder
  <2> QED
    BY <2>1, <2>3
<1>1. CASE StartTier("sched")
  <2>1. PICK h, pc : /\ run' = [run EXCEPT !["sched"] = h] /\ g.queue # <<>>
                     /\ g.pc = "next"
                     /\ \/ h = [g EXCEPT !.queue = Tail(g.queue)]
                        \/ h = [g EXCEPT !.pc = pc] /\ pc = <<"t1", "t2", "t3", "t4">>[Head(g.queue)]
    BY <1>1 DEF StartTier
  <2>2. tier' = tier /\ left' = left
    BY <1>1 DEF StartTier
  <2>3. CASE h = [g EXCEPT !.queue = Tail(g.queue)]
    <3>1. h.queue = Tail(g.queue) /\ h.done = g.done /\ h.pc = "next"
      BY <1>a, <2>1, <2>3 DEF RunState
    <3>2. InOrder(h)
      BY <1>a, <1>b, <2>1, <3>1, TailInOrder
    <3>3. Nested(h)'
      BY <1>b, <2>2, <3>1 DEF Nested
    <3> QED
      BY <2>1, <2>2, <3>2, <3>3, CascadeMoves
  <2>4. CASE h = [g EXCEPT !.pc = pc] /\ pc = <<"t1", "t2", "t3", "t4">>[Head(g.queue)]
    <3>1. PICK k \in 1 .. 4 : k = Head(g.queue)
      BY <1>a, <2>1, TailOf
    <3>2. pc \in {"t1", "t2", "t3", "t4"}
      <4>1. k = 1 \/ k = 2 \/ k = 3 \/ k = 4
        OBVIOUS
      <4> QED
        BY <2>4, <3>1, <4>1
    <3>3. h.queue = g.queue /\ h.done = g.done /\ h.pc \in {"t1", "t2", "t3", "t4"}
      BY <1>a, <2>4, <3>2 DEF RunState
    <3>4. Nested(h)'
      BY <1>b, <2>2, <3>3 DEF Nested
    <3> QED
      BY <1>c, <2>1, <2>2, <3>3, <3>4, CascadeMoves
  <2> QED
    BY <2>1, <2>3, <2>4
<1>2. CASE EndPass("sched")
  <2>1. InOrder(Idle) /\ Nested(Idle)'
    BY DEF InOrder, Nested, Idle
  <2> QED
    BY <1>2, <2>1, CascadeMoves DEF EndPass
<1>3. CASE TierFails("sched")
  <2>1. PICK h : /\ run' = [run EXCEPT !["sched"] = h] /\ InOrder(h) /\ h.pc = "next"
                 /\ h.done = g.done
    BY <1>3, <1>e DEF TierFails, InTier
  <2>2. tier' = tier /\ left'.alone = left.alone /\ left'.api = left.api
    BY <1>3 DEF TierFails, TypeInv, TypeOK
  <2>3. Nested(h)'
    BY <1>b, <2>1, <2>2 DEF Nested
  <2> QED
    BY <2>1, <2>2, <2>3, CascadeMoves
<1>4. CASE SweepBroad("sched")
  <2>1. PICK S \in SUBSET left.universe :
          /\ run' = [run EXCEPT !["sched"].pc = "t1store", !["sched"].found = S]
          /\ tier' = [tier EXCEPT ![1] = S]
    BY <1>4 DEF SweepBroad
  <2>2. PICK h : h = [g EXCEPT !.pc = "t1store", !.found = S]
    OBVIOUS
  <2>3. run' = [run EXCEPT !["sched"] = h]
    BY <1>a, <1>p, <2>1, <2>2
  <2>4. h.pc = "t1store" /\ h.found = S /\ h.queue = g.queue /\ h.done = g.done
    BY <1>a, <2>2 DEF RunState
  <2>5. tier'[1] = S /\ tier'[2] = tier[2] /\ tier'[3] = tier[3] /\ left' = left
    BY <1>a, <1>4, <2>1 DEF SweepBroad
  <2>6. 1 \notin g.done /\ 2 \notin g.done
    BY <1>d, <1>4 DEF SweepBroad
  <2>7. Nested(h)'
    BY <2>4, <2>5, <2>6 DEF Nested
  <2> QED
    BY <1>c, <2>3, <2>4, <2>5, <2>7, CascadeMoves
<1>5. CASE PromoteWatchlist("sched")
  <2>1. PICK T \in SUBSET g.found : tier' = [tier EXCEPT ![2] = T]
    BY <1>5 DEF PromoteWatchlist, Top
  <2>2. g.found = tier[1] /\ 2 \notin g.done /\ g.pc = "t1store"
    BY <1>b, <1>d, <1>5 DEF PromoteWatchlist, Nested
  <2>3. PICK h : /\ run' = [run EXCEPT !["sched"] = h] /\ InOrder(h) /\ h.pc = "next"
                 /\ h.done = g.done \cup {Head(g.queue)}
    BY <1>5, <1>e, <2>2 DEF PromoteWatchlist
  <2>4. Head(g.queue) = 1
    BY <1>a, <2>2 DEF PhaseShape, AtTier
  <2>5. tier'[1] = tier[1] /\ tier'[2] = T /\ left' = left
    BY <1>a, <1>5, <2>1 DEF PromoteWatchlist
  <2>6. Nested(h)'
    BY <2>2, <2>3, <2>4, <2>5 DEF Nested
  <2> QED
    BY <2>3, <2>5, <2>6, CascadeMoves
<1>6. CASE ReadWatchlist("sched")
  <2>1. tier' = tier /\ left' = left /\ g.pc = "t2"
    BY <1>6 DEF ReadWatchlist
  <2>2. CASE tier[2] = {}
    <3>1. PICK h : /\ run' = [run EXCEPT !["sched"] = h] /\ InOrder(h) /\ h.pc = "next"
                   /\ h.done = g.done \cup {Head(g.queue)}
      BY <1>6, <1>e, <2>1, <2>2 DEF ReadWatchlist
    <3>2. Head(g.queue) = 2
      BY <1>a, <2>1 DEF PhaseShape, AtTier
    <3>3. Nested(h)'
      BY <1>b, <2>1, <2>2, <3>1, <3>2 DEF Nested
    <3> QED
      BY <2>1, <3>1, <3>3, CascadeMoves
  <2>3. CASE tier[2] # {}
    <3>1. run' = [run EXCEPT !["sched"].pc = "t2sweep", !["sched"].found = tier[2]]
      BY <1>6, <2>3 DEF ReadWatchlist
    <3>2. PICK h : h = [g EXCEPT !.pc = "t2sweep", !.found = tier[2]]
      OBVIOUS
    <3>3. run' = [run EXCEPT !["sched"] = h]
      BY <1>a, <1>p, <3>1, <3>2
    <3>4. h.pc = "t2sweep" /\ h.found = tier[2] /\ h.queue = g.queue /\ h.done = g.done
      BY <1>a, <3>2 DEF RunState
    <3>5. Nested(h)'
      BY <1>b, <2>1, <3>4 DEF Nested
    <3> QED
      BY <1>c, <2>1, <3>3, <3>4, <3>5, CascadeMoves
  <2> QED
    BY <2>2, <2>3
<1>7. CASE SweepWatchlist("sched")
  <2>1. PICK S \in SUBSET g.found :
          /\ run' = [run EXCEPT !["sched"].pc = "t2store", !["sched"].found = S]
          /\ tier' = [tier EXCEPT ![2] = S]
    BY <1>7 DEF SweepWatchlist
  <2>2. PICK h : h = [g EXCEPT !.pc = "t2store", !.found = S]
    OBVIOUS
  <2>3. run' = [run EXCEPT !["sched"] = h]
    BY <1>a, <1>p, <2>1, <2>2
  <2>4. h.pc = "t2store" /\ h.found = S /\ h.queue = g.queue /\ h.done = g.done
    BY <1>a, <2>2 DEF RunState
  <2>5. tier'[1] = tier[1] /\ tier'[2] = S /\ left' = left
    BY <1>a, <1>7, <2>1 DEF SweepWatchlist
  <2>6. 2 \notin g.done /\ g.found = tier[2]
    BY <1>b, <1>d, <1>7 DEF SweepWatchlist, Nested
  <2>7. Nested(h)'
    BY <1>b, <2>1, <2>4, <2>5, <2>6 DEF Nested
  <2> QED
    BY <1>c, <2>3, <2>4, <2>5, <2>7, CascadeMoves
<1>8. CASE PromoteCandidates("sched")
  <2>1. PICK T \in SUBSET g.found : tier' = [tier EXCEPT ![3] = T]
    BY <1>8 DEF PromoteCandidates, Top
  <2>2. g.found = tier[2] /\ g.pc = "t2store"
    BY <1>b, <1>8 DEF PromoteCandidates, Nested
  <2>3. PICK h : /\ run' = [run EXCEPT !["sched"] = h] /\ InOrder(h) /\ h.pc = "next"
                 /\ h.done = g.done \cup {Head(g.queue)}
    BY <1>8, <1>e, <2>2 DEF PromoteCandidates
  <2>4. Head(g.queue) = 2
    BY <1>a, <2>2 DEF PhaseShape, AtTier
  <2>5. tier'[1] = tier[1] /\ tier'[2] = tier[2] /\ tier'[3] = T /\ left' = left
    BY <1>a, <1>8, <2>1 DEF PromoteCandidates
  <2>6. Nested(h)'
    BY <1>b, <2>1, <2>2, <2>3, <2>4, <2>5 DEF Nested
  <2> QED
    BY <2>3, <2>5, <2>6, CascadeMoves
\* Tiers 3 and 4 replace no membership the cascade is about.
<1>9. CASE \/ EvaluateCandidates("sched") \/ SaveScan("sched") \/ AlertScan("sched")
           \/ ReadTrades("sched") \/ PricePositions("sched") \/ StoreRows("sched")
           \/ PublishRows("sched")
  <2>1. /\ tier' = tier /\ left' = left
        /\ g.pc \in {"t3", "t3save", "t3alert", "t4", "t4sweep", "t4store", "t4publish"}
    BY <1>9 DEF EvaluateCandidates, SaveScan, AlertScan, ReadTrades, PricePositions, StoreRows, PublishRows
  <2>2. CASE Ended("sched", TRUE)
    <3>1. PICK h : /\ run' = [run EXCEPT !["sched"] = h] /\ InOrder(h) /\ h.pc = "next"
                   /\ h.done = g.done \cup {Head(g.queue)}
      BY <1>e, <2>1, <2>2
    <3>2. Head(g.queue) \in {3, 4}
      BY <1>a, <2>1 DEF PhaseShape, AtTier
    <3>3. Nested(h)'
      BY <1>b, <2>1, <3>1, <3>2 DEF Nested
    <3> QED
      BY <2>1, <3>1, <3>3, CascadeMoves
  <2>3. CASE ~Ended("sched", TRUE)
    <3>1. PICK h : /\ run' = [run EXCEPT !["sched"] = h] /\ h.queue = g.queue /\ h.done = g.done
                   /\ h.pc \in {"t3save", "t3alert", "t4sweep", "t4store", "t4publish"}
      <4>1. CASE EvaluateCandidates("sched")
        <5>1. PICK S : run' = [run EXCEPT !["sched"].pc = "t3save", !["sched"].found = S]
          BY <2>3, <4>1 DEF EvaluateCandidates
        <5>2. PICK h : h = [g EXCEPT !.pc = "t3save", !.found = S]
          OBVIOUS
        <5>3. run' = [run EXCEPT !["sched"] = h]
          BY <1>a, <1>p, <5>1, <5>2
        <5>4. h.queue = g.queue /\ h.done = g.done /\ h.pc = "t3save"
          BY <1>a, <5>2 DEF RunState
        <5> QED
          BY <5>3, <5>4
      <4>2. CASE SaveScan("sched")
        <5>1. run' = [run EXCEPT !["sched"].pc = "t3alert"]
          BY <4>2 DEF SaveScan, Goto
        <5>2. PICK h : h = [g EXCEPT !.pc = "t3alert"]
          OBVIOUS
        <5>3. run' = [run EXCEPT !["sched"] = h]
          BY <1>a, <1>p, <5>1, <5>2
        <5>4. h.queue = g.queue /\ h.done = g.done /\ h.pc = "t3alert"
          BY <1>a, <5>2 DEF RunState
        <5> QED
          BY <5>3, <5>4
      <4>3. CASE ReadTrades("sched")
        <5>1. run' = [run EXCEPT !["sched"].pc = "t4sweep", !["sched"].seen = OpenTrades]
          BY <4>3 DEF ReadTrades
        <5>2. PICK h : h = [g EXCEPT !.pc = "t4sweep", !.seen = OpenTrades]
          OBVIOUS
        <5>3. run' = [run EXCEPT !["sched"] = h]
          BY <1>a, <1>p, <5>1, <5>2
        <5>4. h.queue = g.queue /\ h.done = g.done /\ h.pc = "t4sweep"
          BY <1>a, <5>2 DEF RunState
        <5> QED
          BY <5>3, <5>4
      <4>4. CASE PricePositions("sched")
        <5>0. PICK S : \E marks \in [S -> Action] :
                run' = [run EXCEPT !["sched"].pc = "t4store",
                          !["sched"].risks = [t \in Trades |-> IF t \in S THEN marks[t] ELSE NoRow]]
          BY <4>4 DEF PricePositions
        <5>1. PICK risks : run' = [run EXCEPT !["sched"].pc = "t4store", !["sched"].risks = risks]
          BY <5>0
        <5>2. PICK h : h = [g EXCEPT !.pc = "t4store", !.risks = risks]
          OBVIOUS
        <5>3. run' = [run EXCEPT !["sched"] = h]
          BY <1>a, <1>p, <5>1, <5>2
        <5>4. h.queue = g.queue /\ h.done = g.done /\ h.pc = "t4store"
          BY <1>a, <5>2 DEF RunState
        <5> QED
          BY <5>3, <5>4
      <4>5. CASE StoreRows("sched")
        <5>1. run' = [run EXCEPT !["sched"].pc = "t4publish"]
          BY <4>5 DEF StoreRows, Goto
        <5>2. PICK h : h = [g EXCEPT !.pc = "t4publish"]
          OBVIOUS
        <5>3. run' = [run EXCEPT !["sched"] = h]
          BY <1>a, <1>p, <5>1, <5>2
        <5>4. h.queue = g.queue /\ h.done = g.done /\ h.pc = "t4publish"
          BY <1>a, <5>2 DEF RunState
        <5> QED
          BY <5>3, <5>4
      <4> QED
        BY <1>9, <2>3, <4>1, <4>2, <4>3, <4>4, <4>5 DEF AlertScan, PublishRows
    <3>2. Nested(h)'
      BY <1>b, <2>1, <3>1 DEF Nested
    <3> QED
      BY <1>c, <2>1, <3>1, <3>2, CascadeMoves
  <2> QED
    BY <2>2, <2>3
<1> QED
  BY <1>1, <1>2, <1>3, <1>4, <1>5, <1>6, <1>7, <1>8, <1>9 DEF Step

LEMMA CascadeInvStep ==
  ASSUME TypeInv, CascadeInv, [Next]_vars
  PROVE  CascadeInv'
<1>s. "sched" \in Proc /\ "api" \in Proc /\ \A p \in Proc : p = "sched" \/ p = "api"
  BY DEF Proc
<1>f. run' = run /\ tier' = tier /\ left'.alone = left.alone /\ left'.api = left.api => CascadeInv'
  BY DEF CascadeInv, InOrder, Nested
<1>n. left'.alone = left.alone /\ ~left.alone => CascadeInv'
  BY DEF CascadeInv
<1>r. run \in [Proc -> RunState] /\ run["sched"] \in RunState
  BY <1>s DEF TypeInv, TypeOK, RunState
<1>1. CASE Tick
  <2>1. PICK h : /\ run' = [run EXCEPT !["sched"] = h]
                 /\ h = [Idle EXCEPT !.pc = "next", !.queue = DueTiers]
    BY <1>1 DEF Tick
  <2>2. h.pc = "next" /\ h.queue = DueTiers /\ h.done = {}
    BY <2>1 DEF Idle
  <2>3. InOrder(h)
    BY <2>2, DueTiersOrdered DEF InOrder
  <2>4. Nested(h)'
    BY <2>2 DEF Nested
  <2>5. left' = left
    BY <1>1 DEF Tick
  <2> QED
    BY <2>1, <2>3, <2>4, <2>5, CascadeMoves
<1>2. CASE RunOnce
  <2>1. left'.alone = left.alone /\ left.api > 0
    BY <1>2 DEF RunOnce, TypeInv, TypeOK
  <2>2. ~left.alone
    BY <2>1 DEF CascadeInv
  <2> QED
    BY <1>n, <2>1, <2>2
<1>3. CASE Restart
  <2>1. InOrder(Idle) /\ Nested(Idle)'
    BY DEF InOrder, Nested, Idle
  <2>2. left'.alone = left.alone /\ left'.api = left.api
    BY <1>3 DEF Restart, TypeInv, TypeOK
  <2> QED
    BY <1>3, <2>1, <2>2, CascadeMoves DEF Restart
<1>4. CASE Advance
  <2>1. PICK past : run' = [run EXCEPT !["sched"].past = past]
    BY <1>4 DEF Advance
  <2>2. PICK h : h = [run["sched"] EXCEPT !.past = past]
    OBVIOUS
  <2>3. run' = [run EXCEPT !["sched"] = h]
    BY <1>r, <1>s, <2>1, <2>2
  <2>4. /\ h.pc = run["sched"].pc /\ h.queue = run["sched"].queue
        /\ h.done = run["sched"].done /\ h.found = run["sched"].found
    BY <1>r, <2>2 DEF RunState
  <2>5. tier' = tier /\ left' = left
    BY <1>4 DEF Advance
  <2>6. left.alone => InOrder(h) /\ Nested(h)'
    BY <2>4, <2>5 DEF CascadeInv, InOrder, Nested
  <2> QED
    BY <2>3, <2>5, <2>6, CascadeMoves
<1>5. ASSUME NEW p \in Proc, Step(p) \/ TierFails(p) PROVE CascadeInv'
  <2>1. left'.alone = left.alone
    BY <1>5 DEF Step, TierFails, StartTier, EndPass, SweepBroad, PromoteWatchlist,
       ReadWatchlist, SweepWatchlist, PromoteCandidates, EvaluateCandidates, SaveScan,
       AlertScan, ReadTrades, PricePositions, StoreRows, PublishRows, TypeInv, TypeOK
  <2>2. CASE left.alone /\ p = "sched"
    <3>1. PICK g : run["sched"] = g
      OBVIOUS
    <3> QED
      BY <1>5, <2>2, <3>1, StepCascades
  <2>3. CASE left.alone /\ p = "api"
    <3>1. run["api"].pc = "idle"
      BY <2>3 DEF CascadeInv
    <3> QED
      BY <1>5, <2>3, <3>1 DEF Step, TierFails, InTier, StartTier, EndPass, SweepBroad,
         PromoteWatchlist, ReadWatchlist, SweepWatchlist, PromoteCandidates,
         EvaluateCandidates, SaveScan, AlertScan, ReadTrades, PricePositions, StoreRows, PublishRows
  <2>4. CASE ~left.alone
    BY <1>n, <2>1, <2>4
  <2> QED
    BY <1>s, <2>2, <2>3, <2>4 DEF TypeInv, TypeOK
<1>6. ASSUME NEW t \in Trades, OpenTrade(t) \/ CloseTrade(t) PROVE CascadeInv'
  BY <1>6, <1>f DEF OpenTrade, CloseTrade
<1>7. CASE UNCHANGED vars
  BY <1>7, <1>f DEF vars
<1> QED
  BY <1>1, <1>2, <1>3, <1>4, <1>5, <1>6, <1>7 DEF Next

LEMMA CascadeInvInit == Init => CascadeInv
<1> SUFFICES ASSUME Init PROVE CascadeInv
  OBVIOUS
<1>1. run["sched"] = Idle /\ run["api"] = Idle
  BY DEF Init, Proc
<1>2. left.alone => left.api = 0
  BY Constants DEF Init
<1>3. InOrder(Idle) /\ Nested(Idle) /\ Idle.pc = "idle"
  BY DEF InOrder, Nested, Idle
<1> QED
  BY <1>1, <1>2, <1>3 DEF CascadeInv

\* Every variable keeps its type: a pass that is in a tier has that tier at the
\* head of its queue, and the request counter never exceeds its cap.
THEOREM FunnelTypes == Spec => []TypeOK
<1>1. TypeInv => TypeOK
  BY DEF TypeInv
<1> QED
  BY <1>1, TypeInvariant, PTL

\* Candidates come from the watchlist that was scored, and the watchlist from
\* the sweep of the same tick, whatever was shed, refused or failed on the way.
THEOREM CascadeTheorem == Spec => []CascadeNested
<1>1. TypeInv /\ CascadeInv => CascadeNested
  BY DEF CascadeInv, Nested, CascadeNested
<1> QED
  BY <1>1, TypeInvariant, CascadeInvInit, CascadeInvStep, PTL DEF Spec
=============================================================================
