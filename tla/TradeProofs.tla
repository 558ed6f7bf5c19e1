----------------------------- MODULE TradeProofs -----------------------------
(***************************************************************************)
(* The trade life: for any chains, tapes and ideas, the replays of a       *)
(* position taken over keep and share the verdict of its monitor, the      *)
(* posted bracket never acts later than its policy, the board shows what   *)
(* the gates say, no scan's plan can lose more than it was sized on, the   *)
(* settlement of a closed trade is what the desk booked, and the proxy of  *)
(* a decision at its expiry never contradicts its settlement.              *)
(***************************************************************************)
EXTENDS TradeLife, FiniteSetTheorems, SequenceTheorems, TLAPS

-----------------------------------------------------------------------------
(* Finite sets: what holds of the smaller sets and fails of no minimal one *)
(* holds of all, which stands in for an induction.                         *)

LEMMA MinimalSubset ==
  ASSUME NEW S, IsFiniteSet(S), NEW F, F \subseteq SUBSET S, F # {}
  PROVE  \E U \in F : \A V \in F : V \subseteq U => V = U
<1>1. FiniteSubsetsOf(S) = SUBSET S
  BY FS_FiniteSubsetsOfFinite
<1>2. IsWellFoundedOn(StrictSubsetOrdering(S), SUBSET S)
  BY <1>1, FS_StrictSubsetOrderingWellFounded
<1>3. \E U \in F : \A V \in F : ~(<<V, U>> \in StrictSubsetOrdering(S))
  BY <1>2, WFMin
<1> QED BY <1>3 DEF StrictSubsetOrdering

LEMMA HighestExists ==
  ASSUME NEW S, IsFiniteSet(S), S # {}
  PROVE  S \subseteq Int => \E x \in S : \A y \in S : y <= x
<1> DEFINE F == {U \in SUBSET S : U # {} /\ ~\E x \in U : \A y \in U : y <= x}
<1>0. F # {} => \E U \in F : \A V \in F : V \subseteq U => V = U
  <2>1. F \subseteq SUBSET S OBVIOUS
  <2> HIDE DEF F
  <2> QED BY <2>1, MinimalSubset, SMT
<1>1. SUFFICES ASSUME S \subseteq Int, F # {} PROVE FALSE
  OBVIOUS
<1>2. PICK U \in F : \A V \in F : V \subseteq U => V = U
  BY <1>0, <1>1
<1>3. PICK x \in U : TRUE
  OBVIOUS
<1> U \subseteq Int
  BY <1>1
<1>4. U \ {x} \notin F
  BY <1>2, <1>3
<1>5. CASE U \ {x} = {}
  BY <1>3, <1>5
<1>6. CASE U \ {x} # {}
  <2>1. PICK z \in U \ {x} : \A y \in U \ {x} : y <= z
    BY <1>4, <1>6
  <2>2. CASE z <= x
    <3>1. \A y \in U : y <= x BY <2>1, <2>2
    <3> QED BY <3>1, <1>3
  <2>3. CASE x < z
    <3>1. \A y \in U : y <= z BY <2>1, <2>3
    <3> QED BY <3>1, <2>1
  <2> QED BY <1>3, <2>1, <2>2, <2>3
<1> QED BY <1>5, <1>6

LEMMA HighestOf ==
  ASSUME NEW S, S \subseteq Int, IsFiniteSet(S), S # {}
  PROVE  Highest(S) \in S /\ \A y \in S : y <= Highest(S)
BY HighestExists DEF Highest

(* Of natural numbers any set has a lowest.                                *)
LEMMA LowestOf ==
  ASSUME NEW S, S \subseteq Nat, S # {}
  PROVE  Lowest(S) \in S /\ \A y \in S : Lowest(S) <= y
<1>1. PICK n \in S : TRUE
  OBVIOUS
<1> DEFINE D == {n - x : x \in {y \in S : y <= n}}
<1>2. D \in SUBSET (0 .. n) /\ IsFiniteSet(0 .. n)
  <2>1. n \in Nat OBVIOUS
  <2>2. \A x \in {y \in S : y <= n} : n - x \in 0 .. n BY <2>1
  <2>3. IsFiniteSet(0 .. n) BY <2>1, FS_Interval
  <2> QED BY <2>2, <2>3
<1>3. IsFiniteSet(D) /\ D \in SUBSET Int /\ 0 \in D
  BY <1>1, <1>2, FS_Subset
<1>4. PICK d \in D : \A e \in D : e <= d
  <2> HIDE DEF D
  <2> QED BY <1>3, HighestExists
<1>5. PICK x \in S : x <= n /\ d = n - x
  OBVIOUS
<1>6. \A y \in S : x <= y
  <2>1. TAKE y \in S
  <2>2. CASE y <= n
    <3>1. n - y \in D BY <2>2
    <3>2. n - y <= n - x BY <3>1, <1>4, <1>5
    <3> QED BY <3>2
  <2>3. CASE n < y
    BY <2>3, <1>5
  <2> QED BY <2>2, <2>3
<1> QED BY <1>5, <1>6 DEF Lowest

(* A part of a set that lies below the rest has the same lowest.           *)
LEMMA LowestOfPart ==
  ASSUME NEW S, S \subseteq Nat, NEW T, T \subseteq S, T # {},
         \A x \in T : \A y \in S : y < x => y \in T
  PROVE  Lowest(T) = Lowest(S) /\ Lowest(T) \in T
<1>1. Lowest(T) \in T /\ \A y \in T : Lowest(T) <= y
  BY LowestOf
<1>2. Lowest(S) \in S /\ \A y \in S : Lowest(S) <= y
  BY LowestOf
<1>3. PICK x, y : x = Lowest(S) /\ y = Lowest(T)
  OBVIOUS
<1>4. x \in Nat /\ y \in Nat /\ x \in S /\ y \in S /\ x <= y
  BY <1>1, <1>2, <1>3
<1>5. x < y => y <= x
  BY <1>1, <1>3, <1>4
<1> QED BY <1>1, <1>3, <1>4, <1>5

-----------------------------------------------------------------------------
(* A replay that has found its exit keeps it.                              *)

LEMMA DailyKept ==
  ASSUME NEW live, NEW days, DOMAIN days \subseteq Nat
  PROVE  KeepsDaily(live, days)
<1> DEFINE seen(n) == [d \in {e \in DOMAIN days : e <= n} |-> days[d]]
           hit(d) == /\ live.day < d /\ d <= live.expiry /\ days[d].priced
                     /\ PolicyVerdict(live, days[d].net, live.expiry - d) # "hold"
           hits(n) == {d \in DOMAIN days : d <= n /\ hit(d)}
           upto(n) == SettleUnderPolicy(live, seen(n), Missing)
<1>1. SUFFICES ASSUME NEW m \in DOMAIN days, NEW n \in DOMAIN days, m < n, upto(m) # Ungraded
               PROVE  upto(n) = upto(m)
  BY DEF KeepsDaily
<1>2. ASSUME NEW k \in DOMAIN days
      PROVE  WalkPolicy(live, seen(k), Missing)
               = IF live.entry = 0 THEN [day |-> Missing] ELSE FirstExit(live, seen(k), hits(k), Missing)
  <2>1. {d \in DOMAIN seen(k) : /\ live.day < d /\ d <= live.expiry /\ seen(k)[d].priced
                               /\ PolicyVerdict(live, seen(k)[d].net, live.expiry - d) # "hold"} = hits(k)
    OBVIOUS
  <2> HIDE DEF hits, seen
  <2> QED BY <2>1 DEF WalkPolicy
<1>3. live.entry # 0 /\ hits(m) # {}
  <2>1. WalkPolicy(live, seen(m), Missing).day # Missing
    BY <1>1 DEF SettleUnderPolicy, PolicyOutcome
  <2> HIDE DEF hits, seen
  <2>2. live.entry # 0
    BY <1>2, <2>1
  <2>3. FirstExit(live, seen(m), hits(m), Missing).day # Missing
    BY <1>2, <2>1, <2>2
  <2> QED BY <2>2, <2>3 DEF FirstExit
<1>4. Lowest(hits(m)) = Lowest(hits(n)) /\ Lowest(hits(m)) \in hits(m)
  <2>1. hits(n) \subseteq Nat /\ hits(m) \subseteq hits(n)
    BY <1>1
  <2>2. \A x \in hits(m) : \A y \in hits(n) : y < x => y \in hits(m)
    <3>1. SUFFICES ASSUME NEW x \in hits(m), NEW y \in hits(n), y < x PROVE y \in hits(m)
      OBVIOUS
    <3>2. x \in Nat /\ y \in Nat /\ m \in Nat
      OBVIOUS
    <3> QED BY <3>1, <3>2
  <2> HIDE DEF hits
  <2> QED BY <1>3, <2>1, <2>2, LowestOfPart
<1>5. seen(n)[Lowest(hits(m))] = seen(m)[Lowest(hits(m))]
  <2>1. PICK x : x = Lowest(hits(m)) OBVIOUS
  <2>2. x \in DOMAIN days /\ x <= m /\ x \in Nat /\ m \in Nat /\ n \in Nat
    BY <1>4, <2>1
  <2>3. seen(n)[x] = days[x] /\ seen(m)[x] = days[x]
    BY <1>1, <2>2
  <2> QED BY <2>1, <2>3
<1>6. hits(n) # {}
  <2>1. \A d \in hits(m) : d \in hits(n)
    BY <1>1
  <2> HIDE DEF hits
  <2> QED BY <1>4, <2>1
<1> HIDE DEF hits, seen
<1>7. FirstExit(live, seen(n), hits(n), Missing) = FirstExit(live, seen(m), hits(m), Missing)
  BY <1>3, <1>4, <1>5, <1>6 DEF FirstExit
<1>8. WalkPolicy(live, seen(n), Missing) = WalkPolicy(live, seen(m), Missing)
  BY <1>2, <1>3, <1>7
<1> QED BY <1>8 DEF SettleUnderPolicy

LEMMA IntradayKept ==
  ASSUME NEW live, NEW bars, DOMAIN bars \subseteq Nat
  PROVE  KeepsIntraday(live, bars)
<1> DEFINE seen(n) == [t \in {u \in DOMAIN bars : u <= n} |-> bars[t]]
           watched(n) == {t \in DOMAIN bars : t <= n /\ live.minute <= t /\ Traded(live.legs, bars[t])}
           hits(n) == {t \in watched(n) : BarVerdict(live, bars[t]) # "session_close"}
           upto(n) == SettleIntraday(live, seen(n), FALSE)
<1>1. SUFFICES ASSUME NEW m \in DOMAIN bars, NEW n \in DOMAIN bars, m < n, upto(m) # Ungraded
               PROVE  upto(n) = upto(m)
  BY DEF KeepsIntraday
<1>2. ASSUME NEW k \in DOMAIN bars
      PROVE  /\ Watched(live, seen(k)) = watched(k)
             /\ WalkIntraday(live, seen(k), FALSE)
                  = IF live.entry = 0 THEN [minute |-> Missing]
                    ELSE FirstHit(live, seen(k), watched(k), hits(k), FALSE)
  <2>1. Watched(live, seen(k)) = watched(k)
    BY DEF Watched
  <2>2. {t \in watched(k) : BarVerdict(live, seen(k)[t]) # "session_close"} = hits(k)
    OBVIOUS
  <2> HIDE DEF hits, seen, watched
  <2> QED BY <2>1, <2>2 DEF WalkIntraday
<1>3. live.entry # 0 /\ hits(m) # {}
  <2>1. PICK walk : walk = WalkIntraday(live, seen(m), FALSE)
    OBVIOUS
  <2>2. walk.minute # Missing
    BY <1>1, <2>1 DEF SettleIntraday, IntradayGrade
  <2> HIDE DEF hits, seen, watched
  <2>3. walk = IF live.entry = 0 THEN [minute |-> Missing]
               ELSE FirstHit(live, seen(m), watched(m), hits(m), FALSE)
    BY <1>2, <2>1
  <2> QED BY <2>2, <2>3 DEF FirstHit
<1>4. Lowest(hits(m)) = Lowest(hits(n)) /\ Lowest(hits(m)) \in hits(m)
  <2>1. hits(n) \subseteq Nat /\ hits(m) \subseteq hits(n)
    BY <1>1
  <2>2. \A x \in hits(m) : \A y \in hits(n) : y < x => y \in hits(m)
    <3>1. SUFFICES ASSUME NEW x \in hits(m), NEW y \in hits(n), y < x PROVE y \in hits(m)
      OBVIOUS
    <3>2. x \in Nat /\ y \in Nat /\ m \in Nat
      OBVIOUS
    <3> QED BY <3>1, <3>2
  <2> HIDE DEF hits
  <2> QED BY <1>3, <2>1, <2>2, LowestOfPart
<1>5. PICK x : x = Lowest(hits(m))
  OBVIOUS
<1>6. /\ x \in DOMAIN bars /\ x <= m /\ x \in Nat /\ m \in Nat /\ n \in Nat
      /\ x \in hits(m) /\ x \in hits(n)
  BY <1>1, <1>4, <1>5
<1>7. seen(n)[x] = bars[x] /\ seen(m)[x] = bars[x]
  BY <1>1, <1>6
<1> DEFINE exit == IntradayExitAt(live, bars[x], x, BarVerdict(live, bars[x]))
           early == {t \in watched(m) : t <= x}
<1>8. /\ WalkIntraday(live, seen(m), FALSE) = exit
      /\ WalkIntraday(live, seen(n), FALSE) = exit
      /\ exit.minute = x
  <2> HIDE DEF hits, seen, watched
  <2>1. FirstHit(live, seen(m), watched(m), hits(m), FALSE) = exit
    BY <1>5, <1>6, <1>7 DEF FirstHit
  <2>2. FirstHit(live, seen(n), watched(n), hits(n), FALSE) = exit
    BY <1>4, <1>5, <1>6, <1>7 DEF FirstHit
  <2>3. exit.minute = x
    BY DEF IntradayExitAt
  <2> HIDE DEF exit
  <2> QED BY <1>2, <1>3, <2>1, <2>2, <2>3
<1>9. /\ GradedMinutes(live, seen(m), exit) = early
      /\ GradedMinutes(live, seen(n), exit) = early
  <2>1. {t \in watched(n) : t <= x} = early
    BY <1>1, <1>6
  <2> HIDE DEF seen, watched, exit
  <2>2. /\ GradedMinutes(live, seen(m), exit) = {t \in watched(m) : t <= x}
        /\ GradedMinutes(live, seen(n), exit) = {t \in watched(n) : t <= x}
    BY <1>2, <1>8 DEF GradedMinutes
  <2> QED BY <2>1, <2>2
<1>10. Excursion(live, seen(m), early) = Excursion(live, seen(n), early)
  <2>1. \A t \in early : seen(m)[t] = seen(n)[t]
    BY <1>1, <1>6
  <2> HIDE DEF seen, early
  <2>2. /\ {StructureBest(live.legs, seen(m)[t]) - live.entry : t \in early}
             = {StructureBest(live.legs, seen(n)[t]) - live.entry : t \in early}
        /\ {StructureWorst(live.legs, seen(m)[t]) - live.entry : t \in early}
             = {StructureWorst(live.legs, seen(n)[t]) - live.entry : t \in early}
    BY <2>1
  <2> QED BY <2>2 DEF Excursion
<1> HIDE DEF seen, early, exit, hits, watched
<1>11. IntradayGrade(live, exit, seen(m)) = IntradayGrade(live, exit, seen(n))
  BY <1>9, <1>10 DEF IntradayGrade, IntradayOutcome
<1> QED BY <1>8, <1>11 DEF SettleIntraday

-----------------------------------------------------------------------------
(* The posted bracket.                                                     *)

(* Where the policy of a position takes its target, so does its order; the *)
(* stop order of a credit is at a cent or more.                            *)
LEMMA BracketTarget ==
  ASSUME NEW p, p.debit \in Int, p.target \in 1 .. 100, p.stop \in 1 .. 100, NEW net \in Int,
         CheckExit(p, p.debit, net) = "profit_target"
  PROVE  TargetFills(BracketFromPlan(p), net)
BY DEF CheckExit, TargetFills, BracketFromPlan, Bracket, ActSooner, CeilDiv, Abs, Most, NoBracket

(* and likewise for the stop, which never goes below a cent.               *)
LEMMA BracketStop ==
  ASSUME NEW p, p.debit \in Int, p.target \in 1 .. 100, p.stop = 50, NEW net \in Int,
         NEW h \in Int, p.debit = 5 * h, NEW x \in Int, net = 5 * x,
         CheckExit(p, p.debit, net) = "stop_loss"
  PROVE  StopFills(BracketFromPlan(p), net)
BY DEF CheckExit, StopFills, BracketFromPlan, Bracket, ActSooner, CeilDiv, Abs, Most, NoBracket

-----------------------------------------------------------------------------
(* The tape, and the marks of a moment.                                    *)

Placed == world \in Worlds /\ now \in DOMAIN Moments

LEMMA MomentFacts ==
  ASSUME Placed
  PROVE  /\ Len(Moments) \in Nat /\ DOMAIN Moments = 1 .. Len(Moments)
         /\ \A m \in DOMAIN Moments : /\ Moments[m].day \in Nat /\ Moments[m].minute \in 0 .. 1439
                                      /\ Clock(m) \in Nat
         /\ \A m, n \in DOMAIN Moments : m < n => Clock(m) < Clock(n) /\ Moments[m].day <= Moments[n].day
<1>1. /\ Moments \in Seq(Instants)
      /\ \A m, n \in DOMAIN Moments : m < n => Later(Moments[m], Moments[n])
  BY WorldsAssumption DEF Placed, Moments
<1> HIDE DEF Moments
<1>2. /\ Len(Moments) \in Nat /\ DOMAIN Moments = 1 .. Len(Moments)
      /\ \A m \in DOMAIN Moments : Moments[m] \in Instants
  BY <1>1, LenProperties, ElementOfSeq
<1>3. ASSUME NEW m \in DOMAIN Moments PROVE Moments[m].day \in Nat /\ Moments[m].minute \in 0 .. 1439
  <2>1. PICK x \in Instants : x = Moments[m]
    BY <1>2
  <2>2. x.day \in Nat /\ x.minute \in 0 .. 1439
    BY DEF Instants
  <2> QED BY <2>1, <2>2
<1>4. ASSUME NEW m \in DOMAIN Moments PROVE Clock(m) \in Nat
  <2>1. PICK a, b : a = Moments[m].day /\ b = Moments[m].minute
    OBVIOUS
  <2>2. a \in Nat /\ b \in 0 .. 1439 /\ Clock(m) = a * 1440 + b
    BY <1>3, <2>1 DEF Clock
  <2> HIDE DEF Clock
  <2> QED BY <2>2
<1>5. ASSUME NEW m \in DOMAIN Moments, NEW n \in DOMAIN Moments, m < n
      PROVE  Clock(m) < Clock(n) /\ Moments[m].day <= Moments[n].day
  <2>1. PICK a, b, x, y : a = Moments[m].day /\ b = Moments[n].day /\ x = Moments[m].minute /\ y = Moments[n].minute
    OBVIOUS
  <2>2. a \in Nat /\ b \in Nat /\ x \in 0 .. 1439 /\ y \in 0 .. 1439
    BY <1>3, <2>1
  <2>0. Later(Moments[m], Moments[n])
    BY <1>1, <1>5
  <2>3. a < b \/ (a = b /\ x < y)
    BY <2>0, <2>1, <2>2 DEF Later
  <2>4. Clock(m) = a * 1440 + x /\ Clock(n) = b * 1440 + y
    BY <2>1 DEF Clock
  <2>5. a <= b /\ a * 1440 + x < b * 1440 + y
    BY <2>2, <2>3
  <2> HIDE DEF Clock
  <2> QED BY <2>1, <2>4, <2>5
<1> QED BY <1>2, <1>3, <1>4, <1>5

(* Whole numbers of half cents.                                            *)
Halves == {5 * h : h \in Int}

LEMMA HalvesAdd ==
  /\ Halves \subseteq Int /\ 0 \in Halves
  /\ \A x, y \in Halves : x + y \in Halves
  /\ \A x \in Halves : -x \in Halves
<1>1. Halves \subseteq Int
  BY DEF Halves
<1>2. 0 \in Halves
  <2>1. 0 = 5 * 0 /\ 0 \in Int OBVIOUS
  <2> QED BY <2>1 DEF Halves
<1>3. ASSUME NEW x \in Halves, NEW y \in Halves PROVE x + y \in Halves /\ -x \in Halves
  <2>1. PICK g \in Int, h \in Int : x = 5 * g /\ y = 5 * h
    BY DEF Halves
  <2>2. x + y = 5 * (g + h) /\ -x = 5 * (-g) /\ g + h \in Int /\ -g \in Int
    BY <2>1
  <2> QED BY <2>2 DEF Halves
<1> QED BY <1>1, <1>2, <1>3

(* A mark is missing or a whole number of half cents, and so is their net. *)
LEMMA LegMarkTypes ==
  ASSUME Placed, NEW m \in DOMAIN Moments, NEW leg, NEW expiry
  PROVE  LegMark(leg, expiry, m) = Missing \/ (LegMark(leg, expiry, m) \in Nat /\ LegMark(leg, expiry, m) \in Halves)
<1> DEFINE found == ListedLeg(leg, expiry, m)
<1>1. <<Tape[m], Moments[m].day>> \in DOMAIN Chains
  BY WorldsAssumption DEF Placed, Moments, Tape
<1>2. \A c \in found : c.mark = Missing \/ (c.mark \in Nat /\ c.mark % 5 = 0)
  BY <1>1, ChainsAssumption DEF ListedLeg
<1>3. CASE found = {}
  BY <1>3 DEF LegMark, MarkIn
<1>4. CASE found # {}
  <2>1. PICK c \in found : LegMark(leg, expiry, m) = c.mark
    BY <1>4 DEF LegMark, MarkIn
  <2>2. c.mark \in Nat /\ c.mark % 5 = 0 => c.mark \in Halves
    <3>1. SUFFICES ASSUME c.mark \in Nat, c.mark % 5 = 0 PROVE c.mark \in Halves
      OBVIOUS
    <3>2. PICK x : x = c.mark
      OBVIOUS
    <3>3. x = 5 * (x \div 5) /\ x \div 5 \in Int
      BY <3>1, <3>2
    <3> QED BY <3>2, <3>3 DEF Halves
  <2> QED BY <1>2, <2>1, <2>2
<1> QED BY <1>3, <1>4

LEMMA MarkTypes ==
  ASSUME Placed, NEW m \in DOMAIN Moments, NEW legs, NEW expiry
  PROVE  MarkAt(legs, expiry, m).net \in Halves
<1> DEFINE marks == MarksAt(legs, expiry, m)
<1>1. CASE \E i \in DOMAIN legs : marks[i] = Missing
  BY <1>1, HalvesAdd DEF MarkAt, MarkedNet, NoNet
<1>2. CASE ~\E i \in DOMAIN legs : marks[i] = Missing
  <2>1. \A i \in DOMAIN legs : marks[i] \in Halves
    BY <1>2, LegMarkTypes DEF MarksAt
  <2> HIDE DEF marks
  <2>2. \A i : Signed(legs, i, marks) \in Halves
    BY <2>1, HalvesAdd DEF Signed
  <2>3. NetOf(legs, marks) \in Halves
    BY <2>2, HalvesAdd DEF NetOf
  <2>4. MarkAt(legs, expiry, m) = [priced |-> TRUE, net |-> NetOf(legs, marks)]
    BY <1>2 DEF MarkAt, MarkedNet, marks
  <2> QED BY <2>3, <2>4
<1> QED BY <1>1, <1>2

-----------------------------------------------------------------------------
(* Positions taken over from a broker.                                     *)

Taking == {"line", "paste", "form", "sync"}

TakenPlan(p) ==
  /\ p.debit \in Halves /\ p.dte \in Nat
  /\ p.target \in {40, 50, 60} /\ p.stop = 50 /\ p.timeStop \in Nat

(* A position taken over is opened, at the mark of the moment, as it is    *)
(* put on the board, and keeps its entry whatever becomes of it.           *)
TakenIdea(i) ==
  /\ TakenPlan(board[i].plan)
  /\ book[i].fill = board[i].plan.debit
  /\ book[i].at \in 1 .. now
  /\ board[i].at = <<Moments[book[i].at].day, Moments[book[i].at].minute>>

(* An idea of the desk carries what the gates that do not read the clock   *)
(* said, and its reasons repeat it when it was scanned in session.         *)
GateIdea(i) ==
  /\ board[i].would \subseteq Gated \ {Timing}
  /\ \E m \in DOMAIN Moments :
       /\ board[i].at = <<Moments[m].day, Moments[m].minute>>
       /\ InSession(Moments[m]) => (board[i].rejects \ {Timing}) \cap Gated = board[i].would

LifeInv ==
  /\ Placed
  /\ DOMAIN board = Slots /\ DOMAIN book = Slots
  /\ \A i \in Slots : board[i].way \in Taking \cup {"none", "core", "desk"}
  /\ \A i \in Slots : board[i].way \in Taking => TakenIdea(i)
  /\ \A i \in Slots : board[i].way = "desk" => GateIdea(i)

(* What build_tracked_trade() makes of any legs and net.                   *)
LEMMA TrackedTypes ==
  ASSUME NEW legs, NEW net \in Halves, NEW dte \in Nat
  PROVE  TakenPlan(TrackedPlan(legs, net, 1, dte))
<1>1. DteRegime(Most(0, dte)).target \in {40, 50, 60} /\ DteRegime(Most(0, dte)).stop = 50
  BY DEF DteRegime, Most
<1>2. DteRegime(Most(0, dte)).timeStop \in Nat
  <2>1. RoundDiv(dte * 4, 10) \in Int
    BY DEF RoundDiv
  <2>2. PICK x : x = RoundDiv(dte * 4, 10)
    OBVIOUS
  <2>3. Most(0, dte) = dte /\ Most(2, x) \in Nat
    BY <2>1, <2>2 DEF Most
  <2> QED BY <2>2, <2>3 DEF DteRegime
<1> HIDE DEF DteRegime
<1> QED BY <1>1, <1>2 DEF TrackedPlan, TakenPlan

LEMMA LifeInit == Init => LifeInv
<1> SUFFICES ASSUME Init PROVE LifeInv
  OBVIOUS
<1>1. Placed
  <2>1. world \in Worlds /\ now = 1 /\ Moments \in Seq(Instants) /\ Len(Moments) > 0
    BY WorldsAssumption DEF Init, Moments
  <2> HIDE DEF Moments
  <2>2. 1 \in DOMAIN Moments
    BY <2>1, LenProperties
  <2> QED BY <2>1, <2>2 DEF Placed
<1>2. DOMAIN board = Slots /\ DOMAIN book = Slots
  BY DEF Init
<1>3. \A i \in Slots : board[i].way = "none"
  BY DEF Init, NoIdea
<1> QED BY <1>1, <1>2, <1>3 DEF LifeInv, Taking

(* What the gates said of an idea of the desk.                             *)
LEMMA GatesWould ==
  ASSUME NEW symbol, NEW direction, NEW regime, NEW stale, NEW daily, NEW equity, NEW bucket, NEW m, NEW extra,
         extra \cap Gated = {}
  PROVE  LET would == AccountGates(symbol, direction, regime, stale, daily, equity)
             gates == EvaluateEntryGates(bucket, symbol, direction, regime, stale, daily, equity, m)
         IN  /\ would \subseteq Gated \ {Timing}
             /\ InSession(m) => ((gates \cup extra) \ {Timing}) \cap Gated = would
<1> DEFINE would == AccountGates(symbol, direction, regime, stale, daily, equity)
<1>1. would \subseteq Gated \ {Timing}
  BY DEF AccountGates, Timing
<1> HIDE DEF would
<1>2. ASSUME InSession(m)
      PROVE  EvaluateEntryGates(bucket, symbol, direction, regime, stale, daily, equity, m)
               = would \cup (IF TimingBlocked(bucket, m) THEN {Timing} ELSE {})
  BY <1>2 DEF EvaluateEntryGates, would
<1> HIDE DEF Gated, Timing
<1> QED BY <1>1, <1>2 DEF would

(* The reason a contract is refused is none of the gates'.                 *)
LEMMA RejectUngated ==
  ASSUME NEW chain, NEW bullish, NEW bucket, NEW pol
  PROVE  {ShortReject(chain, bullish, bucket, pol)} \cap Gated = {}
<1>1. ShortReject(chain, bullish, bucket, pol) \in {"illiquid_option", "pop_below_floor", "risk_unmanageable"}
  BY DEF ShortReject
<1> QED BY <1>1 DEF Gated

(* A place is kept when its idea stays, with the entry of a position that  *)
(* was taken over.                                                         *)
Kept(i) == board'[i] = board[i] /\ (board[i].way \in Taking => book'[i].fill = book[i].fill /\ book'[i].at = book[i].at)

LEMMA LifeStep == LifeInv /\ [Next]_vars => LifeInv'
<1> SUFFICES ASSUME LifeInv, [Next]_vars PROVE LifeInv'
  OBVIOUS
<1>0. /\ Placed /\ DOMAIN board = Slots /\ DOMAIN book = Slots
      /\ \A i \in Slots : board[i].way \in Taking \cup {"none", "core", "desk"}
      /\ \A i \in Slots : board[i].way \in Taking => TakenIdea(i)
      /\ \A i \in Slots : board[i].way = "desk" => GateIdea(i)
  BY DEF LifeInv
<1>1. ASSUME Placed', now' \in {now, now + 1}, world' = world, DOMAIN board' = Slots, DOMAIN book' = Slots,
             \A i \in Slots : \/ Kept(i)
                              \/ board'[i].way \in Taking /\ TakenIdea(i)'
                              \/ board'[i].way = "desk" /\ GateIdea(i)'
                              \/ board'[i].way = "core"
      PROVE  LifeInv'
  <2>1. Moments' = Moments
    BY <1>1 DEF Moments
  <2>2. now \in Nat
    BY <1>0, MomentFacts DEF Placed
  <2> HIDE DEF Moments
  <2>3. SUFFICES ASSUME NEW i \in Slots
                 PROVE  /\ board'[i].way \in Taking \cup {"none", "core", "desk"}
                        /\ board'[i].way \in Taking => TakenIdea(i)'
                        /\ board'[i].way = "desk" => GateIdea(i)'
    BY <1>1 DEF LifeInv
  <2>4. CASE Kept(i)
    <3>1. ASSUME board'[i].way \in Taking PROVE TakenIdea(i)'
      <4>1. TakenIdea(i) /\ board'[i] = board[i] /\ book'[i].fill = book[i].fill /\ book'[i].at = book[i].at
        BY <1>0, <2>4, <3>1 DEF Kept
      <4>2. book[i].at \in 1 .. now'
        BY <1>1, <2>2, <4>1 DEF TakenIdea
      <4> QED BY <2>1, <4>1, <4>2 DEF TakenIdea
    <3>2. ASSUME board'[i].way = "desk" PROVE GateIdea(i)'
      <4>1. GateIdea(i) /\ board'[i] = board[i]
        BY <1>0, <2>4, <3>2 DEF Kept
      <4> QED BY <2>1, <4>1 DEF GateIdea
    <3> QED BY <1>0, <2>4, <3>1, <3>2 DEF Kept
  <2>5. CASE board'[i].way \in Taking /\ TakenIdea(i)'
    BY <2>5 DEF Taking
  <2>6. CASE board'[i].way = "desk" /\ GateIdea(i)'
    BY <2>6 DEF Taking
  <2>7. CASE board'[i].way = "core"
    BY <2>7 DEF Taking
  <2> QED BY <1>1, <2>4, <2>5, <2>6, <2>7
<1>2. CASE Tick
  <2>1. now' \in DOMAIN Moments
    BY <1>0, <1>2, MomentFacts DEF Tick, Placed
  <2> QED BY <1>0, <1>1, <1>2, <2>1 DEF Tick, Placed, Moments, Kept
<1>3. ASSUME NEW p \in Slots, Scan(p) PROVE LifeInv'
  <2>0. PICK w, plan, why : board' = [board EXCEPT ![p] = CoreIdea(w, plan, why)]
    BY <1>3, Zenon DEF Scan
  <2>1. PICK idea : idea = CoreIdea(w, plan, why) /\ idea.way = "core"
    <3>1. PICK q : q = IF why = {} THEN plan ELSE NoPlan
      OBVIOUS
    <3>2. CoreIdea(w, plan, why) = Idea("core", "SPY", "core", w.direction, q, why, why)
      BY <3>1 DEF CoreIdea
    <3> QED BY <3>2 DEF Idea
  <2>2. Placed' /\ UNCHANGED <<now, world, book>>
    BY <1>0, <1>3 DEF Scan, Placed, Moments
  <2>3. \A i \in Slots : Kept(i) \/ board'[i].way = "core"
    BY <1>0, <2>0, <2>1, <2>2 DEF Kept
  <2> QED BY <1>0, <1>1, <2>0, <2>2, <2>3
<1>4. ASSUME NEW p \in Slots, DeskScan(p) PROVE LifeInv'
  <2> DEFINE idea(w, plan, rejects) ==
               Idea("desk", w.symbol, w.bucket, w.direction, plan, rejects,
                    AccountGates(w.symbol, w.direction, w.regime, w.stale, DailyRiskState, Equity))
             gates(w) == EvaluateEntryGates(w.bucket, w.symbol, w.direction, w.regime, w.stale,
                                            DailyRiskState, Equity, Here)
             reject(w) == ShortReject(Quotes, w.direction = "bullish", w.bucket,
                                      ShortPolicy(w.bucket = "0dte", Equity, Unconstrained))
  <2>1. PICK w \in world.desk :
          \/ board' = [board EXCEPT ![p] = idea(w, NoPlan, gates(w) \cup {reject(w)})]
          \/ \E plan : board' = [board EXCEPT ![p] = idea(w, plan, gates(w))]
    BY <1>4, Zenon DEF DeskScan
  <2>2. Placed' /\ UNCHANGED <<now, world, book>>
    BY <1>0, <1>4 DEF DeskScan, Placed, Moments
  <2>3. PICK extra, plan : extra \cap Gated = {} /\ board' = [board EXCEPT ![p] = idea(w, plan, gates(w) \cup extra)]
    <3>1. CASE board' = [board EXCEPT ![p] = idea(w, NoPlan, gates(w) \cup {reject(w)})]
      BY <3>1, RejectUngated, Zenon
    <3>2. ASSUME NEW q, board' = [board EXCEPT ![p] = idea(w, q, gates(w))]
          PROVE  \E plan : board' = [board EXCEPT ![p] = idea(w, plan, gates(w) \cup {})]
      <4>1. gates(w) \cup {} = gates(w)
        OBVIOUS
      <4> HIDE DEF idea, gates
      <4> QED BY <3>2, <4>1
    <3>3. {} \cap Gated = {}
      OBVIOUS
    <3> HIDE DEF idea, gates, reject
    <3> QED BY <2>1, <3>1, <3>2, <3>3
  <2>4. PICK new : /\ new.way = "desk" /\ new.rejects = gates(w) \cup extra /\ new.at = <<Here.day, Here.minute>>
                   /\ new.would = AccountGates(w.symbol, w.direction, w.regime, w.stale, DailyRiskState, Equity)
                   /\ board' = [board EXCEPT ![p] = new]
    BY <2>3 DEF Idea, Stamp, Today
  <2>5. /\ new.would \subseteq Gated \ {Timing}
        /\ InSession(Here) => (new.rejects \ {Timing}) \cap Gated = new.would
    BY <2>3, <2>4, GatesWould
  <2>6. Moments' = Moments /\ Here = Moments[now] /\ now \in DOMAIN Moments
    BY <1>0, <2>2 DEF Moments, Here, Placed
  <2>7. board'[p].way = "desk" /\ GateIdea(p)'
    <3> HIDE DEF Moments
    <3>1. board'[p] = new
      BY <1>0, <2>4
    <3> QED BY <2>4, <2>5, <2>6, <3>1 DEF GateIdea
  <2>8. \A i \in Slots : Kept(i) \/ i = p
    BY <1>0, <2>2, <2>4 DEF Kept
  <2> QED BY <1>0, <1>1, <2>2, <2>4, <2>7, <2>8
<1>5. ASSUME NEW p \in Slots, OpenPaper(p) \/ OpenDesk(p) PROVE LifeInv'
  <2>1. board[p].way \notin Taking /\ UNCHANGED <<now, world, board>>
    BY <1>5 DEF OpenPaper, OpenDesk, Taking
  <2>2. PICK trade : book' = [book EXCEPT ![p] = trade]
    BY <1>5, Zenon DEF OpenPaper, OpenDesk
  <2>3. \A i \in Slots : Kept(i)
    BY <1>0, <2>1, <2>2 DEF Kept
  <2>4. Placed' /\ DOMAIN book' = Slots
    BY <1>0, <2>1, <2>2 DEF Placed, Moments
  <2> QED BY <1>0, <1>1, <2>1, <2>3, <2>4
<1>6. ASSUME NEW p \in Slots, DeskMonitor(p) \/ Close(p) PROVE LifeInv'
  <2>1. UNCHANGED <<now, world, board>>
    BY <1>6 DEF DeskMonitor, Close
  <2>2. PICK trade : /\ book' = [book EXCEPT ![p] = trade]
                     /\ trade.fill = book[p].fill /\ trade.at = book[p].at
    <3> DEFINE closing(exit, why, at) == Closed(book[p], exit, why, at, board[p].plan.contracts)
    <3>1. \A exit, why, at : /\ closing(exit, why, at).fill = book[p].fill
                             /\ closing(exit, why, at).at = book[p].at
      BY DEF Closed
    <3>2. CASE Close(p)
      <4>1. PICK exit : book' = [book EXCEPT ![p] = closing(exit, "manual", Stamp)]
        BY <3>2, Zenon DEF Close
      <4> HIDE DEF closing
      <4> QED BY <3>1, <4>1
    <3>3. CASE DeskMonitor(p)
      <4>1. \/ \E exit, at : book' = [book EXCEPT ![p] = closing(exit, "expiry", at)]
            \/ \E exit, why : book' = [book EXCEPT ![p] = closing(exit, why, Stamp)]
        <5>1. PICK m, w : m = MarkAt(board[p].plan.legs, Expiry(p), now)
                          /\ w = IF CheckExit(board[p].plan, book[p].fill, m.net) # "none"
                                 THEN CheckExit(board[p].plan, book[p].fill, m.net)
                                 ELSE IntradayExit(Expiry(p) - Today, board[p].plan.timeStop, Here.minute)
          OBVIOUS
        <5> QED BY <3>3, <5>1 DEF DeskMonitor
      <4> HIDE DEF closing
      <4> QED BY <3>1, <4>1
    <3> QED BY <1>6, <3>2, <3>3
  <2>5. \A i \in Slots : Kept(i)
    BY <1>0, <2>1, <2>2 DEF Kept
  <2>6. Placed' /\ DOMAIN book' = Slots
    BY <1>0, <2>1, <2>2 DEF Placed, Moments
  <2> QED BY <1>0, <1>1, <2>1, <2>5, <2>6
<1>7. ASSUME NEW p \in Slots, Import(p) PROVE LifeInv'
  <2>1. PICK q, legs, way, direction :
          LET mark == MarkAt(q.legs, q.expiry, now)
              plan == TrackedPlan(legs, mark.net, 1, q.expiry - Today)
          IN  /\ q \in world.imports /\ q.expiry >= Today /\ way = q.way
              /\ board' = [board EXCEPT ![p] = Idea(way, "SPY", "live", direction, plan, {}, {})]
              /\ book' = [book EXCEPT ![p] = Filled(mark.net)]
    BY <1>7, Zenon DEF Import
  <2>2. UNCHANGED <<now, world>>
    BY <1>7 DEF Import
  <2>3. PICK net : net = MarkAt(q.legs, q.expiry, now).net
    OBVIOUS
  <2>4. net \in Halves
    BY <1>0, <2>3, MarkTypes DEF Placed
  <2>5. way \in Taking /\ q.expiry \in Nat
    BY <1>0, <2>1, WorldsAssumption DEF Placed, Taking
  <2>6. Here = Moments[now] /\ Today = Here.day /\ Today \in Nat
    BY <1>0, MomentFacts DEF Here, Today, Placed
  <2>7. PICK dte \in Nat : dte = q.expiry - Today
    BY <2>1, <2>5, <2>6
  <2>8. PICK plan : plan = TrackedPlan(legs, net, 1, dte) /\ TakenPlan(plan) /\ plan.debit = net
    <3>1. TrackedPlan(legs, net, 1, dte).debit = net
      BY DEF TrackedPlan
    <3> QED BY <2>4, <3>1, TrackedTypes
  <2>9. PICK new : /\ new.way = way /\ new.plan = plan /\ new.at = <<Here.day, Here.minute>>
                   /\ board' = [board EXCEPT ![p] = new]
    BY <2>1, <2>3, <2>7, <2>8 DEF Idea, Stamp, Today
  <2>10. PICK trade : trade.fill = net /\ trade.at = now /\ book' = [book EXCEPT ![p] = trade]
    BY <2>1, <2>3 DEF Filled
  <2>11. TakenIdea(p)' /\ board'[p].way \in Taking
    <3>1. board'[p] = new /\ book'[p] = trade
      BY <1>0, <2>9, <2>10
    <3>2. now \in 1 .. now
      BY <1>0, MomentFacts DEF Placed
    <3>3. Moments' = Moments
      BY <2>2 DEF Moments
    <3> HIDE DEF Moments
    <3> QED BY <2>2, <2>5, <2>6, <2>8, <2>9, <2>10, <3>1, <3>2, <3>3 DEF TakenIdea
  <2>12. \A i \in Slots : Kept(i) \/ i = p
    BY <1>0, <2>9, <2>10 DEF Kept
  <2>13. Placed' /\ DOMAIN board' = Slots /\ DOMAIN book' = Slots
    BY <1>0, <2>2, <2>9, <2>10 DEF Placed, Moments
  <2> QED BY <1>0, <1>1, <2>2, <2>11, <2>12, <2>13
<1>8. CASE UNCHANGED vars
  BY <1>0, <1>1, <1>8 DEF vars, Placed, Moments, Kept
<1> QED BY <1>2, <1>3, <1>4, <1>5, <1>6, <1>7, <1>8 DEF Next

(* The shape of the board and the book, for any worlds: an idea of the     *)
(* broker keeps its entry, and one of the desk what the gates said of it.  *)
THEOREM LifeAlways == Spec => []LifeInv
BY LifeInit, LifeStep, PTL DEF Spec

(* The order posted for a position taken over acts no later than its       *)
(* policy (BracketNotLater), for any chain whose marks are whole half      *)
(* cents.                                                                  *)
THEOREM BracketTheorem == Spec => []BracketNotLater
<1> DEFINE notLater(p, net) == LET hit == CheckExit(p, p.debit, net)
                               IN  /\ hit = "profit_target" => TargetFills(BracketFromPlan(p), net)
                                   /\ hit = "stop_loss" => StopFills(BracketFromPlan(p), net)
<1>1. ASSUME LifeInv PROVE BracketNotLater
  <2>0. BracketNotLater <=> \A i \in Taken \cap New : \A net \in {5 * x : x \in -600 .. 600} : notLater(board[i].plan, net)
    BY Zenon DEF BracketNotLater
  <2>1. SUFFICES ASSUME NEW i \in Slots, TakenIdea(i), NEW net, NEW x \in -600 .. 600, net = 5 * x
        PROVE  notLater(board[i].plan, net)
    <3>1. \A i \in Taken : i \in Slots /\ TakenIdea(i)
      BY <1>1 DEF LifeInv, Taken, Planned, Taking
    <3> HIDE DEF notLater
    <3> QED BY <2>0, <2>1, <3>1
  <2>2. PICK p : p = board[i].plan
    OBVIOUS
  <2>3. TakenPlan(p)
    BY <2>1, <2>2 DEF TakenIdea
  <2>4. PICK h \in Int : p.debit = 5 * h
    BY <2>3 DEF TakenPlan, Halves
  <2>5. p.debit \in Int /\ p.target \in 1 .. 100 /\ p.stop = 50 /\ p.stop \in 1 .. 100
    BY <2>3, <2>4 DEF TakenPlan
  <2>6. net \in Int /\ x \in Int
    BY <2>1
  <2>7. CheckExit(p, p.debit, net) = "profit_target" => TargetFills(BracketFromPlan(p), net)
    BY <2>5, <2>6, BracketTarget
  <2>8. CheckExit(p, p.debit, net) = "stop_loss" => StopFills(BracketFromPlan(p), net)
    BY <2>1, <2>4, <2>5, <2>6, BracketStop
  <2> QED BY <2>2, <2>7, <2>8
<1> QED BY <1>1, LifeAlways, PTL

(* A replay that has found its exit keeps it (ReplaysKeep), whatever the   *)
(* chains and the tape.                                                    *)
THEOREM KeptTheorem == Spec => []ReplaysKeep
<1>1. ASSUME LifeInv PROVE ReplaysKeep
  <2>1. SUFFICES ASSUME NEW i PROVE KeepsDaily(Live(i), DayMarks(i)) /\ KeepsIntraday(Live(i), Bars(i, 20))
    BY DEF ReplaysKeep
  <2>2. \A m \in DOMAIN Moments : Moments[m].day \in Nat /\ Clock(m) \in Nat
    BY <1>1, MomentFacts DEF LifeInv
  <2>3. DOMAIN DayMarks(i) \subseteq Nat
    BY <2>2 DEF DayMarks
  <2>4. DOMAIN Bars(i, 20) \subseteq Nat
    BY <2>2 DEF Bars
  <2> QED BY <2>3, <2>4, DailyKept, IntradayKept
<1> QED BY <1>1, LifeAlways, PTL

(* The board shows what the gates say (GateShown), whatever the ideas, the *)
(* tape and the account.                                                   *)
THEOREM GateTheorem == Spec => []GateShown
<1>1. ASSUME LifeInv PROVE GateShown
  <2>1. SUFFICES ASSUME NEW i \in Slots, board[i].way = "desk", ScannedOpen(i)
        PROVE  ShownAllowed(board[i].bucket, board[i].rejects, Here)
                 <=> board[i].would = {} /\ ~TimingBlocked(board[i].bucket, Here)
    BY DEF GateShown
  <2>2. GateIdea(i)
    BY <1>1, <2>1 DEF LifeInv
  <2>3. (board[i].rejects \ {Timing}) \cap Gated = board[i].would
    BY <2>1, <2>2 DEF GateIdea, ScannedOpen
  <2>4. Timing \in Gated
    BY DEF Timing, Gated
  <2> HIDE DEF Timing, Gated
  <2> QED BY <2>3, <2>4 DEF ShownAllowed, RefreshedRejects
<1> QED BY <1>1, LifeAlways, PTL

-----------------------------------------------------------------------------
(* The monitor and the two replays of its plan.                            *)

(* The lowest of the images under a rising function is the image of the    *)
(* lowest.                                                                 *)
LEMMA LowestImage ==
  ASSUME NEW S, S \subseteq Nat, S # {}, NEW f, NEW T, T = {f[x] : x \in S}, T \subseteq Nat,
         \A x, y \in S : x < y => f[x] < f[y]
  PROVE  Lowest(T) = f[Lowest(S)] /\ Lowest(S) \in S /\ \A x \in S : Lowest(S) <= x
<1>1. Lowest(S) \in S /\ \A x \in S : Lowest(S) <= x
  BY LowestOf
<1>2. PICK lo : lo = Lowest(S)
  OBVIOUS
<1>3. Lowest(T) \in T /\ \A y \in T : Lowest(T) <= y
  <2>1. T # {}
    OBVIOUS
  <2> QED BY <2>1, LowestOf
<1>4. PICK x \in S : Lowest(T) = f[x]
  BY <1>3
<1>5. lo \in Nat /\ x \in Nat /\ f[lo] \in Nat /\ f[x] \in Nat /\ lo <= x /\ f[x] <= f[lo]
  BY <1>1, <1>2, <1>3, <1>4
<1>6. ~(lo < x)
  BY <1>1, <1>2, <1>5
<1> QED BY <1>1, <1>2, <1>4, <1>5, <1>6

(* Target and stop are never both reached, so the order in which they are  *)
(* asked does not matter.                                                  *)
LEMMA VerdictsAgree ==
  ASSUME NEW snap, NEW plan, NEW mark, NEW dte \in Int,
         mark.priced, mark.net \in Int, snap.entry \in Int, snap.entry # 0,
         snap.stop = plan.stop, snap.target = plan.target, snap.timeStop = plan.timeStop,
         plan.stop = 50, plan.target \in {40, 50, 60}, plan.timeStop \in Nat
  PROVE  LET action == Tier4Action(plan, snap.entry, mark, dte)
         IN  /\ action \in {"take_profit", "stop", "time_stop", "hold"}
             /\ PolicyVerdict(snap, mark.net, dte) = Said(action)
             /\ PolicyVerdict(snap, mark.net, dte) = "hold" <=> action = "hold"
<1>1. PICK e, x, t, n : e = snap.entry /\ x = mark.net /\ t = plan.target /\ n = plan.timeStop
  OBVIOUS
<1>2. e \in Int /\ e # 0 /\ x \in Int /\ t \in {40, 50, 60} /\ n \in Nat /\ n # -1
  BY <1>1
<1> DEFINE up == (x - e) * 100 >= t * Abs(e)
           down == (x - e) * 100 <= -50 * Abs(e)
           late == dte <= n
<1>3. ~(up /\ down)
  BY <1>2 DEF Abs
<1>4. PolicyVerdict(snap, x, dte)
        = IF down THEN "stop_loss" ELSE IF up THEN "profit_target" ELSE IF late THEN "time_stop" ELSE "hold"
  BY <1>1 DEF PolicyVerdict
<1>5. Tier4Action(plan, e, mark, dte)
        = IF up THEN "take_profit" ELSE IF down THEN "stop" ELSE IF late THEN "time_stop" ELSE "hold"
  <2>1. CheckExit(plan, e, x) = IF up THEN "profit_target" ELSE IF down THEN "stop_loss" ELSE "none"
    BY <1>1, <1>2 DEF CheckExit
  <2> HIDE DEF up, down
  <2> QED BY <1>1, <1>2, <2>1 DEF Tier4Action, Missing
<1> HIDE DEF up, down, late
<1> QED BY <1>1, <1>3, <1>4, <1>5 DEF Said

(* What the replays know of a position: its plan, its entry and its days.  *)
LEMMA LiveFacts ==
  ASSUME NEW i \in Slots, board[i].way \in Taking
  PROVE  LET p == board[i].plan IN
         /\ Live(i).entry = p.debit /\ Live(i).legs = p.legs
         /\ Live(i).stop = p.stop /\ Live(i).target = p.target /\ Live(i).timeStop = p.timeStop
         /\ Live(i).day = board[i].at[1] /\ Live(i).expiry = Expiry(i) /\ Live(i).minute = Clock(book[i].at)
<1>1. SnapshotOf(i) = SnapshotFromLiveTrade(board[i].plan, board[i].direction, board[i].at)
  BY DEF SnapshotOf, Taking
<1>2. PICK levels : levels = Breakevens(board[i].plan.strategy, board[i].plan.legs)
  OBVIOUS
<1>3. PICK snap : snap = Snapshot("live", board[i].plan, board[i].direction, board[i].at, board[i].plan.debit,
                                  levels, Missing)
  OBVIOUS
<1>4. Live(i) = [snap EXCEPT !.minute = Clock(book[i].at)]
  BY <1>1, <1>2, <1>3 DEF Live, SnapshotFromLiveTrade
<1> HIDE DEF Clock
<1> QED BY <1>3, <1>4 DEF Snapshot, Expiry

(* The last moment of a day.                                               *)
LEMMA LastOfDay ==
  ASSUME Placed, NEW m \in DOMAIN Moments
  PROVE  LastOf(Moments[m].day) \in DOMAIN Moments /\ Moments[LastOf(Moments[m].day)].day = Moments[m].day
<1> DEFINE S == {n \in DOMAIN Moments : Moments[n].day = Moments[m].day}
<1>1. DOMAIN Moments = 1 .. Len(Moments) /\ Len(Moments) \in Nat
  BY MomentFacts
<1>2. S \subseteq Int /\ S \in SUBSET (1 .. Len(Moments)) /\ S # {}
  BY <1>1
<1>3. IsFiniteSet(1 .. Len(Moments))
  BY <1>1, FS_Interval
<1>4. IsFiniteSet(S)
  BY <1>2, <1>3, FS_Subset
<1>5. LastOf(Moments[m].day) = Highest(S)
  BY DEF LastOf
<1> HIDE DEF S
<1>6. Highest(S) \in S
  BY <1>2, <1>4, HighestOf
<1> QED BY <1>5, <1>6 DEF S

(* The daily replay leaves when, and for the reason, the monitor first     *)
(* says so at the end of a day.                                            *)
LEMMA DailyAgrees ==
  ASSUME LifeInv, NEW i \in Slots, board[i].way \in Taking, book[i].fill # 0
  PROVE  DailyIs(i, WalkPolicy(Live(i), DayMarks(i), Missing), Ends(i))
<1>1. PICK p : p = board[i].plan
  OBVIOUS
<1>2. Placed /\ TakenPlan(p) /\ book[i].fill = p.debit /\ p.debit # 0 /\ p.debit \in Int
  BY <1>1, HalvesAdd DEF LifeInv, TakenIdea, TakenPlan
<1>3. /\ board[i].at[1] \in Nat /\ Expiry(i) \in Nat
  <2>1. PICK m \in DOMAIN Moments : board[i].at = <<Moments[m].day, Moments[m].minute>>
    BY <1>2, MomentFacts DEF LifeInv, TakenIdea, Placed
  <2>2. board[i].at[1] = Moments[m].day /\ Moments[m].day \in Nat
    BY <1>2, <2>1, MomentFacts
  <2> QED BY <1>1, <1>2, <2>2 DEF Expiry, TakenPlan
<1>4. PICK snap : snap = Live(i)
  OBVIOUS
<1>5. /\ snap.entry = p.debit /\ snap.stop = p.stop /\ snap.target = p.target /\ snap.timeStop = p.timeStop
      /\ snap.day = board[i].at[1] /\ snap.expiry = Expiry(i)
  BY <1>1, <1>4, LiveFacts
<1> DEFINE nets == DayMarks(i)
           mark(m) == MarkAt(p.legs, Expiry(i), m)
           exits == {d \in DOMAIN nets : /\ snap.day < d /\ d <= snap.expiry /\ nets[d].priced
                                         /\ PolicyVerdict(snap, nets[d].net, snap.expiry - d) # "hold"}
           verdict(m) == PolicyVerdict(snap, mark(m).net, Expiry(i) - Moments[m].day)
<1>6. ASSUME NEW m \in DOMAIN Moments
      PROVE  /\ Says(i, m) \notin {"hold", "unmarked"} <=> mark(m).priced /\ verdict(m) # "hold"
             /\ mark(m).priced => verdict(m) = Said(Says(i, m))
  <2>1. Says(i, m) = Tier4Action(p, snap.entry, mark(m), Expiry(i) - Moments[m].day)
    BY <1>1, <1>2, <1>5 DEF Says
  <2>2. mark(m).net \in Int /\ Expiry(i) - Moments[m].day \in Int
    <3>1. mark(m).net \in Halves
      BY <1>2, MarkTypes
    <3>2. Moments[m].day \in Nat
      BY <1>2, MomentFacts
    <3>3. PICK x, e, d : x = mark(m).net /\ e = Expiry(i) /\ d = Moments[m].day
      OBVIOUS
    <3>4. x \in Int
      BY <3>1, <3>3, HalvesAdd
    <3>5. e - d \in Int
      BY <1>3, <3>2, <3>3
    <3> QED BY <3>3, <3>4, <3>5
  <2>3. PICK x, dte : x = mark(m) /\ dte = Expiry(i) - Moments[m].day
    OBVIOUS
  <2>4. ASSUME x.priced
        PROVE  LET action == Tier4Action(p, snap.entry, x, dte)
               IN  /\ action \in {"take_profit", "stop", "time_stop", "hold"}
                   /\ PolicyVerdict(snap, x.net, dte) = Said(action)
                   /\ PolicyVerdict(snap, x.net, dte) = "hold" <=> action = "hold"
    BY <1>2, <1>5, <2>2, <2>3, <2>4, VerdictsAgree DEF TakenPlan
  <2>5. ~x.priced => Says(i, m) = "unmarked"
    BY <2>1, <2>3 DEF Tier4Action
  <2> QED BY <2>1, <2>3, <2>4, <2>5
<1>7. /\ DOMAIN nets = {Moments[m].day : m \in DOMAIN Moments}
      /\ \A m \in DOMAIN Moments : m = LastOf(Moments[m].day) => nets[Moments[m].day] = mark(m)
  BY <1>1 DEF DayMarks
<1>8. exits = {Moments[m].day : m \in Ends(i)}
  <2>1. ASSUME NEW d \in exits PROVE \E m \in Ends(i) : d = Moments[m].day
    <3>1. PICK n \in DOMAIN Moments : d = Moments[n].day
      BY <1>7
    <3>2. PICK m \in DOMAIN Moments : m = LastOf(d) /\ Moments[m].day = d
      BY <1>2, <3>1, LastOfDay
    <3>3. nets[d] = mark(m)
      BY <1>7, <3>2
    <3> QED BY <1>5, <1>6, <3>2, <3>3 DEF Ends
  <2>2. ASSUME NEW m \in Ends(i) PROVE Moments[m].day \in exits
    <3>1. m \in DOMAIN Moments /\ nets[Moments[m].day] = mark(m) /\ Moments[m].day \in DOMAIN nets
      BY <1>7 DEF Ends
    <3> QED BY <1>5, <1>6, <3>1 DEF Ends
  <2> HIDE DEF exits
  <2> QED BY <2>1, <2>2
<1>9. WalkPolicy(snap, nets, Missing) = FirstExit(snap, nets, exits, Missing)
  BY <1>2, <1>5 DEF WalkPolicy
<1>10. CASE Ends(i) = {}
  <2>1. exits = {}
    BY <1>8, <1>10
  <2> HIDE DEF exits, nets
  <2> QED BY <1>4, <1>9, <1>10, <2>1 DEF DailyIs, FirstExit, nets
<1>11. CASE Ends(i) # {}
  <2> DEFINE f == [m \in DOMAIN Moments |-> Moments[m].day]
  <2>1. \A m, n \in Ends(i) : m < n => f[m] < f[n]
    <3>1. SUFFICES ASSUME NEW m \in Ends(i), NEW n \in Ends(i), m < n PROVE Moments[m].day < Moments[n].day
      BY DEF Ends
    <3>2. m \in DOMAIN Moments /\ n \in DOMAIN Moments /\ m \in Nat /\ n \in Nat
      BY <1>2, MomentFacts DEF Ends
    <3>3. Moments[m].day <= Moments[n].day /\ Moments[m].day \in Nat /\ Moments[n].day \in Nat
      BY <1>2, <3>1, <3>2, MomentFacts
    <3>4. Moments[m].day = Moments[n].day => m = n
      BY DEF Ends
    <3> QED BY <3>1, <3>2, <3>3, <3>4
  <2>2. Ends(i) \subseteq Nat /\ Ends(i) \subseteq DOMAIN Moments /\ exits \subseteq Nat
    <3>1. Ends(i) \subseteq DOMAIN Moments
      BY DEF Ends
    <3>2. \A m \in DOMAIN Moments : m \in Nat /\ Moments[m].day \in Nat
      BY <1>2, MomentFacts
    <3> HIDE DEF exits
    <3> QED BY <1>8, <3>1, <3>2
  <2>3. exits = {f[m] : m \in Ends(i)}
    BY <1>8, <2>2
  <2> HIDE DEF f, exits, nets
  <2>4. Lowest(exits) = f[Lowest(Ends(i))] /\ Lowest(Ends(i)) \in Ends(i)
    BY <1>11, <2>1, <2>2, <2>3, LowestImage
  <2>5. PICK m \in Ends(i) : m = Lowest(Ends(i))
    BY <2>4
  <2>6. m \in DOMAIN Moments /\ Lowest(exits) = Moments[m].day
    BY <2>2, <2>4, <2>5 DEF f
  <2>7. exits # {}
    BY <1>11, <2>3
  <2>8. nets[Moments[m].day] = mark(m)
    BY <1>7, <2>5, <2>6 DEF Ends
  <2>9. PICK walk : walk = FirstExit(snap, nets, exits, Missing)
    OBVIOUS
  <2>10. walk.day = Moments[m].day /\ walk.reason = verdict(m)
    BY <1>5, <2>6, <2>7, <2>8, <2>9 DEF FirstExit
  <2>11. verdict(m) = Said(Says(i, m))
    BY <1>6, <2>6 DEF Ends
  <2> HIDE DEF verdict
  <2> QED BY <1>4, <1>9, <1>11, <2>5, <2>9, <2>10, <2>11 DEF DailyIs, nets
<1> QED BY <1>10, <1>11

(* A structure is worth no less than on the worst ends of its legs' bars   *)
(* and no more than on the best.                                           *)
LEMMA NetBetween ==
  ASSUME NEW legs, NEW bar, NEW v,
         \A j \in DOMAIN legs : /\ v[j] \in Int /\ bar[j].low \in Int /\ bar[j].high \in Int
                                /\ bar[j].low <= v[j] /\ v[j] <= bar[j].high
  PROVE  /\ StructureWorst(legs, bar) \in Int /\ StructureBest(legs, bar) \in Int /\ NetOf(legs, v) \in Int
         /\ StructureWorst(legs, bar) <= NetOf(legs, v) /\ NetOf(legs, v) <= StructureBest(legs, bar)
<1> DEFINE low == [j \in DOMAIN legs |-> IF legs[j].buy THEN bar[j].low ELSE bar[j].high]
           high == [j \in DOMAIN legs |-> IF legs[j].buy THEN bar[j].high ELSE bar[j].low]
<1>1. ASSUME NEW j
      PROVE  /\ Signed(legs, j, low) \in Int /\ Signed(legs, j, high) \in Int /\ Signed(legs, j, v) \in Int
             /\ Signed(legs, j, low) <= Signed(legs, j, v) /\ Signed(legs, j, v) <= Signed(legs, j, high)
  <2>1. CASE j \notin DOMAIN legs
    BY <2>1 DEF Signed
  <2>2. CASE j \in DOMAIN legs /\ legs[j].buy
    BY <2>2 DEF Signed
  <2>3. CASE j \in DOMAIN legs /\ ~legs[j].buy
    BY <2>3 DEF Signed
  <2> QED BY <2>1, <2>2, <2>3
<1> HIDE DEF low, high
<1>2. /\ NetOf(legs, low) \in Int /\ NetOf(legs, high) \in Int /\ NetOf(legs, v) \in Int
      /\ NetOf(legs, low) <= NetOf(legs, v) /\ NetOf(legs, v) <= NetOf(legs, high)
  BY <1>1 DEF NetOf
<1> QED BY <1>2 DEF StructureWorst, StructureBest, low, high

(* The bars of a moment: all there when every leg has its mark, around the *)
(* net of the marks, and that net itself when they have no width.          *)
LEMMA BarFacts ==
  ASSUME LifeInv, NEW i \in Slots, NEW half \in {0, 20}, NEW m \in DOMAIN Moments
  PROVE  LET legs == board[i].plan.legs
             bar == Bars(i, half)[Clock(m)]
             mark == MarkAt(legs, Expiry(i), m)
         IN  /\ Traded(legs, bar) <=> mark.priced
             /\ mark.priced => /\ StructureWorst(legs, bar) \in Int /\ StructureBest(legs, bar) \in Int
                               /\ StructureWorst(legs, bar) <= mark.net /\ mark.net <= StructureBest(legs, bar)
                               /\ half = 0 => StructureWorst(legs, bar) = mark.net /\ StructureBest(legs, bar) = mark.net
<1>1. PICK legs, expiry : legs = board[i].plan.legs /\ expiry = Expiry(i)
  OBVIOUS
<1>2. Placed
  BY DEF LifeInv
<1> DEFINE x(j) == LegMark(legs[j], expiry, m)
<1>3. (CHOOSE n \in DOMAIN Moments : Clock(n) = Clock(m)) = m
  <2>1. \A n \in DOMAIN Moments : n \in Nat /\ Clock(n) \in Nat
    BY <1>2, MomentFacts
  <2>2. \A n \in DOMAIN Moments : Clock(n) = Clock(m) => n = m
    <3>1. ASSUME NEW n \in DOMAIN Moments, Clock(n) = Clock(m) PROVE ~(n < m) /\ ~(m < n)
      BY <1>2, <2>1, <3>1, MomentFacts
    <3> QED BY <2>1, <3>1
  <2> HIDE DEF Clock
  <2> QED BY <2>2
<1>4. PICK bar : bar = Bars(i, half)[Clock(m)]
  OBVIOUS
<1>5. bar = [j \in DOMAIN legs |-> IF x(j) = Missing THEN [low |-> Missing, high |-> Missing]
                                   ELSE [low |-> x(j) - half, high |-> x(j) + half]]
  <2>1. Clock(m) \in {Clock(n) : n \in DOMAIN Moments}
    OBVIOUS
  <2> HIDE DEF Clock
  <2> QED BY <1>1, <1>3, <1>4, <2>1 DEF Bars
<1>6. ASSUME NEW j \in DOMAIN legs
      PROVE  x(j) = Missing \/ (x(j) \in Int /\ x(j) - half # Missing)
  <2>1. PICK y : y = x(j)
    OBVIOUS
  <2>2. y = Missing \/ (y \in Nat /\ y \in Halves)
    BY <1>2, <2>1, LegMarkTypes
  <2>3. ASSUME NEW h \in Int, y = 5 * h PROVE y - half # -1 /\ y \in Int
    BY <2>3
  <2> QED BY <2>1, <2>2, <2>3 DEF Halves, Missing
<1>7. MarkAt(legs, expiry, m) = MarkedNet(legs, [j \in DOMAIN legs |-> x(j)])
  BY DEF MarkAt, MarksAt
<1> DEFINE v == [j \in DOMAIN legs |-> x(j)]
<1>8. ASSUME NEW j \in DOMAIN legs
      PROVE  /\ x(j) = Missing => bar[j].low = Missing
             /\ x(j) # Missing => /\ bar[j].low = x(j) - half /\ bar[j].high = x(j) + half
                                  /\ x(j) \in Int /\ x(j) - half # Missing
  <2> HIDE DEF x
  <2> QED BY <1>5, <1>6
<1> HIDE DEF x
<1>9. MarkAt(legs, expiry, m).priced <=> \A j \in DOMAIN legs : x(j) # Missing
  BY <1>7 DEF MarkedNet, NoNet
<1>10. Traded(legs, bar) <=> MarkAt(legs, expiry, m).priced
  BY <1>8, <1>9 DEF Traded
<1>11. ASSUME MarkAt(legs, expiry, m).priced
       PROVE  /\ StructureWorst(legs, bar) \in Int /\ StructureBest(legs, bar) \in Int
              /\ StructureWorst(legs, bar) <= MarkAt(legs, expiry, m).net
              /\ MarkAt(legs, expiry, m).net <= StructureBest(legs, bar)
              /\ half = 0 => /\ StructureWorst(legs, bar) = MarkAt(legs, expiry, m).net
                             /\ StructureBest(legs, bar) = MarkAt(legs, expiry, m).net
  <2>1. MarkAt(legs, expiry, m).net = NetOf(legs, v)
    BY <1>7, <1>9, <1>11 DEF MarkedNet
  <2>2. \A j \in DOMAIN legs : /\ v[j] = x(j) /\ v[j] \in Int
                               /\ bar[j].low = v[j] - half /\ bar[j].high = v[j] + half
    BY <1>8, <1>9, <1>11
  <2> HIDE DEF v
  <2>3. \A j \in DOMAIN legs : /\ v[j] \in Int /\ bar[j].low \in Int /\ bar[j].high \in Int
                               /\ bar[j].low <= v[j] /\ v[j] <= bar[j].high
    BY <2>2
  <2>4. ASSUME half = 0 PROVE StructureWorst(legs, bar) = NetOf(legs, v) /\ StructureBest(legs, bar) = NetOf(legs, v)
    <3>1. \A j \in DOMAIN legs : bar[j].low = v[j] /\ bar[j].high = v[j]
      BY <2>2, <2>4
    <3> DEFINE low == [j \in DOMAIN legs |-> IF legs[j].buy THEN bar[j].low ELSE bar[j].high]
               high == [j \in DOMAIN legs |-> IF legs[j].buy THEN bar[j].high ELSE bar[j].low]
    <3>2. \A j : Signed(legs, j, low) = Signed(legs, j, v) /\ Signed(legs, j, high) = Signed(legs, j, v)
      BY <3>1 DEF Signed
    <3> HIDE DEF low, high
    <3>3. NetOf(legs, low) = NetOf(legs, v) /\ NetOf(legs, high) = NetOf(legs, v)
      BY <3>2 DEF NetOf
    <3> QED BY <3>3 DEF StructureWorst, StructureBest, low, high
  <2> QED BY <2>1, <2>3, <2>4, NetBetween
<1> QED BY <1>1, <1>4, <1>10, <1>11

(* Where the monitor calls target or stop, so does a bar that is the mark, *)
(* with its reason, and no wider bar fails to.                             *)
LEMMA CallFacts ==
  ASSUME NEW snap, NEW plan, NEW mark, NEW dte, NEW bar, NEW wide,
         mark.priced, mark.net \in Int, snap.entry \in Int, snap.entry # 0,
         snap.stop = plan.stop, snap.target = plan.target, plan.stop = 50, plan.target \in {40, 50, 60},
         StructureWorst(snap.legs, bar) = mark.net, StructureBest(snap.legs, bar) = mark.net,
         StructureWorst(snap.legs, wide) \in Int, StructureBest(snap.legs, wide) \in Int,
         StructureWorst(snap.legs, wide) <= mark.net, mark.net <= StructureBest(snap.legs, wide)
  PROVE  LET action == Tier4Action(plan, snap.entry, mark, dte)
         IN  /\ action \in {"take_profit", "stop"} <=> BarVerdict(snap, bar) # "session_close"
             /\ action \in {"take_profit", "stop"} => /\ BarVerdict(snap, bar) = Said(action)
                                                      /\ BarVerdict(snap, wide) # "session_close"
<1>1. PICK e, x, t, lo, hi : /\ e = snap.entry /\ x = mark.net /\ t = plan.target
                             /\ lo = StructureWorst(snap.legs, wide) /\ hi = StructureBest(snap.legs, wide)
  OBVIOUS
<1>2. e \in Int /\ e # 0 /\ {x, lo, hi} \subseteq Int /\ lo <= x /\ x <= hi /\ t \in {40, 50, 60}
  BY <1>1
<1> DEFINE up(y) == (y - e) * 100 >= t * Abs(e)
           down(y) == (y - e) * 100 <= -50 * Abs(e)
<1>3. ~(up(x) /\ down(x)) /\ (up(x) => up(hi)) /\ (down(x) => down(lo))
  BY <1>2 DEF Abs
<1>4. /\ BarVerdict(snap, bar) = IF down(x) THEN "stop_loss" ELSE IF up(x) THEN "profit_target" ELSE "session_close"
      /\ BarVerdict(snap, wide) = IF down(lo) THEN "stop_loss" ELSE IF up(hi) THEN "profit_target" ELSE "session_close"
  BY <1>1 DEF BarVerdict
<1>5. PICK late : Tier4Action(plan, e, mark, dte)
        = IF up(x) THEN "take_profit" ELSE IF down(x) THEN "stop" ELSE IF late THEN "time_stop" ELSE "hold"
  <2>1. CheckExit(plan, e, x) = IF up(x) THEN "profit_target" ELSE IF down(x) THEN "stop_loss" ELSE "none"
    BY <1>1, <1>2 DEF CheckExit
  <2> HIDE DEF up, down
  <2> QED BY <1>1, <1>2, <2>1 DEF Tier4Action
<1> HIDE DEF up, down
<1> QED BY <1>1, <1>3, <1>4, <1>5 DEF Said

(* The minute replay leaves at the moment, and for the reason, the monitor *)
(* first calls target or stop, and on wider bars no later.                 *)
LEMMA ExactAgrees ==
  ASSUME LifeInv, NEW i \in Slots, board[i].way \in Taking, book[i].fill # 0
  PROVE  ExactIs(i, WalkIntraday(Live(i), Bars(i, 0), FALSE), WalkIntraday(Live(i), Bars(i, 20), FALSE), Calls(i))
<1>1. PICK p : p = board[i].plan
  OBVIOUS
<1>2. /\ Placed /\ TakenPlan(p) /\ book[i].fill = p.debit /\ p.debit # 0 /\ p.debit \in Int
      /\ book[i].at \in 1 .. now
  BY <1>1, HalvesAdd DEF LifeInv, TakenIdea, TakenPlan
<1>3. PICK snap, no : snap = Live(i) /\ no = FALSE
  OBVIOUS
<1>4. /\ snap.entry = p.debit /\ snap.stop = p.stop /\ snap.target = p.target /\ snap.legs = p.legs
      /\ snap.minute = Clock(book[i].at)
  BY <1>1, <1>3, LiveFacts
<1> DEFINE calls == Calls(i)
           mark(m) == MarkAt(p.legs, Expiry(i), m)
           exact == Bars(i, 0)
           wide == Bars(i, 20)
           hits(bars) == {t \in Watched(snap, bars) : BarVerdict(snap, bars[t]) # "session_close"}
<1>5. /\ DOMAIN Moments = 1 .. Len(Moments) /\ Len(Moments) \in Nat /\ now \in Nat /\ book[i].at \in DOMAIN Moments
      /\ \A m \in DOMAIN Moments : m \in Nat /\ Clock(m) \in Nat
  BY <1>2, MomentFacts DEF Placed
<1>6. \A m \in DOMAIN Moments : Clock(book[i].at) <= Clock(m) <=> book[i].at <= m
  <2>1. SUFFICES ASSUME NEW m \in DOMAIN Moments PROVE Clock(book[i].at) <= Clock(m) <=> book[i].at <= m
    OBVIOUS
  <2>2. PICK n \in DOMAIN Moments : n = book[i].at
    BY <1>5
  <2>3. m \in Nat /\ n \in Nat /\ Clock(m) \in Nat /\ Clock(n) \in Nat
    BY <1>5
  <2>4. (m < n => Clock(m) < Clock(n)) /\ (n < m => Clock(n) < Clock(m))
    BY <1>2, MomentFacts
  <2> HIDE DEF Clock
  <2> QED BY <2>2, <2>3, <2>4
<1>7. ASSUME NEW m \in DOMAIN Moments
      PROVE  /\ Says(i, m) \in {"take_profit", "stop"}
                  <=> Traded(snap.legs, exact[Clock(m)]) /\ BarVerdict(snap, exact[Clock(m)]) # "session_close"
             /\ Says(i, m) \in {"take_profit", "stop"} =>
                  /\ BarVerdict(snap, exact[Clock(m)]) = Said(Says(i, m))
                  /\ Traded(snap.legs, wide[Clock(m)]) /\ BarVerdict(snap, wide[Clock(m)]) # "session_close"
  <2>1. PICK x, dte, b, w : /\ x = mark(m) /\ dte = Expiry(i) - Moments[m].day
                            /\ b = exact[Clock(m)] /\ w = wide[Clock(m)]
    OBVIOUS
  <2>2. Says(i, m) = Tier4Action(p, snap.entry, x, dte)
    BY <1>1, <1>2, <1>4, <2>1 DEF Says
  <2>3. x.net \in Int
    <3>1. x.net \in Halves
      BY <1>2, <2>1, MarkTypes
    <3> QED BY <3>1, HalvesAdd
  <2>4. /\ Traded(snap.legs, b) <=> x.priced
        /\ x.priced => StructureWorst(snap.legs, b) = x.net /\ StructureBest(snap.legs, b) = x.net
    BY <1>1, <1>4, <2>1, BarFacts
  <2>5. /\ Traded(snap.legs, w) <=> x.priced
        /\ x.priced => /\ StructureWorst(snap.legs, w) \in Int /\ StructureBest(snap.legs, w) \in Int
                       /\ StructureWorst(snap.legs, w) <= x.net /\ x.net <= StructureBest(snap.legs, w)
    BY <1>1, <1>4, <2>1, BarFacts
  <2>6. ~x.priced => Says(i, m) = "unmarked"
    BY <2>2 DEF Tier4Action
  <2>7. ASSUME x.priced
        PROVE  LET action == Tier4Action(p, snap.entry, x, dte)
               IN  /\ action \in {"take_profit", "stop"} <=> BarVerdict(snap, b) # "session_close"
                   /\ action \in {"take_profit", "stop"} => /\ BarVerdict(snap, b) = Said(action)
                                                            /\ BarVerdict(snap, w) # "session_close"
    BY <1>2, <1>4, <2>3, <2>4, <2>5, <2>7, CallFacts DEF TakenPlan
  <2> QED BY <2>1, <2>2, <2>4, <2>5, <2>6, <2>7
<1>8. /\ DOMAIN exact = {Clock(m) : m \in DOMAIN Moments}
      /\ DOMAIN wide = {Clock(m) : m \in DOMAIN Moments}
  BY DEF Bars
<1>9. calls = {m \in DOMAIN Moments : book[i].at <= m /\ Says(i, m) \in {"take_profit", "stop"}}
  BY <1>5 DEF Calls
<1> HIDE DEF exact, wide, calls
<1>10. hits(exact) = {Clock(m) : m \in calls}
  <2>1. ASSUME NEW t \in hits(exact) PROVE \E m \in calls : t = Clock(m)
    <3>1. PICK m \in DOMAIN Moments : t = Clock(m)
      BY <1>8 DEF Watched
    <3> HIDE DEF Clock
    <3> QED BY <1>4, <1>6, <1>7, <1>9, <3>1 DEF Watched
  <2>2. ASSUME NEW m \in calls PROVE Clock(m) \in hits(exact)
    <3>1. m \in DOMAIN Moments /\ Clock(m) \in DOMAIN exact
      BY <1>8, <1>9
    <3> HIDE DEF Clock
    <3> QED BY <1>4, <1>6, <1>7, <1>9, <3>1 DEF Watched
  <2> HIDE DEF hits, Clock
  <2> QED BY <2>1, <2>2
<1>11. \A m \in calls : Clock(m) \in hits(wide)
  <2>1. SUFFICES ASSUME NEW m \in calls PROVE Clock(m) \in hits(wide)
    OBVIOUS
  <2>2. m \in DOMAIN Moments /\ Clock(m) \in DOMAIN wide
    BY <1>8, <1>9
  <2> HIDE DEF Clock
  <2> QED BY <1>4, <1>6, <1>7, <1>9, <2>2 DEF Watched
<1>12. hits(wide) \subseteq Nat /\ hits(exact) \subseteq Nat
  BY <1>5, <1>8 DEF Watched
<1>13. /\ WalkIntraday(snap, exact, no) = FirstHit(snap, exact, Watched(snap, exact), hits(exact), no)
       /\ WalkIntraday(snap, wide, no) = FirstHit(snap, wide, Watched(snap, wide), hits(wide), no)
  BY <1>2, <1>4 DEF WalkIntraday
<1> HIDE DEF hits
<1>14. CASE calls = {}
  <2>1. hits(exact) = {}
    BY <1>10, <1>14
  <2>2. WalkIntraday(snap, exact, no) = [minute |-> Missing]
    BY <1>3, <1>13, <2>1 DEF FirstHit
  <2>3. PICK e : e = WalkIntraday(snap, exact, no) /\ e.minute = Missing
    BY <2>2
  <2>4. e = WalkIntraday(Live(i), Bars(i, 0), FALSE)
    BY <1>3, <2>3 DEF exact
  <2> QED BY <1>14, <2>3, <2>4 DEF ExactIs, calls
<1>15. CASE calls # {}
  <2> DEFINE f == [m \in DOMAIN Moments |-> Clock(m)]
  <2>1. calls \subseteq Nat /\ calls \subseteq DOMAIN Moments
    BY <1>5, <1>9
  <2>2. hits(exact) = {f[m] : m \in calls}
    BY <1>10, <2>1
  <2>3. \A m, n \in calls : m < n => f[m] < f[n]
    BY <1>2, <2>1, MomentFacts
  <2> HIDE DEF f
  <2>4. Lowest(hits(exact)) = f[Lowest(calls)] /\ Lowest(calls) \in calls
    BY <1>12, <1>15, <2>1, <2>2, <2>3, LowestImage
  <2>5. PICK m \in calls : m = Lowest(calls)
    BY <2>4
  <2>6. m \in DOMAIN Moments /\ Lowest(hits(exact)) = Clock(m)
    BY <2>1, <2>4, <2>5 DEF f
  <2>7. hits(exact) # {} /\ hits(wide) # {} /\ Clock(m) \in hits(wide)
    BY <1>11, <1>15, <2>2
  <2>8. Lowest(hits(wide)) \in Nat /\ Lowest(hits(wide)) <= Clock(m)
    <3>1. Lowest(hits(wide)) \in hits(wide) /\ \A t \in hits(wide) : Lowest(hits(wide)) <= t
      BY <1>12, <2>7, LowestOf
    <3> HIDE DEF Clock
    <3> QED BY <1>12, <2>7, <3>1
  <2>9. PICK e, w : e = WalkIntraday(snap, exact, no) /\ w = WalkIntraday(snap, wide, no)
    OBVIOUS
  <2>10. e.minute = Clock(m) /\ e.reason = BarVerdict(snap, exact[Clock(m)])
    BY <1>13, <2>6, <2>7, <2>9 DEF FirstHit, IntradayExitAt
  <2>11. w.minute = Lowest(hits(wide))
    BY <1>13, <2>7, <2>9 DEF FirstHit, IntradayExitAt
  <2>12. w.minute # Missing /\ w.minute <= Clock(m)
    <3> HIDE DEF Clock
    <3> QED BY <2>8, <2>11 DEF Missing
  <2>13. e.reason = Said(Says(i, m))
    BY <1>7, <1>9, <2>6, <2>10
  <2>14. e = WalkIntraday(Live(i), Bars(i, 0), FALSE) /\ w = WalkIntraday(Live(i), Bars(i, 20), FALSE)
    BY <1>3, <2>9 DEF exact, wide
  <2> HIDE DEF Clock
  <2> QED BY <1>15, <2>5, <2>10, <2>12, <2>13, <2>14 DEF ExactIs, calls
<1> QED BY <1>14, <1>15

(* The replays share the verdict of the monitor (ReplaysAgree), for any    *)
(* chains whose marks are whole half cents and any tape.                   *)
THEOREM AgreeTheorem == Spec => []ReplaysAgree
<1>1. ASSUME LifeInv PROVE ReplaysAgree
  <2>1. \A i \in Taken : i \in Slots /\ board[i].way \in Taking
    BY <1>1 DEF LifeInv, Taken, Planned, Taking
  <2>2. SUFFICES ASSUME NEW i \in Taken \cap New, book[i].fill # 0
        PROVE  /\ DailyIs(i, WalkPolicy(Live(i), DayMarks(i), Missing), Ends(i))
               /\ ExactIs(i, WalkIntraday(Live(i), Bars(i, 0), FALSE), WalkIntraday(Live(i), Bars(i, 20), FALSE), Calls(i))
    BY DEF ReplaysAgree
  <2> QED BY <1>1, <2>1, <2>2, DailyAgrees, ExactAgrees
<1> QED BY <1>1, LifeAlways, PTL

-----------------------------------------------------------------------------
(* What the choices of both desks pay at expiry.                           *)

(* A contract that passed the gate has a price.                            *)
ContractTyped(c) == c.call \in BOOLEAN /\ c.k \in Nat /\ Mid(c) \in Nat

LEMMA LiquidTyped ==
  ASSUME NEW at \in DOMAIN Chains, NEW i \in DOMAIN Chains[at], NEW liq, Liquid(Chains[at][i], liq)
  PROVE  ContractTyped(Chains[at][i])
<1>1. PICK c : c = Chains[at][i]
  OBVIOUS
<1>2. /\ c.call \in BOOLEAN /\ c.k \in Nat /\ {c.bid, c.ask} \subseteq Int
      /\ c.mark = Missing \/ c.mark \in Nat
  BY <1>1, ChainsAssumption
<1>3. Mid(c) \in Int
  BY <1>2 DEF Mid, Missing
<1>4. ~(Mid(c) <= 0)
  BY <1>1 DEF Liquid, GateOption
<1> QED BY <1>1, <1>2, <1>3, <1>4 DEF ContractTyped

(* What a leg is, and pays at expiry.                                      *)
LegOf(leg, c) == leg.call = c.call /\ leg.k = c.k /\ leg.px = Mid(c)

LEMMA LegFacts ==
  ASSUME NEW c
  PROVE  LegOf(Bought(c), c) /\ LegOf(Sold(c), c) /\ Bought(c).buy = TRUE /\ Sold(c).buy = FALSE
BY DEF Bought, Sold, Leg, LegOf

CallPay(k, s) == Most(0, s - k)
PutPay(k, s) == Most(0, k - s)
PayOf(c, s) == IF c.call THEN CallPay(c.k, s) ELSE PutPay(c.k, s)

(* A call pays less, and a put more, the higher its strike, and no call    *)
(* pays where a put of a lower strike does.                                *)
LEMMA PayFacts ==
  ASSUME NEW s \in Int, NEW k \in Nat, NEW n \in Nat
  PROVE  /\ CallPay(k, s) \in Nat /\ PutPay(k, s) \in Nat
         /\ k <= n => /\ 0 <= CallPay(k, s) - CallPay(n, s) /\ CallPay(k, s) - CallPay(n, s) <= n - k
                      /\ 0 <= PutPay(n, s) - PutPay(k, s) /\ PutPay(n, s) - PutPay(k, s) <= n - k
                      /\ CallPay(n, s) = 0 \/ PutPay(k, s) = 0
BY DEF CallPay, PutPay, Most

LEMMA LegPays ==
  ASSUME NEW c, ContractTyped(c), NEW leg, leg.call = c.call, leg.k = c.k, NEW s \in Int
  PROVE  Intrinsic(leg, s) = PayOf(c, s) /\ PayOf(c, s) \in Nat
<1>1. PICK k \in Nat : k = c.k /\ leg.k = k /\ leg.call = c.call
  BY DEF ContractTyped
<1>2. CallPay(k, s) \in Nat /\ PutPay(k, s) \in Nat
  BY PayFacts
<1>3. CASE c.call
  <2>1. leg.call
    BY <1>1, <1>3
  <2> QED BY <1>1, <1>2, <1>3, <2>1 DEF PayOf, Intrinsic, CallPay
<1>4. CASE ~c.call
  <2>1. ~leg.call
    BY <1>1, <1>4
  <2> QED BY <1>1, <1>2, <1>4, <2>1 DEF PayOf, Intrinsic, PutPay
<1> QED BY <1>3, <1>4

(* The cost and the settlement of one, two and four legs.                  *)
LEMMA OneLeg ==
  ASSUME NEW c, ContractTyped(c), NEW legs, NEW a, legs = <<a>>, LegOf(a, c), a.buy
  PROVE  /\ EntryNet(legs) = Mid(c)
         /\ \A s \in Int : SettleNet(legs, s) = PayOf(c, s)
<1>1. DOMAIN legs = {1} /\ legs[1] = a
  OBVIOUS
<1>2. EntryNet(legs) = Mid(c)
  BY <1>1 DEF EntryNet, NetOf, Signed, LegOf, ContractTyped
<1>3. ASSUME NEW s \in Int PROVE SettleNet(legs, s) = PayOf(c, s)
  <2>1. Intrinsic(a, s) = PayOf(c, s) /\ PayOf(c, s) \in Int
    BY LegPays DEF LegOf
  <2> QED BY <1>1, <2>1 DEF SettleNet, NetOf, Signed, LegOf
<1> QED BY <1>2, <1>3

LEMMA TwoLegs ==
  ASSUME NEW c, NEW d, ContractTyped(c), ContractTyped(d), NEW a, NEW b, NEW legs, legs = <<a, b>>,
         LegOf(a, c), LegOf(b, d)
  PROVE  /\ EntryNet(legs) = (IF a.buy THEN Mid(c) ELSE -Mid(c)) + (IF b.buy THEN Mid(d) ELSE -Mid(d))
         /\ \A s \in Int : SettleNet(legs, s) = (IF a.buy THEN PayOf(c, s) ELSE -PayOf(c, s))
                                                 + (IF b.buy THEN PayOf(d, s) ELSE -PayOf(d, s))
<1>1. DOMAIN legs = {1, 2} /\ legs[1] = a /\ legs[2] = b
  OBVIOUS
<1>2. EntryNet(legs) = (IF a.buy THEN Mid(c) ELSE -Mid(c)) + (IF b.buy THEN Mid(d) ELSE -Mid(d))
  BY <1>1 DEF EntryNet, NetOf, Signed, LegOf, ContractTyped
<1>3. ASSUME NEW s \in Int
      PROVE  SettleNet(legs, s) = (IF a.buy THEN PayOf(c, s) ELSE -PayOf(c, s))
                                                 + (IF b.buy THEN PayOf(d, s) ELSE -PayOf(d, s))
  <2>1. /\ Intrinsic(a, s) = PayOf(c, s) /\ PayOf(c, s) \in Int
        /\ Intrinsic(b, s) = PayOf(d, s) /\ PayOf(d, s) \in Int
    BY LegPays DEF LegOf
  <2> QED BY <1>1, <2>1 DEF SettleNet, NetOf, Signed, LegOf
<1> QED BY <1>2, <1>3

LEMMA FourLegs ==
  ASSUME NEW c, NEW d, NEW e, NEW f, ContractTyped(c), ContractTyped(d), ContractTyped(e), ContractTyped(f), 
         NEW legs, legs = <<Sold(c), Bought(d), Sold(e), Bought(f)>>
  PROVE  /\ EntryNet(legs) = Mid(d) + Mid(f) - Mid(c) - Mid(e)
         /\ \A s \in Int : SettleNet(legs, s) = PayOf(d, s) + PayOf(f, s) - PayOf(c, s) - PayOf(e, s)
<1>1. PICK w, x, y, z : w = Sold(c) /\ x = Bought(d) /\ y = Sold(e) /\ z = Bought(f)
  OBVIOUS
<1>2. LegOf(w, c) /\ LegOf(x, d) /\ LegOf(y, e) /\ LegOf(z, f) /\ ~w.buy /\ x.buy /\ ~y.buy /\ z.buy
  BY <1>1, LegFacts
<1>3. DOMAIN legs = {1, 2, 3, 4} /\ legs[1] = w /\ legs[2] = x /\ legs[3] = y /\ legs[4] = z
  BY <1>1
<1>4. EntryNet(legs) = Mid(d) + Mid(f) - Mid(c) - Mid(e)
  BY <1>2, <1>3 DEF EntryNet, NetOf, Signed, LegOf, ContractTyped
<1>5. ASSUME NEW s \in Int
      PROVE  SettleNet(legs, s) = PayOf(d, s) + PayOf(f, s) - PayOf(c, s) - PayOf(e, s)
  <2>1. /\ Intrinsic(w, s) = PayOf(c, s) /\ PayOf(c, s) \in Int
        /\ Intrinsic(x, s) = PayOf(d, s) /\ PayOf(d, s) \in Int
        /\ Intrinsic(y, s) = PayOf(e, s) /\ PayOf(e, s) \in Int
        /\ Intrinsic(z, s) = PayOf(f, s) /\ PayOf(f, s) \in Int
    BY <1>2, LegPays DEF LegOf
  <2> QED BY <1>2, <1>3, <2>1 DEF SettleNet, NetOf, Signed, LegOf
<1> QED BY <1>4, <1>5

(* The corners of a structure are numbers.                                 *)
LEMMA CornersTyped ==
  ASSUME NEW legs, NEW n \in 1 .. 4, DOMAIN legs = 1 .. n, \A i \in 1 .. n : legs[i].k \in Nat
  PROVE  Corners(legs) \subseteq Int
<1> DEFINE f == [i \in 1 .. n |-> legs[i].k]
<1>1. AllStrikes(legs) = {f[i] : i \in 1 .. n} /\ AllStrikes(legs) \subseteq Nat
  BY DEF AllStrikes
<1>2. IsFiniteSet(1 .. n)
  BY FS_Interval
<1>3. IsFiniteSet(AllStrikes(legs))
  <2>1. f \in [1 .. n -> AllStrikes(legs)]
    BY <1>1
  <2>2. f \in Surjection(1 .. n, AllStrikes(legs))
    BY <1>1, <2>1 DEF Surjection
  <2> HIDE DEF f
  <2> QED BY <1>2, <2>2, FS_Surjection
<1>4. AllStrikes(legs) # {} /\ AllStrikes(legs) \subseteq Int
  BY <1>1
<1> HIDE DEF AllStrikes
<1>5. Highest(AllStrikes(legs)) \in AllStrikes(legs)
  BY <1>3, <1>4, HighestOf
<1>6. PICK h \in Nat : h = Highest(AllStrikes(legs))
  BY <1>1, <1>5
<1> QED BY <1>4, <1>6 DEF Corners

(* A choice is sound when no spot at expiry makes one contract of it lose  *)
(* more than its loss or win more than its profit.                         *)
ChoiceSound(ch) ==
  /\ {ch.maxLoss, ch.maxProfit, EntryNet(ch.legs)} \subseteq Int /\ Corners(ch.legs) \subseteq Int
  /\ \A s \in Int :
       LET worth == SettleNet(ch.legs, s) - EntryNet(ch.legs)
       IN  /\ SettleNet(ch.legs, s) \in Int /\ worth >= -ch.maxLoss
           /\ ch.maxProfit # Missing => worth <= ch.maxProfit

(* A bought option loses its premium at worst.                             *)
LEMMA LongSound ==
  ASSUME NEW found, \A c \in found : ContractTyped(c), found # {}
  PROVE  ChoiceSound(LongChoice(found)) /\ \E c \in found : LongChoice(found).dte = c.dte
<1>1. PICK c \in found : c = CHOOSE x \in found : TRUE
  OBVIOUS
<1>2. PICK leg : leg = Bought(c)
  OBVIOUS
<1>3. PICK ch : ch = LongChoice(found)
  OBVIOUS
<1>4. ch.legs = <<leg>> /\ ch.maxLoss = Mid(c) /\ ch.maxProfit = Missing /\ ch.dte = c.dte
  BY <1>1, <1>2, <1>3 DEF LongChoice
<1>5. LegOf(leg, c) /\ leg.buy /\ ContractTyped(c)
  BY <1>1, <1>2, LegFacts
<1>6. EntryNet(ch.legs) = Mid(c) /\ \A s \in Int : SettleNet(ch.legs, s) = PayOf(c, s)
  BY <1>4, <1>5, OneLeg
<1>7. \A s \in Int : PayOf(c, s) \in Nat
  BY <1>5, LegPays DEF LegOf
<1>8. Corners(ch.legs) \subseteq Int
  <2>1. DOMAIN ch.legs = 1 .. 1 /\ \A i \in 1 .. 1 : ch.legs[i].k \in Nat
    BY <1>4, <1>5 DEF LegOf, ContractTyped
  <2>2. PICK n \in 1 .. 4 : n = 1
    OBVIOUS
  <2> QED BY <2>1, <2>2, CornersTyped
<1>9. Mid(c) \in Nat
  BY <1>5 DEF ContractTyped
<1>10. ChoiceSound(ch)
  <2>1. PICK m, l : m = Mid(c) /\ l = ch.legs
    OBVIOUS
  <2> QED BY <1>4, <1>6, <1>7, <1>8, <1>9, <2>1 DEF ChoiceSound, Missing
<1> QED BY <1>3, <1>4, <1>10

(* Two legs of one type, the bought one nearer the money: worth between    *)
(* nothing and the distance of the strikes.                                *)
LEMMA PairPays ==
  ASSUME NEW c, NEW d, ContractTyped(c), ContractTyped(d), d.call = c.call,
         IF c.call THEN d.k > c.k ELSE d.k < c.k, NEW s \in Int
  PROVE  /\ PayOf(c, s) - PayOf(d, s) \in 0 .. Abs(c.k - d.k)
         /\ PayOf(c, s) \in Nat /\ PayOf(d, s) \in Nat
<1>1. PICK k \in Nat, n \in Nat : k = c.k /\ n = d.k
  BY DEF ContractTyped
<1>2. CASE c.call
  <2>1. k <= n /\ PayOf(c, s) = CallPay(k, s) /\ PayOf(d, s) = CallPay(n, s) /\ Abs(c.k - d.k) = n - k
    BY <1>1, <1>2 DEF PayOf, Abs
  <2>2. /\ CallPay(k, s) \in Nat /\ CallPay(n, s) \in Nat
        /\ 0 <= CallPay(k, s) - CallPay(n, s) /\ CallPay(k, s) - CallPay(n, s) <= n - k
    BY <2>1, PayFacts
  <2> QED BY <2>1, <2>2
<1>3. CASE ~c.call
  <2>1. n <= k /\ PayOf(c, s) = PutPay(k, s) /\ PayOf(d, s) = PutPay(n, s) /\ Abs(c.k - d.k) = k - n
    BY <1>1, <1>3 DEF PayOf, Abs
  <2>2. /\ PutPay(k, s) \in Nat /\ PutPay(n, s) \in Nat
        /\ 0 <= PutPay(k, s) - PutPay(n, s) /\ PutPay(k, s) - PutPay(n, s) <= k - n
    BY <2>1, PayFacts
  <2> QED BY <2>1, <2>2
<1> QED BY <1>2, <1>3

(* A debit vertical loses its debit at worst and makes the rest of the     *)
(* width at best.                                                          *)
LEMMA VerticalSound ==
  ASSUME NEW found, found # {},
         \A p \in found : /\ ContractTyped(p[1]) /\ ContractTyped(p[2]) /\ p[2].call = p[1].call
                          /\ IF p[1].call THEN p[2].k > p[1].k ELSE p[2].k < p[1].k
  PROVE  ChoiceSound(VerticalChoice(found)) /\ \E p \in found : VerticalChoice(found).dte = p[1].dte
<1>1. PICK p \in found : p = CHOOSE x \in found : TRUE
  OBVIOUS
<1>2. PICK c, d, a, b : c = p[1] /\ d = p[2] /\ a = Bought(c) /\ b = Sold(d)
  OBVIOUS
<1>3. PICK ch : ch = VerticalChoice(found)
  OBVIOUS
<1>4. ch.legs = <<a, b>> /\ ch.maxLoss = PairDebit(p) /\ ch.maxProfit = PairWidth(p) - PairDebit(p) /\ ch.dte = c.dte
  BY <1>1, <1>2, <1>3 DEF VerticalChoice
<1>5. LegOf(a, c) /\ LegOf(b, d) /\ a.buy /\ ~b.buy
  BY <1>2, LegFacts
<1>6. ContractTyped(c) /\ ContractTyped(d) /\ d.call = c.call /\ IF c.call THEN d.k > c.k ELSE d.k < c.k
  BY <1>1, <1>2
<1>7. EntryNet(ch.legs) = Mid(c) - Mid(d) /\ \A s \in Int : SettleNet(ch.legs, s) = PayOf(c, s) - PayOf(d, s)
  <2>1. PICK legs : legs = ch.legs
    OBVIOUS
  <2>3. /\ EntryNet(legs) = (IF a.buy THEN Mid(c) ELSE -Mid(c)) + (IF b.buy THEN Mid(d) ELSE -Mid(d))
        /\ \A s \in Int : SettleNet(legs, s) = (IF a.buy THEN PayOf(c, s) ELSE -PayOf(c, s))
                                                + (IF b.buy THEN PayOf(d, s) ELSE -PayOf(d, s))
    BY <1>4, <1>5, <1>6, <2>1, TwoLegs
  <2>4. /\ Mid(c) \in Int /\ Mid(d) \in Int /\ \A s \in Int : PayOf(c, s) \in Int /\ PayOf(d, s) \in Int
    BY <1>5, <1>6, LegPays DEF LegOf, ContractTyped
  <2> QED BY <1>5, <2>1, <2>3, <2>4
<1>8. \A s \in Int : PayOf(c, s) - PayOf(d, s) \in 0 .. Abs(c.k - d.k)
  BY <1>6, PairPays
<1>9. Corners(ch.legs) \subseteq Int
  <2>1. DOMAIN ch.legs = 1 .. 2 /\ \A i \in 1 .. 2 : ch.legs[i].k \in Nat
    BY <1>4, <1>5, <1>6 DEF LegOf, ContractTyped
  <2>2. PICK n \in 1 .. 4 : n = 2
    OBVIOUS
  <2> QED BY <2>1, <2>2, CornersTyped
<1>10. PICK w \in Nat, m \in Int : /\ w = Abs(c.k - d.k) /\ m = Mid(c) - Mid(d)
                                   /\ ch.maxLoss = m /\ ch.maxProfit = w - m
  BY <1>2, <1>4, <1>6 DEF ContractTyped, Abs, PairDebit, PairWidth
<1>11. ChoiceSound(ch)
  BY <1>7, <1>8, <1>9, <1>10 DEF ChoiceSound
<1> QED BY <1>1, <1>2, <1>3, <1>4, <1>11

ChainKnown(chain) == \E at \in DOMAIN Chains : chain.list = Chains[at]

(* What a selection finds comes from its candidates.                       *)
LEMMA FirstsIn ==
  ASSUME NEW S, NEW score
  PROVE  FirstBest(S, score) \subseteq S /\ FirstLeast(S, score) \subseteq S
<1>1. \A f : FirstBest(S, f) \subseteq S
  BY DEF FirstBest, FirstOf, Topmost
<1> QED BY <1>1, Zenon DEF FirstLeast

(* A liquid contract of a known chain is priced.                           *)
LEMMA KnownTyped ==
  ASSUME NEW chain, ChainKnown(chain), NEW liq
  PROVE  \A i \in Listed(chain) : Liquid(chain.list[i], liq) => ContractTyped(chain.list[i])
BY LiquidTyped DEF ChainKnown, Listed

LEMMA NearTyped ==
  ASSUME NEW chain, ChainKnown(chain), NEW call, NEW dte, NEW target, NEW liq
  PROVE  \A c \in LiquidByDelta(chain, call, dte, target, liq) : ContractTyped(c) /\ c.call = call
<1> DEFINE list == chain.list
           S == {i \in Listed(chain) : /\ list[i].call = call /\ list[i].dte = dte
                                       /\ list[i].delta # Missing /\ Liquid(list[i], liq)}
           off == [i \in S |-> Abs(list[i].delta - target)]
<1>1. LiquidByDelta(chain, call, dte, target, liq) = {list[i] : i \in FirstLeast(S, off)}
  BY Zenon DEF LiquidByDelta
<1>2. \A i \in S : ContractTyped(list[i]) /\ list[i].call = call
  BY KnownTyped
<1> HIDE DEF S, off, list
<1>3. FirstLeast(S, off) \subseteq S
  BY FirstsIn
<1> QED BY <1>1, <1>2, <1>3

(* A credit vertical makes its credit at best and loses the rest of the    *)
(* width at worst.                                                         *)
LEMMA CreditSound ==
  ASSUME NEW chain, ChainKnown(chain), NEW bullish \in BOOLEAN, NEW cap, NEW sel, NEW liq,
         NEW ch, ch = CreditVertical(chain, bullish, cap, sel, liq), ch # NoChoice
  PROVE  ChoiceSound(ch) /\ EntryNet(ch.legs) <= 0 /\ Len(ch.legs) \in Nat
<1> DEFINE dte == ChooseExpiration(chain, sel)
           near(target) == LiquidByDelta(chain, ~bullish, dte, target, liq)
           pairs == {p \in near(30) \X near(15) : IF bullish THEN p[2].k < p[1].k ELSE p[2].k > p[1].k}
           credit(p) == Mid(p[1]) - Mid(p[2])
           loss(p) == Abs(p[1].k - p[2].k) - credit(p)
           sound == {p \in pairs : credit(p) > 0 /\ loss(p) \in 1 .. cap}
<1>1. sound # {} /\ \E strategy : ch = LET p == CHOOSE x \in sound : TRUE IN
         [strategy |-> strategy,
          legs |-> <<Sold(p[1]), Bought(p[2])>>, dte |-> dte, maxLoss |-> loss(p), maxProfit |-> credit(p)]
  BY DEF CreditVertical
<1> HIDE DEF sound
<1>2. PICK p \in sound : /\ ch.legs = <<Sold(p[1]), Bought(p[2])>> /\ ch.maxLoss = loss(p) /\ ch.maxProfit = credit(p)
  <2>1. PICK p \in sound : p = CHOOSE x \in sound : TRUE
    BY <1>1
  <2>2. PICK strategy : ch = [strategy |-> strategy, legs |-> <<Sold(p[1]), Bought(p[2])>>, dte |-> dte,
                              maxLoss |-> loss(p), maxProfit |-> credit(p)]
    BY <1>1, <2>1
  <2> HIDE DEF loss, credit, dte
  <2> QED BY <2>2
<1>0. credit(p) > 0
  BY <1>2 DEF sound
<1>3. p[1] \in near(30) /\ p[2] \in near(15) /\ IF bullish THEN p[2].k < p[1].k ELSE p[2].k > p[1].k
  BY <1>2 DEF sound
<1>4. PICK c, d, a, b, side : c = p[1] /\ d = p[2] /\ a = Sold(c) /\ b = Bought(d) /\ side = ~bullish
  OBVIOUS
<1>5. /\ ContractTyped(c) /\ ContractTyped(d) /\ c.call = side /\ d.call = side
  <2>1. c \in LiquidByDelta(chain, side, dte, 30, liq) /\ d \in LiquidByDelta(chain, side, dte, 15, liq)
    BY <1>3, <1>4
  <2> HIDE DEF dte
  <2> QED BY <2>1, NearTyped
<1>6. d.call = c.call /\ IF c.call THEN d.k > c.k ELSE d.k < c.k
  BY <1>3, <1>4, <1>5
<1>7. LegOf(a, c) /\ LegOf(b, d) /\ ~a.buy /\ b.buy
  BY <1>4, LegFacts
<1>8. \A s \in Int : PayOf(c, s) - PayOf(d, s) \in 0 .. Abs(c.k - d.k) /\ PayOf(c, s) \in Nat /\ PayOf(d, s) \in Nat
  BY <1>5, <1>6, PairPays
<1>9. PICK w \in Nat, m \in Int : /\ w = Abs(c.k - d.k) /\ m = Mid(c) - Mid(d) /\ Mid(c) \in Int /\ Mid(d) \in Int
                                  /\ ch.maxLoss = w - m /\ ch.maxProfit = m
  BY <1>2, <1>4, <1>5 DEF ContractTyped, Abs
<1>10. EntryNet(ch.legs) = -m /\ \A s \in Int : SettleNet(ch.legs, s) = PayOf(d, s) - PayOf(c, s)
  <2>1. PICK legs : legs = ch.legs
    OBVIOUS
  <2>2. /\ EntryNet(legs) = (IF a.buy THEN Mid(c) ELSE -Mid(c)) + (IF b.buy THEN Mid(d) ELSE -Mid(d))
        /\ \A s \in Int : SettleNet(legs, s) = (IF a.buy THEN PayOf(c, s) ELSE -PayOf(c, s))
                                                + (IF b.buy THEN PayOf(d, s) ELSE -PayOf(d, s))
    BY <1>2, <1>4, <1>5, <1>7, <2>1, TwoLegs
  <2> QED BY <1>7, <1>8, <1>9, <2>1, <2>2
<1>11. Corners(ch.legs) \subseteq Int
  <2>1. DOMAIN ch.legs = 1 .. 2 /\ \A i \in 1 .. 2 : ch.legs[i].k \in Nat
    BY <1>2, <1>4, <1>5, <1>7 DEF LegOf, ContractTyped
  <2>2. PICK n \in 1 .. 4 : n = 2
    OBVIOUS
  <2> QED BY <2>1, <2>2, CornersTyped
<1>12. ASSUME NEW s \in Int
       PROVE  LET worth == SettleNet(ch.legs, s) - EntryNet(ch.legs)
              IN  SettleNet(ch.legs, s) \in Int /\ worth >= -ch.maxLoss /\ worth <= ch.maxProfit
  BY <1>8, <1>9, <1>10
<1>13. m > 0 /\ Len(ch.legs) \in Nat
  BY <1>0, <1>2, <1>4, <1>9
<1>14. EntryNet(ch.legs) <= 0
  BY <1>9, <1>10, <1>13
<1>15. ChoiceSound(ch)
  BY <1>9, <1>10, <1>11, <1>12 DEF ChoiceSound
<1> QED BY <1>13, <1>14, <1>15

(* Two bought options lose both premiums at worst.                         *)
LEMMA VolSound ==
  ASSUME NEW c, NEW d, ContractTyped(c), ContractTyped(d), NEW cap, NEW strategy,
         NEW ch, ch = LongVolChoice(strategy, c, d, cap), ch # NoChoice
  PROVE  ChoiceSound(ch)
<1>1. PICK a, b : a = Bought(c) /\ b = Bought(d) 
  OBVIOUS
<1>2. ch.legs = <<a, b>> /\ ch.maxLoss = Mid(c) + Mid(d) /\ ch.maxProfit = Missing
  BY <1>1 DEF LongVolChoice
<1>3. LegOf(a, c) /\ LegOf(b, d) /\ a.buy /\ b.buy
  BY <1>1, LegFacts
<1>4. \A s \in Int : PayOf(c, s) \in Nat /\ PayOf(d, s) \in Nat
  BY <1>3, LegPays DEF LegOf
<1>5. PICK m \in Nat : m = Mid(c) + Mid(d) /\ Mid(c) \in Nat /\ Mid(d) \in Nat
  BY DEF ContractTyped
<1>6. EntryNet(ch.legs) = m /\ \A s \in Int : SettleNet(ch.legs, s) = PayOf(c, s) + PayOf(d, s)
  <2>1. PICK legs : legs = ch.legs
    OBVIOUS
  <2>2. /\ EntryNet(legs) = (IF a.buy THEN Mid(c) ELSE -Mid(c)) + (IF b.buy THEN Mid(d) ELSE -Mid(d))
        /\ \A s \in Int : SettleNet(legs, s) = (IF a.buy THEN PayOf(c, s) ELSE -PayOf(c, s))
                                                + (IF b.buy THEN PayOf(d, s) ELSE -PayOf(d, s))
    BY <1>2, <1>3, <2>1, TwoLegs
  <2> QED BY <1>3, <1>4, <1>5, <2>1, <2>2
<1>7. Corners(ch.legs) \subseteq Int
  <2>1. DOMAIN ch.legs = 1 .. 2 /\ \A i \in 1 .. 2 : ch.legs[i].k \in Nat
    BY <1>2, <1>3 DEF LegOf, ContractTyped
  <2>2. PICK n \in 1 .. 4 : n = 2
    OBVIOUS
  <2> QED BY <2>1, <2>2, CornersTyped
<1> QED BY <1>2, <1>4, <1>5, <1>6, <1>7 DEF ChoiceSound, Missing

LEMMA StrangleSound ==
  ASSUME NEW chain, ChainKnown(chain), NEW cap, NEW sel, NEW liq,
         NEW ch, ch = Strangle(chain, cap, sel, liq), ch # NoChoice
  PROVE  ChoiceSound(ch)
<1> DEFINE dte == ChooseExpiration(chain, sel)
           pairs == LiquidByDelta(chain, TRUE, dte, 30, liq) \X LiquidByDelta(chain, FALSE, dte, 30, liq)
<1>1. pairs # {} /\ ch = LET p == CHOOSE q \in pairs : TRUE IN LongVolChoice("long_strangle", p[1], p[2], cap)
  BY DEF Strangle
<1>2. \A p \in pairs : ContractTyped(p[1]) /\ ContractTyped(p[2])
  <2>1. \A c \in LiquidByDelta(chain, TRUE, dte, 30, liq) : ContractTyped(c)
    BY NearTyped, Zenon
  <2>2. \A c \in LiquidByDelta(chain, FALSE, dte, 30, liq) : ContractTyped(c)
    BY NearTyped, Zenon
  <2> QED BY <2>1, <2>2
<1> HIDE DEF pairs
<1>3. PICK p \in pairs : p = CHOOSE q \in pairs : TRUE
  BY <1>1
<1>4. ch = LongVolChoice("long_strangle", p[1], p[2], cap)
  BY <1>1, <1>3
<1> QED BY <1>2, <1>4, VolSound

LEMMA StraddleSound ==
  ASSUME NEW chain, ChainKnown(chain), NEW cap, NEW sel, NEW liq,
         NEW ch, ch = Straddle(chain, cap, sel, liq), ch # NoChoice
  PROVE  ChoiceSound(ch)
<1> DEFINE list == chain.list
           dte == ChooseExpiration(chain, sel)
           calls == {i \in Listed(chain) : list[i].call /\ list[i].dte = dte /\ Liquid(list[i], liq)}
           near == FirstLeast(calls, [i \in calls |-> Abs(list[i].k - chain.spot)])
           puts == {i \in Listed(chain) : /\ ~list[i].call /\ list[i].dte = dte /\ Liquid(list[i], liq)
                                          /\ \E j \in near : list[i].k = list[j].k}
           pairs == near \X FirstOf(puts)
<1>1. pairs # {} /\ ch = LET p == CHOOSE q \in pairs : TRUE IN
                         LongVolChoice("long_straddle", list[p[1]], list[p[2]], cap)
  BY DEF Straddle
<1>2. near \subseteq calls
  BY FirstsIn
<1>3. FirstOf(puts) \subseteq puts
  BY DEF FirstOf
<1>4. /\ \A i \in calls : ContractTyped(list[i])
      /\ \A i \in puts : ContractTyped(list[i])
  BY KnownTyped
<1> HIDE DEF near, puts, calls, list
<1>5. \A p \in pairs : ContractTyped(list[p[1]]) /\ ContractTyped(list[p[2]])
  BY <1>2, <1>3, <1>4
<1> HIDE DEF pairs
<1>6. PICK p \in pairs : p = CHOOSE q \in pairs : TRUE
  BY <1>1
<1>7. ch = LongVolChoice("long_straddle", list[p[1]], list[p[2]], cap)
  BY <1>1, <1>6
<1> QED BY <1>5, <1>7, VolSound

(* Of the two wings of a condor only one can be in the money, so the wider *)
(* one less the credit is the worst.                                       *)
LEMMA CondorSound ==
  ASSUME NEW chain, ChainKnown(chain), NEW cap, NEW sel, NEW liq,
         NEW ch, ch = IronCondor(chain, cap, sel, liq), ch # NoChoice
  PROVE  ChoiceSound(ch) /\ EntryNet(ch.legs) <= 0 /\ Len(ch.legs) \in Nat
<1> DEFINE dte == ChooseExpiration(chain, sel)
           near(call, target) == LiquidByDelta(chain, call, dte, target, liq)
           quads == {q \in near(FALSE, 10) \X near(FALSE, 20) \X near(TRUE, 20) \X near(TRUE, 10) :
                       q[1].k < q[2].k /\ q[2].k < q[3].k /\ q[3].k < q[4].k}
           credit(q) == Mid(q[2]) + Mid(q[3]) - Mid(q[1]) - Mid(q[4])
           loss(q) == CondorWidth(q[1], q[2], q[3], q[4]) - credit(q)
           sound == {q \in quads : credit(q) > 0 /\ loss(q) \in 1 .. cap}
<1>1. sound # {} /\ ch = LET q == CHOOSE x \in sound : TRUE IN
         [strategy |-> "iron_condor", legs |-> <<Sold(q[2]), Bought(q[1]), Sold(q[3]), Bought(q[4])>>,
            dte |-> dte, maxLoss |-> loss(q), maxProfit |-> credit(q)]
  BY DEF IronCondor
<1> HIDE DEF sound
<1>2. PICK q \in sound : /\ ch.legs = <<Sold(q[2]), Bought(q[1]), Sold(q[3]), Bought(q[4])>>
                         /\ ch.maxLoss = loss(q) /\ ch.maxProfit = credit(q)
  <2>1. PICK q \in sound : q = CHOOSE x \in sound : TRUE
    BY <1>1
  <2>2. PICK strategy : ch = [strategy |-> strategy, legs |-> <<Sold(q[2]), Bought(q[1]), Sold(q[3]), Bought(q[4])>>,
                              dte |-> dte, maxLoss |-> loss(q), maxProfit |-> credit(q)]
    BY <1>1, <2>1
  <2> HIDE DEF loss, credit, dte
  <2> QED BY <2>2
<1>0. credit(q) > 0
  BY <1>2 DEF sound
<1>3. /\ q[1] \in near(FALSE, 10) /\ q[2] \in near(FALSE, 20) /\ q[3] \in near(TRUE, 20) /\ q[4] \in near(TRUE, 10)
      /\ q[1].k < q[2].k /\ q[2].k < q[3].k /\ q[3].k < q[4].k
  BY <1>2 DEF sound
<1>4. PICK c, d, e, f : c = q[2] /\ d = q[1] /\ e = q[3] /\ f = q[4]
  OBVIOUS
<1>5. /\ ContractTyped(c) /\ ContractTyped(d) /\ ContractTyped(e) /\ ContractTyped(f)
      /\ ~c.call /\ ~d.call /\ e.call /\ f.call
  <2>1. \A x \in near(FALSE, 10) : ContractTyped(x) /\ x.call = FALSE
    BY NearTyped, Zenon
  <2>2. \A x \in near(FALSE, 20) : ContractTyped(x) /\ x.call = FALSE
    BY NearTyped, Zenon
  <2>3. \A x \in near(TRUE, 20) : ContractTyped(x) /\ x.call = TRUE
    BY NearTyped, Zenon
  <2>4. \A x \in near(TRUE, 10) : ContractTyped(x) /\ x.call = TRUE
    BY NearTyped, Zenon
  <2> HIDE DEF near
  <2> QED BY <1>3, <1>4, <2>1, <2>2, <2>3, <2>4
<1>6. PICK g, h, i, j \in Nat : g = d.k /\ h = c.k /\ i = e.k /\ j = f.k
  BY <1>5 DEF ContractTyped
<1>7. g < h /\ h < i /\ i < j
  BY <1>3, <1>4, <1>6
<1>8. PICK w, m : w = Most(h - g, j - i) /\ m = Mid(c) + Mid(e) - Mid(d) - Mid(f)
  OBVIOUS
<1>9. ch.maxLoss = w - m /\ ch.maxProfit = m
  BY <1>2, <1>4, <1>6, <1>8 DEF CondorWidth
<1>10. /\ w \in Nat /\ m \in Int /\ h - g <= w /\ j - i <= w
       /\ Mid(c) \in Int /\ Mid(d) \in Int /\ Mid(e) \in Int /\ Mid(f) \in Int
  BY <1>5, <1>6, <1>7, <1>8 DEF Most, ContractTyped
<1>11. ASSUME NEW s \in Int
       PROVE  PayOf(c, s) - PayOf(d, s) + PayOf(e, s) - PayOf(f, s) \in 0 .. w
  <2>1. /\ PayOf(c, s) = PutPay(h, s) /\ PayOf(d, s) = PutPay(g, s)
        /\ PayOf(e, s) = CallPay(i, s) /\ PayOf(f, s) = CallPay(j, s)
    BY <1>5, <1>6 DEF PayOf
  <2>2. /\ PutPay(h, s) \in Nat /\ PutPay(g, s) \in Nat /\ CallPay(i, s) \in Nat /\ CallPay(j, s) \in Nat
        /\ 0 <= PutPay(h, s) - PutPay(g, s) /\ PutPay(h, s) - PutPay(g, s) <= h - g
        /\ 0 <= CallPay(i, s) - CallPay(j, s) /\ CallPay(i, s) - CallPay(j, s) <= j - i
    <3>1. g <= h /\ i <= j
      BY <1>7
    <3>2. /\ PutPay(h, s) \in Nat /\ PutPay(g, s) \in Nat
          /\ 0 <= PutPay(h, s) - PutPay(g, s) /\ PutPay(h, s) - PutPay(g, s) <= h - g
      BY <3>1, PayFacts
    <3>3. /\ CallPay(i, s) \in Nat /\ CallPay(j, s) \in Nat
          /\ 0 <= CallPay(i, s) - CallPay(j, s) /\ CallPay(i, s) - CallPay(j, s) <= j - i
      BY <3>1, PayFacts
    <3> QED BY <3>2, <3>3
  <2>3. CallPay(i, s) = 0 \/ PutPay(h, s) = 0
    BY <1>7, PayFacts
  <2> QED BY <1>10, <2>1, <2>2, <2>3
<1>12. EntryNet(ch.legs) = -m
  BY <1>2, <1>4, <1>5, <1>8, <1>10, FourLegs
<1>13. ASSUME NEW s \in Int
       PROVE  SettleNet(ch.legs, s) = -(PayOf(c, s) - PayOf(d, s) + PayOf(e, s) - PayOf(f, s))
  <2>1. SettleNet(ch.legs, s) = PayOf(d, s) + PayOf(f, s) - PayOf(c, s) - PayOf(e, s)
    BY <1>2, <1>4, <1>5, FourLegs
  <2>2. PayOf(c, s) \in Nat /\ PayOf(d, s) \in Nat /\ PayOf(e, s) \in Nat /\ PayOf(f, s) \in Nat
    BY <1>5, LegPays, LegFacts DEF LegOf
  <2> QED BY <2>1, <2>2
<1>14. Corners(ch.legs) \subseteq Int
  <2>1. DOMAIN ch.legs = 1 .. 4 /\ \A n \in 1 .. 4 : ch.legs[n].k \in Nat
    <3>1. /\ Sold(c).k \in Nat /\ Bought(d).k \in Nat /\ Sold(e).k \in Nat /\ Bought(f).k \in Nat
      BY <1>6, LegFacts DEF LegOf
    <3>2. PICK a, b, x, y : a = Sold(c) /\ b = Bought(d) /\ x = Sold(e) /\ y = Bought(f)
      OBVIOUS
    <3>3. ch.legs = <<a, b, x, y>>
      BY <1>2, <1>4, <3>2
    <3> QED BY <3>1, <3>2, <3>3
  <2>2. PICK n \in 1 .. 4 : n = 4
    OBVIOUS
  <2> QED BY <2>1, <2>2, CornersTyped
<1>15. m > 0 /\ Len(ch.legs) \in Nat
  BY <1>0, <1>2, <1>4, <1>8
<1>16. EntryNet(ch.legs) <= 0
  BY <1>10, <1>12, <1>15
<1>17. ChoiceSound(ch)
  BY <1>9, <1>10, <1>11, <1>12, <1>13, <1>14 DEF ChoiceSound
<1> QED BY <1>15, <1>16, <1>17

-----------------------------------------------------------------------------
(* Sums over a finite set: the function that adds exists, and keeps to the *)
(* whole numbers.                                                          *)

Picked(T) == CHOOSE y \in T : TRUE
Adds(g, S, f) == g = [T \in SUBSET S |-> IF T = {} THEN 0 ELSE f[Picked(T)] + g[T \ {Picked(T)}]]
LEMMA SumExists ==
  ASSUME NEW S, IsFiniteSet(S), NEW f
  PROVE  \E g : Adds(g, S, f)
<1> DEFINE next(g) == [T \in SUBSET S |-> IF T = {} THEN 0 ELSE f[Picked(T)] + g[T \ {Picked(T)}]]
           good(n) == \E g : \A T \in SUBSET S : Cardinality(T) <= n => g[T] = next(g)[T]
           bad == {n \in Nat : ~good(n)}
<1>1. \A T \in SUBSET S : IsFiniteSet(T) /\ Cardinality(T) \in Nat /\ Cardinality(T) <= Cardinality(S)
  BY FS_Subset, FS_CardinalityType
<1>2. \A T \in SUBSET S : T # {} => /\ Picked(T) \in T /\ T \ {Picked(T)} \in SUBSET S
                                    /\ Cardinality(T \ {Picked(T)}) = Cardinality(T) - 1
  BY <1>1, FS_RemoveElement DEF Picked
<1>3. ASSUME NEW n \in Nat, NEW g, \A T \in SUBSET S : Cardinality(T) < n => g[T] = next(g)[T]
      PROVE  \A T \in SUBSET S : Cardinality(T) <= n => next(g)[T] = next(next(g))[T]
  <2>1. SUFFICES ASSUME NEW T \in SUBSET S, Cardinality(T) <= n PROVE next(g)[T] = next(next(g))[T]
    OBVIOUS
  <2>2. CASE T = {}
    BY <2>2
  <2>3. CASE T # {}
    <3>1. PICK U : U = T \ {Picked(T)}
      OBVIOUS
    <3>2. U \in SUBSET S /\ g[U] = next(g)[U]
      <4>1. U \in SUBSET S /\ Cardinality(U) = Cardinality(T) - 1 /\ Cardinality(T) \in Nat
        BY <1>1, <1>2, <2>3, <3>1
      <4>2. Cardinality(U) < n
        BY <2>1, <4>1
      <4> HIDE DEF next
      <4> QED BY <1>3, <4>1, <4>2
    <3>3. \A h : next(h)[T] = f[Picked(T)] + h[U]
      BY <2>3, <3>1
    <3> HIDE DEF next
    <3> QED BY <3>2, <3>3
  <2> QED BY <2>2, <2>3
<1>4. bad = {}
  <2>1. SUFFICES ASSUME bad # {} PROVE FALSE
    OBVIOUS
  <2>2. PICK n \in bad : \A m \in bad : n <= m
    <3>1. bad \subseteq Nat
      OBVIOUS
    <3> HIDE DEF bad
    <3> QED BY <2>1, <3>1, LowestOf
  <2>3. n \in Nat /\ ~good(n)
    BY <2>2
  <2>4. \E g : \A T \in SUBSET S : Cardinality(T) < n => g[T] = next(g)[T]
    <3>1. CASE n = 0
      <4>1. \A T \in SUBSET S : ~(Cardinality(T) < n)
        BY <1>1, <3>1
      <4> HIDE DEF next
      <4> QED BY <4>1
    <3>2. CASE n # 0
      <4>1. good(n - 1)
        <5>1. n - 1 \in Nat /\ ~(n <= n - 1)
          BY <2>3, <3>2
        <5> HIDE DEF good
        <5> QED BY <2>2, <5>1
      <4>2. PICK g : \A T \in SUBSET S : Cardinality(T) <= n - 1 => g[T] = next(g)[T]
        BY <4>1
      <4> HIDE DEF next
      <4>3. \A T \in SUBSET S : Cardinality(T) < n => g[T] = next(g)[T]
        BY <1>1, <2>3, <4>2
      <4> QED BY <4>3
    <3> QED BY <3>1, <3>2
  <2>5. PICK g : \A T \in SUBSET S : Cardinality(T) < n => g[T] = next(g)[T]
    BY <2>4
  <2>6. \A T \in SUBSET S : Cardinality(T) <= n => next(g)[T] = next(next(g))[T]
    <3> HIDE DEF next
    <3> QED BY <1>3, <2>3, <2>5
  <2> QED
    <3> HIDE DEF next
    <3> QED BY <2>3, <2>6
<1>5. good(Cardinality(S))
  <2>1. Cardinality(S) \in Nat
    BY FS_CardinalityType
  <2> HIDE DEF good
  <2> QED BY <1>4, <2>1
<1>6. PICK g : \A T \in SUBSET S : g[T] = next(g)[T]
  <2> HIDE DEF next
  <2> QED BY <1>1, <1>5
<1>7. next(g) = next(next(g))
  <2>1. \A T \in SUBSET S : T # {} => g[T \ {Picked(T)}] = next(g)[T \ {Picked(T)}]
    BY <1>2, <1>6
  <2> QED BY <2>1
<1> QED BY <1>7 DEF Adds

LEMMA SumTyped ==
  ASSUME NEW S, IsFiniteSet(S), NEW f, \A x \in S : f[x] \in Int
  PROVE  Sum(S, f) \in Int
<1>1. PICK g : Adds(g, S, f) /\ Sum(S, f) = g[S]
  <2>1. Sum(S, f) = (CHOOSE g : Adds(g, S, f))[S]
    BY DEF Sum, Adds, Picked
  <2>2. Adds(CHOOSE g : Adds(g, S, f), S, f)
    BY SumExists, Zenon
  <2> QED BY <2>1, <2>2, Zenon
<1>2. \A T \in SUBSET S : g[T] = IF T = {} THEN 0 ELSE f[Picked(T)] + g[T \ {Picked(T)}]
  BY <1>1 DEF Adds
<1> DEFINE F == {T \in SUBSET S : g[T] \notin Int}
<1>3. F = {}
  <2>1. SUFFICES ASSUME F # {} PROVE FALSE
    OBVIOUS
  <2>2. PICK U \in F : \A V \in F : V \subseteq U => V = U
    <3>1. F \subseteq SUBSET S
      OBVIOUS
    <3> HIDE DEF F
    <3> QED BY <2>1, <3>1, MinimalSubset
  <2>3. U # {}
    <3>1. U \in SUBSET S /\ g[U] \notin Int
      BY <2>2
    <3>2. U = {} => g[U] = 0
      BY <1>2, <3>1
    <3> QED BY <3>1, <3>2
  <2>4. Picked(U) \in U
    BY <2>3 DEF Picked
  <2>5. g[U \ {Picked(U)}] \in Int
    BY <2>2, <2>4
  <2>6. g[U] = f[Picked(U)] + g[U \ {Picked(U)}]
    BY <1>2, <2>2, <2>3
  <2> QED BY <2>2, <2>4, <2>5, <2>6
<1> QED BY <1>1, <1>3

-----------------------------------------------------------------------------
(* Sizing.                                                                 *)

LEMMA TimesMono ==
  ASSUME NEW a \in Int, NEW b \in Int, a <= b, NEW n \in Nat
  PROVE  a * n <= b * n /\ a * n \in Int /\ b * n \in Int
OBVIOUS

LEMMA DivTimes ==
  ASSUME NEW e \in Int, NEW per \in Int, per > 0
  PROVE  e \div per \in Int /\ (e \div per) * per <= e
OBVIOUS

LEMMA PercentTyped == ASSUME NEW x \in Int, NEW p \in Int PROVE Percent(x, p) \in Int
<1>1. PICK a \in Int, b \in Int : a = x \div 100 /\ b = x % 100
  OBVIOUS
<1>2. PICK c \in Int, d \in Int : c = a * p /\ d = b * p
  OBVIOUS
<1> QED BY <1>1, <1>2 DEF Percent

PolicyTyped(pol) == {pol.equity, pol.account, pol.trade, pol.cap, pol.lots} \subseteq Int

LEMMA CapFacts ==
  ASSUME NEW pol, PolicyTyped(pol), NEW open \in Int
  PROVE  EffectiveCap(pol, open) \in Int /\ EffectiveCap(pol, open) <= pol.cap
<1>1. PICK a, b, c : a = Percent(pol.equity, pol.trade) /\ b = Percent(pol.equity, pol.account) /\ c = pol.cap
  OBVIOUS
<1>2. a \in Int /\ b \in Int /\ c \in Int
  BY <1>1, PercentTyped DEF PolicyTyped
<1>3. PICK r : r = Room(pol, open)
  OBVIOUS
<1>4. r \in Int
  BY <1>1, <1>2, <1>3 DEF Room, MaxAccountRisk, Most
<1> QED BY <1>1, <1>2, <1>3, <1>4 DEF EffectiveCap, MaxTradeRisk, Least

(* A size times its worst loss per contract is within the cap of a trade.  *)
LEMMA SizeFacts ==
  ASSUME NEW pol, PolicyTyped(pol), NEW open \in Int, NEW per \in Int,
         NEW n, n = SizeByDefinedRisk(per, pol, open).contracts, ~(n < 1)
  PROVE  n \in Nat /\ per * n \in Int /\ per * n <= pol.cap
<1>1. PICK e, l : e = EffectiveCap(pol, open) /\ l = pol.lots
  OBVIOUS
<1>2. e \in Int /\ e <= pol.cap /\ pol.cap \in Int /\ l \in Int
  BY <1>1, CapFacts DEF PolicyTyped
<1>3. per > 0 /\ n = Least(e \div per, l)
  <2>1. ~(per <= 0) /\ ~(e < per)
    BY <1>1 DEF SizeByDefinedRisk
  <2> QED BY <1>1, <2>1 DEF SizeByDefinedRisk
<1>4. PICK q \in Int : q = e \div per /\ q * per <= e
  BY <1>2, <1>3, DivTimes
<1>5. n \in Nat /\ n <= q
  BY <1>2, <1>3, <1>4 DEF Least
<1>6. per * n \in Int /\ per * n <= q * per
  <2>1. n * per <= q * per /\ n * per \in Int
    BY <1>3, <1>4, <1>5, TimesMono
  <2>2. n * per = per * n
    BY <1>5
  <2> QED BY <2>1, <2>2
<1>7. PICK x \in Int, y \in Int : x = per * n /\ y = q * per
  BY <1>4, <1>6
<1> QED BY <1>2, <1>4, <1>5, <1>6, <1>7

PlanSound(p) ==
  /\ p.maxLoss \in Int /\ p.maxLoss <= CorePolicy.cap
  /\ p.contracts \in Nat /\ p.debit \in Int /\ Corners(p.legs) \subseteq Int
  /\ \A s \in Int :
       LET worth == (SettleNet(p.legs, s) - p.debit) * p.contracts
       IN  /\ SettleNet(p.legs, s) \in Int /\ worth >= -p.maxLoss
           /\ p.maxProfit # Missing => worth <= p.maxProfit

(* Sizing multiplies a sound choice into a sound plan.                     *)
LEMMA SizedSound ==
  ASSUME NEW ch, ch # NoChoice => ChoiceSound(ch), NEW pol, PolicyTyped(pol), pol.cap = CorePolicy.cap, NEW open \in Int,
         NEW plan, plan = SizedPlan(ch, pol, open), plan # NoPlan
  PROVE  ch # NoChoice /\ PlanSound(plan) /\ plan.dte = ch.dte
<1>1. PICK n : n = SizeByDefinedRisk(ch.maxLoss, pol, open).contracts
  OBVIOUS
<1>2. ch # NoChoice /\ plan = Sized(ch, n, pol)
  BY <1>1 DEF SizedPlan
<1>3. PICK per \in Int, net \in Int : per = ch.maxLoss /\ net = EntryNet(ch.legs)
  BY <1>2 DEF ChoiceSound
<1>4. /\ ~(n < 1) /\ plan.maxLoss = per * n /\ plan.legs = ch.legs /\ plan.debit = net /\ plan.contracts = n /\ plan.dte = ch.dte
      /\ plan.maxProfit = IF ch.maxProfit = Missing THEN Missing ELSE ch.maxProfit * n
  <2>1. PICK profit : profit = IF ch.maxProfit = Missing THEN Missing ELSE ch.maxProfit * n
    OBVIOUS
  <2> QED BY <1>2, <1>3, <2>1 DEF Sized
<1>5. n \in Nat /\ per * n \in Int /\ per * n <= CorePolicy.cap
  BY <1>1, <1>3, <1>4, SizeFacts
<1>6. ASSUME NEW s \in Int
      PROVE  LET worth == (SettleNet(plan.legs, s) - plan.debit) * plan.contracts
             IN  /\ SettleNet(plan.legs, s) \in Int /\ worth >= -plan.maxLoss
                 /\ plan.maxProfit # Missing => worth <= plan.maxProfit
  <2>1. PICK w : w = SettleNet(ch.legs, s) - net
    OBVIOUS
  <2>2. /\ SettleNet(ch.legs, s) \in Int /\ w \in Int /\ -per <= w
        /\ ch.maxProfit # Missing => w <= ch.maxProfit
    BY <1>2, <1>3, <2>1 DEF ChoiceSound
  <2>3. (-per) * n <= w * n /\ (-per) * n = -(per * n)
    BY <1>5, <2>2, TimesMono
  <2>4. ch.maxProfit # Missing => w * n <= ch.maxProfit * n
    <3>1. ch.maxProfit \in Int
      BY <1>2 DEF ChoiceSound
    <3> QED BY <1>5, <2>2, <3>1, TimesMono
  <2> QED BY <1>4, <2>1, <2>2, <2>3, <2>4
<1>7. Corners(plan.legs) \subseteq Int
  BY <1>2, <1>4 DEF ChoiceSound
<1> QED BY <1>2, <1>3, <1>4, <1>5, <1>6, <1>7 DEF PlanSound

-----------------------------------------------------------------------------
(* What the two scans can choose.                                          *)

LEMMA LongFound ==
  ASSUME NEW chain, ChainKnown(chain), NEW bullish, NEW sel, NEW liq, NEW prefer
  PROVE  \A c \in SelectLong(chain, bullish, sel, liq, prefer) : ContractTyped(c) /\ InWindow(c, sel)
<1> DEFINE list == chain.list
           S == {j \in Listed(chain) : LET c == list[j] IN
                   /\ c.call = bullish /\ InWindow(c, sel) /\ Liquid(c, liq)
                   /\ DeltaFit(c, chain.spot, sel) # Missing}
           fits == [i \in S |-> LongFit(list[i], chain.spot, sel, liq, prefer)]
<1>1. SelectLong(chain, bullish, sel, liq, prefer) = {list[i] : i \in FirstBest(DOMAIN fits, fits)}
  BY Zenon DEF SelectLong, BestOf
<1>2. \A i \in S : ContractTyped(list[i]) /\ InWindow(list[i], sel)
  BY KnownTyped
<1>3. DOMAIN fits = S
  OBVIOUS
<1> HIDE DEF S, fits, list
<1>4. FirstBest(DOMAIN fits, fits) \subseteq S
  BY <1>3, FirstsIn
<1> QED BY <1>1, <1>2, <1>4

PairTyped(p) ==
  /\ ContractTyped(p[1]) /\ ContractTyped(p[2]) /\ p[2].call = p[1].call
  /\ IF p[1].call THEN p[2].k > p[1].k ELSE p[2].k < p[1].k

LEMMA PairFound ==
  ASSUME NEW chain, ChainKnown(chain), NEW bullish, NEW cap, NEW sel, NEW liq
  PROVE  \A p \in SelectVertical(chain, bullish, cap, sel, liq) : PairTyped(p) /\ InWindow(p[1], sel)
<1> DEFINE list == chain.list
           at(n) == <<list[n[1]], list[n[2]]>>
           S == {m \in LongLegs(chain, bullish, sel, liq) \X ShortLegs(chain, bullish, sel, liq) :
                         VerticalPair(at(m), chain, cap, sel)}
           fits == [n \in S |-> VerticalFit(at(n), chain)]
<1>1. SelectVertical(chain, bullish, cap, sel, liq) = BestPair(list, fits)
  BY Zenon DEF SelectVertical
<1>2. DOMAIN fits = S
  OBVIOUS
<1>3. \A n \in S : PairTyped(at(n)) /\ InWindow(list[n[1]], sel)
  <2>1. SUFFICES ASSUME NEW n \in S PROVE PairTyped(at(n)) /\ InWindow(list[n[1]], sel)
    OBVIOUS
  <2>2. PICK i \in LongLegs(chain, bullish, sel, liq), j \in ShortLegs(chain, bullish, sel, liq) : n[1] = i /\ n[2] = j
    OBVIOUS
  <2>3. VerticalPair(<<list[i], list[j]>>, chain, cap, sel)
    BY <2>1, <2>2
  <2>4. /\ i \in Listed(chain) /\ Liquid(list[i], liq) /\ list[i].call = bullish /\ InWindow(list[i], sel)
        /\ j \in Listed(chain) /\ Liquid(list[j], liq) /\ list[j].call = bullish
    BY <2>2 DEF LongLegs, ShortLegs
  <2>5. ContractTyped(list[i]) /\ ContractTyped(list[j])
    BY <2>4, KnownTyped
  <2>6. IF list[i].call THEN list[j].k > list[i].k ELSE list[j].k < list[i].k
    BY <2>3 DEF VerticalPair
  <2> HIDE DEF list
  <2> QED BY <2>2, <2>4, <2>5, <2>6 DEF PairTyped
<1>4. \A p \in BestPair(list, fits) : \E n \in DOMAIN fits : p = at(n)
  <2>1. Topmost(DOMAIN fits, fits) \subseteq DOMAIN fits
    <3> HIDE DEF fits
    <3> QED BY DEF Topmost
  <2> HIDE DEF fits, S, list
  <2> QED BY <2>1 DEF BestPair
<1>5. \A n : at(n)[1] = list[n[1]]
  OBVIOUS
<1> HIDE DEF S, fits, list, at
<1> QED BY <1>1, <1>2, <1>3, <1>4, <1>5

LEMMA LongFits ==
  ASSUME NEW chain, ChainKnown(chain), NEW bullish, NEW sel, NEW liq, NEW prefer,
         NEW ch, ch = LongChoice(SelectLong(chain, bullish, sel, liq, prefer)), ch # NoChoice
  PROVE  ChoiceSound(ch) /\ ch.dte \in sel.lo .. sel.hi
<1>1. PICK found : found = SelectLong(chain, bullish, sel, liq, prefer)
  OBVIOUS
<1>2. found # {} /\ ch = LongChoice(found)
  BY <1>1 DEF LongChoice
<1>3. \A c \in found : ContractTyped(c) /\ InWindow(c, sel)
  BY <1>1, LongFound
<1>4. ChoiceSound(ch) /\ \E c \in found : ch.dte = c.dte
  BY <1>2, <1>3, LongSound
<1> QED BY <1>3, <1>4 DEF InWindow

LEMMA PairFits ==
  ASSUME NEW chain, ChainKnown(chain), NEW bullish, NEW cap, NEW sel, NEW liq,
         NEW ch, ch = VerticalChoice(SelectVertical(chain, bullish, cap, sel, liq)), ch # NoChoice
  PROVE  ChoiceSound(ch) /\ ch.dte \in sel.lo .. sel.hi
<1>1. PICK found : found = SelectVertical(chain, bullish, cap, sel, liq)
  OBVIOUS
<1>2. found # {} /\ ch = VerticalChoice(found)
  BY <1>1 DEF VerticalChoice
<1>3. \A p \in found : PairTyped(p) /\ InWindow(p[1], sel)
  BY <1>1, PairFound
<1>4. ChoiceSound(ch) /\ \E p \in found : ch.dte = p[1].dte
  BY <1>2, <1>3, VerticalSound DEF PairTyped
<1> QED BY <1>3, <1>4 DEF InWindow

(* Every structure the core scan tries is sound.                           *)
LEMMA KindSound ==
  ASSUME NEW chain, ChainKnown(chain), NEW bullish \in BOOLEAN, NEW cap,
         NEW kind \in {"debit", "long", "credit", "condor", "strangle", "straddle"},
         NEW ch, ch = Choice(kind, chain, bullish, cap), ch # NoChoice
  PROVE  ChoiceSound(ch)
<1>1. CASE kind = "debit"
  <2>1. ch = VerticalChoice(SelectVertical(chain, bullish, cap, CoreSel, CoreLiq))
    BY <1>1 DEF Choice
  <2> QED BY <2>1, PairFits
<1>2. CASE kind = "long"
  <2>1. ch = LongChoice(SelectLong(chain, bullish, CoreSel, CoreLiq, 0))
    BY <1>2 DEF Choice
  <2> QED BY <2>1, LongFits
<1>3. CASE kind = "credit"
  <2>1. ch = CreditVertical(chain, bullish, cap, CoreSel, CoreLiq)
    BY <1>3 DEF Choice
  <2> QED BY <2>1, CreditSound
<1>4. CASE kind = "condor"
  <2>1. ch = IronCondor(chain, cap, CoreSel, CoreLiq)
    BY <1>4 DEF Choice
  <2> QED BY <2>1, CondorSound
<1>5. CASE kind = "strangle"
  <2>1. ch = Strangle(chain, cap, CoreSel, CoreLiq)
    BY <1>5 DEF Choice
  <2> QED BY <2>1, StrangleSound
<1>6. CASE kind = "straddle"
  <2>1. ch = Straddle(chain, cap, CoreSel, CoreLiq)
    BY <1>6 DEF Choice
  <2> QED BY <2>1, StraddleSound
<1> QED BY <1>1, <1>2, <1>3, <1>4, <1>5, <1>6

LEMMA SuitedKinds ==
  ASSUME NEW direction, NEW ivRank, NEW catalyst
  PROVE  LET kinds == Suited(direction, ivRank, catalyst) IN
         /\ DOMAIN kinds \subseteq Nat
         /\ \A i \in DOMAIN kinds : kinds[i] \in {"debit", "long", "credit", "condor", "strangle", "straddle"}
<1>1. Suited(direction, ivRank, catalyst) \in
        {<<"credit", "debit", "long">>, <<"debit", "long", "credit">>, <<"condor">>, <<"strangle", "straddle">>, <<>>}
  BY DEF Suited
<1> QED BY <1>1

(* The plan it settles on is one of them, sized;                           *)
LEMMA CoreFrom ==
  ASSUME NEW chain, NEW direction, NEW ivRank, NEW catalyst,
         NEW plan, plan = BuildBestPlan(chain, direction, ivRank, catalyst, CorePolicy, 0), plan # NoPlan
  PROVE  \E kind, bullish, cap :
           /\ kind \in {"debit", "long", "credit", "condor", "strangle", "straddle"} /\ bullish \in BOOLEAN
           /\ plan = SizedPlan(Choice(kind, chain, bullish, cap), CorePolicy, 0)
<1> DEFINE bullish == direction = "bullish"
<1>0. bullish \in BOOLEAN
  OBVIOUS
<1>1. PICK kinds : kinds = Suited(direction, ivRank, catalyst)
  OBVIOUS
<1>2. plan = FirstPlan(PlansFor(kinds, chain, bullish, CorePolicy, 0))
  BY <1>1 DEF BuildBestPlan
<1> HIDE DEF bullish
<1>3. PICK plans : plans = PlansFor(kinds, chain, bullish, CorePolicy, 0)
  OBVIOUS
<1>4. DOMAIN plans = DOMAIN kinds /\ \A i \in DOMAIN plans : plans[i] = PlanOf(kinds[i], chain, bullish, CorePolicy, 0)
  BY <1>3, Zenon DEF PlansFor
<1> DEFINE sound == {i \in DOMAIN plans : plans[i] # NoPlan}
<1>5. sound \subseteq Nat /\ \A i \in sound : kinds[i] \in {"debit", "long", "credit", "condor", "strangle", "straddle"}
  BY <1>1, <1>4, SuitedKinds
<1>6. PICK i \in sound : plan = plans[i]
  <2>1. sound # {} /\ plan = plans[Lowest(sound)]
    BY <1>2, <1>3 DEF FirstPlan
  <2> HIDE DEF sound
  <2> QED BY <1>5, <2>1, LowestOf
<1>7. PICK kind, cap : kind = kinds[i] /\ cap = EffectiveCap(CorePolicy, 0)
  OBVIOUS
<1>8. plan = SizedPlan(Choice(kind, chain, bullish, cap), CorePolicy, 0)
  BY <1>4, <1>6, <1>7 DEF PlanOf
<1> QED BY <1>0, <1>5, <1>6, <1>7, <1>8

(* so it is sound,                                                         *)
LEMMA CoreSound ==
  ASSUME NEW chain, ChainKnown(chain), NEW direction, NEW ivRank, NEW catalyst,
         NEW plan, plan = BuildBestPlan(chain, direction, ivRank, catalyst, CorePolicy, 0), plan # NoPlan
  PROVE  PlanSound(plan)
<1>1. PolicyTyped(CorePolicy)
  BY DEF CorePolicy, PolicyTyped
<1>2. PICK kind, bullish, cap :
        /\ kind \in {"debit", "long", "credit", "condor", "strangle", "straddle"} /\ bullish \in BOOLEAN
        /\ plan = SizedPlan(Choice(kind, chain, bullish, cap), CorePolicy, 0)
  BY CoreFrom
<1>3. PICK ch : ch = Choice(kind, chain, bullish, cap)
  OBVIOUS
<1>4. ch # NoChoice => ChoiceSound(ch)
  BY <1>2, <1>3, KindSound
<1>5. plan = SizedPlan(ch, CorePolicy, 0)
  BY <1>2, <1>3
<1> QED BY <1>1, <1>4, <1>5, SizedSound

(* and every expression of the short-duration scan while its caps are on.  *)
LEMMA ShortSound ==
  ASSUME NEW chain, ChainKnown(chain), NEW bullish, NEW bucket \in {"0dte", "1-5dte", "swing"}, NEW prefer,
         NEW zero, NEW equity \in Int, NEW open \in Int,
         NEW plan \in ShortExpressions(chain, bullish, bucket, prefer, ShortPolicy(zero, equity, FALSE), open)
  PROVE  plan # NoPlan /\ PlanSound(plan) /\ plan.dte \in Nat
<1>1. PICK sel, liq, pol : sel = ShortSel(bucket) /\ liq = ShortLiq(bucket) /\ pol = ShortPolicy(zero, equity, FALSE)
  OBVIOUS
<1>2. PolicyTyped(pol) /\ pol.cap = CorePolicy.cap
  BY <1>1 DEF ShortPolicy, CorePolicy, PolicyTyped
<1>3. sel.lo \in Nat
  BY <1>1 DEF ShortSel
<1>4. PICK ch : /\ \/ ch = LongChoice(SelectLong(chain, bullish, sel, liq, prefer))
                   \/ ch = VerticalChoice(SelectVertical(chain, bullish, MaxTradeRisk(pol), sel, liq))
                /\ plan = SizedPlan(ch, pol, open) /\ plan # NoPlan
  BY <1>1 DEF ShortExpressions
<1>5. ch # NoChoice => ChoiceSound(ch) /\ ch.dte \in sel.lo .. sel.hi
  BY <1>4, LongFits, PairFits
<1>6. ch # NoChoice /\ PlanSound(plan) /\ plan.dte = ch.dte
  BY <1>2, <1>4, <1>5, SizedSound
<1> QED BY <1>3, <1>4, <1>5, <1>6

-----------------------------------------------------------------------------
(* Fills, settlements and the account are whole numbers.                   *)
LEMMA SpreadTyped ==
  ASSUME Placed, NEW m \in DOMAIN Moments, NEW legs, NEW expiry
  PROVE  StructureSpread(legs, expiry, m) \in Int
<1> DEFINE found(i) == ListedLeg(legs[i], expiry, m)
           spreads == [i \in DOMAIN legs |-> SpreadIn(found(i))]
<1>1. <<Tape[m], Moments[m].day>> \in DOMAIN Chains
  BY WorldsAssumption DEF Placed, Moments, Tape
<1>2. \A i : \A c \in found(i) : c.bid \in Int /\ c.ask \in Int
  BY <1>1, ChainsAssumption DEF ListedLeg
<1>3. ASSUME NEW i PROVE SpreadIn(found(i)) \in Int
  <2>1. CASE found(i) = {}
    BY <2>1 DEF SpreadIn
  <2>2. CASE found(i) # {}
    <3>1. PICK c \in found(i) : c = CHOOSE x \in found(i) : TRUE
      BY <2>2
    <3>2. SpreadIn(found(i)) = IF Quoted(c) THEN Most(0, c.ask - c.bid) ELSE 0
      BY <2>2, <3>1 DEF SpreadIn
    <3>3. PICK a \in Int, b \in Int : a = c.ask /\ b = c.bid
      BY <1>2, <3>1
    <3> QED BY <3>2, <3>3 DEF Most
  <2> QED BY <2>1, <2>2
<1>4. StructureSpread(legs, expiry, m) = Total(spreads)
  BY DEF StructureSpread
<1>5. \A i : At(spreads, i) \in Int
  BY <1>3 DEF At
<1> HIDE DEF spreads
<1> QED BY <1>4, <1>5 DEF Total

LEMMA FillTyped ==
  ASSUME NEW mid \in Int, NEW spread \in Int
  PROVE  EntryFill(mid, spread) \in Int /\ ExitFill(mid, spread) \in Int
BY DEF EntryFill, ExitFill, Slip, Most

(* A position that has expired settles on a candle that was seen.          *)
LEMMA CloseTyped ==
  ASSUME Placed, NEW d, \E m \in 1 .. now : Moments[m].day <= d
  PROVE  CloseOn(d) \in Int
<1> DEFINE S == {m \in 1 .. now : Moments[m].day <= d}
<1>1. now \in Nat /\ 1 .. now \subseteq DOMAIN Moments
  BY MomentFacts DEF Placed
<1>2. S \subseteq Int /\ S \in SUBSET (1 .. now) /\ S # {} /\ IsFiniteSet(1 .. now)
  BY <1>1, FS_Interval
<1>3. IsFiniteSet(S)
  BY <1>2, FS_Subset
<1> HIDE DEF S
<1>4. Highest(S) \in DOMAIN Moments
  BY <1>1, <1>2, <1>3, HighestOf
<1>5. \A m \in DOMAIN Moments : Tape[m] \in Nat
  BY WorldsAssumption DEF Placed, Moments, Tape
<1> QED BY <1>4, <1>5 DEF CloseOn, S

-----------------------------------------------------------------------------
(* The money of the board and the book.  A place with no idea holds no     *)
(* trade; a plan of a scan is sound; a trade of the desk has a plan that   *)
(* expires after it was scanned, and its fill and result are numbers, so   *)
(* that the account the next plan is sized on is one.                      *)
Idle(i) == board[i].way = "none" => book[i].status = "none"
SoundIdea(i) == board[i].way \in {"core", "desk"} /\ board[i].plan # NoPlan => PlanSound(board[i].plan)
DeskMoney(i) ==
  board[i].way = "desk" =>
    /\ board[i].plan # NoPlan => board[i].plan.dte \in Nat /\ \E m \in 1 .. now : board[i].at[1] = Moments[m].day
    /\ book[i].status # "none" => /\ board[i].plan # NoPlan /\ book[i].fill \in Int
                                  /\ book[i].status # "open" => book[i].pnl \in Int
MoneyInv == \A i \in Slots : Idle(i) /\ SoundIdea(i) /\ DeskMoney(i)

LEMMA MoneyInit == Init => MoneyInv
BY DEF Init, MoneyInv, Idle, SoundIdea, DeskMoney, NoIdea, NoTrade

(* The equity and the committed risk the next plan is sized on are numbers. *)
LEMMA AccountTyped ==
  ASSUME MoneyInv
  PROVE  Equity \in Int /\ CommittedRisk \in Int
<1>1. DeskTrades \in SUBSET Slots /\ DeskOpen \in SUBSET Slots /\ DeskTrades \ Opened \in SUBSET Slots
  BY DEF DeskTrades, DeskOpen
<1>2. IsFiniteSet(DeskOpen) /\ IsFiniteSet(DeskTrades \ Opened)
  BY <1>1, SlotsAssumption, FS_Subset
<1>3. Equity \in Int
  <2>1. PICK S, f : S = DeskTrades \ Opened /\ f = [i \in S |-> book[i].pnl]
    OBVIOUS
  <2>2. \A i \in S : f[i] \in Int
    <3>1. \A i \in S : i \in Slots /\ board[i].way = "desk" /\ book[i].status # "none" /\ book[i].status # "open"
      BY <2>1 DEF DeskTrades, Opened
    <3> QED BY <2>1, <3>1 DEF MoneyInv, DeskMoney
  <2>3. Sum(S, f) \in Int
    BY <1>2, <2>1, <2>2, SumTyped
  <2> QED BY <2>1, <2>3 DEF Equity, CorePolicy
<1>4. CommittedRisk \in Int
  <2>1. PICK S, f : S = DeskOpen /\ f = [i \in S |-> board[i].plan.maxLoss]
    OBVIOUS
  <2>2. \A i \in S : f[i] \in Int
    <3>1. \A i \in S : i \in Slots /\ board[i].way = "desk" /\ book[i].status # "none"
      BY <2>1 DEF DeskOpen, DeskTrades
    <3>2. \A i \in S : PlanSound(board[i].plan)
      BY <3>1 DEF MoneyInv, DeskMoney, SoundIdea
    <3> QED BY <2>1, <3>2 DEF PlanSound
  <2>3. Sum(S, f) \in Int
    BY <1>2, <2>1, <2>2, SumTyped
  <2> QED BY <2>1, <2>3 DEF CommittedRisk
<1> QED BY <1>3, <1>4

LEMMA QuotesKnown == ASSUME Placed PROVE ChainKnown(Quotes)
<1>1. <<Tape[now], Moments[now].day>> \in DOMAIN Chains
  BY WorldsAssumption DEF Placed, Moments, Tape
<1>2. Quotes.list = Chains[<<Tape[now], Moments[now].day>>]
  BY DEF Quotes, Spot, Today, Here
<1> QED BY <1>1, <1>2 DEF ChainKnown

LEMMA MoneyStep ==
  ASSUME Unconstrained = FALSE, LifeInv, LifeInv', MoneyInv, [Next]_vars
  PROVE  MoneyInv'
<1> DEFINE Sound(i) == Idle(i) /\ SoundIdea(i) /\ DeskMoney(i)
<1>0. /\ Placed /\ DOMAIN board = Slots /\ DOMAIN book = Slots /\ now \in DOMAIN Moments /\ now \in Nat
      /\ Len(Moments) \in Nat /\ DOMAIN Moments = 1 .. Len(Moments)
      /\ \A i \in Slots : Idle(i) /\ SoundIdea(i) /\ DeskMoney(i)
  BY MomentFacts DEF LifeInv, MoneyInv, Placed
<1>1. ASSUME now' \in {now, now + 1}, Moments' = Moments,
             \A i \in Slots : (board'[i] = board[i] /\ book'[i] = book[i]) \/ Sound(i)'
      PROVE  MoneyInv'
  <2>1. SUFFICES ASSUME NEW i \in Slots, board'[i] = board[i], book'[i] = book[i] PROVE Sound(i)'
    BY <1>1 DEF MoneyInv
  <2>2. Idle(i)' /\ SoundIdea(i)'
    BY <1>0, <2>1 DEF Idle, SoundIdea
  <2>3. \A m \in 1 .. now : m \in 1 .. now'
    BY <1>0, <1>1
  <2> HIDE DEF Moments
  <2>4. DeskMoney(i)'
    BY <1>0, <1>1, <2>1, <2>3 DEF DeskMoney
  <2> QED BY <2>2, <2>4
<1>2. CASE Tick
  BY <1>0, <1>1, <1>2 DEF Tick, Moments
<1>3. ASSUME NEW p \in Slots, Scan(p) PROVE MoneyInv'
  <2>1. PICK w, plan, why :
          /\ plan = NoPlan \/ plan = BuildBestPlan(Quotes, w.direction, w.ivRank, w.catalyst, CorePolicy, 0)
          /\ board' = [board EXCEPT ![p] = CoreIdea(w, plan, why)]
    BY <1>3, Zenon DEF Scan
  <2>2. PICK q : q = (IF why = {} THEN plan ELSE NoPlan) /\ (q # NoPlan => PlanSound(q))
    <3>1. plan # NoPlan => PlanSound(plan)
      BY <1>0, <2>1, QuotesKnown, CoreSound
    <3> QED BY <3>1
  <2>3. PICK new : new.way = "core" /\ new.plan = q /\ board' = [board EXCEPT ![p] = new]
    <3>1. CoreIdea(w, plan, why) = Idea("core", "SPY", "core", w.direction, q, why, why)
      BY <2>2 DEF CoreIdea
    <3> QED BY <2>1, <3>1 DEF Idea
  <2>4. board'[p] = new /\ UNCHANGED <<now, world, book>>
    BY <1>0, <1>3, <2>3 DEF Scan
  <2>5. Sound(p)'
    BY <2>2, <2>3, <2>4 DEF Idle, SoundIdea, DeskMoney
  <2>6. \A i \in Slots : (board'[i] = board[i] /\ book'[i] = book[i]) \/ Sound(i)'
    BY <1>0, <2>3, <2>4, <2>5
  <2> HIDE DEF Sound
  <2> QED BY <1>1, <2>4, <2>6 DEF Moments
<1>4. ASSUME NEW p \in Slots, DeskScan(p) PROVE MoneyInv'
  <2> DEFINE pol(w) == ShortPolicy(w.bucket = "0dte", Equity, Unconstrained)
             plans(w) == ShortExpressions(Quotes, w.direction = "bullish", w.bucket, w.prefer, pol(w), CommittedRisk)
  <2> DEFINE idea(w, plan, rejects) ==
               Idea("desk", w.symbol, w.bucket, w.direction, plan, rejects,
                    AccountGates(w.symbol, w.direction, w.regime, w.stale, DailyRiskState, Equity))
             gates(w) == EvaluateEntryGates(w.bucket, w.symbol, w.direction, w.regime, w.stale,
                                            DailyRiskState, Equity, Here)
             reject(w) == ShortReject(Quotes, w.direction = "bullish", w.bucket, pol(w))
  <2>0. PICK w \in world.desk :
          \/ board' = [board EXCEPT ![p] = idea(w, NoPlan, gates(w) \cup {reject(w)})]
          \/ \E plan \in plans(w) : board' = [board EXCEPT ![p] = idea(w, plan, gates(w))]
    BY <1>4, Zenon DEF DeskScan
  <2>1. PICK plan, rejects : /\ plan = NoPlan \/ plan \in plans(w)
                             /\ board' = [board EXCEPT ![p] = idea(w, plan, rejects)]
    <3> HIDE DEF idea, gates, reject, plans
    <3> QED BY <2>0
  <2>2. w.bucket \in {"0dte", "1-5dte", "swing"}
    BY <1>0, WorldsAssumption DEF Placed
  <2>3. plan # NoPlan => PlanSound(plan) /\ plan.dte \in Nat
    <3>1. PICK e \in Int, c \in Int : e = Equity /\ c = CommittedRisk
      BY AccountTyped
    <3>2. PICK b, z : b = (w.direction = "bullish") /\ z = (w.bucket = "0dte")
      OBVIOUS
    <3>3. plans(w) = ShortExpressions(Quotes, b, w.bucket, w.prefer, ShortPolicy(z, e, FALSE), c)
      BY <3>1, <3>2
    <3>4. \A q \in plans(w) : PlanSound(q) /\ q.dte \in Nat
      <4>0. PICK chain : chain = Quotes /\ ChainKnown(chain)
        BY <1>0, QuotesKnown, Zenon
      <4>1. PICK bucket, prefer : /\ bucket = w.bucket /\ prefer = w.prefer
                                   /\ bucket \in {"0dte", "1-5dte", "swing"}
        BY <2>2, Zenon
      <4>2. \A q \in ShortExpressions(chain, b, bucket, prefer, ShortPolicy(z, e, FALSE), c) : PlanSound(q) /\ q.dte \in Nat
        BY <4>0, <4>1, ShortSound
      <4> HIDE DEF plans
      <4> QED BY <3>3, <4>0, <4>1, <4>2
    <3> HIDE DEF plans
    <3> QED BY <2>1, <3>4
  <2>4. PICK new : /\ new.way = "desk" /\ new.plan = plan /\ new.at = <<Here.day, Here.minute>>
                   /\ board' = [board EXCEPT ![p] = new]
    BY <2>1 DEF Idea, Stamp, Today
  <2>5. board'[p] = new /\ UNCHANGED <<now, world, book>> /\ Moments' = Moments
    BY <1>0, <1>4, <2>4 DEF DeskScan, Moments
  <2>6. book[p].status = "none"
    BY <1>0, <1>4 DEF DeskScan, Idle, NoIdea
  <2>7. now \in 1 .. now /\ new.at[1] = Moments[now].day
    BY <1>0, <2>4 DEF Here
  <2>8. Sound(p)'
    <3> HIDE DEF Moments
    <3> QED BY <2>3, <2>4, <2>5, <2>6, <2>7 DEF Idle, SoundIdea, DeskMoney
  <2>9. \A i \in Slots : (board'[i] = board[i] /\ book'[i] = book[i]) \/ Sound(i)'
    <3> HIDE DEF Sound
    <3> QED BY <1>0, <2>4, <2>5, <2>8
  <2> HIDE DEF Sound
  <2> QED BY <1>1, <2>5, <2>9
<1>5. ASSUME NEW p \in Slots, OpenPaper(p) PROVE MoneyInv'
  <2>1. PICK trade : book' = [book EXCEPT ![p] = trade]
    BY <1>5, Zenon DEF OpenPaper
  <2>2. UNCHANGED <<now, world, board>> /\ board[p].way = "core"
    BY <1>5 DEF OpenPaper
  <2>3. Sound(p)'
    BY <1>0, <2>2 DEF Idle, SoundIdea, DeskMoney
  <2>4. \A i \in Slots : (board'[i] = board[i] /\ book'[i] = book[i]) \/ Sound(i)'
    <3> HIDE DEF Sound
    <3> QED BY <1>0, <2>1, <2>2, <2>3
  <2> HIDE DEF Sound
  <2> QED BY <1>1, <2>2, <2>4 DEF Moments
<1>6. ASSUME NEW p \in Slots, OpenDesk(p) PROVE MoneyInv'
  <2>1. board[p].way = "desk" /\ board[p].plan # NoPlan /\ UNCHANGED <<now, world, board>>
    BY <1>6 DEF OpenDesk
  <2>2. PICK fill, fits :
          /\ fill = EntryFill(board[p].plan.debit, StructureSpread(board[p].plan.legs, Expiry(p), now))
          /\ book' = [book EXCEPT ![p] = [Filled(fill) EXCEPT !.executable = fits]]
    BY <1>6, Zenon DEF OpenDesk
  <2>3. fill \in Int
    <3>1. board[p].plan.debit \in Int
      BY <1>0, <2>1 DEF SoundIdea, PlanSound
    <3>2. StructureSpread(board[p].plan.legs, Expiry(p), now) \in Int
      BY <1>0, SpreadTyped
    <3> QED BY <2>2, <3>1, <3>2, FillTyped
  <2>4. PICK trade : trade.status = "open" /\ trade.fill = fill /\ book' = [book EXCEPT ![p] = trade]
    BY <2>2 DEF Filled
  <2>5. book'[p] = trade /\ Moments' = Moments
    BY <1>0, <2>1, <2>4 DEF Moments
  <2>6. Sound(p)'
    <3> HIDE DEF Moments
    <3> QED BY <1>0, <2>1, <2>3, <2>4, <2>5 DEF Idle, SoundIdea, DeskMoney
  <2>7. \A i \in Slots : (board'[i] = board[i] /\ book'[i] = book[i]) \/ Sound(i)'
    <3> HIDE DEF Sound
    <3> QED BY <1>0, <2>1, <2>4, <2>6
  <2> HIDE DEF Sound
  <2> QED BY <1>1, <2>1, <2>5, <2>7
<1>7. ASSUME NEW p \in Slots, Import(p) PROVE MoneyInv'
  <2>1. PICK q, new, trade :
          /\ q \in world.imports
          /\ new.way = q.way /\ board' = [board EXCEPT ![p] = new] /\ book' = [book EXCEPT ![p] = trade]
    <3>1. \A way, direction, plan : Idea(way, "SPY", "live", direction, plan, {}, {}).way = way
      BY DEF Idea
    <3>2. PICK q, legs, way, direction :
            LET mark == MarkAt(q.legs, q.expiry, now)
                plan == TrackedPlan(legs, mark.net, 1, q.expiry - Today)
            IN  /\ q \in world.imports /\ q.expiry >= Today /\ way = q.way
                /\ board' = [board EXCEPT ![p] = Idea(way, "SPY", "live", direction, plan, {}, {})]
                /\ book' = [book EXCEPT ![p] = Filled(mark.net)]
      BY <1>7, Zenon DEF Import
    <3> QED BY <3>1, <3>2
  <2>2. new.way \in Taking
    BY <1>0, <2>1, WorldsAssumption DEF Placed, Taking
  <2>3. board'[p] = new /\ UNCHANGED <<now, world>>
    BY <1>0, <1>7, <2>1 DEF Import
  <2>4. Sound(p)'
    BY <2>2, <2>3 DEF Idle, SoundIdea, DeskMoney, Taking
  <2>5. \A i \in Slots : (board'[i] = board[i] /\ book'[i] = book[i]) \/ Sound(i)'
    <3> HIDE DEF Sound
    <3> QED BY <1>0, <2>1, <2>4
  <2> HIDE DEF Sound
  <2> QED BY <1>1, <2>3, <2>5 DEF Moments
<1>8. ASSUME NEW p \in Slots, DeskMonitor(p) PROVE MoneyInv'
  <2> DEFINE plan == board[p].plan
             closing(exit, why, at) == Closed(book[p], exit, why, at, plan.contracts)
             settled == SettleNet(plan.legs, CloseOn(Expiry(p)))
             sold == ExitFill(MarkAt(plan.legs, Expiry(p), now).net, StructureSpread(plan.legs, Expiry(p), now))
  <2>1. /\ board[p].way = "desk" /\ book[p].status = "open" /\ UNCHANGED <<now, world, board>>
        /\ \/ \E at : Expiry(p) < Today /\ book' = [book EXCEPT ![p] = closing(settled, "expiry", at)]
           \/ \E why : book' = [book EXCEPT ![p] = closing(sold, why, Stamp)]
    <3>1. PICK m, w : m = MarkAt(board[p].plan.legs, Expiry(p), now)
                          /\ w = IF CheckExit(board[p].plan, book[p].fill, m.net) # "none"
                                 THEN CheckExit(board[p].plan, book[p].fill, m.net)
                                 ELSE IntradayExit(Expiry(p) - Today, board[p].plan.timeStop, Here.minute)
      OBVIOUS
    <3> QED BY <1>8, <3>1 DEF DeskMonitor, Opened
  <2>2. /\ plan # NoPlan /\ PlanSound(plan) /\ plan.dte \in Nat /\ book[p].fill \in Int
        /\ \E m \in 1 .. now : board[p].at[1] = Moments[m].day
    BY <1>0, <2>1 DEF SoundIdea, DeskMoney
  <2>3. settled \in Int
    <3>1. PICK m \in 1 .. now : board[p].at[1] = Moments[m].day
      BY <2>2
    <3>2. Moments[m].day \in Nat
      BY <1>0, MomentFacts
    <3>3. Moments[m].day <= Expiry(p)
      BY <2>2, <3>1, <3>2 DEF Expiry
    <3>4. CloseOn(Expiry(p)) \in Int
      BY <1>0, <3>3, CloseTyped
    <3> QED BY <2>2, <3>4 DEF PlanSound
  <2>4. sold \in Int
    <3>1. MarkAt(plan.legs, Expiry(p), now).net \in Int
      BY <1>0, MarkTypes, HalvesAdd
    <3>2. StructureSpread(plan.legs, Expiry(p), now) \in Int
      BY <1>0, SpreadTyped
    <3> QED BY <3>1, <3>2, FillTyped
  <2>5. plan.contracts \in Int
    BY <2>2 DEF PlanSound
  <2> HIDE DEF plan, settled, sold
  <2>6. \A exit \in Int : \A why, at :
          LET trade == closing(exit, why, at)
          IN  trade.status = "closed" /\ trade.fill = book[p].fill /\ trade.pnl \in Int
    BY <2>2, <2>5 DEF Closed
  <2>7. PICK trade : /\ trade.status = "closed" /\ trade.fill = book[p].fill /\ trade.pnl \in Int
                     /\ book' = [book EXCEPT ![p] = trade]
    <3> HIDE DEF closing
    <3> QED BY <2>1, <2>3, <2>4, <2>6
  <2>8. book'[p] = trade /\ Moments' = Moments
    BY <1>0, <2>1, <2>7 DEF Moments
  <2>9. Sound(p)'
    <3> HIDE DEF Moments
    <3> USE DEF plan
    <3> QED BY <1>0, <2>1, <2>2, <2>7, <2>8 DEF Idle, SoundIdea, DeskMoney
  <2>10. \A i \in Slots : (board'[i] = board[i] /\ book'[i] = book[i]) \/ Sound(i)'
    <3> HIDE DEF Sound
    <3> QED BY <1>0, <2>1, <2>7, <2>9
  <2> HIDE DEF Sound
  <2> QED BY <1>1, <2>1, <2>8, <2>10
<1>9. ASSUME NEW p \in Slots, Close(p) PROVE MoneyInv'
  <2>1. PICK trade : book' = [book EXCEPT ![p] = trade]
    BY <1>9, Zenon DEF Close
  <2>2. UNCHANGED <<now, world, board>> /\ board[p].way # "desk" /\ board[p].way # "none"
    BY <1>0, <1>9 DEF Close, Opened, Idle
  <2>3. Sound(p)'
    BY <1>0, <2>2 DEF Idle, SoundIdea, DeskMoney
  <2>4. \A i \in Slots : (board'[i] = board[i] /\ book'[i] = book[i]) \/ Sound(i)'
    <3> HIDE DEF Sound
    <3> QED BY <1>0, <2>1, <2>2, <2>3
  <2> HIDE DEF Sound
  <2> QED BY <1>1, <2>2, <2>4 DEF Moments
<1>10. CASE UNCHANGED vars
  BY <1>0, <1>1, <1>10 DEF vars, Moments
<1> QED BY <1>2, <1>3, <1>4, <1>5, <1>6, <1>7, <1>8, <1>9, <1>10 DEF Next

LEMMA SoundWorst == LifeInv /\ MoneyInv => MaxLossIsWorst
<1>1. SUFFICES ASSUME LifeInv, MoneyInv, NEW i \in New \ Taken, NEW p, p = board[i].plan
      PROVE  /\ p.maxLoss <= CorePolicy.cap
             /\ \A s \in Corners(p.legs) :
                  LET worth == (SettleNet(p.legs, s) - p.debit) * p.contracts
                  IN  worth >= -p.maxLoss /\ (p.maxProfit # Missing => worth <= p.maxProfit)
  BY DEF MaxLossIsWorst
<1>2. i \in Slots /\ board[i].way \in {"core", "desk"} /\ p # NoPlan
  BY <1>1 DEF New, Taken, Planned
<1>3. PlanSound(p)
  BY <1>1, <1>2 DEF MoneyInv, SoundIdea
<1> QED BY <1>3 DEF PlanSound

(* No plan of a scan can lose more than it was sized on, nor pay more than *)
(* it shows, and none risks more than the cap of one trade                 *)
(* (MaxLossIsWorst), whatever the chains, the tape, the ideas and what     *)
(* happened to the account before, while the caps of the signal book are   *)
(* on.                                                                     *)
THEOREM WorstTheorem ==
  ASSUME Unconstrained = FALSE
  PROVE  Spec => []MaxLossIsWorst
<1>1. LifeInv /\ LifeInv' /\ MoneyInv /\ [Next]_vars => MoneyInv'
  BY MoneyStep
<1> QED BY <1>1, LifeAlways, MoneyInit, SoundWorst, PTL DEF Spec

-----------------------------------------------------------------------------
(* What the desk's scan can plan is bought for its debit, and is graded    *)
(* from that debit to the nearest cent.                                    *)
DebitStrategies == DebitVerticals \cup LongSingles
BoughtPlan(p) == p.strategy \in DebitStrategies /\ p.maxLoss \in Nat /\ Len(p.legs) \in Nat

LEMMA RoundDivNear ==
  ASSUME NEW x \in Int
  PROVE  10 * RoundDiv(x, 10) \in Int /\ 10 * RoundDiv(x, 10) - x \in -5 .. 5
<1>1. PICK q \in Int, r \in 0 .. 9 : q = x \div 10 /\ r = x % 10 /\ x = 10 * q + r
  OBVIOUS
<1> QED BY <1>1 DEF RoundDiv

LEMMA BoughtEntry ==
  ASSUME NEW p, p.strategy \in DebitStrategies, p.debit \in Int
  PROVE  ExitPlan(p).entry \in Int /\ ExitPlan(p).entry - p.debit \in -5 .. 5
<1>1. \A a, takes, stop, profit, loss : Levels(a, p.debit, takes, stop, profit, loss, p).entry = 10 * RoundDiv(p.debit, 10)
  BY DEF Levels
<1>2. \A fracs : /\ DebitVerticalExit(p, fracs).entry = 10 * RoundDiv(p.debit, 10)
                 /\ LongOptionExit(p, fracs).entry = 10 * RoundDiv(p.debit, 10)
  BY <1>1, Zenon DEF DebitVerticalExit, LongOptionExit
<1>3. ExitPlan(p).entry = 10 * RoundDiv(p.debit, 10)
  <2>1. CASE p.strategy \in DebitVerticals
    BY <1>2, <2>1, Zenon DEF ExitPlan
  <2>2. CASE p.strategy \notin DebitVerticals
    <3>1. p.strategy \notin CreditVerticals \cup {"iron_condor"}
      BY <2>2 DEF DebitStrategies, LongSingles, LongVol, CreditVerticals
    <3> QED BY <1>2, <2>2, <3>1, Zenon DEF ExitPlan
  <2> QED BY <2>1, <2>2
<1> QED BY <1>3, RoundDivNear

LEMMA SizedBought ==
  ASSUME NEW ch, ch # NoChoice => ch.strategy \in DebitStrategies /\ ch.maxLoss \in Int /\ Len(ch.legs) \in Nat,
         NEW pol, PolicyTyped(pol), NEW open \in Int,
         NEW plan, plan = SizedPlan(ch, pol, open), plan # NoPlan
  PROVE  BoughtPlan(plan)
<1>1. PICK n : n = SizeByDefinedRisk(ch.maxLoss, pol, open).contracts
  OBVIOUS
<1>2. ch # NoChoice /\ plan = Sized(ch, n, pol)
  BY <1>1 DEF SizedPlan
<1>3. PICK profit : profit = IF ch.maxProfit = Missing THEN Missing ELSE ch.maxProfit * n
  OBVIOUS
<1>4. ~(n < 1) /\ plan.maxLoss = ch.maxLoss * n /\ plan.legs = ch.legs /\ plan.strategy = ch.strategy
  BY <1>2, <1>3 DEF Sized
<1>5. n \in Nat /\ ch.maxLoss * n \in Int
  BY <1>1, <1>2, <1>4, SizeFacts
<1>6. ch.maxLoss > 0
  <2>1. CASE ch.maxLoss <= 0
    BY <1>1, <1>4, <2>1 DEF SizeByDefinedRisk
  <2> QED BY <1>2, <2>1
<1> QED BY <1>2, <1>4, <1>5, <1>6 DEF BoughtPlan

LEMMA LongBought ==
  ASSUME NEW found, \A c \in found : ContractTyped(c), NEW ch, ch = LongChoice(found), ch # NoChoice
  PROVE  ch.strategy \in DebitStrategies /\ Len(ch.legs) \in Nat
<1>1. found # {}
  BY DEF LongChoice
<1>2. PICK c \in found : c = CHOOSE x \in found : TRUE
  BY <1>1
<1>3. PICK a, dte, loss : ch = [strategy |-> IF c.call THEN "long_call" ELSE "long_put", legs |-> <<a>>, dte |-> dte,
                      maxLoss |-> loss, maxProfit |-> Missing]
  BY <1>1, <1>2 DEF LongChoice
<1> QED BY <1>3 DEF DebitStrategies, LongSingles

LEMMA PairBought ==
  ASSUME NEW found, NEW ch, ch = VerticalChoice(found), ch # NoChoice
  PROVE  ch.strategy \in DebitStrategies /\ Len(ch.legs) \in Nat
<1>1. found # {}
  BY DEF VerticalChoice
<1>2. PICK p \in found : p = CHOOSE x \in found : TRUE
  BY <1>1
<1>3. PICK a, b, dte, loss, profit :
        ch = [strategy |-> IF p[1].call THEN "bull_call_spread" ELSE "bear_put_spread", legs |-> <<a, b>>, dte |-> dte,
              maxLoss |-> loss, maxProfit |-> profit]
  BY <1>1, <1>2 DEF VerticalChoice
<1> QED BY <1>3 DEF DebitStrategies, DebitVerticals

LEMMA DeskBought ==
  ASSUME NEW chain, ChainKnown(chain), NEW bullish, NEW bucket, NEW prefer,
         NEW zero, NEW equity \in Int, NEW open \in Int,
         NEW plan \in ShortExpressions(chain, bullish, bucket, prefer, ShortPolicy(zero, equity, FALSE), open)
  PROVE  BoughtPlan(plan)
<1>1. PICK sel, liq, pol : sel = ShortSel(bucket) /\ liq = ShortLiq(bucket) /\ pol = ShortPolicy(zero, equity, FALSE)
  OBVIOUS
<1>2. PolicyTyped(pol)
  BY <1>1 DEF ShortPolicy, CorePolicy, PolicyTyped
<1>3. PICK ch : /\ \/ ch = LongChoice(SelectLong(chain, bullish, sel, liq, prefer))
                   \/ ch = VerticalChoice(SelectVertical(chain, bullish, MaxTradeRisk(pol), sel, liq))
                /\ plan = SizedPlan(ch, pol, open) /\ plan # NoPlan
  BY <1>1 DEF ShortExpressions
<1>4. ch # NoChoice => ch.maxLoss \in Int
  <2>1. ch # NoChoice => ChoiceSound(ch)
    BY <1>3, LongFits, PairFits
  <2> QED BY <2>1 DEF ChoiceSound
<1>5. ch # NoChoice => ch.strategy \in DebitStrategies /\ Len(ch.legs) \in Nat
  <2>1. CASE ch = LongChoice(SelectLong(chain, bullish, sel, liq, prefer))
    <3>1. \A c \in SelectLong(chain, bullish, sel, liq, prefer) : ContractTyped(c)
      BY LongFound
    <3> QED BY <2>1, <3>1, LongBought
  <2>2. CASE ch = VerticalChoice(SelectVertical(chain, bullish, MaxTradeRisk(pol), sel, liq))
    BY <2>2, PairBought
  <2> QED BY <1>3, <2>1, <2>2
<1> QED BY <1>2, <1>3, <1>4, <1>5, SizedBought

-----------------------------------------------------------------------------
(* A trade of the desk was filled at least a cent above its debit; when it *)
(* was held to its settlement it settled after its expiry, at a close that *)
(* no later candle changes.                                                *)
Settled(i) ==
  /\ Expiry(i) < Today
  /\ book[i].pnl = (SettleNet(board[i].plan.legs, CloseOn(Expiry(i))) - book[i].fill) * board[i].plan.contracts
DeskBook(i) ==
  board[i].way = "desk" =>
    /\ board[i].plan # NoPlan => BoughtPlan(board[i].plan)
    /\ book[i].status # "none" => book[i].fill - board[i].plan.debit >= 10
    /\ book[i].status = "closed" /\ book[i].reason = "expiry" => Settled(i)
BookInv == \A i \in Slots : DeskBook(i)

LEMMA BookInit == Init => BookInv
BY DEF Init, BookInv, DeskBook, NoIdea

(* The candles up to a day that is over.                                   *)
LEMMA CloseKept ==
  ASSUME Placed, now' \in {now, now + 1}, now' \in DOMAIN Moments, world' = world, NEW d \in Int, d < Today
  PROVE  CloseOn(d)' = CloseOn(d) /\ d < Today'
<1>1. Moments' = Moments /\ Tape' = Tape
  BY DEF Moments, Tape
<1>2. now \in DOMAIN Moments /\ DOMAIN Moments = 1 .. Len(Moments) /\ Len(Moments) \in Nat
  BY MomentFacts DEF Placed
<1>3. Moments[now].day \in Nat /\ Moments[now'].day \in Nat /\ Moments[now].day <= Moments[now'].day
  <2>1. \A m \in DOMAIN Moments : Moments[m].day \in Nat
    BY MomentFacts
  <2>2. now < now' => Moments[now].day <= Moments[now'].day
    BY <1>2, MomentFacts
  <2> QED BY <1>2, <2>1, <2>2
<1>4. Today = Moments[now].day /\ Today' = Moments[now'].day
  BY <1>1 DEF Today, Here
<1> HIDE DEF Moments, Tape
<1>5. {m \in 1 .. now' : Moments[m].day <= d} = {m \in 1 .. now : Moments[m].day <= d}
  <2>1. now \in Nat /\ 1 .. now' \subseteq 1 .. now \cup {now'} /\ 1 .. now \subseteq 1 .. now'
    BY <1>2
  <2>2. ~(Moments[now'].day <= d)
    BY <1>3, <1>4
  <2> QED BY <2>1, <2>2
<1>6. CloseOn(d)' = Tape[Highest({m \in 1 .. now' : Moments[m].day <= d})]
  BY <1>1 DEF CloseOn
<1>7. CloseOn(d) = Tape[Highest({m \in 1 .. now : Moments[m].day <= d})]
  BY DEF CloseOn
<1>8. d < Today'
  BY <1>3, <1>4
<1>9. CloseOn(d)' = CloseOn(d)
  BY <1>5, <1>6, <1>7
<1> QED BY <1>8, <1>9

(* An open position of the desk leaves before its expiry day is over for   *)
(* its target, its stop or the time, and for nothing else.                 *)
LEMMA NoEarlyExpiry ==
  ASSUME NEW plan, NEW fill, NEW net, NEW dte \in Nat, NEW timeStop, NEW minute
  PROVE  CheckExit(plan, fill, net) # "expiry" /\ IntradayExit(dte, timeStop, minute) # "expiry"
<1>1. CheckExit(plan, fill, net) \in {"none", "profit_target", "stop_loss"}
  BY DEF CheckExit
<1>2. ~(dte < 0)
  OBVIOUS
<1>3. IntradayExit(dte, timeStop, minute) \in {"none", "time_stop"}
  BY <1>2 DEF IntradayExit
<1> QED BY <1>1, <1>3

LEMMA FillAbove ==
  ASSUME NEW mid \in Int, NEW spread \in Int
  PROVE  EntryFill(mid, spread) \in Int /\ EntryFill(mid, spread) - mid >= 10
BY DEF EntryFill, Slip, Most

LEMMA BookStep ==
  ASSUME Unconstrained = FALSE, LifeInv, LifeInv', MoneyInv, BookInv, [Next]_vars
  PROVE  BookInv'
<1>0. /\ Placed /\ DOMAIN board = Slots /\ DOMAIN book = Slots /\ now \in DOMAIN Moments /\ now \in Nat
      /\ \A m \in DOMAIN Moments : Moments[m].day \in Nat
      /\ \A i \in Slots : Idle(i) /\ SoundIdea(i) /\ DeskMoney(i) /\ DeskBook(i)
  BY MomentFacts DEF LifeInv, MoneyInv, BookInv, Placed
<1>e. \A i \in Slots : board[i].way = "desk" /\ board[i].plan # NoPlan => Expiry(i) \in Int
  <2>1. SUFFICES ASSUME NEW i \in Slots, board[i].way = "desk", board[i].plan # NoPlan PROVE Expiry(i) \in Int
    OBVIOUS
  <2>2. PICK m \in 1 .. now : board[i].at[1] = Moments[m].day
    BY <1>0, <2>1 DEF DeskMoney
  <2>3. m \in DOMAIN Moments
    BY <1>0, MomentFacts
  <2>4. board[i].plan.dte \in Nat
    BY <1>0, <2>1 DEF DeskMoney
  <2> HIDE DEF Moments
  <2> QED BY <1>0, <2>2, <2>3, <2>4 DEF Expiry
<1>1. ASSUME now' \in {now, now + 1}, world' = world,
             \A i \in Slots : (board'[i] = board[i] /\ book'[i] = book[i]) \/ DeskBook(i)'
      PROVE  BookInv'
  <2>1. SUFFICES ASSUME NEW i \in Slots, board'[i] = board[i], book'[i] = book[i] PROVE DeskBook(i)'
    BY <1>1 DEF BookInv
  <2>2. now' \in DOMAIN Moments /\ Moments' = Moments
    <3>1. Moments' = Moments
      BY <1>1 DEF Moments
    <3> QED BY <3>1 DEF LifeInv, Placed
  <2>3. ASSUME board[i].way = "desk", book[i].status = "closed", book[i].reason = "expiry" PROVE Settled(i)'
    <3>1. Settled(i) /\ board[i].plan # NoPlan
      BY <1>0, <2>3 DEF DeskBook, DeskMoney
    <3>2. PICK d \in Int : d = Expiry(i) /\ d < Today
      BY <1>e, <2>3, <3>1 DEF Settled
    <3>3. Expiry(i)' = d
      BY <2>1, <3>2 DEF Expiry
    <3>4. CloseOn(d)' = CloseOn(d) /\ d < Today'
      BY <1>0, <1>1, <2>2, <3>2, CloseKept
    <3>5. CloseOn(Expiry(i))' = CloseOn(Expiry(i))
      <4>1. CloseOn(Expiry(i))' = Tape'[Highest({m \in 1 .. now' : Moments'[m].day <= Expiry(i)'})]
        BY DEF CloseOn
      <4>2. CloseOn(d)' = Tape'[Highest({m \in 1 .. now' : Moments'[m].day <= d})]
        BY DEF CloseOn
      <4> QED BY <3>2, <3>3, <3>4, <4>1, <4>2
    <3> QED BY <2>1, <3>1, <3>2, <3>3, <3>4, <3>5 DEF Settled
  <2> QED BY <1>0, <2>1, <2>3 DEF DeskBook
<1>2. CASE Tick
  BY <1>0, <1>1, <1>2 DEF Tick
<1>3. ASSUME NEW p \in Slots, Scan(p) PROVE BookInv'
  <2>1. PICK new : new.way = "core" /\ board' = [board EXCEPT ![p] = new]
    <3>1. \A w, plan, why : CoreIdea(w, plan, why).way = "core"
      BY DEF CoreIdea, Idea
    <3>2. PICK w, plan, why : board' = [board EXCEPT ![p] = CoreIdea(w, plan, why)]
      BY <1>3, Zenon DEF Scan
    <3> QED BY <3>1, <3>2
  <2>2. board'[p] = new /\ UNCHANGED <<now, world, book>>
    BY <1>0, <1>3, <2>1 DEF Scan
  <2>3. DeskBook(p)'
    BY <2>1, <2>2 DEF DeskBook
  <2>4. \A i \in Slots : (board'[i] = board[i] /\ book'[i] = book[i]) \/ DeskBook(i)'
    BY <1>0, <2>1, <2>2, <2>3
  <2> QED BY <1>1, <2>2, <2>4
<1>4. ASSUME NEW p \in Slots, DeskScan(p) PROVE BookInv'
  <2> DEFINE pol(w) == ShortPolicy(w.bucket = "0dte", Equity, Unconstrained)
             plans(w) == ShortExpressions(Quotes, w.direction = "bullish", w.bucket, w.prefer, pol(w), CommittedRisk)
  <2> DEFINE idea(w, plan, rejects) ==
               Idea("desk", w.symbol, w.bucket, w.direction, plan, rejects,
                    AccountGates(w.symbol, w.direction, w.regime, w.stale, DailyRiskState, Equity))
             gates(w) == EvaluateEntryGates(w.bucket, w.symbol, w.direction, w.regime, w.stale,
                                            DailyRiskState, Equity, Here)
             reject(w) == ShortReject(Quotes, w.direction = "bullish", w.bucket, pol(w))
  <2>0. PICK w \in world.desk :
          \/ board' = [board EXCEPT ![p] = idea(w, NoPlan, gates(w) \cup {reject(w)})]
          \/ \E plan \in plans(w) : board' = [board EXCEPT ![p] = idea(w, plan, gates(w))]
    BY <1>4, Zenon DEF DeskScan
  <2>1. PICK plan, rejects : /\ plan = NoPlan \/ plan \in plans(w)
                             /\ board' = [board EXCEPT ![p] = idea(w, plan, rejects)]
    <3> HIDE DEF idea, gates, reject, plans
    <3> QED BY <2>0
  <2>2. plan # NoPlan => BoughtPlan(plan)
    <3>1. PICK e \in Int, c \in Int : e = Equity /\ c = CommittedRisk
      BY AccountTyped
    <3>2. PICK b, z, bucket, prefer : /\ b = (w.direction = "bullish") /\ z = (w.bucket = "0dte")
                                       /\ bucket = w.bucket /\ prefer = w.prefer
      OBVIOUS
    <3>3. plans(w) = ShortExpressions(Quotes, b, bucket, prefer, ShortPolicy(z, e, FALSE), c)
      BY <3>1, <3>2
    <3>4. PICK chain : chain = Quotes /\ ChainKnown(chain)
      BY <1>0, QuotesKnown, Zenon
    <3>5. \A q \in ShortExpressions(chain, b, bucket, prefer, ShortPolicy(z, e, FALSE), c) : BoughtPlan(q)
      BY <3>4, DeskBought
    <3> HIDE DEF plans
    <3> QED BY <2>1, <3>3, <3>4, <3>5
  <2>4. PICK new : new.plan = plan /\ board' = [board EXCEPT ![p] = new]
    BY <2>1 DEF Idea
  <2>5. board'[p] = new /\ UNCHANGED <<now, world, book>>
    BY <1>0, <1>4, <2>4 DEF DeskScan
  <2>6. book[p].status = "none"
    BY <1>0, <1>4 DEF DeskScan, Idle, NoIdea
  <2>7. DeskBook(p)'
    BY <2>2, <2>4, <2>5, <2>6 DEF DeskBook
  <2>8. \A i \in Slots : (board'[i] = board[i] /\ book'[i] = book[i]) \/ DeskBook(i)'
    BY <1>0, <2>4, <2>5, <2>7
  <2> QED BY <1>1, <2>5, <2>8
<1>5. ASSUME NEW p \in Slots, OpenPaper(p) PROVE BookInv'
  <2>1. PICK trade : book' = [book EXCEPT ![p] = trade]
    BY <1>5, Zenon DEF OpenPaper
  <2>2. UNCHANGED <<now, world, board>> /\ board[p].way = "core"
    BY <1>5 DEF OpenPaper
  <2>3. DeskBook(p)'
    BY <2>2 DEF DeskBook
  <2>4. \A i \in Slots : (board'[i] = board[i] /\ book'[i] = book[i]) \/ DeskBook(i)'
    BY <1>0, <2>1, <2>2, <2>3
  <2> QED BY <1>1, <2>2, <2>4
<1>6. ASSUME NEW p \in Slots, OpenDesk(p) PROVE BookInv'
  <2>1. board[p].way = "desk" /\ board[p].plan # NoPlan /\ UNCHANGED <<now, world, board>>
    BY <1>6 DEF OpenDesk
  <2>2. PICK fill, fits :
          /\ fill = EntryFill(board[p].plan.debit, StructureSpread(board[p].plan.legs, Expiry(p), now))
          /\ book' = [book EXCEPT ![p] = [Filled(fill) EXCEPT !.executable = fits]]
    BY <1>6, Zenon DEF OpenDesk
  <2>3. fill - board[p].plan.debit >= 10
    <3>1. board[p].plan.debit \in Int
      BY <1>0, <2>1 DEF SoundIdea, PlanSound
    <3>2. StructureSpread(board[p].plan.legs, Expiry(p), now) \in Int
      BY <1>0, SpreadTyped
    <3> QED BY <2>2, <3>1, <3>2, FillAbove
  <2>4. PICK trade : trade.status = "open" /\ trade.fill = fill /\ book' = [book EXCEPT ![p] = trade]
    BY <2>2 DEF Filled
  <2>5. book'[p] = trade
    BY <1>0, <2>4
  <2>6. DeskBook(p)'
    BY <1>0, <2>1, <2>3, <2>4, <2>5 DEF DeskBook
  <2>7. \A i \in Slots : (board'[i] = board[i] /\ book'[i] = book[i]) \/ DeskBook(i)'
    BY <1>0, <2>1, <2>4, <2>6
  <2> QED BY <1>1, <2>1, <2>7
<1>7. ASSUME NEW p \in Slots, Import(p) PROVE BookInv'
  <2>1. PICK q, new, trade :
          /\ q \in world.imports
          /\ new.way = q.way /\ board' = [board EXCEPT ![p] = new] /\ book' = [book EXCEPT ![p] = trade]
    <3>1. \A way, direction, plan : Idea(way, "SPY", "live", direction, plan, {}, {}).way = way
      BY DEF Idea
    <3>2. PICK q, legs, way, direction :
            LET mark == MarkAt(q.legs, q.expiry, now)
                plan == TrackedPlan(legs, mark.net, 1, q.expiry - Today)
            IN  /\ q \in world.imports /\ q.expiry >= Today /\ way = q.way
                /\ board' = [board EXCEPT ![p] = Idea(way, "SPY", "live", direction, plan, {}, {})]
                /\ book' = [book EXCEPT ![p] = Filled(mark.net)]
      BY <1>7, Zenon DEF Import
    <3> QED BY <3>1, <3>2
  <2>2. new.way # "desk"
    BY <1>0, <2>1, WorldsAssumption DEF Placed
  <2>3. board'[p] = new /\ UNCHANGED <<now, world>>
    BY <1>0, <1>7, <2>1 DEF Import
  <2>4. DeskBook(p)'
    BY <2>2, <2>3 DEF DeskBook
  <2>5. \A i \in Slots : (board'[i] = board[i] /\ book'[i] = book[i]) \/ DeskBook(i)'
    BY <1>0, <2>1, <2>4
  <2> QED BY <1>1, <2>3, <2>5
<1>8. ASSUME NEW p \in Slots, DeskMonitor(p) PROVE BookInv'
  <2> DEFINE plan == board[p].plan
             settled == SettleNet(plan.legs, CloseOn(Expiry(p)))
             sold == ExitFill(MarkAt(plan.legs, Expiry(p), now).net, StructureSpread(plan.legs, Expiry(p), now))
  <2>0. board[p].way = "desk" /\ book[p].status = "open" /\ UNCHANGED <<now, world, board>> /\ plan # NoPlan
    BY <1>0, <1>8 DEF DeskMonitor, Opened, DeskMoney
  <2>1. \/ \E at : Expiry(p) < Today /\ book' = [book EXCEPT ![p] = Closed(book[p], settled, "expiry", at, plan.contracts)]
        \/ \E why : why # "expiry" /\ book' = [book EXCEPT ![p] = Closed(book[p], sold, why, Stamp, plan.contracts)]
    <3>1. PICK m, hit, left : /\ m = MarkAt(board[p].plan.legs, Expiry(p), now)
                              /\ hit = CheckExit(board[p].plan, book[p].fill, m.net)
                              /\ left = IntradayExit(Expiry(p) - Today, board[p].plan.timeStop, Here.minute)
      OBVIOUS
    <3>2. Expiry(p) >= Today => hit # "expiry" /\ left # "expiry"
      <4>1. Expiry(p) \in Int /\ Today \in Int
        BY <1>0, <1>e, <2>0 DEF Today, Here
      <4>2. PICK dte : dte = Expiry(p) - Today
        OBVIOUS
      <4> HIDE DEF plan
      <4> QED BY <3>1, <4>1, <4>2, NoEarlyExpiry
    <3> QED BY <1>8, <3>1, <3>2 DEF DeskMonitor
  <2>2. \A exit, why, at :
          LET trade == Closed(book[p], exit, why, at, plan.contracts)
          IN  /\ trade.status = "closed" /\ trade.fill = book[p].fill /\ trade.reason = why
              /\ trade.pnl = (exit - book[p].fill) * plan.contracts
    BY DEF Closed
  <2>3. PICK trade : /\ trade.status = "closed" /\ trade.fill = book[p].fill
                     /\ book' = [book EXCEPT ![p] = trade]
                     /\ \/ trade.reason # "expiry"
                        \/ Expiry(p) < Today /\ trade.pnl = (settled - book[p].fill) * plan.contracts
    <3> HIDE DEF settled, sold, plan
    <3>1. CASE \E at : Expiry(p) < Today /\ book' = [book EXCEPT ![p] = Closed(book[p], settled, "expiry", at, plan.contracts)]
      <4>1. PICK at, trade : /\ Expiry(p) < Today /\ trade = Closed(book[p], settled, "expiry", at, plan.contracts)
                             /\ book' = [book EXCEPT ![p] = trade]
        BY <3>1
      <4>2. trade.status = "closed" /\ trade.fill = book[p].fill /\ trade.pnl = (settled - book[p].fill) * plan.contracts
        BY <2>2, <4>1
      <4> QED BY <4>1, <4>2
    <3>2. CASE \E why : why # "expiry" /\ book' = [book EXCEPT ![p] = Closed(book[p], sold, why, Stamp, plan.contracts)]
      <4>1. PICK why, trade : /\ why # "expiry" /\ trade = Closed(book[p], sold, why, Stamp, plan.contracts)
                              /\ book' = [book EXCEPT ![p] = trade]
        BY <3>2
      <4>2. trade.status = "closed" /\ trade.fill = book[p].fill /\ trade.reason # "expiry"
        BY <2>2, <4>1
      <4> QED BY <4>1, <4>2
    <3> QED BY <2>1, <3>1, <3>2
  <2>4. book'[p] = trade /\ board'[p] = board[p]
    BY <1>0, <2>0, <2>3
  <2>5. /\ BoughtPlan(plan) /\ book[p].fill - plan.debit >= 10
    BY <1>0, <2>0 DEF DeskBook
  <2>6. trade.reason = "expiry" => Settled(p)'
    <3>1. Expiry(p)' = Expiry(p) /\ Today' = Today /\ settled' = settled
      BY <2>0 DEF Expiry, Today, Here, CloseOn, Moments, Tape
    <3> HIDE DEF settled
    <3>2. ASSUME trade.reason = "expiry"
          PROVE  Expiry(p)' < Today' /\ book'[p].pnl = (settled' - book'[p].fill) * board'[p].plan.contracts
      BY <2>3, <2>4, <3>1, <3>2
    <3> USE DEF settled
    <3> QED BY <3>2 DEF Settled
  <2>7. DeskBook(p)'
    <3> HIDE DEF Settled
    <3> QED BY <2>0, <2>3, <2>4, <2>5, <2>6 DEF DeskBook
  <2>8. \A i \in Slots : (board'[i] = board[i] /\ book'[i] = book[i]) \/ DeskBook(i)'
    BY <1>0, <2>0, <2>3, <2>7
  <2> QED BY <1>1, <2>0, <2>8
<1>9. ASSUME NEW p \in Slots, Close(p) PROVE BookInv'
  <2>1. PICK trade : book' = [book EXCEPT ![p] = trade]
    BY <1>9, Zenon DEF Close
  <2>2. UNCHANGED <<now, world, board>> /\ board[p].way # "desk"
    BY <1>0, <1>9 DEF Close, Opened
  <2>3. DeskBook(p)'
    BY <2>2 DEF DeskBook
  <2>4. \A i \in Slots : (board'[i] = board[i] /\ book'[i] = book[i]) \/ DeskBook(i)'
    BY <1>0, <2>1, <2>2, <2>3
  <2> QED BY <1>1, <2>2, <2>4
<1>10. CASE UNCHANGED vars
  BY <1>0, <1>1, <1>10 DEF vars
<1> QED BY <1>2, <1>3, <1>4, <1>5, <1>6, <1>7, <1>8, <1>9, <1>10 DEF Next

(* What the fill and the rounding of the entry can make of a grade.        *)
LEMMA SlipBounds ==
  ASSUME NEW c \in Nat, NEW settle \in Int, NEW entry \in Int, NEW debit \in Int, NEW fill \in Int,
         entry - debit \in -5 .. 5, fill - debit >= 10
  PROVE  /\ Abs((settle - entry) * c - (settle - fill) * c) <= (fill - debit + 5) * c
         /\ \A charge \in Int : fill - debit + 5 <= charge /\ (settle - entry) * c - charge * c > 0
                                  => (settle - fill) * c > 0
<1>1. PICK d \in Nat : d = fill - entry /\ d <= fill - debit + 5
  OBVIOUS
<1>2. (settle - entry) * c - (settle - fill) * c = d * c
  BY <1>1
<1>3. d * c <= (fill - debit + 5) * c /\ d * c \in Nat
  BY <1>1, TimesMono
<1>4. Abs((settle - entry) * c - (settle - fill) * c) <= (fill - debit + 5) * c
  BY <1>2, <1>3 DEF Abs
<1>5. ASSUME NEW charge \in Int, fill - debit + 5 <= charge, (settle - entry) * c - charge * c > 0
      PROVE  (settle - fill) * c > 0
  <2>1. d <= charge
    BY <1>1, <1>5
  <2>2. d * c <= charge * c
    BY <1>1, <2>1, TimesMono
  <2>3. PICK x \in Int, y \in Int, z \in Int : x = (settle - entry) * c /\ y = (settle - fill) * c /\ z = charge * c
    OBVIOUS
  <2> QED BY <1>2, <1>3, <1>5, <2>2, <2>3
<1> QED BY <1>4, <1>5

(* What is called a win made more than the costs.                          *)
LEMMA WinPays ==
  ASSUME NEW net \in Int, NEW loss \in Nat, WithinBand(net, loss) = "win"
  PROVE  net > 0
<1>1. 20 * net > loss
  BY DEF WithinBand
<1> QED BY <1>1

LEMMA BookGrade == LifeInv /\ MoneyInv /\ BookInv => GradeMatchesBook
<1>1. SUFFICES ASSUME LifeInv, MoneyInv, BookInv, NEW i \in DeskTrades, book[i].status = "closed", book[i].reason = "expiry"
      PROVE  LET p == board[i].plan
                 grade == SettleAtExpiry(SnapshotOf(i), CloseOn(Expiry(i)))
                 slipped == book[i].fill - p.debit + 5
             IN  /\ Abs(grade.gross - book[i].pnl) <= slipped * p.contracts
                 /\ grade.result = "win" /\ slipped <= ResolutionCosts(p.legs, 1, 0) => book[i].pnl > 0
  BY DEF GradeMatchesBook
<1>2. i \in Slots /\ board[i].way = "desk"
  BY <1>1 DEF DeskTrades
<1>3. PICK p, snap, close : p = board[i].plan /\ snap = SnapshotOf(i) /\ close = CloseOn(Expiry(i))
  OBVIOUS
<1>4. /\ p # NoPlan /\ PlanSound(p) /\ BoughtPlan(p) /\ Settled(i)
      /\ book[i].fill \in Int /\ book[i].fill - p.debit >= 10
  <2>1. SoundIdea(i) /\ DeskMoney(i) /\ DeskBook(i)
    BY <1>1, <1>2 DEF MoneyInv, BookInv
  <2> QED BY <1>1, <1>2, <1>3, <2>1 DEF SoundIdea, DeskMoney, DeskBook
<1>5. close \in Int
  <2>1. Placed
    BY <1>1 DEF LifeInv
  <2>2. PICK m \in 1 .. now : board[i].at[1] = Moments[m].day
    BY <1>1, <1>2, <1>3, <1>4 DEF MoneyInv, DeskMoney
  <2>3. p.dte \in Nat
    BY <1>1, <1>2, <1>3, <1>4 DEF MoneyInv, DeskMoney
  <2>4. m \in DOMAIN Moments
    BY <2>1, MomentFacts DEF Placed
  <2>5. Moments[m].day \in Nat
    BY <2>1, <2>4, MomentFacts
  <2>6. Moments[m].day <= Expiry(i)
    BY <1>3, <2>2, <2>3, <2>5 DEF Expiry
  <2> QED BY <1>3, <2>1, <2>6, CloseTyped
<1>6. /\ snap.legs = p.legs /\ snap.entry = ExitPlan(p).entry /\ snap.maxLoss = p.maxLoss /\ snap.contracts = p.contracts
  <2>1. snap = SnapshotFromShortDuration(p, board[i].direction, board[i].at, board[i].spot)
    BY <1>2, <1>3 DEF SnapshotOf
  <2>2. PICK entry, levels : entry = ExitPlan(p).entry /\ levels = Breakevens(p.strategy, p.legs)
    OBVIOUS
  <2>3. snap = Snapshot("short", p, board[i].direction, board[i].at, entry, levels, board[i].spot)
    BY <2>1, <2>2 DEF SnapshotFromShortDuration
  <2> QED BY <2>2, <2>3 DEF Snapshot
<1>7. PICK c, settle, entry, debit, fill, len :
        c = p.contracts /\ settle = SettleNet(p.legs, close) /\ entry = snap.entry /\ debit = p.debit
        /\ fill = book[i].fill /\ len = Len(p.legs)
  OBVIOUS
<1>8. /\ c \in Nat /\ settle \in Int /\ debit \in Int /\ fill \in Int /\ fill - debit >= 10 /\ len \in Nat
      /\ entry \in Int /\ entry - debit \in -5 .. 5
  <2>1. c \in Nat /\ settle \in Int /\ debit \in Int
    BY <1>4, <1>5, <1>7 DEF PlanSound
  <2>2. len \in Nat /\ entry \in Int /\ entry - debit \in -5 .. 5
    BY <1>4, <1>6, <1>7, <2>1, BoughtEntry DEF BoughtPlan
  <2> QED BY <1>4, <1>7, <2>1, <2>2
<1>9. PICK grade, charge : grade = SettleAtExpiry(snap, close) /\ charge = ResolutionCosts(p.legs, 1, 0)
  OBVIOUS
<1>10. charge \in Int /\ ResolutionCosts(p.legs, c, 0) = charge * c
  <2>1. PICK l \in Int : l = 13 * len
    BY <1>8
  <2>2. charge = l + 10
    BY <1>7, <1>9, <2>1 DEF ResolutionCosts, Most
  <2>3. ResolutionCosts(p.legs, c, 0) = l * c + c * 10
    BY <1>7, <1>8, <2>1 DEF ResolutionCosts, Most
  <2> QED BY <1>8, <2>1, <2>2, <2>3
<1>11. /\ grade.gross = (settle - entry) * c
       /\ grade.result = WithinBand((settle - entry) * c - charge * c, Risked(snap))
  <2>1. PICK costs : costs = ResolutionCosts(p.legs, c, 0)
    OBVIOUS
  <2>2. PICK gross, right : gross = (settle - entry) * c /\ right = DirectionCorrect(snap, close)
    OBVIOUS
  <2>3. Gross(snap, settle) = gross
    BY <1>6, <1>7, <2>2 DEF Gross
  <2>4. grade = Outcome(snap, "expiry_settlement", "expiry", snap.expiry, settle, costs, close)
    BY <1>6, <1>7, <1>9, <2>1 DEF SettleAtExpiry
  <2>5. grade.gross = gross /\ grade.result = WithinBand(gross - costs, Risked(snap))
    BY <2>2, <2>3, <2>4 DEF Outcome
  <2> QED BY <1>10, <2>1, <2>2, <2>5
<1>12. Risked(snap) \in Nat
  <2>1. p.maxLoss \in Nat
    BY <1>4 DEF BoughtPlan
  <2>2. Abs(entry) \in Nat
    BY <1>8 DEF Abs
  <2>3. Abs(entry) * c \in Nat
    BY <1>8, <2>2
  <2> QED BY <1>6, <1>7, <2>1, <2>3 DEF Risked
<1>13. book[i].pnl = (settle - fill) * c
  BY <1>3, <1>4, <1>7 DEF Settled
<1>14. Abs(grade.gross - book[i].pnl) <= (fill - debit + 5) * c
  BY <1>8, <1>11, <1>13, SlipBounds
<1>15. ASSUME grade.result = "win", fill - debit + 5 <= charge PROVE book[i].pnl > 0
  <2>1. PICK x \in Int, y \in Int : x = (settle - entry) * c /\ y = charge * c
    BY <1>8, <1>10
  <2>2. x - y > 0
    BY <1>11, <1>12, <1>15, <2>1, WinPays
  <2> QED BY <1>8, <1>10, <1>13, <1>15, <2>1, <2>2, SlipBounds
<1> QED BY <1>3, <1>7, <1>9, <1>14, <1>15

(* A trade of the desk held to its settlement is graded on the money it    *)
(* booked (GradeMatchesBook), whatever the tape, the chains and the spread *)
(* at the fill, while the caps of the signal book are on.                  *)
THEOREM BookedTheorem ==
  ASSUME Unconstrained = FALSE
  PROVE  Spec => []GradeMatchesBook
<1>1. LifeInv /\ LifeInv' /\ MoneyInv /\ [Next]_vars => MoneyInv'
  BY MoneyStep
<1>2. LifeInv /\ LifeInv' /\ MoneyInv /\ BookInv /\ [Next]_vars => BookInv'
  BY BookStep
<1> QED BY <1>1, <1>2, LifeAlways, MoneyInit, BookInit, BookGrade, PTL DEF Spec

-----------------------------------------------------------------------------
(* What the proxy reads of a close, and what the structure pays there.     *)

Beyond(gap, level) == level <= 0 \/ 400 * gap > level

LEMMA SizeOf ==
  ASSUME NEW x \in Int, NEW y \in Int
  PROVE  Abs(x - y) \in Nat /\ Abs(x - y) = IF x >= y THEN x - y ELSE y - x
BY DEF Abs

LEMMA OneLevel ==
  ASSUME NEW l \in Int, NEW s \in Nat, NEW strategy, NEW proxy, proxy = FromBreakevens(strategy, <<l>>, s, 25)
  PROVE  /\ strategy \in BullishSingle => /\ proxy = "loss" => s < l
                                          /\ proxy = "win" => s >= l /\ Beyond(s - l, l)
         /\ strategy \in BearishSingle => /\ proxy = "loss" => s > l
                                          /\ proxy = "win" => s <= l /\ Beyond(l - s, l)
<1>1. PICK levels : levels = <<l>> /\ levels # <<>> /\ levels[1] = l /\ Len(levels) = 1
  OBVIOUS
<1>2. PICK gap \in Nat : gap = Abs(s - l) /\ gap = IF s >= l THEN s - l ELSE l - s
  BY SizeOf
<1> DEFINE band == l > 0 /\ gap * 10000 <= 25 * l
<1>4. proxy = IF band THEN "scratch"
              ELSE IF strategy \in BullishSingle THEN IF s >= l THEN "win" ELSE "loss"
              ELSE IF strategy \in BearishSingle THEN IF s <= l THEN "win" ELSE "loss"
              ELSE proxy
  <2>1. PICK nearest : nearest = (IF Abs(s - levels[1]) <= Abs(s - levels[Len(levels)]) THEN levels[1] ELSE levels[Len(levels)])
    OBVIOUS
  <2>2. nearest = l
    BY <1>1, <2>1
  <2>3. CASE band
    <3>1. levels # <<>> /\ nearest > 0 /\ Abs(s - nearest) * 10000 <= 25 * nearest
      BY <1>1, <1>2, <2>2, <2>3
    <3>2. FromBreakevens(strategy, levels, s, 25) = "scratch"
      BY <2>1, <3>1 DEF FromBreakevens
    <3> QED BY <1>1, <2>3, <3>2
  <2>4. CASE ~band
    <3>1. levels # <<>> /\ ~(nearest > 0 /\ Abs(s - nearest) * 10000 <= 25 * nearest)
      BY <1>1, <1>2, <2>2, <2>4
    <3>2. strategy \in BullishSingle => FromBreakevens(strategy, levels, s, 25) = IF s >= levels[1] THEN "win" ELSE "loss"
      BY <2>1, <3>1 DEF FromBreakevens
    <3>3. strategy \notin BullishSingle /\ strategy \in BearishSingle =>
            FromBreakevens(strategy, levels, s, 25) = IF s <= levels[1] THEN "win" ELSE "loss"
      BY <2>1, <3>1 DEF FromBreakevens
    <3> QED BY <1>1, <2>4, <3>2, <3>3
  <2> QED BY <2>3, <2>4
<1>5. ~band => Beyond(gap, l)
  <2>1. gap * 10000 <= 25 * l <=> 400 * gap <= l
    OBVIOUS
  <2> QED BY <2>1 DEF Beyond
<1>6. strategy \in BearishSingle => strategy \notin BullishSingle
  BY DEF BullishSingle, BearishSingle
<1> HIDE DEF BullishSingle, BearishSingle
<1> HIDE DEF band
<1>7. CASE band
  BY <1>4, <1>7
<1>8. CASE ~band
  <2>1. Beyond(gap, l)
    BY <1>5, <1>8
  <2>2. strategy \in BullishSingle => proxy = IF s >= l THEN "win" ELSE "loss"
    BY <1>4, <1>8
  <2>3. strategy \in BearishSingle => proxy = IF s <= l THEN "win" ELSE "loss"
    BY <1>4, <1>6, <1>8
  <2>4. s >= l => Beyond(s - l, l)
    BY <1>2, <2>1
  <2>5. s <= l => Beyond(l - s, l)
    BY <1>2, <2>1
  <2> QED BY <2>2, <2>3, <2>4, <2>5
<1> QED BY <1>7, <1>8

LEMMA TwoLevels ==
  ASSUME NEW lo \in Int, NEW hi \in Int, lo <= hi, NEW s \in Nat, NEW strategy \in LongVol,
         NEW proxy, proxy = FromBreakevens(strategy, <<lo, hi>>, s, 25)
  PROVE  /\ proxy = "loss" => lo < s /\ s < hi
         /\ proxy = "win" => (s <= lo /\ Beyond(lo - s, lo)) \/ (s >= hi /\ Beyond(s - hi, hi))
<1>1. PICK levels : levels = <<lo, hi>> /\ levels # <<>> /\ levels[1] = lo /\ Len(levels) = 2 /\ levels[2] = hi
  OBVIOUS
<1>2. PICK a \in Nat, b \in Nat : /\ a = Abs(s - lo) /\ a = IF s >= lo THEN s - lo ELSE lo - s
                                  /\ b = Abs(s - hi) /\ b = IF s >= hi THEN s - hi ELSE hi - s
  <2>1. PICK a \in Nat : a = Abs(s - lo) /\ a = IF s >= lo THEN s - lo ELSE lo - s
    BY SizeOf
  <2>2. PICK b \in Nat : b = Abs(s - hi) /\ b = IF s >= hi THEN s - hi ELSE hi - s
    BY SizeOf
  <2> QED BY <2>1, <2>2
<1>3. PICK l \in Int, gap \in Nat : /\ l = IF a <= b THEN lo ELSE hi
                                    /\ gap = Abs(s - l) /\ gap = IF s >= l THEN s - l ELSE l - s
  <2>1. PICK l \in Int : l = IF a <= b THEN lo ELSE hi
    OBVIOUS
  <2>2. PICK gap \in Nat : gap = Abs(s - l) /\ gap = IF s >= l THEN s - l ELSE l - s
    BY SizeOf
  <2> QED BY <2>1, <2>2
<1> DEFINE band == l > 0 /\ gap * 10000 <= 25 * l
<1>5. strategy \notin BullishSingle /\ strategy \notin BearishSingle
  BY DEF LongVol, BullishSingle, BearishSingle
<1> HIDE DEF BullishSingle, BearishSingle, LongVol
<1>6. proxy = IF band THEN "scratch" ELSE IF s <= lo \/ s >= hi THEN "win" ELSE "loss"
  <2>1. PICK nearest : nearest = (IF Abs(s - levels[1]) <= Abs(s - levels[Len(levels)]) THEN levels[1] ELSE levels[Len(levels)])
    OBVIOUS
  <2>2. nearest = l
    BY <1>1, <1>2, <1>3, <2>1
  <2>3. CASE band
    <3>1. levels # <<>> /\ nearest > 0 /\ Abs(s - nearest) * 10000 <= 25 * nearest
      BY <1>1, <1>3, <2>2, <2>3
    <3>2. FromBreakevens(strategy, levels, s, 25) = "scratch"
      BY <2>1, <3>1 DEF FromBreakevens
    <3> QED BY <1>1, <2>3, <3>2
  <2>4. CASE ~band
    <3>1. levels # <<>> /\ ~(nearest > 0 /\ Abs(s - nearest) * 10000 <= 25 * nearest)
      BY <1>1, <1>3, <2>2, <2>4
    <3>2. FromBreakevens(strategy, levels, s, 25) = IF s <= levels[1] \/ s >= levels[Len(levels)] THEN "win" ELSE "loss"
      BY <1>5, <2>1, <3>1 DEF FromBreakevens
    <3> QED BY <1>1, <2>4, <3>2
  <2> QED BY <2>3, <2>4
<1>7. ~band => Beyond(gap, l)
  <2>1. gap * 10000 <= 25 * l <=> 400 * gap <= l
    OBVIOUS
  <2> QED BY <2>1 DEF Beyond
<1> HIDE DEF band
<1>8. CASE band
  BY <1>6, <1>8
<1>9. CASE ~band
  <2>1. s <= lo => Beyond(lo - s, lo)
    <3>1. s <= lo => a <= b
      BY <1>2
    <3> QED BY <1>2, <1>3, <1>7, <1>9, <3>1
  <2>2. s >= hi => Beyond(s - hi, hi)
    <3>1. s >= hi => l = hi
      BY <1>2, <1>3
    <3> QED BY <1>3, <1>7, <1>9, <3>1
  <2> QED BY <1>6, <1>9, <2>1, <2>2
<1> QED BY <1>8, <1>9

(* Legs, in any order.                                                     *)
LegGood(l) == l.buy \in BOOLEAN /\ l.call \in BOOLEAN /\ l.k \in Nat /\ l.px \in Nat
LegPay(l, s) == IF l.call THEN CallPay(l.k, s) ELSE PutPay(l.k, s)
With(l, x) == IF l.buy THEN x ELSE -x

LEMMA LegWorth ==
  ASSUME NEW l, LegGood(l), NEW s \in Int
  PROVE  Intrinsic(l, s) = LegPay(l, s) /\ LegPay(l, s) \in Nat
<1>1. PICK k \in Nat, call \in BOOLEAN : k = l.k /\ call = l.call
  BY DEF LegGood
<1>2. CallPay(k, s) \in Nat /\ PutPay(k, s) \in Nat
  BY PayFacts
<1>3. CASE call
  BY <1>1, <1>2, <1>3 DEF Intrinsic, LegPay, CallPay
<1>4. CASE ~call
  BY <1>1, <1>2, <1>4 DEF Intrinsic, LegPay, PutPay
<1> QED BY <1>3, <1>4

LEMMA SingleNet ==
  ASSUME NEW a, LegGood(a), NEW legs, legs = <<a>>
  PROVE  /\ EntryNet(legs) = With(a, a.px) /\ \A s \in Int : SettleNet(legs, s) = With(a, LegPay(a, s))
         /\ \A call, buy : Strikes(legs, call, buy) = IF a.call = call /\ a.buy = buy THEN {a.k} ELSE {}
<1>1. DOMAIN legs = {1} /\ legs[1] = a
  OBVIOUS
<1>2. EntryNet(legs) = With(a, a.px)
  BY <1>1 DEF EntryNet, NetOf, Signed, LegGood, With
<1>3. ASSUME NEW s \in Int PROVE SettleNet(legs, s) = With(a, LegPay(a, s))
  <2>1. Intrinsic(a, s) = LegPay(a, s) /\ LegPay(a, s) \in Int
    BY LegWorth
  <2> QED BY <1>1, <2>1 DEF SettleNet, NetOf, Signed, LegGood, With
<1>4. ASSUME NEW call, NEW buy PROVE Strikes(legs, call, buy) = IF a.call = call /\ a.buy = buy THEN {a.k} ELSE {}
  BY <1>1 DEF Strikes
<1> QED BY <1>2, <1>3, <1>4

LEMMA PairNet ==
  ASSUME NEW a, NEW b, LegGood(a), LegGood(b), NEW legs, legs = <<a, b>> \/ legs = <<b, a>>
  PROVE  /\ EntryNet(legs) = With(a, a.px) + With(b, b.px)
         /\ \A s \in Int : SettleNet(legs, s) = With(a, LegPay(a, s)) + With(b, LegPay(b, s))
         /\ \A call, buy :
              /\ ~(b.call = call /\ b.buy = buy) /\ a.call = call /\ a.buy = buy => Strikes(legs, call, buy) = {a.k}
              /\ ~(a.call = call /\ a.buy = buy) /\ b.call = call /\ b.buy = buy => Strikes(legs, call, buy) = {b.k}
<1>1. DOMAIN legs = {1, 2} /\ ((legs[1] = a /\ legs[2] = b) \/ (legs[1] = b /\ legs[2] = a))
  OBVIOUS
<1>2. PICK p \in Nat, q \in Nat : p = a.px /\ q = b.px
  BY DEF LegGood
<1>3. EntryNet(legs) = With(a, a.px) + With(b, b.px)
  BY <1>1, <1>2 DEF EntryNet, NetOf, Signed, LegGood, With
<1>4. ASSUME NEW s \in Int PROVE SettleNet(legs, s) = With(a, LegPay(a, s)) + With(b, LegPay(b, s))
  <2>1. PICK x \in Nat, y \in Nat : x = LegPay(a, s) /\ y = LegPay(b, s) /\ Intrinsic(a, s) = x /\ Intrinsic(b, s) = y
    BY LegWorth
  <2> QED BY <1>1, <2>1 DEF SettleNet, NetOf, Signed, LegGood, With
<1>5. ASSUME NEW call, NEW buy
      PROVE  /\ ~(b.call = call /\ b.buy = buy) /\ a.call = call /\ a.buy = buy => Strikes(legs, call, buy) = {a.k}
             /\ ~(a.call = call /\ a.buy = buy) /\ b.call = call /\ b.buy = buy => Strikes(legs, call, buy) = {b.k}
  <2>1. \A x : x \in Strikes(legs, call, buy) <=>
                 \E j \in DOMAIN legs : legs[j].call = call /\ legs[j].buy = buy /\ x = legs[j].k
    BY DEF Strikes
  <2>2. \A x : x \in Strikes(legs, call, buy) <=> \/ a.call = call /\ a.buy = buy /\ x = a.k
                                                  \/ b.call = call /\ b.buy = buy /\ x = b.k
    BY <1>1, <2>1
  <2> QED BY <2>2
<1> QED BY <1>3, <1>4, <1>5

LEMMA LoneLevel == ASSUME NEW x \in Int PROVE Lowest({x}) = x /\ Highest({x}) = x
BY DEF Lowest, Highest

(* The breakevens of what is bought.                                      *)
LEMMA CallLevel ==
  ASSUME NEW strategy, strategy = "long_call" \/ strategy = "bull_call_spread",
         NEW legs, NEW k \in Nat, Strikes(legs, TRUE, TRUE) = {k}
  PROVE  Breakevens(strategy, legs) = <<k + EntryNet(legs)>>
<1>1. {k} # {} /\ Lowest({k}) = k
  BY LoneLevel
<1> QED BY <1>1 DEF Breakevens

LEMMA PutLevel ==
  ASSUME NEW strategy, strategy = "long_put" \/ strategy = "bear_put_spread",
         NEW legs, NEW k \in Nat, Strikes(legs, FALSE, TRUE) = {k}
  PROVE  Breakevens(strategy, legs) = <<k - EntryNet(legs)>>
<1>1. {k} # {} /\ Highest({k}) = k
  BY LoneLevel
<1> QED BY <1>1 DEF Breakevens

LEMMA VolLevels ==
  ASSUME NEW strategy, NEW legs, NEW k \in Nat, NEW n \in Nat,
         Strikes(legs, TRUE, TRUE) = {k}, Strikes(legs, FALSE, TRUE) = {n},
         strategy = "long_strangle" \/ (strategy = "long_straddle" /\ k = n)
  PROVE  Breakevens(strategy, legs) = <<n - EntryNet(legs), k + EntryNet(legs)>>
<1>1. {k} # {} /\ Lowest({k}) = k /\ {n} # {} /\ Highest({n}) = n
  BY LoneLevel
<1>2. CASE strategy = "long_straddle" /\ k = n
  BY <1>1, <1>2 DEF Breakevens
<1>3. CASE strategy = "long_strangle"
  BY <1>1, <1>3 DEF Breakevens
<1> QED BY <1>2, <1>3

(* The proxy and the settlement of a structure bought for net.             *)
Reads(legs, strategy, net) ==
  LET levels == Breakevens(strategy, legs) IN
  \A s \in Nat :
    LET proxy == FromBreakevens(strategy, levels, s, 25)
        worth == SettleNet(legs, s) - net
    IN  /\ proxy = "loss" => worth <= 0
        /\ proxy = "win" => worth >= 0
        /\ \A cost \in Nat :
             /\ proxy = "win" /\ \A j \in DOMAIN levels : 400 * cost <= levels[j]
             /\ \E h \in Int : SettleNet(legs, h) >= net + cost
             => worth >= cost

LEMMA Ample ==
  ASSUME NEW gap \in Nat, NEW l \in Int, Beyond(gap, l), NEW cost \in Nat, 400 * cost <= l
  PROVE  gap >= cost
BY DEF Beyond

(* One bought option.                                                      *)
SingleShape(strategy, legs) ==
  \E a : LegGood(a) /\ legs = <<a>> /\ a.buy /\ strategy = IF a.call THEN "long_call" ELSE "long_put"

LEMMA SingleReads ==
  ASSUME NEW strategy, NEW legs, SingleShape(strategy, legs), NEW net \in Nat, net = EntryNet(legs)
  PROVE  Reads(legs, strategy, net)
<1>1. PICK a : LegGood(a) /\ legs = <<a>> /\ a.buy /\ strategy = IF a.call THEN "long_call" ELSE "long_put"
  BY DEF SingleShape
<1>2. PICK k \in Nat : k = a.k
  BY <1>1 DEF LegGood
<1>3. \A s \in Int : SettleNet(legs, s) = LegPay(a, s)
  BY <1>1, SingleNet DEF With
<1>4. PICK levels : levels = Breakevens(strategy, legs)
  OBVIOUS
<1>5. SUFFICES ASSUME NEW s \in Nat, NEW proxy, proxy = FromBreakevens(strategy, levels, s, 25),
                      NEW worth, worth = SettleNet(legs, s) - net
      PROVE  /\ proxy = "loss" => worth <= 0
             /\ proxy = "win" => worth >= 0
             /\ \A cost \in Nat :
                  proxy = "win" /\ (\A j \in DOMAIN levels : 400 * cost <= levels[j]) => worth >= cost
  BY <1>4 DEF Reads
<1>6. CASE a.call
  <2>1. PICK l \in Int : l = k + net
    OBVIOUS
  <2>2. Strikes(legs, TRUE, TRUE) = {k}
    BY <1>1, <1>2, <1>6, SingleNet DEF LegGood
  <2>3. levels = <<l>>
    <3>1. strategy = "long_call" \/ strategy = "bull_call_spread"
      BY <1>1, <1>6
    <3>2. Breakevens(strategy, legs) = <<k + EntryNet(legs)>>
      BY <2>2, <3>1, CallLevel
    <3> QED BY <1>4, <2>1, <3>2
  <2>4. /\ proxy = "loss" => s < l
        /\ proxy = "win" => s >= l /\ Beyond(s - l, l)
    BY <1>1, <1>5, <1>6, <2>3, OneLevel DEF BullishSingle
  <2>5. worth = CallPay(k, s) - net
    BY <1>2, <1>3, <1>5, <1>6 DEF LegPay
  <2>6. (s < l => worth <= 0) /\ (s >= l => worth = s - l)
    <3>1. PICK pay \in Nat : pay = CallPay(k, s) /\ pay = IF s > k THEN s - k ELSE 0
      BY DEF CallPay, Most
    <3>2. worth = pay - net
      BY <2>5, <3>1
    <3> QED BY <2>1, <3>1, <3>2
  <2>7. ASSUME NEW cost \in Nat, proxy = "win", \A j \in DOMAIN levels : 400 * cost <= levels[j] PROVE worth >= cost
    <3>1. 400 * cost <= l
      BY <2>3, <2>7
    <3> QED BY <2>4, <2>6, <2>7, <3>1, Ample
  <2> QED BY <2>4, <2>6, <2>7
<1>7. CASE ~a.call
  <2>1. PICK l \in Int : l = k - net
    OBVIOUS
  <2>2. Strikes(legs, FALSE, TRUE) = {k}
    BY <1>1, <1>2, <1>7, SingleNet DEF LegGood
  <2>3. levels = <<l>>
    <3>1. strategy = "long_put" \/ strategy = "bear_put_spread"
      BY <1>1, <1>7
    <3>2. Breakevens(strategy, legs) = <<k - EntryNet(legs)>>
      BY <2>2, <3>1, PutLevel
    <3> QED BY <1>4, <2>1, <3>2
  <2>4. /\ proxy = "loss" => s > l
        /\ proxy = "win" => s <= l /\ Beyond(l - s, l)
    BY <1>1, <1>5, <1>7, <2>3, OneLevel DEF BearishSingle
  <2>5. worth = PutPay(k, s) - net
    BY <1>2, <1>3, <1>5, <1>7 DEF LegPay
  <2>6. (s > l => worth <= 0) /\ (s <= l => worth = l - s)
    BY <2>1, <2>5 DEF PutPay, Most
  <2>7. ASSUME NEW cost \in Nat, proxy = "win", \A j \in DOMAIN levels : 400 * cost <= levels[j] PROVE worth >= cost
    <3>1. 400 * cost <= l
      BY <2>3, <2>7
    <3> QED BY <2>4, <2>6, <2>7, <3>1, Ample
  <2> QED BY <2>4, <2>6, <2>7
<1> QED BY <1>6, <1>7

(* Two legs of one type, the bought one nearer the money.                  *)
EitherWay(legs, a, b) == legs = <<a, b>> \/ legs = <<b, a>>
VerticalShape(strategy, legs) ==
  \E a, b : /\ LegGood(a) /\ LegGood(b) /\ EitherWay(legs, a, b) /\ a.buy /\ ~b.buy /\ b.call = a.call
            /\ IF a.call THEN a.k < b.k /\ strategy = "bull_call_spread" ELSE b.k < a.k /\ strategy = "bear_put_spread"

LEMMA VerticalReads ==
  ASSUME NEW strategy, NEW legs, VerticalShape(strategy, legs), NEW net \in Nat, net = EntryNet(legs),
         \E h \in Int : SettleNet(legs, h) >= net
  PROVE  Reads(legs, strategy, net)
<1>1. PICK a, b : /\ LegGood(a) /\ LegGood(b) /\ EitherWay(legs, a, b) /\ a.buy /\ ~b.buy /\ b.call = a.call
                  /\ IF a.call THEN a.k < b.k /\ strategy = "bull_call_spread"
                     ELSE b.k < a.k /\ strategy = "bear_put_spread"
  BY DEF VerticalShape
<1>2. PICK k \in Nat, n \in Nat : k = a.k /\ n = b.k
  BY <1>1 DEF LegGood
<1>3. /\ \A s \in Int : SettleNet(legs, s) = LegPay(a, s) - LegPay(b, s)
      /\ Strikes(legs, a.call, TRUE) = {k}
  <2>1. /\ \A s \in Int : SettleNet(legs, s) = With(a, LegPay(a, s)) + With(b, LegPay(b, s))
        /\ Strikes(legs, a.call, TRUE) = {k}
    <3>1. legs = <<a, b>> \/ legs = <<b, a>>
      BY <1>1 DEF EitherWay
    <3>2. a.buy = TRUE /\ b.buy = FALSE
      BY <1>1 DEF LegGood
    <3>0. LegGood(a) /\ LegGood(b)
      BY <1>1
    <3>3. \A call, buy : ~(b.call = call /\ b.buy = buy) /\ a.call = call /\ a.buy = buy => Strikes(legs, call, buy) = {a.k}
      BY <3>0, <3>1, PairNet
    <3>4. \A s \in Int : SettleNet(legs, s) = With(a, LegPay(a, s)) + With(b, LegPay(b, s))
      BY <3>0, <3>1, PairNet
    <3> QED BY <1>2, <3>2, <3>3, <3>4
  <2>2. \A s \in Int : LegPay(a, s) \in Nat /\ LegPay(b, s) \in Nat
    BY <1>1, LegWorth
  <2> QED BY <1>1, <2>1, <2>2 DEF With
<1>4. PICK levels : levels = Breakevens(strategy, legs)
  OBVIOUS
<1>5. SUFFICES ASSUME NEW s \in Nat, NEW proxy, proxy = FromBreakevens(strategy, levels, s, 25),
                      NEW worth, worth = SettleNet(legs, s) - net
      PROVE  /\ proxy = "loss" => worth <= 0
             /\ proxy = "win" => worth >= 0
             /\ \A cost \in Nat :
                  /\ proxy = "win" /\ \A j \in DOMAIN levels : 400 * cost <= levels[j]
                  /\ \E h \in Int : SettleNet(legs, h) >= net + cost
                  => worth >= cost
  BY <1>4 DEF Reads
<1>6. CASE a.call
  <2>1. PICK l \in Int : l = k + net
    OBVIOUS
  <2>2. Strikes(legs, TRUE, TRUE) = {k}
    BY <1>1, <1>3, <1>6 DEF LegGood
  <2>3. levels = <<l>>
    <3>1. strategy = "long_call" \/ strategy = "bull_call_spread"
      BY <1>1, <1>6
    <3>2. Breakevens(strategy, legs) = <<k + EntryNet(legs)>>
      BY <2>2, <3>1, CallLevel
    <3> QED BY <1>4, <2>1, <3>2
  <2>4. /\ proxy = "loss" => s < l
        /\ proxy = "win" => s >= l /\ Beyond(s - l, l)
    BY <1>1, <1>5, <1>6, <2>3, OneLevel DEF BullishSingle
  <2>5. k < n /\ \A h \in Int : SettleNet(legs, h) = CallPay(k, h) - CallPay(n, h)
    BY <1>1, <1>2, <1>3, <1>6 DEF LegPay
  <2>6. \A h \in Int : SettleNet(legs, h) \in Int /\ SettleNet(legs, h) <= n - k
    <3>1. ASSUME NEW h \in Int PROVE CallPay(k, h) - CallPay(n, h) \in Int /\ CallPay(k, h) - CallPay(n, h) <= n - k
      BY <2>5 DEF CallPay, Most
    <3> QED BY <2>5, <3>1
  <2>7. \A cost \in Nat : (\E h \in Int : SettleNet(legs, h) >= net + cost) => net + cost <= n - k
    BY <2>6
  <2>8. net <= n - k
    BY <2>6
  <2>9. worth = CallPay(k, s) - CallPay(n, s) - net
    BY <1>5, <2>5
  <2>10. s < l => worth <= 0
    BY <2>1, <2>5, <2>9 DEF CallPay, Most
  <2>11. s >= l => worth = Least(s - l, n - k - net)
    <3>1. CallPay(k, s) = (IF s > k THEN s - k ELSE 0) /\ CallPay(n, s) = (IF s > n THEN s - n ELSE 0)
      BY DEF CallPay, Most
    <3>2. Least(s - l, n - k - net) = IF s < n THEN s - l ELSE n - k - net
      BY <2>1 DEF Least
    <3> QED BY <2>1, <2>5, <2>9, <3>1, <3>2
  <2>12. ASSUME NEW cost \in Nat, proxy = "win", \A j \in DOMAIN levels : 400 * cost <= levels[j], net + cost <= n - k
         PROVE  worth >= cost
    <3>1. 400 * cost <= l
      BY <2>3, <2>12
    <3>2. s - l >= cost /\ s >= l
      BY <2>4, <2>12, <3>1, Ample
    <3> QED BY <2>11, <2>12, <3>2 DEF Least
  <2>13. s >= l => worth >= 0
    BY <2>8, <2>11 DEF Least
  <2> QED BY <2>4, <2>7, <2>10, <2>12, <2>13
<1>7. CASE ~a.call
  <2>1. PICK l \in Int : l = k - net
    OBVIOUS
  <2>2. Strikes(legs, FALSE, TRUE) = {k}
    BY <1>1, <1>3, <1>7 DEF LegGood
  <2>3. levels = <<l>>
    <3>1. strategy = "long_put" \/ strategy = "bear_put_spread"
      BY <1>1, <1>7
    <3>2. Breakevens(strategy, legs) = <<k - EntryNet(legs)>>
      BY <2>2, <3>1, PutLevel
    <3> QED BY <1>4, <2>1, <3>2
  <2>4. /\ proxy = "loss" => s > l
        /\ proxy = "win" => s <= l /\ Beyond(l - s, l)
    BY <1>1, <1>5, <1>7, <2>3, OneLevel DEF BearishSingle
  <2>5. n < k /\ \A h \in Int : SettleNet(legs, h) = PutPay(k, h) - PutPay(n, h)
    BY <1>1, <1>2, <1>3, <1>7 DEF LegPay
  <2>6. \A h \in Int : SettleNet(legs, h) \in Int /\ SettleNet(legs, h) <= k - n
    <3>1. ASSUME NEW h \in Int PROVE PutPay(k, h) - PutPay(n, h) \in Int /\ PutPay(k, h) - PutPay(n, h) <= k - n
      BY <2>5 DEF PutPay, Most
    <3> QED BY <2>5, <3>1
  <2>7. \A cost \in Nat : (\E h \in Int : SettleNet(legs, h) >= net + cost) => net + cost <= k - n
    BY <2>6
  <2>8. net <= k - n
    BY <2>6
  <2>9. worth = PutPay(k, s) - PutPay(n, s) - net
    BY <1>5, <2>5
  <2>10. s > l => worth <= 0
    BY <2>1, <2>5, <2>9 DEF PutPay, Most
  <2>11. s <= l => worth = Least(l - s, k - n - net)
    <3>1. PutPay(k, s) = (IF s < k THEN k - s ELSE 0) /\ PutPay(n, s) = (IF s < n THEN n - s ELSE 0)
      BY DEF PutPay, Most
    <3>2. Least(l - s, k - n - net) = IF s > n THEN l - s ELSE k - n - net
      BY <2>1 DEF Least
    <3> QED BY <2>1, <2>5, <2>9, <3>1, <3>2
  <2>12. ASSUME NEW cost \in Nat, proxy = "win", \A j \in DOMAIN levels : 400 * cost <= levels[j], net + cost <= k - n
         PROVE  worth >= cost
    <3>1. 400 * cost <= l
      BY <2>3, <2>12
    <3>2. l - s >= cost /\ s <= l
      BY <2>4, <2>12, <3>1, Ample
    <3> QED BY <2>11, <2>12, <3>2 DEF Least
  <2>13. s <= l => worth >= 0
    BY <2>8, <2>11 DEF Least
  <2> QED BY <2>4, <2>7, <2>10, <2>12, <2>13
<1> QED BY <1>6, <1>7

(* A bought call and a bought put.                                         *)
VolShape(strategy, legs) ==
  \E a, b : /\ LegGood(a) /\ LegGood(b) /\ EitherWay(legs, a, b) /\ a.buy /\ b.buy /\ a.call /\ ~b.call
            /\ strategy = "long_strangle" \/ (strategy = "long_straddle" /\ a.k = b.k)

LEMMA VolReads ==
  ASSUME NEW strategy, NEW legs, VolShape(strategy, legs), NEW net \in Nat, net = EntryNet(legs),
         \E h \in Int : SettleNet(legs, h) <= net
  PROVE  Reads(legs, strategy, net)
<1>1. PICK a, b : /\ LegGood(a) /\ LegGood(b) /\ EitherWay(legs, a, b) /\ a.buy /\ b.buy /\ a.call /\ ~b.call
                  /\ strategy = "long_strangle" \/ (strategy = "long_straddle" /\ a.k = b.k)
  BY DEF VolShape
<1>2. PICK k \in Nat, n \in Nat : k = a.k /\ n = b.k
  BY <1>1 DEF LegGood
<1>3. /\ \A s \in Int : SettleNet(legs, s) = CallPay(k, s) + PutPay(n, s)
      /\ Strikes(legs, TRUE, TRUE) = {k} /\ Strikes(legs, FALSE, TRUE) = {n}
  <2>1. /\ \A s \in Int : SettleNet(legs, s) = With(a, LegPay(a, s)) + With(b, LegPay(b, s))
        /\ Strikes(legs, TRUE, TRUE) = {k} /\ Strikes(legs, FALSE, TRUE) = {n}
    <3>1. legs = <<a, b>> \/ legs = <<b, a>>
      BY <1>1 DEF EitherWay
    <3>2. a.buy = TRUE /\ b.buy = TRUE /\ a.call = TRUE /\ b.call = FALSE
      BY <1>1 DEF LegGood
    <3>0. LegGood(a) /\ LegGood(b)
      BY <1>1
    <3>3. \A call, buy :
            /\ ~(b.call = call /\ b.buy = buy) /\ a.call = call /\ a.buy = buy => Strikes(legs, call, buy) = {a.k}
            /\ ~(a.call = call /\ a.buy = buy) /\ b.call = call /\ b.buy = buy => Strikes(legs, call, buy) = {b.k}
      BY <3>0, <3>1, PairNet
    <3>4. \A s \in Int : SettleNet(legs, s) = With(a, LegPay(a, s)) + With(b, LegPay(b, s))
      BY <3>0, <3>1, PairNet
    <3> QED BY <1>2, <3>2, <3>3, <3>4
  <2>2. \A s : With(a, LegPay(a, s)) = CallPay(k, s) /\ With(b, LegPay(b, s)) = PutPay(n, s)
    BY <1>1, <1>2 DEF With, LegPay
  <2> QED BY <2>1, <2>2
<1>4. PICK levels : levels = Breakevens(strategy, legs)
  OBVIOUS
<1>5. SUFFICES ASSUME NEW s \in Nat, NEW proxy, proxy = FromBreakevens(strategy, levels, s, 25),
                      NEW worth, worth = SettleNet(legs, s) - net
      PROVE  /\ proxy = "loss" => worth <= 0
             /\ proxy = "win" => worth >= 0
             /\ \A cost \in Nat :
                  proxy = "win" /\ (\A j \in DOMAIN levels : 400 * cost <= levels[j]) => worth >= cost
  BY <1>4 DEF Reads
<1>6. PICK lo \in Int, hi \in Int : lo = n - net /\ hi = k + net
  OBVIOUS
<1>7. levels = <<lo, hi>>
  <2>1. strategy = "long_strangle" \/ (strategy = "long_straddle" /\ k = n)
    BY <1>1, <1>2
  <2>2. Breakevens(strategy, legs) = <<n - EntryNet(legs), k + EntryNet(legs)>>
    BY <1>3, <2>1, VolLevels
  <2> QED BY <1>4, <1>6, <2>2
<1>8. n - k <= net
  <2>1. PICK h \in Int : SettleNet(legs, h) <= net
    OBVIOUS
  <2>2. CallPay(k, h) + PutPay(n, h) >= n - k /\ CallPay(k, h) \in Nat /\ PutPay(n, h) \in Nat
    BY DEF CallPay, PutPay, Most
  <2> QED BY <1>3, <2>1, <2>2
<1>9. lo <= hi
  BY <1>6, <1>8
<1>10. /\ proxy = "loss" => lo < s /\ s < hi
       /\ proxy = "win" => (s <= lo /\ Beyond(lo - s, lo)) \/ (s >= hi /\ Beyond(s - hi, hi))
  <2>1. strategy \in LongVol
    BY <1>1 DEF LongVol
  <2> QED BY <1>5, <1>7, <1>9, <2>1, TwoLevels
<1>11. worth = CallPay(k, s) + PutPay(n, s) - net
  <2>1. s \in Int /\ SettleNet(legs, s) = CallPay(k, s) + PutPay(n, s)
    BY <1>3
  <2>2. worth = SettleNet(legs, s) - net
    BY <1>5
  <2>3. CallPay(k, s) \in Nat /\ PutPay(n, s) \in Nat
    BY DEF CallPay, PutPay, Most
  <2> QED BY <2>1, <2>2, <2>3
<1>12. lo < s /\ s < hi => worth <= 0
  BY <1>6, <1>8, <1>11 DEF CallPay, PutPay, Most
<1>13. (s <= lo => worth >= lo - s) /\ (s >= hi => worth >= s - hi)
  BY <1>6, <1>11 DEF CallPay, PutPay, Most
<1>14. ASSUME NEW cost \in Nat, proxy = "win", \A j \in DOMAIN levels : 400 * cost <= levels[j] PROVE worth >= cost
  <2>1. 400 * cost <= lo /\ 400 * cost <= hi
    BY <1>7, <1>14
  <2>2. worth \in Int
    BY <1>11 DEF CallPay, PutPay, Most
  <2>3. CASE s <= lo /\ Beyond(lo - s, lo)
    <3>1. lo - s >= cost
      BY <2>1, <2>3, Ample
    <3> QED BY <1>13, <2>2, <2>3, <3>1
  <2>4. CASE s >= hi /\ Beyond(s - hi, hi)
    <3>1. s - hi >= cost
      BY <2>1, <2>4, Ample
    <3> QED BY <1>13, <2>2, <2>4, <3>1
  <2> QED BY <1>10, <1>14, <2>3, <2>4
<1>15. worth \in Int
  BY <1>11 DEF CallPay, PutPay, Most
<1> QED BY <1>10, <1>12, <1>13, <1>14, <1>15

-----------------------------------------------------------------------------
(* Every plan of either scan, and every position that carries the prices   *)
(* of its legs, costs nothing, never pays, or has one of those shapes.     *)
Paying(strategy, legs) ==
  \/ EntryNet(legs) <= 0
  \/ \A s \in Int : SettleNet(legs, s) \in Int /\ SettleNet(legs, s) <= 0
  \/ SingleShape(strategy, legs)
  \/ VerticalShape(strategy, legs)
  \/ VolShape(strategy, legs)
ShapedPlan(p) ==
  /\ p.contracts \in Nat /\ p.maxLoss \in Nat /\ Len(p.legs) \in Nat
  /\ p.debit \in Int /\ p.debit = EntryNet(p.legs) /\ Corners(p.legs) \subseteq Int
  /\ Paying(p.strategy, p.legs)

LEMMA LegTyped ==
  ASSUME NEW c, ContractTyped(c)
  PROVE  LegGood(Bought(c)) /\ LegGood(Sold(c))
<1>1. PICK a, b : a = Bought(c) /\ b = Sold(c)
  OBVIOUS
<1>2. LegOf(a, c) /\ LegOf(b, c) /\ a.buy = TRUE /\ b.buy = FALSE
  BY <1>1, LegFacts
<1> QED BY <1>1, <1>2 DEF LegGood, LegOf, ContractTyped

LEMMA LongShaped ==
  ASSUME NEW found, \A c \in found : ContractTyped(c), NEW ch, ch = LongChoice(found), ch # NoChoice
  PROVE  SingleShape(ch.strategy, ch.legs) /\ Len(ch.legs) \in Nat
<1>1. found # {}
  BY DEF LongChoice
<1>2. PICK c \in found : c = CHOOSE x \in found : TRUE
  BY <1>1
<1>3. PICK a, strategy : a = Bought(c) /\ strategy = IF c.call THEN "long_call" ELSE "long_put"
  OBVIOUS
<1>4. PICK dte, loss : ch = [strategy |-> strategy, legs |-> <<a>>, dte |-> dte, maxLoss |-> loss, maxProfit |-> Missing]
  BY <1>1, <1>2, <1>3 DEF LongChoice
<1>5. ch.strategy = strategy /\ ch.legs = <<a>> /\ Len(ch.legs) \in Nat
  BY <1>4
<1>6. LegGood(a) /\ a.buy /\ a.call = c.call
  BY <1>2, <1>3, LegTyped, LegFacts DEF LegOf
<1> QED BY <1>3, <1>5, <1>6 DEF SingleShape

LEMMA PairShaped ==
  ASSUME NEW found, \A p \in found : PairTyped(p), NEW ch, ch = VerticalChoice(found), ch # NoChoice
  PROVE  VerticalShape(ch.strategy, ch.legs) /\ Len(ch.legs) \in Nat
<1>1. found # {}
  BY DEF VerticalChoice
<1>2. PICK p \in found : p = CHOOSE x \in found : TRUE
  BY <1>1
<1>3. PICK c, d : c = p[1] /\ d = p[2]
  OBVIOUS
<1>4. PICK a, b, strategy : /\ a = Bought(c) /\ b = Sold(d)
                            /\ strategy = IF c.call THEN "bull_call_spread" ELSE "bear_put_spread"
  OBVIOUS
<1>5. PICK dte, loss, profit :
        ch = [strategy |-> strategy, legs |-> <<a, b>>, dte |-> dte, maxLoss |-> loss, maxProfit |-> profit]
  BY <1>1, <1>2, <1>3, <1>4 DEF VerticalChoice
<1>6. ch.strategy = strategy /\ ch.legs = <<a, b>> /\ Len(ch.legs) \in Nat
  BY <1>5
<1>7. /\ ContractTyped(c) /\ ContractTyped(d) /\ d.call = c.call
      /\ IF c.call THEN d.k > c.k ELSE d.k < c.k
  BY <1>2, <1>3 DEF PairTyped
<1>8. /\ LegGood(a) /\ LegGood(b) /\ a.buy /\ ~b.buy
      /\ a.call = c.call /\ b.call = d.call /\ a.k = c.k /\ b.k = d.k
  <2>1. LegGood(a) /\ LegGood(b)
    BY <1>4, <1>7, LegTyped
  <2>2. LegOf(a, c) /\ LegOf(b, d) /\ a.buy = TRUE /\ b.buy = FALSE
    BY <1>4, LegFacts
  <2> QED BY <2>1, <2>2 DEF LegOf
<1>9. c.k \in Nat /\ d.k \in Nat
  BY <1>7 DEF ContractTyped
<1>10. IF a.call THEN a.k < b.k /\ strategy = "bull_call_spread" ELSE b.k < a.k /\ strategy = "bear_put_spread"
  BY <1>4, <1>7, <1>8, <1>9
<1>11. b.call = a.call /\ EitherWay(ch.legs, a, b)
  BY <1>6, <1>7, <1>8 DEF EitherWay
<1>12. VerticalShape(strategy, ch.legs)
  BY <1>8, <1>10, <1>11, Zenon DEF VerticalShape
<1> QED BY <1>6, <1>12

LEMMA VolShaped ==
  ASSUME NEW c, NEW d, ContractTyped(c), ContractTyped(d), c.call, ~d.call, NEW cap,
         NEW strategy, strategy = "long_strangle" \/ (strategy = "long_straddle" /\ c.k = d.k),
         NEW ch, ch = LongVolChoice(strategy, c, d, cap), ch # NoChoice
  PROVE  VolShape(ch.strategy, ch.legs) /\ Len(ch.legs) \in Nat
<1>1. PICK a, b : a = Bought(c) /\ b = Bought(d)
  OBVIOUS
<1>2. ch.strategy = strategy /\ ch.legs = <<a, b>> /\ Len(ch.legs) \in Nat
  BY <1>1 DEF LongVolChoice
<1>3. /\ LegGood(a) /\ LegGood(b) /\ a.buy /\ b.buy /\ a.call /\ ~b.call /\ a.k = c.k /\ b.k = d.k
  <2>1. LegGood(a) /\ LegGood(b)
    BY <1>1, LegTyped
  <2>2. LegOf(a, c) /\ LegOf(b, d) /\ a.buy = TRUE /\ b.buy = TRUE
    BY <1>1, LegFacts
  <2> QED BY <2>1, <2>2 DEF LegOf
<1>4. EitherWay(ch.legs, a, b) /\ (strategy = "long_strangle" \/ (strategy = "long_straddle" /\ a.k = b.k))
  BY <1>2, <1>3 DEF EitherWay
<1>5. VolShape(strategy, ch.legs)
  BY <1>3, <1>4, Zenon DEF VolShape
<1> QED BY <1>2, <1>5

LEMMA StrangleShaped ==
  ASSUME NEW chain, ChainKnown(chain), NEW cap, NEW sel, NEW liq,
         NEW ch, ch = Strangle(chain, cap, sel, liq), ch # NoChoice
  PROVE  VolShape(ch.strategy, ch.legs) /\ Len(ch.legs) \in Nat
<1> DEFINE dte == ChooseExpiration(chain, sel)
           pairs == LiquidByDelta(chain, TRUE, dte, 30, liq) \X LiquidByDelta(chain, FALSE, dte, 30, liq)
<1>1. pairs # {} /\ ch = LET p == CHOOSE q \in pairs : TRUE IN LongVolChoice("long_strangle", p[1], p[2], cap)
  BY DEF Strangle
<1>2. \A p \in pairs : ContractTyped(p[1]) /\ ContractTyped(p[2]) /\ p[1].call /\ ~p[2].call
  <2>1. \A c \in LiquidByDelta(chain, TRUE, dte, 30, liq) : ContractTyped(c) /\ c.call = TRUE
    BY NearTyped, Zenon
  <2>2. \A c \in LiquidByDelta(chain, FALSE, dte, 30, liq) : ContractTyped(c) /\ c.call = FALSE
    BY NearTyped, Zenon
  <2> HIDE DEF dte
  <2> QED BY <2>1, <2>2
<1> HIDE DEF pairs
<1>3. PICK p \in pairs : p = CHOOSE q \in pairs : TRUE
  BY <1>1
<1>4. PICK c, d : c = p[1] /\ d = p[2]
  OBVIOUS
<1>5. ch = LongVolChoice("long_strangle", c, d, cap)
  BY <1>1, <1>3, <1>4
<1>6. ContractTyped(c) /\ ContractTyped(d) /\ c.call /\ ~d.call
  BY <1>2, <1>4
<1> QED BY <1>5, <1>6, VolShaped

LEMMA FirstsOne ==
  ASSUME NEW S, S \subseteq Nat, NEW score
  PROVE  \A i, j \in FirstLeast(S, score) : i = j
<1>1. PICK f : FirstLeast(S, score) = FirstBest(S, f)
  BY Zenon DEF FirstLeast
<1>2. \A i \in FirstBest(S, f) : i \in Topmost(S, f) /\ \A j \in Topmost(S, f) : i <= j
  BY DEF FirstBest, FirstOf
<1>3. Topmost(S, f) \subseteq Nat
  <2>1. Topmost(S, f) \subseteq S
    BY DEF Topmost
  <2> QED BY <2>1
<1>4. ASSUME NEW i \in FirstBest(S, f), NEW j \in FirstBest(S, f) PROVE i = j
  <2>1. i \in Nat /\ j \in Nat /\ i <= j /\ j <= i
    BY <1>2, <1>3
  <2> QED BY <2>1
<1> QED BY <1>1, <1>4

LEMMA StraddleShaped ==
  ASSUME NEW chain, ChainKnown(chain), NEW cap, NEW sel, NEW liq,
         NEW ch, ch = Straddle(chain, cap, sel, liq), ch # NoChoice
  PROVE  VolShape(ch.strategy, ch.legs) /\ Len(ch.legs) \in Nat
<1> DEFINE list == chain.list
           dte == ChooseExpiration(chain, sel)
           calls == {i \in Listed(chain) : list[i].call /\ list[i].dte = dte /\ Liquid(list[i], liq)}
           near == FirstLeast(calls, [i \in calls |-> Abs(list[i].k - chain.spot)])
           puts == {i \in Listed(chain) : /\ ~list[i].call /\ list[i].dte = dte /\ Liquid(list[i], liq)
                                          /\ \E j \in near : list[i].k = list[j].k}
           pairs == near \X FirstOf(puts)
<1>1. pairs # {} /\ ch = LET p == CHOOSE q \in pairs : TRUE IN
                         LongVolChoice("long_straddle", list[p[1]], list[p[2]], cap)
  BY DEF Straddle
<1>2. near \subseteq calls
  BY FirstsIn
<1>3. FirstOf(puts) \subseteq puts
  BY DEF FirstOf
<1>4. /\ \A i \in calls : ContractTyped(list[i]) /\ list[i].call
      /\ \A i \in puts : ContractTyped(list[i]) /\ ~list[i].call /\ \E j \in near : list[i].k = list[j].k
  BY KnownTyped
<1>5. \A i, j \in near : i = j
  <2>1. calls \subseteq Nat
    BY ChainsAssumption DEF Listed, ChainKnown
  <2> HIDE DEF calls
  <2> QED BY <2>1, FirstsOne
<1> HIDE DEF near, puts, calls, list
<1>6. \A p \in pairs : /\ ContractTyped(list[p[1]]) /\ ContractTyped(list[p[2]])
                       /\ list[p[1]].call /\ ~list[p[2]].call /\ list[p[1]].k = list[p[2]].k
  BY <1>2, <1>3, <1>4, <1>5
<1> HIDE DEF pairs
<1>7. PICK p \in pairs : p = CHOOSE q \in pairs : TRUE
  BY <1>1
<1>8. PICK c, d : c = list[p[1]] /\ d = list[p[2]]
  OBVIOUS
<1>9. ch = LongVolChoice("long_straddle", c, d, cap)
  BY <1>1, <1>7, <1>8
<1>10. ContractTyped(c) /\ ContractTyped(d) /\ c.call /\ ~d.call /\ c.k = d.k
  BY <1>6, <1>8
<1> QED BY <1>9, <1>10, VolShaped

ShapedChoice(ch) == Paying(ch.strategy, ch.legs) /\ Len(ch.legs) \in Nat

LEMMA LongPaying ==
  ASSUME NEW chain, ChainKnown(chain), NEW bullish, NEW sel, NEW liq, NEW prefer,
         NEW ch, ch = LongChoice(SelectLong(chain, bullish, sel, liq, prefer)), ch # NoChoice
  PROVE  ShapedChoice(ch)
<1>1. PICK found : found = SelectLong(chain, bullish, sel, liq, prefer) /\ \A c \in found : ContractTyped(c)
  BY LongFound
<1>2. SingleShape(ch.strategy, ch.legs) /\ Len(ch.legs) \in Nat
  BY <1>1, LongShaped
<1> QED BY <1>2 DEF ShapedChoice, Paying

LEMMA PairPaying ==
  ASSUME NEW chain, ChainKnown(chain), NEW bullish, NEW cap, NEW sel, NEW liq,
         NEW ch, ch = VerticalChoice(SelectVertical(chain, bullish, cap, sel, liq)), ch # NoChoice
  PROVE  ShapedChoice(ch)
<1>1. PICK found : found = SelectVertical(chain, bullish, cap, sel, liq) /\ \A p \in found : PairTyped(p)
  BY PairFound
<1>2. VerticalShape(ch.strategy, ch.legs) /\ Len(ch.legs) \in Nat
  BY <1>1, PairShaped
<1> QED BY <1>2 DEF ShapedChoice, Paying

(* Every structure the core scan tries has one of the shapes or is a       *)
(* credit.                                                                 *)
LEMMA KindShaped ==
  ASSUME NEW chain, ChainKnown(chain), NEW bullish \in BOOLEAN, NEW cap,
         NEW kind \in {"debit", "long", "credit", "condor", "strangle", "straddle"},
         NEW ch, ch = Choice(kind, chain, bullish, cap), ch # NoChoice
  PROVE  ShapedChoice(ch)
<1>1. CASE kind = "debit"
  <2>1. ch = VerticalChoice(SelectVertical(chain, bullish, cap, CoreSel, CoreLiq))
    BY <1>1 DEF Choice
  <2> QED BY <2>1, PairPaying
<1>2. CASE kind = "long"
  <2>1. ch = LongChoice(SelectLong(chain, bullish, CoreSel, CoreLiq, 0))
    BY <1>2 DEF Choice
  <2> QED BY <2>1, LongPaying
<1>3. CASE kind = "credit"
  <2>1. ch = CreditVertical(chain, bullish, cap, CoreSel, CoreLiq)
    BY <1>3 DEF Choice
  <2>2. EntryNet(ch.legs) <= 0 /\ Len(ch.legs) \in Nat
    BY <2>1, CreditSound
  <2> QED BY <2>2 DEF ShapedChoice, Paying
<1>4. CASE kind = "condor"
  <2>1. ch = IronCondor(chain, cap, CoreSel, CoreLiq)
    BY <1>4 DEF Choice
  <2>2. EntryNet(ch.legs) <= 0 /\ Len(ch.legs) \in Nat
    BY <2>1, CondorSound
  <2> QED BY <2>2 DEF ShapedChoice, Paying
<1>5. CASE kind = "strangle"
  <2>1. ch = Strangle(chain, cap, CoreSel, CoreLiq)
    BY <1>5 DEF Choice
  <2>2. VolShape(ch.strategy, ch.legs) /\ Len(ch.legs) \in Nat
    BY <2>1, StrangleShaped
  <2> QED BY <2>2 DEF ShapedChoice, Paying
<1>6. CASE kind = "straddle"
  <2>1. ch = Straddle(chain, cap, CoreSel, CoreLiq)
    BY <1>6 DEF Choice
  <2>2. VolShape(ch.strategy, ch.legs) /\ Len(ch.legs) \in Nat
    BY <2>1, StraddleShaped
  <2> QED BY <2>2 DEF ShapedChoice, Paying
<1> QED BY <1>1, <1>2, <1>3, <1>4, <1>5, <1>6

LEMMA SizedShaped ==
  ASSUME NEW ch, ch # NoChoice => ChoiceSound(ch) /\ ShapedChoice(ch),
         NEW pol, PolicyTyped(pol), NEW open \in Int,
         NEW plan, plan = SizedPlan(ch, pol, open), plan # NoPlan
  PROVE  ShapedPlan(plan)
<1>1. PICK n : n = SizeByDefinedRisk(ch.maxLoss, pol, open).contracts
  OBVIOUS
<1>2. ch # NoChoice /\ plan = Sized(ch, n, pol)
  BY <1>1 DEF SizedPlan
<1>3. PICK profit, net : profit = (IF ch.maxProfit = Missing THEN Missing ELSE ch.maxProfit * n) /\ net = EntryNet(ch.legs)
  OBVIOUS
<1>4. /\ ~(n < 1) /\ plan.maxLoss = ch.maxLoss * n /\ plan.legs = ch.legs /\ plan.strategy = ch.strategy
      /\ plan.contracts = n /\ plan.debit = net
  BY <1>2, <1>3 DEF Sized
<1>5. ch.maxLoss \in Int /\ net \in Int /\ Corners(ch.legs) \subseteq Int
  BY <1>2, <1>3 DEF ChoiceSound
<1>6. n \in Nat /\ ch.maxLoss * n \in Int
  BY <1>1, <1>4, <1>5, SizeFacts
<1>7. ch.maxLoss > 0
  <2>1. CASE ch.maxLoss <= 0
    BY <1>1, <1>4, <2>1 DEF SizeByDefinedRisk
  <2> QED BY <1>5, <2>1
<1>8. plan.maxLoss \in Nat
  BY <1>4, <1>5, <1>6, <1>7
<1>9. Paying(plan.strategy, plan.legs) /\ Len(plan.legs) \in Nat
  BY <1>2, <1>4 DEF ShapedChoice
<1> QED BY <1>3, <1>4, <1>5, <1>6, <1>8, <1>9 DEF ShapedPlan

LEMMA CoreShaped ==
  ASSUME NEW chain, ChainKnown(chain), NEW direction, NEW ivRank, NEW catalyst,
         NEW plan, plan = BuildBestPlan(chain, direction, ivRank, catalyst, CorePolicy, 0), plan # NoPlan
  PROVE  ShapedPlan(plan)
<1>1. PolicyTyped(CorePolicy)
  BY DEF CorePolicy, PolicyTyped
<1>2. PICK kind, bullish, cap :
        /\ kind \in {"debit", "long", "credit", "condor", "strangle", "straddle"} /\ bullish \in BOOLEAN
        /\ plan = SizedPlan(Choice(kind, chain, bullish, cap), CorePolicy, 0)
  BY CoreFrom
<1>3. PICK ch : ch = Choice(kind, chain, bullish, cap)
  OBVIOUS
<1>4. ch # NoChoice => ChoiceSound(ch) /\ ShapedChoice(ch)
  BY <1>2, <1>3, KindSound, KindShaped
<1>5. plan = SizedPlan(ch, CorePolicy, 0)
  BY <1>2, <1>3
<1> QED BY <1>1, <1>4, <1>5, SizedShaped

LEMMA DeskShaped ==
  ASSUME NEW chain, ChainKnown(chain), NEW bullish, NEW bucket, NEW prefer,
         NEW zero, NEW equity \in Int, NEW open \in Int,
         NEW plan \in ShortExpressions(chain, bullish, bucket, prefer, ShortPolicy(zero, equity, FALSE), open)
  PROVE  ShapedPlan(plan)
<1>1. PICK sel, liq, pol : sel = ShortSel(bucket) /\ liq = ShortLiq(bucket) /\ pol = ShortPolicy(zero, equity, FALSE)
  OBVIOUS
<1>2. PolicyTyped(pol)
  BY <1>1 DEF ShortPolicy, CorePolicy, PolicyTyped
<1>3. PICK ch : /\ \/ ch = LongChoice(SelectLong(chain, bullish, sel, liq, prefer))
                   \/ ch = VerticalChoice(SelectVertical(chain, bullish, MaxTradeRisk(pol), sel, liq))
                /\ plan = SizedPlan(ch, pol, open) /\ plan # NoPlan
  BY <1>1 DEF ShortExpressions
<1>4. ch # NoChoice => ChoiceSound(ch) /\ ShapedChoice(ch)
  <2>1. ch # NoChoice => ChoiceSound(ch)
    BY <1>3, LongFits, PairFits
  <2>2. ch # NoChoice => ShapedChoice(ch)
    BY <1>3, LongPaying, PairPaying
  <2> QED BY <2>1, <2>2
<1> QED BY <1>2, <1>3, <1>4, SizedShaped

(* The legs a form or a broker gives, priced: one or two of them, and what *)
(* they are called says which way round they are.                          *)
LEMMA OneNamed ==
  ASSUME NEW a, LegGood(a), NEW legs, legs = <<a>>
  PROVE  Paying(Infer(legs), legs)
<1>1. PICK px \in Nat : px = a.px
  BY DEF LegGood
<1>2. CASE a.buy
  <2>1. Infer(legs) = IF a.call THEN "long_call" ELSE "long_put"
    <3>1. Len(legs) = 1 /\ legs[1] = a
      OBVIOUS
    <3> QED BY <3>1 DEF Infer
  <2>2. SingleShape(Infer(legs), legs)
    BY <1>2, <2>1 DEF SingleShape
  <2> QED BY <2>2 DEF Paying
<1>3. CASE ~a.buy
  <2>1. EntryNet(legs) = -px
    BY <1>1, <1>3, SingleNet DEF With
  <2>2. EntryNet(legs) <= 0
    BY <2>1
  <2> QED BY <2>2 DEF Paying
<1> QED BY <1>2, <1>3

(* What a pair is called, from which leg is bought and which type each is. *)
LEMMA StrikesOfPair ==
  ASSUME NEW a, NEW b, NEW legs, EitherWay(legs, a, b)
  PROVE  \A call, buy, x : x \in Strikes(legs, call, buy) <=>
            (a.call = call /\ a.buy = buy /\ x = a.k) \/ (b.call = call /\ b.buy = buy /\ x = b.k)
<1>1. DOMAIN legs = {1, 2} /\ ((legs[1] = a /\ legs[2] = b) \/ (legs[1] = b /\ legs[2] = a))
  BY DEF EitherWay
<1>2. SUFFICES ASSUME NEW call, NEW buy, NEW x
               PROVE  x \in Strikes(legs, call, buy) <=>
            (a.call = call /\ a.buy = buy /\ x = a.k) \/ (b.call = call /\ b.buy = buy /\ x = b.k)
  OBVIOUS
<1>3. x \in Strikes(legs, call, buy) <=> \E j \in DOMAIN legs : legs[j].call = call /\ legs[j].buy = buy /\ x = legs[j].k
  BY DEF Strikes
<1> QED BY <1>1, <1>3

Only(S) == CHOOSE k \in S : TRUE
LEMMA OnlyOne == ASSUME NEW x PROVE Only({x}) = x
BY DEF Only

LEMMA InferTwo ==
  ASSUME NEW legs, Len(legs) = 2, NEW calls, NEW puts, NEW soldCalls, NEW soldPuts,
         calls = Strikes(legs, TRUE, TRUE), soldCalls = Strikes(legs, TRUE, FALSE),
         puts = Strikes(legs, FALSE, TRUE), soldPuts = Strikes(legs, FALSE, FALSE)
  PROVE  Infer(legs) =
           IF calls # {} /\ soldCalls # {} /\ Only(calls) < Only(soldCalls) THEN "bull_call_spread"
           ELSE IF calls # {} /\ soldCalls # {} /\ Only(calls) > Only(soldCalls) THEN "bear_call_spread"
           ELSE IF puts # {} /\ soldPuts # {} /\ Only(puts) > Only(soldPuts) THEN "bear_put_spread"
           ELSE IF puts # {} /\ soldPuts # {} /\ Only(puts) < Only(soldPuts) THEN "bull_put_spread"
           ELSE IF calls # {} /\ puts # {} THEN IF calls = puts THEN "long_straddle" ELSE "long_strangle"
           ELSE "unsupported"
<1>1. Len(legs) # 1
  OBVIOUS
<1> QED BY <1>1 DEF Infer, Only

LEMMA SoldPairNamed ==
  ASSUME NEW a, NEW b, LegGood(a), LegGood(b), a.buy, ~b.buy, NEW legs, EitherWay(legs, a, b),
         Infer(legs) # "unsupported"
  PROVE  Paying(Infer(legs), legs)
<1>1. PICK k \in Nat, n \in Nat, c \in BOOLEAN, d \in BOOLEAN : k = a.k /\ n = b.k /\ c = a.call /\ d = b.call
  BY DEF LegGood
<1>2. a.buy = TRUE /\ b.buy = FALSE /\ Len(legs) = 2
  BY DEF LegGood, EitherWay
<1>s. /\ (a.call = TRUE <=> c) /\ (a.call = FALSE <=> ~c) /\ (b.call = TRUE <=> d) /\ (b.call = FALSE <=> ~d)
      /\ a.buy # FALSE /\ b.buy # TRUE
  BY <1>1, <1>2
<1>3. PICK calls, puts, soldCalls, soldPuts :
        /\ calls = Strikes(legs, TRUE, TRUE) /\ soldCalls = Strikes(legs, TRUE, FALSE)
        /\ puts = Strikes(legs, FALSE, TRUE) /\ soldPuts = Strikes(legs, FALSE, FALSE)
  OBVIOUS
<1>4. /\ calls = (IF c THEN {k} ELSE {}) /\ puts = (IF c THEN {} ELSE {k})
      /\ soldCalls = (IF d THEN {n} ELSE {}) /\ soldPuts = (IF d THEN {} ELSE {n})
  <2>0. \A call, buy, x : x \in Strikes(legs, call, buy) <=>
            (a.call = call /\ a.buy = buy /\ x = a.k) \/ (b.call = call /\ b.buy = buy /\ x = b.k)
    BY StrikesOfPair, Zenon
  <2>1. \A x : x \in Strikes(legs, TRUE, TRUE) <=> c /\ x = k
    <3>1. \A x : x \in Strikes(legs, TRUE, TRUE) <=>
            (a.call = TRUE /\ a.buy = TRUE /\ x = a.k) \/ (b.call = TRUE /\ b.buy = TRUE /\ x = b.k)
      BY <2>0
    <3> QED BY <1>1, <1>2, <1>s, <3>1
  <2>2. \A x : x \in Strikes(legs, FALSE, TRUE) <=> ~c /\ x = k
    <3>1. \A x : x \in Strikes(legs, FALSE, TRUE) <=>
            (a.call = FALSE /\ a.buy = TRUE /\ x = a.k) \/ (b.call = FALSE /\ b.buy = TRUE /\ x = b.k)
      BY <2>0
    <3> QED BY <1>1, <1>2, <1>s, <3>1
  <2>3. \A x : x \in Strikes(legs, TRUE, FALSE) <=> d /\ x = n
    <3>1. \A x : x \in Strikes(legs, TRUE, FALSE) <=>
            (a.call = TRUE /\ a.buy = FALSE /\ x = a.k) \/ (b.call = TRUE /\ b.buy = FALSE /\ x = b.k)
      BY <2>0
    <3> QED BY <1>1, <1>2, <1>s, <3>1
  <2>4. \A x : x \in Strikes(legs, FALSE, FALSE) <=> ~d /\ x = n
    <3>1. \A x : x \in Strikes(legs, FALSE, FALSE) <=>
            (a.call = FALSE /\ a.buy = FALSE /\ x = a.k) \/ (b.call = FALSE /\ b.buy = FALSE /\ x = b.k)
      BY <2>0
    <3> QED BY <1>1, <1>2, <1>s, <3>1
  <2> QED BY <1>3, <2>1, <2>2, <2>3, <2>4
<1>5. Infer(legs) = IF c /\ d /\ k < n THEN "bull_call_spread" ELSE IF c /\ d /\ k > n THEN "bear_call_spread"
                    ELSE IF ~c /\ ~d /\ k > n THEN "bear_put_spread" ELSE IF ~c /\ ~d /\ k < n THEN "bull_put_spread"
                    ELSE "unsupported"
  <2>1. Only({k}) = k /\ Only({n}) = n
    BY OnlyOne
  <2>2. Infer(legs) =
           IF calls # {} /\ soldCalls # {} /\ Only(calls) < Only(soldCalls) THEN "bull_call_spread"
           ELSE IF calls # {} /\ soldCalls # {} /\ Only(calls) > Only(soldCalls) THEN "bear_call_spread"
           ELSE IF puts # {} /\ soldPuts # {} /\ Only(puts) > Only(soldPuts) THEN "bear_put_spread"
           ELSE IF puts # {} /\ soldPuts # {} /\ Only(puts) < Only(soldPuts) THEN "bull_put_spread"
           ELSE IF calls # {} /\ puts # {} THEN IF calls = puts THEN "long_straddle" ELSE "long_strangle"
           ELSE "unsupported"
    BY <1>2, <1>3, InferTwo
  <2>3. {k} # {} /\ {n} # {}
    OBVIOUS
  <2>4. CASE c /\ d
    BY <1>4, <2>1, <2>2, <2>3, <2>4
  <2>5. CASE ~c /\ ~d
    BY <1>4, <2>1, <2>2, <2>3, <2>5
  <2>6. CASE c # d
    BY <1>4, <2>2, <2>6
  <2> QED BY <2>4, <2>5, <2>6
<1>6. c = d /\ k # n
  BY <1>5
<1>7. CASE IF c THEN k < n ELSE n < k
  <2>1. IF a.call THEN a.k < b.k /\ Infer(legs) = "bull_call_spread" ELSE b.k < a.k /\ Infer(legs) = "bear_put_spread"
    BY <1>1, <1>5, <1>6, <1>7
  <2>2. b.call = a.call
    BY <1>1, <1>6
  <2>3. VerticalShape(Infer(legs), legs)
    BY <2>1, <2>2, Zenon DEF VerticalShape
  <2> QED BY <2>3 DEF Paying
<1>8. CASE IF c THEN n <= k ELSE k <= n
  <2>1. ASSUME NEW s \in Int PROVE SettleNet(legs, s) \in Int /\ SettleNet(legs, s) <= 0
    <3>1. legs = <<a, b>> \/ legs = <<b, a>>
      BY DEF EitherWay
    <3>2. SettleNet(legs, s) = With(a, LegPay(a, s)) + With(b, LegPay(b, s))
      BY <3>1, PairNet
    <3>3. LegPay(a, s) \in Nat /\ LegPay(b, s) \in Nat
      BY LegWorth
    <3>4. SettleNet(legs, s) = LegPay(a, s) - LegPay(b, s)
      BY <1>2, <3>2, <3>3 DEF With
    <3>5. LegPay(a, s) <= LegPay(b, s)
      BY <1>1, <1>6, <1>8 DEF LegPay, CallPay, PutPay, Most
    <3> QED BY <3>3, <3>4, <3>5
  <2> QED BY <2>1 DEF Paying
<1> QED BY <1>7, <1>8

LEMMA BoughtPairNamed ==
  ASSUME NEW a, NEW b, LegGood(a), LegGood(b), a.buy, b.buy, NEW legs, EitherWay(legs, a, b),
         Infer(legs) # "unsupported"
  PROVE  Paying(Infer(legs), legs)
<1>1. PICK k \in Nat, n \in Nat, c \in BOOLEAN, d \in BOOLEAN : k = a.k /\ n = b.k /\ c = a.call /\ d = b.call
  BY DEF LegGood
<1>2. a.buy = TRUE /\ b.buy = TRUE /\ Len(legs) = 2
  BY DEF LegGood, EitherWay
<1>s. /\ (a.call = TRUE <=> c) /\ (a.call = FALSE <=> ~c) /\ (b.call = TRUE <=> d) /\ (b.call = FALSE <=> ~d)
      /\ a.buy # FALSE /\ b.buy # FALSE
  BY <1>1, <1>2
<1>3. PICK calls, puts : calls = Strikes(legs, TRUE, TRUE) /\ puts = Strikes(legs, FALSE, TRUE)
  OBVIOUS
<1>4. /\ \A x : x \in calls <=> (c /\ x = k) \/ (d /\ x = n)
      /\ \A x : x \in puts <=> (~c /\ x = k) \/ (~d /\ x = n)
      /\ Strikes(legs, TRUE, FALSE) = {} /\ Strikes(legs, FALSE, FALSE) = {}
  <2>0. \A call, buy, x : x \in Strikes(legs, call, buy) <=>
            (a.call = call /\ a.buy = buy /\ x = a.k) \/ (b.call = call /\ b.buy = buy /\ x = b.k)
    BY StrikesOfPair, Zenon
  <2>1. \A x : x \in Strikes(legs, TRUE, TRUE) <=> (c /\ x = k) \/ (d /\ x = n)
    <3>1. \A x : x \in Strikes(legs, TRUE, TRUE) <=>
            (a.call = TRUE /\ a.buy = TRUE /\ x = a.k) \/ (b.call = TRUE /\ b.buy = TRUE /\ x = b.k)
      BY <2>0
    <3> QED BY <1>1, <1>2, <1>s, <3>1
  <2>2. \A x : x \in Strikes(legs, FALSE, TRUE) <=> (~c /\ x = k) \/ (~d /\ x = n)
    <3>1. \A x : x \in Strikes(legs, FALSE, TRUE) <=>
            (a.call = FALSE /\ a.buy = TRUE /\ x = a.k) \/ (b.call = FALSE /\ b.buy = TRUE /\ x = b.k)
      BY <2>0
    <3> QED BY <1>1, <1>2, <1>s, <3>1
  <2>3. \A x : x \in Strikes(legs, TRUE, FALSE) <=> FALSE
    <3>1. \A x : x \in Strikes(legs, TRUE, FALSE) <=>
            (a.call = TRUE /\ a.buy = FALSE /\ x = a.k) \/ (b.call = TRUE /\ b.buy = FALSE /\ x = b.k)
      BY <2>0
    <3> QED BY <1>1, <1>2, <1>s, <3>1
  <2>4. \A x : x \in Strikes(legs, FALSE, FALSE) <=> FALSE
    <3>1. \A x : x \in Strikes(legs, FALSE, FALSE) <=>
            (a.call = FALSE /\ a.buy = FALSE /\ x = a.k) \/ (b.call = FALSE /\ b.buy = FALSE /\ x = b.k)
      BY <2>0
    <3> QED BY <1>1, <1>2, <1>s, <3>1
  <2> QED BY <1>3, <2>1, <2>2, <2>3, <2>4
<1>5. /\ Infer(legs) = IF calls # {} /\ puts # {} THEN IF calls = puts THEN "long_straddle" ELSE "long_strangle"
                       ELSE "unsupported"
      /\ (c /\ ~d) \/ (d /\ ~c)
  <2>1. Infer(legs) = IF calls # {} /\ puts # {} THEN IF calls = puts THEN "long_straddle" ELSE "long_strangle"
                       ELSE "unsupported"
    BY <1>2, <1>3, <1>4, InferTwo
  <2>2. calls # {} /\ puts # {}
    BY <2>1
  <2> QED BY <1>4, <2>1, <2>2
<1>6. Infer(legs) = "long_strangle" \/ (Infer(legs) = "long_straddle" /\ k = n)
  <2>1. calls = puts => k = n
    <3>1. CASE c /\ ~d
      <4>1. k \in calls /\ (k \in puts <=> k = n)
        BY <1>4, <3>1
      <4> QED BY <4>1
    <3>2. CASE d /\ ~c
      <4>1. n \in calls /\ (n \in puts <=> k = n)
        BY <1>4, <3>2
      <4> QED BY <4>1
    <3> QED BY <1>5, <3>1, <3>2
  <2> QED BY <1>5, <2>1
<1>7. VolShape(Infer(legs), legs)
  <2>1. CASE c /\ ~d
    BY <1>1, <1>6, <2>1, Zenon DEF VolShape
  <2>2. CASE d /\ ~c
    <3>1. EitherWay(legs, b, a)
      BY DEF EitherWay
    <3> QED BY <1>1, <1>6, <2>2, <3>1, Zenon DEF VolShape
  <2> QED BY <1>5, <2>1, <2>2
<1> QED BY <1>7 DEF Paying

(* Two sold legs are a credit.                                             *)
LEMMA PairNamed ==
  ASSUME NEW a, NEW b, LegGood(a), LegGood(b), NEW legs, legs = <<a, b>>, Infer(legs) # "unsupported"
  PROVE  Paying(Infer(legs), legs)
<1>1. EitherWay(legs, a, b) /\ EitherWay(legs, b, a)
  BY DEF EitherWay
<1>2. CASE ~a.buy /\ ~b.buy
  <2>1. EntryNet(legs) = With(a, a.px) + With(b, b.px)
    BY PairNet
  <2>2. EntryNet(legs) <= 0
    BY <1>2, <2>1 DEF With, LegGood
  <2> QED BY <2>2 DEF Paying
<1> QED BY <1>1, <1>2, SoldPairNamed, BoughtPairNamed

PricedLegs == [buy : BOOLEAN, call : BOOLEAN, k : Nat, px : Nat]

LEMMA NamedShaped ==
  ASSUME NEW n \in Nat, NEW legs \in [1 .. n -> PricedLegs], Infer(legs) # "unsupported"
  PROVE  n \in 1 .. 2 /\ Len(legs) = n /\ Paying(Infer(legs), legs)
<1>1. legs \in Seq(PricedLegs) /\ Len(legs) = n
  BY SeqDef, LenProperties
<1>2. n = 1 \/ n = 2
  BY <1>1 DEF Infer
<1>3. \A j \in 1 .. n : LegGood(legs[j])
  BY DEF LegGood, PricedLegs
<1>4. CASE n = 1
  <2>1. PICK a : a = legs[1]
    OBVIOUS
  <2>2. legs = <<a>> /\ LegGood(a)
    BY <1>3, <1>4, <2>1
  <2> QED BY <1>1, <1>4, <2>2, OneNamed
<1>5. CASE n = 2
  <2>1. PICK a, b : a = legs[1] /\ b = legs[2]
    OBVIOUS
  <2>2. legs = <<a, b>> /\ LegGood(a) /\ LegGood(b)
    BY <1>3, <1>5, <2>1
  <2> QED BY <1>1, <1>5, <2>2, PairNamed
<1> QED BY <1>2, <1>4, <1>5

(* A position taken over with the marks of its legs.                       *)
LEMMA TakenShaped ==
  ASSUME Placed, NEW m \in DOMAIN Moments, NEW held \in Seq(HeldLegs), NEW expiry, NEW dte,
         NEW marks, marks = MarksAt(held, expiry, m), NEW mark, mark = MarkAt(held, expiry, m), mark.priced,
         NEW legs, legs = [j \in DOMAIN held |-> [buy |-> held[j].buy, call |-> held[j].call, k |-> held[j].k, px |-> marks[j]]],
         Infer(legs) # "unsupported"
  PROVE  ShapedPlan(TrackedPlan(legs, mark.net, 1, dte))
<1>1. PICK n \in Nat : n = Len(held) /\ DOMAIN held = 1 .. n /\ \A j \in 1 .. n : held[j] \in HeldLegs
  BY LenProperties
<1>2. (\A j \in 1 .. n : marks[j] \in Nat) /\ mark.net = NetOf(held, marks) /\ mark.net \in Int
  <2>1. DOMAIN marks = 1 .. n /\ \A j \in 1 .. n : marks[j] = LegMark(held[j], expiry, m)
    BY <1>1 DEF MarksAt
  <2>2. mark = MarkedNet(held, marks)
    BY DEF MarkAt
  <2>3. ~(\E j \in DOMAIN held : marks[j] = Missing)
    BY <2>2 DEF MarkedNet, NoNet
  <2>4. mark.net = NetOf(held, marks)
    BY <2>2, <2>3 DEF MarkedNet
  <2>5. \A j \in 1 .. n : marks[j] \in Nat
    BY <1>1, <2>1, <2>3, LegMarkTypes
  <2>6. mark.net \in Int
    <3>1. mark.net \in Halves
      BY MarkTypes
    <3> QED BY <3>1 DEF Halves
  <2> QED BY <2>4, <2>5, <2>6
<1>3. legs \in [1 .. n -> PricedLegs]
  <2>1. \A j \in 1 .. n : held[j].buy \in BOOLEAN /\ held[j].call \in BOOLEAN /\ held[j].k \in Nat
    BY <1>1 DEF HeldLegs
  <2> QED BY <1>1, <1>2, <2>1 DEF PricedLegs
<1>4. n \in 1 .. 2 /\ Len(legs) = n /\ Paying(Infer(legs), legs)
  BY <1>3, NamedShaped
<1>5. EntryNet(legs) = mark.net
  <2>1. DOMAIN legs = DOMAIN held /\ \A j \in DOMAIN held : legs[j].buy = held[j].buy /\ legs[j].px = marks[j]
    OBVIOUS
  <2>2. PICK px : px = [j \in DOMAIN legs |-> legs[j].px]
    OBVIOUS
  <2>3. \A j \in DOMAIN held : px[j] = marks[j]
    BY <2>1, <2>2
  <2>4. \A j : Signed(legs, j, px) = Signed(held, j, marks)
    BY <2>1, <2>3 DEF Signed
  <2>5. NetOf(legs, px) = NetOf(held, marks)
    BY <2>4 DEF NetOf
  <2> QED BY <1>2, <2>2, <2>5 DEF EntryNet
<1>6. Corners(legs) \subseteq Int
  <2>1. n \in 1 .. 4 /\ DOMAIN legs = 1 .. n /\ \A j \in 1 .. n : legs[j].k \in Nat
    BY <1>3, <1>4 DEF PricedLegs
  <2> QED BY <2>1, CornersTyped
<1>7. PICK plan, net, loss : plan = TrackedPlan(legs, mark.net, 1, dte) /\ net = mark.net /\ loss = Abs(net) * 1
  OBVIOUS
<1>8. /\ plan.strategy = Infer(legs) /\ plan.legs = legs /\ plan.contracts = 1 /\ plan.debit = net
      /\ plan.maxLoss = loss
  BY <1>7 DEF TrackedPlan
<1>9. net \in Int /\ loss \in Nat
  BY <1>2, <1>7 DEF Abs
<1>10. /\ plan.contracts \in Nat /\ plan.maxLoss \in Nat /\ Len(plan.legs) \in Nat
       /\ plan.debit \in Int /\ plan.debit = EntryNet(plan.legs) /\ Corners(plan.legs) \subseteq Int
  <2>1. plan.contracts \in Nat /\ plan.maxLoss \in Nat /\ plan.debit \in Int
    BY <1>8, <1>9
  <2>2. Len(plan.legs) \in Nat
    BY <1>4, <1>8
  <2>3. plan.debit = EntryNet(plan.legs)
    BY <1>5, <1>7, <1>8
  <2>4. Corners(plan.legs) \subseteq Int
    BY <1>6, <1>8
  <2> QED BY <2>1, <2>2, <2>3, <2>4
<1>11. Paying(plan.strategy, plan.legs)
  BY <1>4, <1>8
<1>12. ShapedPlan(plan)
  BY <1>10, <1>11 DEF ShapedPlan
<1> QED BY <1>7, <1>12

-----------------------------------------------------------------------------
(* So whatever is planned on the board keeps to those shapes.              *)
ShapedIdea(i) ==
  board[i].way \notin {"none", "line", "paste"} /\ board[i].plan # NoPlan => ShapedPlan(board[i].plan)
ShapeInv == \A i \in Slots : ShapedIdea(i)

LEMMA ShapeInit == Init => ShapeInv
BY DEF Init, ShapeInv, ShapedIdea, NoIdea

LEMMA ShapeStep ==
  ASSUME Unconstrained = FALSE, LifeInv, MoneyInv, ShapeInv, [Next]_vars
  PROVE  ShapeInv'
<1>0. /\ Placed /\ DOMAIN board = Slots /\ now \in DOMAIN Moments
      /\ \A i \in Slots : ShapedIdea(i)
  BY DEF LifeInv, ShapeInv, Placed
<1>1. ASSUME \A i \in Slots : board'[i] = board[i] \/ ShapedIdea(i)'
      PROVE  ShapeInv'
  BY <1>0, <1>1 DEF ShapeInv, ShapedIdea
<1>2. ASSUME NEW p \in Slots, NEW plan, NEW new, plan # NoPlan => ShapedPlan(plan), new.plan = plan,
             board' = [board EXCEPT ![p] = new]
      PROVE  ShapeInv'
  <2>1. board'[p] = new /\ \A i \in Slots \ {p} : board'[i] = board[i]
    BY <1>0, <1>2
  <2>2. ShapedIdea(p)'
    BY <1>2, <2>1 DEF ShapedIdea
  <2> QED BY <1>1, <2>1, <2>2
<1>3. ASSUME NEW p \in Slots, Scan(p) PROVE ShapeInv'
  <2>1. PICK w, plan, why :
          /\ plan = NoPlan \/ plan = BuildBestPlan(Quotes, w.direction, w.ivRank, w.catalyst, CorePolicy, 0)
          /\ board' = [board EXCEPT ![p] = CoreIdea(w, plan, why)]
    BY <1>3, Zenon DEF Scan
  <2>2. PICK q : q = (IF why = {} THEN plan ELSE NoPlan) /\ (q # NoPlan => ShapedPlan(q))
    <3>1. plan # NoPlan => ShapedPlan(plan)
      BY <1>0, <2>1, QuotesKnown, CoreShaped
    <3> QED BY <3>1
  <2>3. PICK new : new.plan = q /\ board' = [board EXCEPT ![p] = new]
    <3>1. CoreIdea(w, plan, why) = Idea("core", "SPY", "core", w.direction, q, why, why)
      BY <2>2 DEF CoreIdea
    <3> QED BY <2>1, <3>1 DEF Idea
  <2> QED BY <1>2, <2>2, <2>3
<1>4. ASSUME NEW p \in Slots, DeskScan(p) PROVE ShapeInv'
  <2> DEFINE pol(w) == ShortPolicy(w.bucket = "0dte", Equity, Unconstrained)
             plans(w) == ShortExpressions(Quotes, w.direction = "bullish", w.bucket, w.prefer, pol(w), CommittedRisk)
  <2> DEFINE idea(w, plan, rejects) ==
               Idea("desk", w.symbol, w.bucket, w.direction, plan, rejects,
                    AccountGates(w.symbol, w.direction, w.regime, w.stale, DailyRiskState, Equity))
             gates(w) == EvaluateEntryGates(w.bucket, w.symbol, w.direction, w.regime, w.stale,
                                            DailyRiskState, Equity, Here)
             reject(w) == ShortReject(Quotes, w.direction = "bullish", w.bucket, pol(w))
  <2>0. PICK w \in world.desk :
          \/ board' = [board EXCEPT ![p] = idea(w, NoPlan, gates(w) \cup {reject(w)})]
          \/ \E plan \in plans(w) : board' = [board EXCEPT ![p] = idea(w, plan, gates(w))]
    BY <1>4, Zenon DEF DeskScan
  <2>1. PICK plan, rejects : /\ plan = NoPlan \/ plan \in plans(w)
                             /\ board' = [board EXCEPT ![p] = idea(w, plan, rejects)]
    <3> HIDE DEF idea, gates, reject, plans
    <3> QED BY <2>0
  <2>2. plan # NoPlan => ShapedPlan(plan)
    <3>1. PICK e \in Int, c \in Int : e = Equity /\ c = CommittedRisk
      BY AccountTyped
    <3>2. PICK b, z, bucket, prefer : /\ b = (w.direction = "bullish") /\ z = (w.bucket = "0dte")
                                       /\ bucket = w.bucket /\ prefer = w.prefer
      OBVIOUS
    <3>3. plans(w) = ShortExpressions(Quotes, b, bucket, prefer, ShortPolicy(z, e, FALSE), c)
      BY <3>1, <3>2
    <3>4. PICK chain : chain = Quotes /\ ChainKnown(chain)
      BY <1>0, QuotesKnown, Zenon
    <3>5. \A q \in ShortExpressions(chain, b, bucket, prefer, ShortPolicy(z, e, FALSE), c) : ShapedPlan(q)
      BY <3>4, DeskShaped
    <3> HIDE DEF plans
    <3> QED BY <2>1, <3>3, <3>4, <3>5
  <2>3. PICK new : new.plan = plan /\ board' = [board EXCEPT ![p] = new]
    BY <2>1 DEF Idea
  <2> QED BY <1>2, <2>2, <2>3
<1>5. ASSUME NEW p \in Slots, Import(p) PROVE ShapeInv'
  <2> DEFINE mark(q) == MarkAt(q.legs, q.expiry, now)
             marks(q) == MarksAt(q.legs, q.expiry, now)
             legs(q) == [j \in DOMAIN q.legs |->
                          [buy |-> q.legs[j].buy, call |-> q.legs[j].call, k |-> q.legs[j].k,
                           px |-> IF q.way \in {"line", "paste"} THEN 0 ELSE marks(q)[j]]]
             plan(q) == TrackedPlan(legs(q), mark(q).net, 1, q.expiry - Today)
  <2>1. PICK q \in world.imports :
          /\ mark(q).priced /\ Infer(legs(q)) # "unsupported"
          /\ \E direction : board' = [board EXCEPT ![p] = Idea(q.way, "SPY", "live", direction, plan(q), {}, {})]
    BY <1>5, Zenon DEF Import
  <2>2. PICK new : new.way = q.way /\ new.plan = plan(q) /\ board' = [board EXCEPT ![p] = new]
    <3>1. \A way, direction, made : /\ Idea(way, "SPY", "live", direction, made, {}, {}).way = way
                                    /\ Idea(way, "SPY", "live", direction, made, {}, {}).plan = made
      BY DEF Idea
    <3> HIDE DEF plan
    <3>2. PICK direction : board' = [board EXCEPT ![p] = Idea(q.way, "SPY", "live", direction, plan(q), {}, {})]
      BY <2>1
    <3>3. PICK new : new = Idea(q.way, "SPY", "live", direction, plan(q), {}, {})
      OBVIOUS
    <3>4. new.way = q.way /\ new.plan = plan(q)
      BY <3>1, <3>3
    <3> QED BY <3>2, <3>3, <3>4
  <2>3. q.legs \in Seq(HeldLegs)
    BY <1>0, WorldsAssumption DEF Placed
  <2>4. CASE q.way \in {"line", "paste"}
    <3> HIDE DEF plan
    <3>1. board'[p] = new /\ \A i \in Slots \ {p} : board'[i] = board[i]
      BY <1>0, <2>2
    <3>2. ShapedIdea(p)'
      BY <2>2, <2>4, <3>1 DEF ShapedIdea
    <3> QED BY <1>1, <3>1, <3>2
  <2>5. CASE q.way \notin {"line", "paste"}
    <3>1. PICK held, expiry, ms, mk, ls :
            /\ held = q.legs /\ expiry = q.expiry /\ ms = MarksAt(held, expiry, now) /\ mk = MarkAt(held, expiry, now)
            /\ ls = [j \in DOMAIN held |-> [buy |-> held[j].buy, call |-> held[j].call, k |-> held[j].k, px |-> ms[j]]]
      OBVIOUS
    <3>2. ls = legs(q) /\ mk = mark(q)
      BY <2>5, <3>1
    <3>3. mk.priced /\ Infer(ls) # "unsupported"
      <4> HIDE DEF legs, mark, plan
      <4> QED BY <2>1, <3>2
    <3>4. \A dte : ShapedPlan(TrackedPlan(ls, mk.net, 1, dte))
      <4> HIDE DEF legs, mark, marks, plan
      <4>1. held \in Seq(HeldLegs)
        BY <2>3, <3>1
      <4> QED BY <1>0, <3>1, <3>3, <4>1, TakenShaped
    <3>5. ShapedPlan(plan(q))
      <4> HIDE DEF legs, mark, marks
      <4> QED BY <3>2, <3>4
    <3> HIDE DEF plan
    <3> QED BY <1>2, <2>2, <3>5
  <2> QED BY <2>4, <2>5
<1>6. CASE UNCHANGED board
  BY <1>1, <1>6
<1>7. Tick \/ (\E i \in Slots : OpenPaper(i) \/ OpenDesk(i) \/ DeskMonitor(i) \/ Close(i)) \/ UNCHANGED vars
        => UNCHANGED board
  BY DEF Tick, OpenPaper, OpenDesk, DeskMonitor, Close, vars
<1> QED BY <1>3, <1>4, <1>5, <1>6, <1>7 DEF Next

-----------------------------------------------------------------------------
(* What is left of a plan that cost something and can end either way: a    *)
(* bought shape, whose breakevens read what it pays.                       *)
BoughtShape(strategy, legs) ==
  SingleShape(strategy, legs) \/ VerticalShape(strategy, legs) \/ VolShape(strategy, legs)

LEMMA ShapePays ==
  ASSUME NEW strategy, NEW legs, BoughtShape(strategy, legs)
  PROVE  strategy \in DebitStrategies /\ \A s \in Int : SettleNet(legs, s) \in Int
<1>1. ASSUME NEW l, LegGood(l), NEW s \in Int PROVE With(l, LegPay(l, s)) \in Int
  <2>1. LegPay(l, s) \in Nat
    BY <1>1, LegWorth
  <2> QED BY <2>1 DEF With
<1>2. CASE SingleShape(strategy, legs)
  <2>1. PICK a : LegGood(a) /\ legs = <<a>> /\ a.buy /\ strategy = IF a.call THEN "long_call" ELSE "long_put"
    BY <1>2 DEF SingleShape
  <2>2. \A s \in Int : SettleNet(legs, s) \in Int
    BY <1>1, <2>1, SingleNet
  <2> QED BY <2>1, <2>2 DEF DebitStrategies, LongSingles
<1>3. ASSUME NEW a, NEW b, LegGood(a), LegGood(b), EitherWay(legs, a, b) PROVE \A s \in Int : SettleNet(legs, s) \in Int
  <2>1. \A s \in Int : SettleNet(legs, s) = With(a, LegPay(a, s)) + With(b, LegPay(b, s))
    BY <1>3, PairNet DEF EitherWay
  <2>2. \A s \in Int : With(a, LegPay(a, s)) \in Int /\ With(b, LegPay(b, s)) \in Int
    BY <1>1, <1>3
  <2> QED BY <2>1, <2>2
<1>4. CASE VerticalShape(strategy, legs)
  <2>1. PICK a, b : /\ LegGood(a) /\ LegGood(b) /\ EitherWay(legs, a, b)
                    /\ strategy = "bull_call_spread" \/ strategy = "bear_put_spread"
    BY <1>4 DEF VerticalShape
  <2> QED BY <1>3, <2>1 DEF DebitStrategies, DebitVerticals
<1>5. CASE VolShape(strategy, legs)
  <2>1. PICK a, b : /\ LegGood(a) /\ LegGood(b) /\ EitherWay(legs, a, b)
                    /\ strategy = "long_strangle" \/ strategy = "long_straddle"
    BY <1>5 DEF VolShape
  <2> QED BY <1>3, <2>1 DEF DebitStrategies, LongSingles, LongVol
<1> QED BY <1>2, <1>4, <1>5 DEF BoughtShape

LEMMA PlanReads ==
  ASSUME NEW p, ShapedPlan(p), p.debit > 0, CanPay(p, p.debit), CanLapse(p)
  PROVE  p.debit \in Nat /\ BoughtShape(p.strategy, p.legs) /\ Reads(p.legs, p.strategy, p.debit)
<1>1. /\ p.debit \in Nat /\ p.debit = EntryNet(p.legs) /\ Corners(p.legs) \subseteq Int
      /\ Paying(p.strategy, p.legs)
  BY DEF ShapedPlan
<1>2. PICK net \in Nat : net = p.debit /\ net > 0 /\ net = EntryNet(p.legs)
  BY <1>1
<1> DEFINE strategy == p.strategy
           legs == p.legs
<1>3. PICK h \in Int : SettleNet(legs, h) >= net
  BY <1>1, <1>2 DEF CanPay
<1>4. PICK g \in Int : SettleNet(legs, g) <= net
  BY <1>1, <1>2 DEF CanLapse
<1>5. CASE SingleShape(strategy, legs)
  BY <1>2, <1>5, SingleReads DEF BoughtShape
<1>6. CASE VerticalShape(strategy, legs)
  BY <1>2, <1>3, <1>6, VerticalReads DEF BoughtShape
<1>7. CASE VolShape(strategy, legs)
  BY <1>2, <1>4, <1>7, VolReads DEF BoughtShape
<1>8. CASE EntryNet(legs) <= 0
  BY <1>2, <1>8
<1>9. CASE \A s \in Int : SettleNet(legs, s) \in Int /\ SettleNet(legs, s) <= 0
  <2>1. SettleNet(legs, h) \in Int /\ SettleNet(legs, h) <= 0
    BY <1>3, <1>9
  <2> QED BY <1>2, <1>3, <2>1
<1> QED BY <1>1, <1>2, <1>5, <1>6, <1>7, <1>8, <1>9 DEF Paying

(* What the settlement makes of it.                                        *)
LEMMA Settles ==
  ASSUME NEW snap, NEW s, snap.contracts \in Nat, SettleNet(snap.legs, s) \in Int, snap.entry \in Int,
         Len(snap.legs) \in Nat, snap.maxLoss \in Nat
  PROVE  /\ ResolutionCosts(snap.legs, 1, 0) \in Nat /\ ResolutionCosts(snap.legs, 1, 0) >= 10
         /\ SettleAtExpiry(snap, s).gross = (SettleNet(snap.legs, s) - snap.entry) * snap.contracts
         /\ Risked(snap) \in Nat
         /\ SettleAtExpiry(snap, s).result =
              WithinBand((SettleNet(snap.legs, s) - snap.entry) * snap.contracts
                           - ResolutionCosts(snap.legs, 1, 0) * snap.contracts, Risked(snap))
<1> DEFINE grade == SettleAtExpiry(snap, s)
<1>0. PICK c \in Nat, settle \in Int, len \in Nat :
        c = snap.contracts /\ settle = SettleNet(snap.legs, s) /\ len = Len(snap.legs)
  OBVIOUS
<1>c. PICK charge : charge = ResolutionCosts(snap.legs, 1, 0)
  OBVIOUS
<1>1. charge = 13 * len + 10 /\ ResolutionCosts(snap.legs, c, 0) = charge * c
  <2>1. PICK l \in Int : l = 13 * len
    OBVIOUS
  <2>2. charge = l + 10
    BY <1>0, <1>c, <2>1 DEF ResolutionCosts, Most
  <2>3. ResolutionCosts(snap.legs, c, 0) = l * c + c * 10
    BY <1>0, <2>1 DEF ResolutionCosts, Most
  <2> QED BY <2>1, <2>2, <2>3
<1>2. PICK costs, gross, right : /\ costs = ResolutionCosts(snap.legs, c, 0) /\ gross = (settle - snap.entry) * c
                                 /\ right = DirectionCorrect(snap, s)
  OBVIOUS
<1>3. Gross(snap, settle) = gross
  BY <1>0, <1>2 DEF Gross
<1>4. grade = Outcome(snap, "expiry_settlement", "expiry", snap.expiry, settle, costs, s)
  BY <1>0, <1>2 DEF SettleAtExpiry
<1>5. grade.gross = gross /\ grade.result = WithinBand(gross - costs, Risked(snap))
  BY <1>2, <1>3, <1>4 DEF Outcome
<1>6. Risked(snap) \in Nat
  <2>1. PICK entry \in Int, size \in Nat : entry = snap.entry /\ size = Abs(entry)
    BY DEF Abs
  <2>2. size * c \in Nat
    BY <2>1
  <2> QED BY <1>0, <2>1, <2>2 DEF Risked
<1>7. charge \in Nat /\ charge >= 10
  BY <1>1
<1> QED BY <1>0, <1>c, <1>1, <1>2, <1>5, <1>6, <1>7

(* A proxy loss is no settled win; a proxy win that covers the charge no   *)
(* settled loss.                                                           *)
LEMMA ReadSettled ==
  ASSUME NEW c \in Nat, NEW settle \in Int, NEW entry \in Int, NEW debit \in Nat, NEW charge \in Nat, NEW loss \in Nat,
         entry - debit \in -5 .. 5, charge >= 10,
         NEW result, result = WithinBand((settle - entry) * c - charge * c, loss)
  PROVE  /\ settle - debit <= 0 => (settle - entry) * c <= 5 * c /\ result # "win"
         /\ settle - debit >= 0 => (settle - entry) * c >= -5 * c
         /\ settle - debit >= charge + 5 => result # "loss"
<1>1. PICK d \in Int : d = settle - entry /\ d - 5 <= settle - debit /\ settle - debit <= d + 5
  OBVIOUS
<1>2. PICK x \in Int, y \in Int, f \in Int : x = d * c /\ y = charge * c /\ f = 5 * c /\ -f = (-5) * c /\ f >= 0
  OBVIOUS
<1>3. y >= f /\ y \in Nat
  <2>1. 5 * c <= charge * c
    BY TimesMono
  <2> QED BY <1>2, <2>1
<1>4. d <= 5 => x <= f
  <2>1. d <= 5 => d * c <= 5 * c
    BY <1>1, TimesMono
  <2> QED BY <1>2, <2>1
<1>5. -5 <= d => -f <= x
  <2>1. -5 <= d => (-5) * c <= d * c
    BY <1>1, TimesMono
  <2> QED BY <1>2, <2>1
<1>6. charge <= d => y <= x
  <2>1. charge <= d => charge * c <= d * c
    BY <1>1, TimesMono
  <2> QED BY <1>2, <2>1
<1>7. result = IF 20 * (x - y) > loss THEN "win" ELSE IF 20 * (x - y) < -loss THEN "loss" ELSE "scratch"
  BY <1>1, <1>2 DEF WithinBand
<1>8. settle - debit <= 0 => x <= f /\ result # "win"
  <2>1. settle - debit <= 0 => x <= f
    BY <1>1, <1>4
  <2>2. x <= f => ~(20 * (x - y) > loss)
    BY <1>3
  <2> QED BY <1>7, <2>1, <2>2
<1>9. settle - debit >= 0 => x >= -f
  BY <1>1, <1>5
<1>10. settle - debit >= charge + 5 => result # "loss"
  <2>1. settle - debit >= charge + 5 => y <= x
    BY <1>1, <1>6
  <2>2. y <= x => ~(20 * (x - y) < -loss)
    OBVIOUS
  <2> QED BY <1>7, <2>1, <2>2
<1>11. (settle - entry) * c = x /\ 5 * c = f /\ -5 * c = -f
  BY <1>1, <1>2
<1> QED BY <1>8, <1>9, <1>10, <1>11

LEMMA FrozenAs ==
  ASSUME NEW i, NEW p, p = board[i].plan, p.strategy \in DebitStrategies, p.debit \in Int,
         NEW snap, snap = SnapshotOf(i)
  PROVE  /\ snap.strategy = p.strategy /\ snap.legs = p.legs /\ snap.levels = Breakevens(p.strategy, p.legs)
         /\ snap.maxLoss = p.maxLoss /\ snap.contracts = p.contracts
         /\ snap.entry \in Int /\ snap.entry - p.debit \in -5 .. 5
<1>1. PICK entry : entry = ExitPlan(p).entry
  OBVIOUS
<1>2. entry \in Int /\ entry - p.debit \in -5 .. 5 /\ p.debit - p.debit \in -5 .. 5
  BY <1>1, BoughtEntry
<1>3. PICK source, spot, e :
        /\ e = entry \/ e = p.debit
        /\ snap = Snapshot(source, p, board[i].direction, board[i].at, e, Breakevens(p.strategy, p.legs), spot)
  <2>1. CASE board[i].way = "core"
    BY <1>1, <2>1 DEF SnapshotOf, SnapshotFromCandidate
  <2>2. CASE board[i].way = "desk"
    BY <1>1, <2>2 DEF SnapshotOf, SnapshotFromShortDuration
  <2>3. CASE board[i].way \notin {"core", "desk"}
    BY <2>3 DEF SnapshotOf, SnapshotFromLiveTrade
  <2> QED BY <2>1, <2>2, <2>3
<1>4. PICK levels : levels = Breakevens(p.strategy, p.legs)
  OBVIOUS
<1>5. /\ snap.strategy = p.strategy /\ snap.legs = p.legs /\ snap.levels = levels
      /\ snap.maxLoss = p.maxLoss /\ snap.contracts = p.contracts /\ snap.entry = e
  BY <1>3, <1>4 DEF Snapshot
<1> QED BY <1>2, <1>3, <1>4, <1>5

LEMMA ShapeAgrees == LifeInv /\ ShapeInv => ExpiryAgrees
<1>1. SUFFICES ASSUME LifeInv, ShapeInv, NEW i \in New, NEW p, p = board[i].plan, p.debit > 0,
                      board[i].way \notin {"line", "paste"}, CanPay(p, p.debit), CanLapse(p), NEW s \in Spots,
                      NEW snap, snap = SnapshotOf(i), NEW grade, grade = SettleAtExpiry(snap, s),
                      NEW proxy, proxy = ResolveUnderlying(snap, s).result
      PROVE  /\ proxy = "loss" => grade.gross <= 5 * p.contracts /\ grade.result # "win"
             /\ proxy = "win" => grade.gross >= -5 * p.contracts /\ (Covered(p) => grade.result # "loss")
  BY DEF ExpiryAgrees
<1>2. ShapedPlan(p)
  <2>1. i \in Slots /\ board[i].way # "none" /\ board[i].plan # NoPlan
    BY DEF New, Planned
  <2> QED BY <1>1, <2>1 DEF ShapeInv, ShapedIdea
<1>3. p.debit \in Nat /\ BoughtShape(p.strategy, p.legs) /\ Reads(p.legs, p.strategy, p.debit)
  BY <1>1, <1>2, PlanReads
<1>4. s \in Nat
  <2>1. \A m \in DOMAIN Moments : Tape[m] \in Nat
    BY <1>1, WorldsAssumption DEF LifeInv, Placed, Moments, Tape
  <2> QED BY <2>1 DEF Spots
<1>5. p.strategy \in DebitStrategies /\ SettleNet(p.legs, s) \in Int
  BY <1>3, <1>4, ShapePays
<1>6. /\ snap.strategy = p.strategy /\ snap.legs = p.legs /\ snap.levels = Breakevens(p.strategy, p.legs)
      /\ snap.maxLoss = p.maxLoss /\ snap.contracts = p.contracts
      /\ snap.entry \in Int /\ snap.entry - p.debit \in -5 .. 5
  BY <1>1, <1>3, <1>5, FrozenAs
<1>7. PICK c \in Nat, settle \in Int, len \in Nat, entry \in Int, debit \in Nat :
        /\ c = p.contracts /\ settle = SettleNet(p.legs, s) /\ len = Len(p.legs) /\ entry = snap.entry
        /\ debit = p.debit
  BY <1>2, <1>3, <1>5, <1>6 DEF ShapedPlan
<1>8. PICK charge \in Int : charge = ResolutionCosts(p.legs, 1, 0)
  BY <1>7 DEF ResolutionCosts, Most
<1>9. /\ charge \in Nat /\ charge >= 10
      /\ grade.gross = (settle - entry) * c
      /\ Risked(snap) \in Nat
      /\ grade.result = WithinBand((settle - entry) * c - charge * c, Risked(snap))
  <2>1. /\ snap.contracts = c /\ SettleNet(snap.legs, s) = settle /\ snap.entry = entry /\ Len(snap.legs) = len
        /\ ResolutionCosts(snap.legs, 1, 0) = charge
    BY <1>6, <1>7, <1>8
  <2>2. snap.maxLoss \in Nat
    BY <1>2, <1>6 DEF ShapedPlan
  <2>3. grade = SettleAtExpiry(snap, s)
    BY <1>1
  <2> QED BY <2>1, <2>2, <2>3, Settles
<1>10. charge \in Nat /\ charge >= 10 /\ entry - debit \in -5 .. 5
  <2>1. entry - debit \in -5 .. 5
    BY <1>6, <1>7
  <2>2. charge >= 10 /\ charge \in Nat
    BY <1>9
  <2> QED BY <2>1, <2>2
<1>11. /\ settle - debit <= 0 => (settle - entry) * c <= 5 * c /\ grade.result # "win"
       /\ settle - debit >= 0 => (settle - entry) * c >= -5 * c
       /\ settle - debit >= charge + 5 => grade.result # "loss"
  <2>1. PICK loss \in Nat : loss = Risked(snap)
    BY <1>9
  <2>r. PICK result : result = grade.result
    OBVIOUS
  <2>2. result = WithinBand((settle - entry) * c - charge * c, loss)
    BY <1>9, <2>1, <2>r
  <2>3. /\ settle - debit <= 0 => (settle - entry) * c <= 5 * c /\ result # "win"
        /\ settle - debit >= 0 => (settle - entry) * c >= -5 * c
        /\ settle - debit >= charge + 5 => result # "loss"
    BY <1>10, <2>2, ReadSettled, Zenon
  <2> QED BY <2>r, <2>3
<1>12. proxy = FromBreakevens(p.strategy, Breakevens(p.strategy, p.legs), s, 25)
  BY <1>1, <1>6 DEF ResolveUnderlying
<1>13. /\ proxy = "loss" => settle - debit <= 0
       /\ proxy = "win" => settle - debit >= 0
       /\ \A cost \in Nat :
            /\ proxy = "win" /\ \A j \in DOMAIN Breakevens(p.strategy, p.legs) : 400 * cost <= Breakevens(p.strategy, p.legs)[j]
            /\ \E h \in Int : SettleNet(p.legs, h) >= debit + cost
            => settle - debit >= cost
  BY <1>3, <1>4, <1>7, <1>12 DEF Reads
<1>14. ASSUME proxy = "win", Covered(p) PROVE settle - debit >= charge + 5
  <2>1. PICK cost \in Nat : cost = charge + 5
    BY <1>10
  <2>2. Charge(p) = cost
    BY <1>8, <2>1 DEF Charge
  <2>3. CanPay(p, debit + cost) /\ \A j \in DOMAIN Breakevens(p.strategy, p.legs) :
                                      400 * cost <= Breakevens(p.strategy, p.legs)[j]
    BY <1>7, <1>14, <2>2 DEF Covered
  <2>4. \E h \in Int : SettleNet(p.legs, h) >= debit + cost
    BY <1>2, <2>3 DEF CanPay, ShapedPlan
  <2> QED BY <1>13, <1>14, <2>1, <2>3, <2>4
<1> QED BY <1>7, <1>9, <1>11, <1>13, <1>14

(* Whatever the close, the settlement and the proxy of a decision that     *)
(* paid to enter and can end either way do not contradict each other, but  *)
(* the costs the proxy leaves out (ExpiryAgrees): what the proxy reads of  *)
(* the breakevens of every structure bought is what it pays.               *)
THEOREM ExpiryTheorem ==
  ASSUME Unconstrained = FALSE
  PROVE  Spec => []ExpiryAgrees
<1>1. LifeInv /\ LifeInv' /\ MoneyInv /\ [Next]_vars => MoneyInv'
  BY MoneyStep
<1>2. LifeInv /\ MoneyInv /\ ShapeInv /\ [Next]_vars => ShapeInv'
  BY ShapeStep
<1> QED BY <1>1, <1>2, LifeAlways, MoneyInit, ShapeInit, ShapeAgrees, PTL DEF Spec
=============================================================================
