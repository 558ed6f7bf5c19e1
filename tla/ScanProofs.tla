------------------------------ MODULE ScanProofs ------------------------------
(***************************************************************************)
(* A day of scans measures volume against the right sessions, and its two  *)
(* readers of the tape see one session, for any worlds, clock readings,    *)
(* universe and outages.                                                   *)
(*                                                                         *)
(* Filters of a feed's bars are recursive functions.  That such a function *)
(* exists, and what it returns, is shown from a least counterexample among *)
(* the naturals, in place of an induction.                                 *)
(***************************************************************************)
EXTENDS ScanDay, FiniteSetTheorems, SequenceTheorems, NaturalsInduction, TLAPS

-----------------------------------------------------------------------------
(* Sequences of bars. *)

LEMMA LeastMember ==
  ASSUME NEW X, X \subseteq Nat, X # {}
  PROVE  \E n \in X : \A m \in X : n <= m
<1>1. PICK n \in X : \A m \in X : ~(<<m, n>> \in OpToRel(<, Nat))
  BY NatLessThanWellFounded, WFMin, Zenon
<1>2. \A m \in X : ~(m < n)
  BY <1>1, Zenon DEF OpToRel
<1> QED
  BY <1>2

\* Induction, over a set in place of a predicate.
LEMMA SetInduction ==
  ASSUME NEW G, 0 \in G, \A n \in Nat : n \in G => n + 1 \in G
  PROVE  Nat \subseteq G
<1> SUFFICES ASSUME Nat \ G # {} PROVE FALSE
  OBVIOUS
<1>1. PICK n \in Nat \ G : \A m \in Nat \ G : n <= m
  BY LeastMember
<1>2. n - 1 \in Nat /\ n - 1 \notin Nat \ G
  BY <1>1
<1> QED
  BY <1>1, <1>2

\* One step of Among's function.
KeptStep(bars, wanted, before, i) ==
  IF bars[i] \in wanted THEN Append(before, bars[i]) ELSE before
IsKept(kept, bars, wanted, n) ==
  kept = [i \in 0 .. n |-> IF i = 0 THEN <<>> ELSE KeptStep(bars, wanted, kept[i - 1], i)]

LEMMA KeptExists ==
  ASSUME NEW bars, NEW wanted, NEW n \in Nat
  PROVE  \E kept : IsKept(kept, bars, wanted, n)
<1> DEFINE X == {m \in Nat : ~\E kept : IsKept(kept, bars, wanted, m)}
<1> SUFFICES ASSUME X # {} PROVE FALSE
  OBVIOUS
<1>1. PICK m \in X : \A l \in X : m <= l
  <2>1. X \subseteq Nat
    OBVIOUS
  <2> HIDE DEF X
  <2> QED BY <2>1, LeastMember
<1>2. IsKept([i \in 0 .. 0 |-> <<>>], bars, wanted, 0)
  BY DEF IsKept
<1>3. m # 0
  BY <1>2
<1>4. m - 1 \in Nat /\ m - 1 \notin X
  BY <1>1, <1>3
<1>5. PICK f : IsKept(f, bars, wanted, m - 1)
  BY <1>4
<1> DEFINE g == [i \in 0 .. m |-> IF i = m THEN KeptStep(bars, wanted, f[m - 1], m) ELSE f[i]]
<1>6. f = [i \in 0 .. m - 1 |-> IF i = 0 THEN <<>> ELSE KeptStep(bars, wanted, f[i - 1], i)]
  BY <1>5 DEF IsKept
<1>7. ASSUME NEW i \in 0 .. m
      PROVE  g[i] = IF i = 0 THEN <<>> ELSE KeptStep(bars, wanted, g[i - 1], i)
  <2>1. CASE i = m
    <3>1. i - 1 \in 0 .. m /\ i - 1 # m /\ i # 0
      BY <1>3, <1>4, <2>1
    <3>2. g[i] = KeptStep(bars, wanted, f[m - 1], m) /\ g[i - 1] = f[m - 1]
      BY <2>1, <3>1
    <3> QED BY <2>1, <3>1, <3>2
  <2>2. CASE i # m /\ i # 0
    <3>1. i \in 0 .. m - 1 /\ i - 1 \in 0 .. m - 1 /\ i - 1 \in 0 .. m /\ i - 1 # m
      BY <1>4, <2>2
    <3>2. f[i] = KeptStep(bars, wanted, f[i - 1], i)
      BY <1>6, <2>2, <3>1
    <3>3. g[i] = f[i] /\ g[i - 1] = f[i - 1]
      BY <2>2, <3>1
    <3> QED BY <2>2, <3>2, <3>3
  <2>3. CASE i # m /\ i = 0
    <3>1. 0 \in 0 .. m - 1
      BY <1>4
    <3>2. f[0] = <<>>
      BY <1>6, <3>1
    <3> QED BY <2>3, <3>2
  <2> QED BY <2>1, <2>2, <2>3
<1>8. IsKept(g, bars, wanted, m)
  BY <1>7 DEF IsKept
<1> QED
  BY <1>1, <1>8

LEMMA AmongIsKept ==
  ASSUME NEW T, NEW bars \in Seq(T), NEW wanted
  PROVE  \E kept : IsKept(kept, bars, wanted, Len(bars)) /\ Among(bars, wanted) = kept[Len(bars)]
<1> DEFINE k == CHOOSE kept : IsKept(kept, bars, wanted, Len(bars))
<1>1. IsKept(k, bars, wanted, Len(bars))
  BY KeptExists
<1>2. Among(bars, wanted) = k[Len(bars)]
  BY DEF Among, IsKept, KeptStep
<1> QED
  BY <1>1, <1>2

LEMMA SeqOfElements ==
  ASSUME NEW T, NEW s \in Seq(T)
  PROVE  s \in Seq(ToSet(s))
<1>1. Len(s) \in Nat /\ DOMAIN s = 1 .. Len(s) /\ s = [i \in 1 .. Len(s) |-> s[i]]
  OBVIOUS
<1>2. \A i \in 1 .. Len(s) : s[i] \in ToSet(s)
  BY <1>1 DEF ToSet
<1> QED
  BY <1>1, <1>2

InTime(bars) == \A i, j \in DOMAIN bars : i < j => Before(bars[i], bars[j])

\* What has been kept of the first i bars.
KeptOf(some, bars, wanted, i) ==
  /\ some \in Seq(ToSet(bars))
  /\ ToSet(some) = {bars[j] : j \in 1 .. i} \cap wanted
  /\ InTime(bars) => InTime(some)

LEMMA KeptGrows ==
  ASSUME NEW T, NEW bars \in Seq(T), NEW wanted, NEW i \in 1 .. Len(bars),
         NEW some, KeptOf(some, bars, wanted, i - 1)
  PROVE  KeptOf(KeptStep(bars, wanted, some, i), bars, wanted, i)
<1>0. /\ i \in DOMAIN bars /\ bars[i] \in ToSet(bars) /\ i - 1 \in Nat
      /\ 1 .. i = (1 .. (i - 1)) \cup {i} /\ 1 .. i \subseteq DOMAIN bars
  BY DEF ToSet
<1>1. CASE bars[i] \notin wanted
  <2>1. {bars[j] : j \in 1 .. i} \cap wanted = {bars[j] : j \in 1 .. (i - 1)} \cap wanted
    BY <1>0, <1>1
  <2>2. KeptStep(bars, wanted, some, i) = some
    BY <1>1 DEF KeptStep
  <2> QED BY <2>1, <2>2 DEF KeptOf
<1>2. CASE bars[i] \in wanted
  <2> DEFINE more == Append(some, bars[i])
             n == Len(some)
  <2>1. some \in Seq(ToSet(bars)) /\ n \in Nat /\ DOMAIN some = 1 .. n
    BY DEF KeptOf
  <2>2. /\ more \in Seq(ToSet(bars)) /\ DOMAIN more = 1 .. n + 1 /\ more[n + 1] = bars[i]
        /\ \A k \in 1 .. n : more[k] = some[k]
    BY <1>0, <2>1
  <2>3. ToSet(more) = ToSet(some) \cup {bars[i]}
    <3>1. 1 .. n + 1 = (1 .. n) \cup {n + 1}
      BY <2>1
    <3> HIDE DEF more, n
    <3> QED BY <2>1, <2>2, <3>1 DEF ToSet
  <2>4. ToSet(more) = {bars[j] : j \in 1 .. i} \cap wanted
    BY <1>0, <1>2, <2>3 DEF KeptOf
  <2>5. ASSUME InTime(bars) PROVE InTime(more)
    <3>1. SUFFICES ASSUME NEW a \in 1 .. n + 1, NEW b \in 1 .. n + 1, a < b
                   PROVE  Before(more[a], more[b])
      BY <2>2 DEF InTime
    <3>2. CASE b \in 1 .. n
      <4>1. a \in 1 .. n /\ more[a] = some[a] /\ more[b] = some[b]
        BY <2>1, <2>2, <3>1, <3>2
      <4>2. InTime(some)
        BY <2>5 DEF KeptOf
      <4> QED BY <2>1, <3>1, <3>2, <4>1, <4>2 DEF InTime
    <3>3. CASE b = n + 1
      <4>1. a \in 1 .. n /\ more[a] = some[a] /\ more[b] = bars[i]
        BY <2>1, <2>2, <3>1, <3>3
      <4>2. some[a] \in ToSet(some)
        BY <2>1, <4>1 DEF ToSet
      <4>3. PICK j \in 1 .. (i - 1) : some[a] = bars[j]
        BY <4>2 DEF KeptOf
      <4>4. j \in DOMAIN bars /\ j < i
        BY <1>0
      <4> QED BY <1>0, <2>5, <4>1, <4>3, <4>4 DEF InTime
    <3> QED BY <2>1, <3>2, <3>3
  <2>6. KeptStep(bars, wanted, some, i) = more
    BY <1>2 DEF KeptStep
  <2> QED
    BY <2>2, <2>4, <2>5, <2>6 DEF KeptOf
<1> QED
  BY <1>1, <1>2

\* A filter keeps the wanted elements, no others, in their order.
LEMMA AmongFacts ==
  ASSUME NEW T, NEW bars \in Seq(T), NEW wanted
  PROVE  /\ Among(bars, wanted) \in Seq(ToSet(bars))
         /\ ToSet(Among(bars, wanted)) = ToSet(bars) \cap wanted
         /\ InTime(bars) => InTime(Among(bars, wanted))
<1>0. Len(bars) \in Nat /\ DOMAIN bars = 1 .. Len(bars)
  OBVIOUS
<1>1. PICK kept : IsKept(kept, bars, wanted, Len(bars)) /\ Among(bars, wanted) = kept[Len(bars)]
  BY AmongIsKept
<1>2. kept = [i \in 0 .. Len(bars) |-> IF i = 0 THEN <<>> ELSE KeptStep(bars, wanted, kept[i - 1], i)]
  BY <1>1 DEF IsKept
<1> DEFINE G == {i \in Nat : i <= Len(bars) => KeptOf(kept[i], bars, wanted, i)}
<1>3. 0 \in G
  <2>1. kept[0] = <<>>
    BY <1>0, <1>2
  <2>2. <<>> \in Seq(ToSet(bars)) /\ ToSet(<<>>) = {} /\ InTime(<<>>)
    BY DEF ToSet, InTime
  <2>3. {bars[j] : j \in 1 .. 0} = {}
    OBVIOUS
  <2> QED BY <2>1, <2>2, <2>3 DEF KeptOf
<1>4. ASSUME NEW i \in G PROVE i + 1 \in G
  <2>1. CASE i + 1 <= Len(bars)
    <3>1. i \in Nat /\ i <= Len(bars) /\ i + 1 \in 1 .. Len(bars) /\ (i + 1) - 1 = i /\ i + 1 \in 0 .. Len(bars)
      BY <1>0, <2>1
    <3>2. KeptOf(kept[i], bars, wanted, i)
      BY <3>1
    <3>3. kept[i + 1] = KeptStep(bars, wanted, kept[i], i + 1)
      BY <1>2, <3>1
    <3>4. KeptOf(kept[i + 1], bars, wanted, i + 1)
      BY <3>1, <3>2, <3>3, KeptGrows
    <3> QED BY <3>1, <3>4
  <2>2. CASE ~(i + 1 <= Len(bars))
    BY <2>2
  <2> QED BY <2>1, <2>2
<1>5. Nat \subseteq G
  <2> HIDE DEF G
  <2> QED BY <1>3, <1>4, SetInduction
<1>6. KeptOf(kept[Len(bars)], bars, wanted, Len(bars))
  BY <1>0, <1>5
<1>7. {bars[j] : j \in 1 .. Len(bars)} = ToSet(bars)
  BY <1>0 DEF ToSet
<1> QED
  BY <1>1, <1>6, <1>7 DEF KeptOf

LEMMA BeforeAsymmetric ==
  ASSUME NEW a, NEW b, a.day \in Int, a.min \in Int, b.day \in Int, b.min \in Int, Before(a, b)
  PROVE  ~Before(b, a)
BY DEF Before

\* Two charts in the order of time with the same bars are one chart.
LEMMA OneOrder ==
  ASSUME NEW a, NEW b, IsChart(a), IsChart(b), InTime(a), InTime(b), ToSet(a) = ToSet(b)
  PROVE  a = b
<1>1. /\ a \in Seq(ToSet(a)) /\ Len(a) \in Nat /\ DOMAIN a = 1 .. Len(a)
      /\ b \in Seq(ToSet(b)) /\ Len(b) \in Nat /\ DOMAIN b = 1 .. Len(b)
  BY DEF IsChart
<1>2. \A x, y \in ToSet(a) : Before(x, y) => ~Before(y, x)
  BY BeforeAsymmetric DEF IsChart
<1> DEFINE X == {i \in Nat \ {0} : \/ i \in DOMAIN a /\ (i \notin DOMAIN b \/ a[i] # b[i])
                                   \/ i \in DOMAIN b /\ (i \notin DOMAIN a \/ a[i] # b[i])}
<1>3. X = {}
  <2> SUFFICES ASSUME X # {} PROVE FALSE
    OBVIOUS
  <2>1. PICK i \in X : \A j \in X : i <= j
    <3>1. X \subseteq Nat
      OBVIOUS
    <3> HIDE DEF X
    <3> QED BY <3>1, LeastMember
  <2>2. \A j \in Nat \ {0} : j < i => /\ j \in DOMAIN a <=> j \in DOMAIN b
                                      /\ j \in DOMAIN a => a[j] = b[j]
    BY <2>1
  <2>3. i \in Nat \ {0}
    OBVIOUS
  <2>4. ASSUME i \in DOMAIN a PROVE \E j \in DOMAIN b : i <= j /\ b[j] = a[i]
    <3>1. a[i] \in ToSet(b)
      BY <2>4 DEF ToSet
    <3>2. PICK j \in DOMAIN b : b[j] = a[i]
      BY <3>1 DEF ToSet
    <3>3. CASE j < i
      <4>1. j \in DOMAIN a /\ a[j] = b[j]
        BY <1>1, <2>2, <2>3, <3>2, <3>3
      <4>2. Before(a[j], a[i]) /\ a[j] = a[i] /\ a[i] \in ToSet(a)
        BY <2>4, <3>2, <3>3, <4>1 DEF InTime, ToSet
      <4> QED BY <1>2, <4>2
    <3> QED BY <1>1, <2>3, <3>2, <3>3
  <2>5. ASSUME i \in DOMAIN b PROVE \E j \in DOMAIN a : i <= j /\ a[j] = b[i]
    <3>1. b[i] \in ToSet(a)
      BY <2>5 DEF ToSet
    <3>2. PICK j \in DOMAIN a : a[j] = b[i]
      BY <3>1 DEF ToSet
    <3>3. CASE j < i
      <4>1. j \in DOMAIN b /\ a[j] = b[j]
        BY <1>1, <2>2, <2>3, <3>2, <3>3
      <4>2. Before(b[j], b[i]) /\ b[j] = b[i] /\ b[i] \in ToSet(a)
        BY <2>5, <3>1, <3>2, <3>3, <4>1 DEF InTime
      <4> QED BY <1>2, <4>2
    <3> QED BY <1>1, <2>3, <3>2, <3>3
  <2>6. i \in DOMAIN a /\ i \in DOMAIN b
    BY <1>1, <2>3, <2>4, <2>5
  <2>7. a[i] # b[i]
    BY <2>6
  <2>8. PICK j \in DOMAIN b : i <= j /\ b[j] = a[i]
    BY <2>4, <2>6
  <2>9. PICK k \in DOMAIN a : i <= k /\ a[k] = b[i]
    BY <2>5, <2>6
  <2>10. i < j /\ i < k
    BY <1>1, <2>3, <2>7, <2>8, <2>9
  <2>11. Before(b[i], a[i]) /\ Before(a[i], b[i])
    BY <2>6, <2>8, <2>9, <2>10 DEF InTime
  <2>12. a[i] \in ToSet(a) /\ b[i] \in ToSet(a)
    BY <2>6 DEF ToSet
  <2> QED BY <1>2, <2>11, <2>12
<1>4. \A i \in Nat \ {0} : (i \in DOMAIN a <=> i \in DOMAIN b) /\ (i \in DOMAIN a => a[i] = b[i])
  <2>1. TAKE i \in Nat \ {0}
  <2>2. i \notin X
    BY <1>3
  <2> QED BY <2>1, <2>2
<1> HIDE DEF X
<1>5. DOMAIN a = DOMAIN b
  <2>1. \A i \in DOMAIN a : i \in Nat \ {0}
    BY <1>1
  <2>2. \A i \in DOMAIN b : i \in Nat \ {0}
    BY <1>1
  <2> QED BY <1>4, <2>1, <2>2
<1>6. \A i \in DOMAIN a : a[i] = b[i]
  BY <1>1, <1>4
<1>7. Len(a) = Len(b)
  <2>1. Len(a) \in Nat /\ Len(b) \in Nat
    BY <1>1
  <2>2. 1 .. Len(a) = 1 .. Len(b)
    BY <1>1, <1>5
  <2>3. ASSUME NEW m \in Nat, NEW n \in Nat, 1 .. m = 1 .. n PROVE m = n
    <3>1. Cardinality(1 .. m) = m /\ Cardinality(1 .. n) = n
      BY FS_Interval
    <3> QED BY <2>3, <3>1
  <2> HIDE DEF X
  <2> QED BY <2>1, <2>2, <2>3
<1> QED
  BY <1>1, <1>6, <1>7, SeqEqual

\* The regular hours of a chart in order are read in that order.
LEMMA RthInTime ==
  ASSUME NEW bars, IsChart(bars), InTime(bars)
  PROVE  /\ IsChart(RthBars(bars)) /\ InTime(RthBars(bars))
         /\ ToSet(RthBars(bars)) = {b \in ToSet(bars) : 0 <= b.min /\ b.min < 390}
<1> DEFINE kept == Among(bars, {b \in ToSet(bars) : 0 <= b.min /\ b.min < 390})
<1>1. bars \in Seq(ToSet(bars))
  BY DEF IsChart
<1>2. /\ kept \in Seq(ToSet(bars)) /\ InTime(kept)
      /\ ToSet(kept) = {b \in ToSet(bars) : 0 <= b.min /\ b.min < 390}
  BY <1>1, AmongFacts
<1> HIDE DEF kept
<1>3. Len(kept) \in Nat /\ DOMAIN kept = 1 .. Len(kept) /\ \A i \in DOMAIN kept : kept[i] \in ToSet(kept)
  BY <1>2 DEF ToSet
<1>4. IsChart(kept)
  BY <1>2, <1>3, SeqOfElements DEF IsChart
<1>5. \A i \in 1 .. Len(kept) - 1 : ~Before(kept[i + 1], kept[i])
  <2>1. TAKE i \in 1 .. Len(kept) - 1
  <2>2. i \in DOMAIN kept /\ i + 1 \in DOMAIN kept /\ i < i + 1
    BY <1>3
  <2>3. Before(kept[i], kept[i + 1])
    BY <1>2, <2>2 DEF InTime
  <2> QED BY <1>3, <1>4, <2>2, <2>3, BeforeAsymmetric DEF IsChart
<1>6. Chronological(kept) = kept
  BY <1>5, Zenon DEF Chronological
<1>7. RthBars(bars) = kept
  BY <1>6, Zenon DEF RthBars, kept
<1> QED
  BY <1>2, <1>4, <1>7

-----------------------------------------------------------------------------
(* The session that is read. *)

LEMMA AmongChart ==
  ASSUME NEW bars, IsChart(bars), NEW wanted
  PROVE  /\ IsChart(Among(bars, wanted))
         /\ ToSet(Among(bars, wanted)) = ToSet(bars) \cap wanted
         /\ InTime(bars) => InTime(Among(bars, wanted))
<1>1. /\ Among(bars, wanted) \in Seq(ToSet(bars))
      /\ ToSet(Among(bars, wanted)) = ToSet(bars) \cap wanted
      /\ InTime(bars) => InTime(Among(bars, wanted))
  BY AmongFacts DEF IsChart
<1>2. Among(bars, wanted) \in Seq(ToSet(Among(bars, wanted)))
  BY <1>1, SeqOfElements
<1> QED
  BY <1>1, <1>2 DEF IsChart

\* The chart of one day out of the regular hours of a chart.
LEMMA DayOfRth ==
  ASSUME NEW bars, IsChart(bars), InTime(bars), NEW day
  PROVE  /\ IsChart(OneSession(RthBars(bars), day)) /\ InTime(OneSession(RthBars(bars), day))
         /\ ToSet(OneSession(RthBars(bars), day))
              = {b \in ToSet(bars) : 0 <= b.min /\ b.min < 390 /\ b.day = day}
<1> DEFINE rth == RthBars(bars)
<1>1. /\ IsChart(rth) /\ InTime(rth)
      /\ ToSet(rth) = {b \in ToSet(bars) : 0 <= b.min /\ b.min < 390}
  BY RthInTime
<1> HIDE DEF rth
<1> DEFINE own == {b \in ToSet(rth) : b.day = day}
<1>2. IsChart(Among(rth, own)) /\ InTime(Among(rth, own)) /\ ToSet(Among(rth, own)) = own
  BY <1>1, AmongChart
<1>3. OneSession(rth, day) = Among(rth, own)
  BY DEF OneSession
<1>4. own = {b \in ToSet(bars) : 0 <= b.min /\ b.min < 390 /\ b.day = day}
  BY <1>1
<1> HIDE DEF own
<1>5. IsChart(OneSession(rth, day)) /\ InTime(OneSession(rth, day)) /\ ToSet(OneSession(rth, day)) = own
  BY <1>2, <1>3
<1> QED
  BY <1>4, <1>5 DEF rth

\* A chart ends in the latest of its sessions.
LEMMA LastSession ==
  ASSUME NEW rth, IsChart(rth), InTime(rth), NEW now, now.day \in Int,
         \A b \in ToSet(rth) : b.day <= now.day, \E b \in ToSet(rth) : b.day = now.day
  PROVE  SessionOf(rth, now) = now.day
<1>1. rth \in Seq(ToSet(rth)) /\ Len(rth) \in Nat /\ DOMAIN rth = 1 .. Len(rth)
  BY DEF IsChart
<1>2. PICK i \in DOMAIN rth : rth[i].day = now.day
  BY DEF ToSet
<1>3. rth # <<>> /\ Len(rth) \in DOMAIN rth /\ Last(rth) = rth[Len(rth)]
  BY <1>1, <1>2 DEF Last
<1>4. Last(rth) \in ToSet(rth) /\ rth[i] \in ToSet(rth)
  BY <1>2, <1>3 DEF ToSet
<1>5. /\ Last(rth).day \in Int /\ Last(rth).day <= now.day
      /\ Last(rth).min \in Int /\ rth[i].min \in Int
  BY <1>4 DEF IsChart
<1>6. CASE i = Len(rth)
  BY <1>2, <1>3, <1>6 DEF SessionOf
<1>7. CASE i # Len(rth)
  <2>1. i < Len(rth)
    BY <1>1, <1>2, <1>7
  <2>2. Before(rth[i], Last(rth))
    BY <1>2, <1>3, <2>1 DEF InTime
  <2>3. now.day <= Last(rth).day
    BY <1>2, <1>5, <2>2 DEF Before
  <2> QED BY <1>3, <1>5, <2>3 DEF SessionOf
<1> QED
  BY <1>6, <1>7

\* A chart and its part of one day hold one session of that day.
LEMMA SameDay ==
  ASSUME NEW all, NEW part, IsChart(all), InTime(all), IsChart(part), InTime(part),
         NEW day, ToSet(part) = {b \in ToSet(all) : b.day = day}
  PROVE  OneSession(RthBars(all), day) = OneSession(RthBars(part), day)
<1>1. /\ IsChart(OneSession(RthBars(all), day)) /\ InTime(OneSession(RthBars(all), day))
      /\ ToSet(OneSession(RthBars(all), day))
           = {b \in ToSet(all) : 0 <= b.min /\ b.min < 390 /\ b.day = day}
  BY DayOfRth
<1>2. /\ IsChart(OneSession(RthBars(part), day)) /\ InTime(OneSession(RthBars(part), day))
      /\ ToSet(OneSession(RthBars(part), day))
           = {b \in ToSet(part) : 0 <= b.min /\ b.min < 390 /\ b.day = day}
  BY DayOfRth
<1>3. {b \in ToSet(all) : 0 <= b.min /\ b.min < 390 /\ b.day = day}
        = {b \in ToSet(part) : 0 <= b.min /\ b.min < 390 /\ b.day = day}
  OBVIOUS
<1> QED
  BY <1>1, <1>2, <1>3, OneOrder

\* What the feed calls recent and what it was asked for today hold one session
\* of today.
LEMMA SessionsAgree ==
  ASSUME NEW tape, IsChart(tape), InTime(tape), NEW now, now.day \in Int, now.min \in Int,
         NEW latest, latest = Among(tape, {b \in ToSet(tape) : ~Before(now, b) /\ b.day >= now.day - 1}),
         NEW today, today = Among(latest, {b \in ToSet(latest) : b.day = now.day}),
         RthBars(today) # <<>>
  PROVE  /\ SessionOf(RthBars(latest), now) = now.day
         /\ SessionOf(RthBars(today), now) = now.day
         /\ OneSession(RthBars(latest), now.day) = OneSession(RthBars(today), now.day)
<1>1. /\ IsChart(latest) /\ InTime(latest)
      /\ ToSet(latest) = {b \in ToSet(tape) : ~Before(now, b) /\ b.day >= now.day - 1}
  BY AmongChart
<1>2. /\ IsChart(today) /\ InTime(today)
      /\ ToSet(today) = {b \in ToSet(latest) : b.day = now.day}
  BY <1>1, AmongChart
<1>3. /\ IsChart(RthBars(latest)) /\ InTime(RthBars(latest))
      /\ ToSet(RthBars(latest)) = {b \in ToSet(latest) : 0 <= b.min /\ b.min < 390}
  BY <1>1, RthInTime
<1>4. /\ IsChart(RthBars(today)) /\ InTime(RthBars(today))
      /\ ToSet(RthBars(today)) = {b \in ToSet(today) : 0 <= b.min /\ b.min < 390}
  BY <1>2, RthInTime
<1>5. \A b \in ToSet(latest) : b.day \in Int /\ b.min \in Int /\ b.day <= now.day
  BY <1>1 DEF IsChart, Before
<1>6. PICK b \in ToSet(RthBars(today)) : TRUE
  <2>1. 1 \in DOMAIN RthBars(today)
    BY <1>4 DEF IsChart
  <2> QED BY <2>1 DEF ToSet
<1>7. b.day = now.day /\ b \in ToSet(RthBars(latest))
  BY <1>2, <1>3, <1>4
<1>8. SessionOf(RthBars(latest), now) = now.day
  BY <1>3, <1>5, <1>7, LastSession
<1>9. SessionOf(RthBars(today), now) = now.day
  BY <1>2, <1>4, <1>5, <1>7, LastSession
<1>10. OneSession(RthBars(latest), now.day) = OneSession(RthBars(today), now.day)
  <2>1. IsChart(latest) /\ InTime(latest) /\ IsChart(today) /\ InTime(today)
    BY <1>1, <1>2
  <2>2. ASSUME NEW d, d = now.day PROVE OneSession(RthBars(latest), d) = OneSession(RthBars(today), d)
    <3>1. ToSet(today) = {c \in ToSet(latest) : c.day = d}
      BY <1>2, <2>2
    <3> QED BY <2>1, <3>1, SameDay
  <2> QED BY <2>2
<1> QED
  BY <1>8, <1>9, <1>10

-----------------------------------------------------------------------------
(* The state a day of scans goes through. *)

DayInv == world \in Worlds /\ clock \in DOMAIN Moments

LEMMA DayInvInit == Init => DayInv
BY MomentsAssumption DEF Init, DayInv

LEMMA DayInvStep == DayInv /\ [Next]_vars => DayInv'
<1> SUFFICES ASSUME DayInv, [Next]_vars PROVE DayInv'
  OBVIOUS
<1>1. world' = world
  BY DEF Next, StartScan, DetectSymbol, ScoreSymbol, FileRows, File, ReadLevels, FeedFails, FeedRecovers, Tick, vars
<1>2. clock' = clock \/ (clock < Len(Moments) /\ clock' = clock + 1)
  BY DEF Next, StartScan, DetectSymbol, ScoreSymbol, FileRows, File, ReadLevels, FeedFails, FeedRecovers, Tick, vars
<1> QED
  BY <1>1, <1>2, MomentsAssumption DEF DayInv

LEMMA DayAlways == Spec => []DayInv
BY DayInvInit, DayInvStep, PTL DEF Spec

\* The tape and the history of a symbol, and the reading of the clock.
LEMMA DayTyped ==
  ASSUME DayInv, NEW s \in Symbols
  PROVE  /\ Now.day \in Int /\ Now.min \in Int
         /\ IsChart(world.tape[s]) /\ InTime(world.tape[s])
         /\ IsChart(world.history[s])
<1>1. Now \in [day : Int, min : Int]
  <2>1. Moments \in Seq([day : Int, min : Int]) /\ clock \in 1 .. Len(Moments)
    BY MomentsAssumption DEF DayInv
  <2>2. Moments[clock] \in [day : Int, min : Int]
    BY <2>1, ElementOfSeq
  <2> QED BY <2>2 DEF Now
<1>2. /\ IsChart(world.tape[s]) /\ IsChart(world.history[s])
      /\ \A i, j \in DOMAIN world.tape[s] : i < j => Before(world.tape[s][i], world.tape[s][j])
  BY FeedsAssumption DEF DayInv
<1> QED
  BY <1>1, <1>2 DEF InTime

\* The sweep's levels and those of a detector's own read, a session apart.
LEMMA SweepAgreesAlways == DayInv => SweepAgrees
<1> SUFFICES ASSUME DayInv, NEW s \in Majors, Swept(s).levels # NoLevels,
                    RthBars(SessionTape(s)) # <<>>
             PROVE  LET swept == Swept(s).levels
                        own == LevelsOf(SessionTape(s), ReadingOf(s, SessionTape(s), Unread), Now)
                    IN  <<swept.day, swept.last, swept.vwap, swept.high, swept.low>>
                          = <<own.day, own.last, own.vwap, own.high, own.low>>
  BY DEF SweepAgrees
<1>1. s \in Symbols
  BY DEF Symbols
<1>2. /\ Now.day \in Int /\ Now.min \in Int
      /\ IsChart(world.tape[s]) /\ InTime(world.tape[s])
  BY <1>1, DayTyped
<1> DEFINE latest == LatestBars(s)
           today == SessionTape(s)
<1>3. /\ SessionOf(RthBars(latest), Now) = Now.day
      /\ SessionOf(RthBars(today), Now) = Now.day
      /\ OneSession(RthBars(latest), Now.day) = OneSession(RthBars(today), Now.day)
  BY <1>2, SessionsAgree DEF LatestBars, SessionTape
<1>4. PICK reading : Swept(s).levels = LevelsOf(latest, reading, Now)
  BY DEF Swept, SymbolLevels
<1> HIDE DEF latest, today
<1> DEFINE session == OneSession(RthBars(today), Now.day)
<1>5. \A r : LevelsOf(latest, r, Now) = LevelsOfDay(session, Now.day, r)
  BY <1>3 DEF LevelsOf, LevelsOfRth
<1>6. \A r : LevelsOf(today, r, Now) = LevelsOfDay(session, Now.day, r)
  BY <1>3 DEF LevelsOf, LevelsOfRth
<1> HIDE DEF session
<1>7. \A r, q : LET a == LevelsOfDay(session, Now.day, r)
                    b == LevelsOfDay(session, Now.day, q)
                IN  /\ a.day = b.day /\ a.last = b.last /\ a.vwap = b.vwap
                    /\ a.high = b.high /\ a.low = b.low
  BY DEF LevelsOfDay, SessionLevels
<1> QED
  BY <1>4, <1>5, <1>6, <1>7 DEF today

\* Once the regular hours of today have traded, the sweep and the detectors go
\* by one session and its prices (service.py:38-68, levels.py:91-153).
THEOREM SweepTheorem == Spec => []SweepAgrees
BY DayAlways, SweepAgreesAlways, PTL

-----------------------------------------------------------------------------
(* The sessions a profile is built from. *)

\* Days sorted: each finite set has one of every rank.
LEMMA AscendingRanks ==
  ASSUME NEW D, D \subseteq Int, IsFiniteSet(D),
         NEW size, size = Cardinality(D),
         NEW rank, rank = [d \in D |-> Cardinality({e \in D : e <= d})]
  PROVE  /\ size \in Nat
         /\ rank \in [D -> 1 .. size]
         /\ \A d \in D : rank[d] = size - Cardinality({e \in D : e > d})
         /\ \A k \in 1 .. size : \E d \in D : rank[d] = k
         /\ \A d, e \in D : rank[d] = rank[e] => d = e
<1>1. size \in Nat
  BY FS_CardinalityType
<1>2. ASSUME NEW d \in D
      PROVE  /\ IsFiniteSet({e \in D : e <= d}) /\ Cardinality({e \in D : e <= d}) \in 1 .. size
             /\ Cardinality({e \in D : e <= d}) = size - Cardinality({e \in D : e > d})
  <2> DEFINE low == {e \in D : e <= d}
             high == {e \in D : e > d}
  <2>1. low \in SUBSET D /\ high \in SUBSET D /\ D \cap high = high
    OBVIOUS
  <2>a. {d} \in SUBSET low
    OBVIOUS
  <2>b. D \ high = low
    <3>1. \A e \in D : e <= d <=> ~(e > d)
      OBVIOUS
    <3> QED BY <3>1
  <2> HIDE DEF low, high
  <2>2. IsFiniteSet(low) /\ Cardinality(low) <= size /\ IsFiniteSet(high)
    BY <2>1, FS_Subset
  <2>3. Cardinality({d}) = 1 /\ Cardinality({d}) <= Cardinality(low)
    BY <2>a, <2>2, FS_Subset, FS_Singleton
  <2>4. Cardinality(low) = size - Cardinality(high)
    <3>1. Cardinality(D \ high) = Cardinality(D) - Cardinality(D \cap high)
      BY FS_Difference
    <3> QED BY <2>1, <2>b, <3>1
  <2>5. Cardinality(low) \in Nat
    BY <2>2, FS_CardinalityType
  <2> QED
    BY <1>1, <2>2, <2>3, <2>4, <2>5 DEF low, high
<1>3. rank \in [D -> 1 .. size]
  BY <1>2
<1>4. ASSUME NEW d \in D, NEW e \in D, d < e PROVE rank[d] < rank[e]
  <2> DEFINE few == {x \in D : x <= d}
             more == {x \in D : x <= e}
  <2>a. \A x \in D : x <= d => x <= e
    BY <1>4
  <2>b. e <= e /\ ~(e <= d)
    BY <1>4
  <2>1. few \in SUBSET more /\ e \in more /\ e \notin few /\ IsFiniteSet(more)
    BY <1>2, <2>a, <2>b
  <2>2. Cardinality(few) <= Cardinality(more) /\ Cardinality(few) # Cardinality(more)
    <3> HIDE DEF few, more
    <3> QED BY <2>1, FS_Subset
  <2>3. rank[d] = Cardinality(few) /\ rank[e] = Cardinality(more)
    OBVIOUS
  <2> HIDE DEF few, more
  <2> QED BY <1>1, <1>3, <2>2, <2>3
<1>5. ASSUME NEW d \in D, NEW e \in D, rank[d] = rank[e] PROVE d = e
  <2>1. ~(d < e) /\ ~(e < d)
    BY <1>3, <1>4, <1>5
  <2> QED BY <2>1
<1>6. rank \in Injection(D, 1 .. size)
  BY <1>3, <1>5 DEF Injection, IsInjective
<1>7. IsFiniteSet(1 .. size) /\ Cardinality(1 .. size) = size
  BY <1>1, FS_Interval
<1>8. rank \in Surjection(D, 1 .. size)
  BY <1>6, <1>7, FS_Injection
<1>9. \A k \in 1 .. size : \E d \in D : rank[d] = k
  BY <1>8 DEF Surjection
<1>10. \A d \in D : rank[d] = size - Cardinality({e \in D : e > d})
  BY <1>2
<1> QED
  BY <1>1, <1>3, <1>5, <1>9, <1>10

\* The days at the end of the sorted days are those with few later ones.
LEMMA LastDaysAre ==
  ASSUME NEW cum, NEW D, D = DOMAIN cum, D \subseteq Int, IsFiniteSet(D), NEW n \in Nat \ {0}
  PROVE  ToSet(LastDays(cum, n)) = {d \in D : Cardinality({e \in D : e > d}) < n}
<1> DEFINE size == Cardinality(D)
           rank == [d \in D |-> Cardinality({e \in D : e <= d})]
           days == Ascending(D)
           from == Max({1, size - n + 1})
<1>1. /\ size \in Nat /\ rank \in [D -> 1 .. size]
      /\ \A d \in D : rank[d] = size - Cardinality({e \in D : e > d})
      /\ \A k \in 1 .. size : \E d \in D : rank[d] = k
      /\ \A d, e \in D : rank[d] = rank[e] => d = e
  <2>1. size = Cardinality(D) /\ rank = [d \in D |-> Cardinality({e \in D : e <= d})]
    OBVIOUS
  <2> HIDE DEF size, rank
  <2> QED BY <2>1, AscendingRanks
<1>2. \A d \in D : rank[d] = Cardinality({e \in D : e <= d})
  OBVIOUS
<1>3. days = [k \in 1 .. size |-> CHOOSE d \in D : Cardinality({e \in D : e <= d}) = k]
  BY DEF Ascending
<1> HIDE DEF rank, size, days
<1>4. \A k \in 1 .. size : days[k] \in D /\ rank[days[k]] = k
  <2>1. TAKE k \in 1 .. size
  <2>2. \E d \in D : Cardinality({e \in D : e <= d}) = k
    BY <1>1, <1>2
  <2>3. days[k] = CHOOSE d \in D : Cardinality({e \in D : e <= d}) = k
    BY <1>3
  <2>4. days[k] \in D /\ Cardinality({e \in D : e <= days[k]}) = k
    BY <2>2, <2>3
  <2> QED BY <1>2, <2>4
<1>5. Len(days) = size
  BY <1>1, <1>3
<1>6. from \in Int /\ from >= 1 /\ from >= size - n + 1 /\ (from = 1 \/ from = size - n + 1)
  <2>1. \E x \in {1, size - n + 1} : \A y \in {1, size - n + 1} : x >= y
    BY <1>1
  <2>2. from \in {1, size - n + 1} /\ \A y \in {1, size - n + 1} : from >= y
    BY <2>1 DEF Max
  <2> HIDE DEF from
  <2> QED BY <1>1, <2>2
<1>7. LastDays(cum, n) = SubSeq(days, from, size)
  BY <1>5 DEF LastDays, days
<1> HIDE DEF from
<1> DEFINE last == SubSeq(days, from, size)
<1>8. /\ last \in Seq(D) /\ Len(last) = IF from <= size THEN size - from + 1 ELSE 0
      /\ \A i \in 1 .. size - from + 1 : last[i] = days[from + i - 1]
  <2>1. \A i \in from .. size : days[i] \in D
    BY <1>1, <1>4, <1>6
  <2> QED BY <1>1, <1>6, <2>1, SubSeqProperties
<1> HIDE DEF last
<1>9. DOMAIN last = 1 .. size - from + 1
  BY <1>1, <1>6, <1>8
<1>10. ASSUME NEW d \in ToSet(last) PROVE d \in D /\ rank[d] >= from
  <2>1. PICK i \in 1 .. size - from + 1 : d = last[i]
    BY <1>9 DEF ToSet
  <2>2. d = days[from + i - 1] /\ from + i - 1 \in 1 .. size /\ from + i - 1 >= from
    BY <1>1, <1>6, <1>8, <2>1
  <2> QED BY <1>4, <2>2
<1>11. ASSUME NEW d \in D, rank[d] >= from PROVE d \in ToSet(last)
  <2>1. rank[d] \in 1 .. size /\ days[rank[d]] = d
    BY <1>1, <1>4
  <2>2. rank[d] - from + 1 \in 1 .. size - from + 1 /\ from + (rank[d] - from + 1) - 1 = rank[d]
    BY <1>1, <1>6, <1>11, <2>1
  <2>3. last[rank[d] - from + 1] = d
    BY <1>8, <2>1, <2>2
  <2> QED BY <1>9, <2>2, <2>3 DEF ToSet
<1>12. \A d \in D : Cardinality({e \in D : e > d}) \in Nat
  <2>1. \A d \in D : {e \in D : e > d} \in SUBSET D
    OBVIOUS
  <2> QED BY <2>1, FS_Subset, FS_CardinalityType
<1>13. \A d \in D : rank[d] >= from <=> Cardinality({e \in D : e > d}) < n
  BY <1>1, <1>6, <1>12
<1> QED
  BY <1>7, <1>10, <1>11, <1>13 DEF last

LEMMA SessionDaysFinite ==
  ASSUME NEW history, IsChart(history), NEW today
  PROVE  IsFiniteSet(SessionDays(history, today)) /\ SessionDays(history, today) \subseteq Int
<1> DEFINE n == Len(history)
           f == [i \in 1 .. n |-> history[i].day]
           Y == {f[i] : i \in 1 .. n}
<1>1. n \in Nat /\ DOMAIN history = 1 .. n
  BY DEF IsChart
<1>2. IsFiniteSet(1 .. n)
  BY <1>1, FS_Interval
<1>3. f \in Surjection(1 .. n, Y)
  BY DEF Surjection
<1>4. IsFiniteSet(Y)
  <2> HIDE DEF f, Y, n
  <2> QED BY <1>2, <1>3, FS_Surjection
<1>5. \A x \in SessionDays(history, today) : x \in Y /\ x \in Int
  <2>1. TAKE x \in SessionDays(history, today)
  <2>2. PICK b \in ToSet(history) : x = b.day
    BY DEF SessionDays
  <2>3. PICK i \in 1 .. n : b = history[i]
    BY <1>1, <2>2 DEF ToSet
  <2>4. f[i] = x
    BY <2>2, <2>3
  <2> QED BY <2>2, <2>4 DEF IsChart
<1>6. SessionDays(history, today) \in SUBSET Y
  BY <1>5
<1> HIDE DEF Y
<1> QED
  BY <1>4, <1>5, <1>6, FS_Subset

\* A profile is of the last sessions before its day, when the days it asks for
\* have enough of them or all there are.
LEMMA ProfileDays ==
  ASSUME NEW history, IsChart(history), NEW today \in Int,
         NEW sessions, sessions = SessionDays(history, today),
         NEW asked, asked = {d \in sessions : d >= today - Lookback},
         asked # sessions => Cardinality(asked) >= Profile.sessions
  PROVE  /\ BuildProfile(history, today).asOf = today
         /\ BuildProfile(history, today).days
              = {d \in sessions : Cardinality({e \in sessions : e > d}) < 20}
<1> DEFINE window == HistoryWindow(history, today)
           cum == SessionCumulative(window)
<1>1. Profile.sessions = 20 /\ Lookback = 54
  BY DEF Profile, Lookback
<1>2. IsFiniteSet(sessions) /\ sessions \subseteq Int
  BY SessionDaysFinite
<1>3. ToSet(window) = {b \in ToSet(history) : today - Lookback <= b.day /\ b.day <= today - 1}
  <2> DEFINE wanted == {b \in ToSet(history) : today - Lookback <= b.day /\ b.day <= today - 1}
  <2>1. window = Among(history, wanted)
    BY DEF HistoryWindow
  <2>2. wanted \subseteq ToSet(history)
    OBVIOUS
  <2> HIDE DEF wanted
  <2>3. ToSet(Among(history, wanted)) = ToSet(history) \cap wanted
    BY AmongChart
  <2>4. ToSet(window) = wanted
    BY <2>1, <2>2, <2>3
  <2> QED BY <2>4 DEF wanted
<1> HIDE DEF window
<1>4. DOMAIN cum = {b.day : b \in {x \in ToSet(window) : SessionBar(x)}}
  BY DEF SessionCumulative
<1>5. DOMAIN cum = asked
  <2>1. ASSUME NEW d \in DOMAIN cum PROVE d \in asked
    <3>1. PICK b \in ToSet(window) : SessionBar(b) /\ d = b.day
      BY <1>4
    <3>2. b \in ToSet(history) /\ today - Lookback <= d /\ d <= today - 1 /\ d \in Int
      BY <1>3, <3>1 DEF IsChart
    <3>3. d < today /\ d >= today - Lookback
      BY <1>1, <3>2
    <3> QED BY <3>1, <3>2, <3>3 DEF SessionDays
  <2>2. ASSUME NEW d \in asked PROVE d \in DOMAIN cum
    <3>1. PICK b \in ToSet(history) : SessionBar(b) /\ b.day < today /\ d = b.day
      BY DEF SessionDays
    <3>2. d \in Int /\ d >= today - Lookback
      BY <1>2
    <3>3. today - Lookback <= b.day /\ b.day <= today - 1
      BY <1>1, <3>1, <3>2
    <3>4. b \in ToSet(window)
      BY <1>3, <3>1, <3>3
    <3> QED BY <1>4, <3>1, <3>4
  <2> QED BY <2>1, <2>2
<1> HIDE DEF cum
<1>6. IsFiniteSet(asked) /\ asked \subseteq Int /\ asked \in SUBSET sessions
  BY <1>2, FS_Subset
<1>7. ToSet(LastDays(cum, 20)) = {d \in asked : Cardinality({e \in asked : e > d}) < 20}
  BY <1>5, <1>6, LastDaysAre
<1>8. ASSUME NEW d \in asked
      PROVE  {e \in asked : e > d} = {e \in sessions : e > d}
  BY <1>1, <1>2
<1>9. ASSUME NEW d \in sessions, d \notin asked
      PROVE  ~(Cardinality({e \in sessions : e > d}) < 20)
  <2> DEFINE later == {e \in sessions : e > d}
  <2>1. Cardinality(asked) >= 20
    BY <1>1, <1>9
  <2>2. asked \in SUBSET later
    BY <1>1, <1>2, <1>9
  <2>3. later \in SUBSET sessions
    OBVIOUS
  <2> HIDE DEF later
  <2>4. Cardinality(asked) <= Cardinality(later) /\ IsFiniteSet(later)
    BY <1>2, <2>2, <2>3, FS_Subset
  <2>5. Cardinality(later) \in Nat /\ Cardinality(asked) \in Nat
    BY <1>6, <2>4, FS_CardinalityType
  <2>6. ~(Cardinality(later) < 20)
    BY <2>1, <2>4, <2>5
  <2> QED BY <2>6 DEF later
<1>10. ToSet(LastDays(cum, 20)) = {d \in sessions : Cardinality({e \in sessions : e > d}) < 20}
  <2>1. \A d \in asked : Cardinality({e \in asked : e > d}) = Cardinality({e \in sessions : e > d})
    BY <1>8
  <2> QED BY <1>6, <1>7, <1>9, <2>1
<1>11. BuildProfile(history, today) = ProfileOf(cum, LastDays(cum, 20), today)
  BY <1>1 DEF BuildProfile, ProfileFrom, cum, window
<1> QED
  BY <1>10, <1>11 DEF ProfileOf

\* Each cached profile was built at some reading of the clock.
BuiltAt(s, k) == [at |-> Moments[k], profile |-> BuildProfile(world.history[s], Moments[k].day)]
CacheInv ==
  /\ cache = [s \in Symbols |-> cache[s]]
  /\ \A s \in Symbols : cache[s] = NoEntry \/ \E k \in DOMAIN Moments : cache[s] = BuiltAt(s, k)

LEMMA CacheInvInit == Init => CacheInv
BY DEF Init, CacheInv

LEMMA EntryBuilt ==
  ASSUME DayInv, CacheInv, NEW s \in Symbols
  PROVE  ProfileAfter(s) = cache[s] \/ ProfileAfter(s) = BuiltAt(s, clock)
BY DEF ProfileAfter, ProfileEntry, BuiltAt, Now

LEMMA SweepBuilt ==
  ASSUME DayInv, CacheInv, NEW symbols, cache' = CacheAfterSweep(symbols), world' = world
  PROVE  CacheInv'
<1>1. cache' = [s \in Symbols |-> cache'[s]]
  BY DEF CacheAfterSweep
<1>2. ASSUME NEW s \in Symbols
      PROVE  cache'[s] = NoEntry \/ \E k \in DOMAIN Moments : cache'[s] = BuiltAt(s, k)'
  <2>1. cache'[s] = ProfileAfter(s) \/ cache'[s] = cache[s]
    BY DEF CacheAfterSweep
  <2>2. cache'[s] = cache[s] \/ cache'[s] = BuiltAt(s, clock)
    BY <2>1, EntryBuilt
  <2>3. \A k : BuiltAt(s, k)' = BuiltAt(s, k)
    BY DEF BuiltAt
  <2>4. clock \in DOMAIN Moments
    BY DEF DayInv
  <2> QED BY <2>2, <2>3, <2>4 DEF CacheInv
<1> QED
  BY <1>1, <1>2 DEF CacheInv

LEMMA CacheInvStep == DayInv /\ CacheInv /\ [Next]_vars => CacheInv'
<1> SUFFICES ASSUME DayInv, CacheInv, [Next]_vars PROVE CacheInv'
  OBVIOUS
<1>1. ASSUME NEW bucket \in Tracks, StartScan(bucket) PROVE CacheInv'
  BY <1>1, SweepBuilt DEF StartScan
<1>2. ASSUME NEW symbols \in Looks, ReadLevels(symbols) PROVE CacheInv'
  BY <1>2, SweepBuilt DEF ReadLevels
<1>3. ASSUME NEW t \in Symbols, DetectSymbol(t) PROVE CacheInv'
  <2>1. world' = world /\ cache' = [cache EXCEPT ![t] = ProfileAfter(t)]
    BY <1>3 DEF DetectSymbol
  <2>2. DOMAIN cache = Symbols
    BY DEF CacheInv
  <2>3. /\ cache' = [s \in Symbols |-> cache'[s]] /\ cache'[t] = ProfileAfter(t)
        /\ \A s \in Symbols \ {t} : cache'[s] = cache[s]
    BY <2>1, <2>2
  <2>4. \A s, k : BuiltAt(s, k)' = BuiltAt(s, k)
    BY <2>1 DEF BuiltAt
  <2>5. cache'[t] = cache[t] \/ cache'[t] = BuiltAt(t, clock)
    BY <2>3, EntryBuilt
  <2>6. clock \in DOMAIN Moments
    BY DEF DayInv
  <2> QED BY <2>3, <2>4, <2>5, <2>6 DEF CacheInv
<1>4. ASSUME cache' = cache, world' = world PROVE CacheInv'
  BY <1>4 DEF CacheInv, BuiltAt
<1>5. CASE UNCHANGED vars
  BY <1>4, <1>5 DEF vars
<1>6. ASSUME NEW t \in Symbols, ScoreSymbol(t) PROVE CacheInv'
  BY <1>4, <1>6 DEF ScoreSymbol
<1>7. CASE FileRows
  BY <1>4, <1>7 DEF FileRows, File
<1>8. ASSUME NEW f \in Fragile, FeedFails(f) PROVE CacheInv'
  BY <1>4, <1>8 DEF FeedFails
<1>9. CASE FeedRecovers
  BY <1>4, <1>9 DEF FeedRecovers
<1>10. CASE Tick
  BY <1>4, <1>10 DEF Tick
<1> QED
  BY <1>1, <1>2, <1>3, <1>5, <1>6, <1>7, <1>8, <1>9, <1>10 DEF Next

LEMMA CacheAlways == Spec => []CacheInv
BY DayAlways, CacheInvInit, CacheInvStep, PTL DEF Spec

LEMMA CacheOfToday == DayInv /\ CacheInv => ProfileOfToday
<1> SUFFICES ASSUME DayInv, CacheInv, NEW s \in Symbols, CacheHit(cache[s], Now)
             PROVE  LET sessions == SessionDays(world.history[s], Now.day)
                    IN  cache[s].profile.days
                          = {d \in sessions : Cardinality({e \in sessions : e > d}) < 20}
  BY DEF ProfileOfToday
<1>1. PICK k \in DOMAIN Moments : cache[s] = BuiltAt(s, k)
  BY DEF CacheInv, CacheHit
<1>2. cache[s].profile = BuildProfile(world.history[s], Moments[k].day) /\ cache[s].profile.asOf = Now.day
  BY <1>1 DEF BuiltAt, CacheHit
<1>3. Moments[k].day \in Int
  <2>1. Moments \in Seq([day : Int, min : Int]) /\ k \in 1 .. Len(Moments)
    BY MomentsAssumption
  <2>2. Moments[k] \in [day : Int, min : Int]
    BY <2>1, ElementOfSeq
  <2> QED BY <2>2
<1> DEFINE sessions == SessionDays(world.history[s], Moments[k].day)
           asked == {d \in sessions : d >= Moments[k].day - Lookback}
<1>4. asked # sessions => Cardinality(asked) >= Profile.sessions
  BY FeedsAssumption DEF DayInv
<1>5. IsChart(world.history[s])
  BY DayTyped
<1>6. /\ BuildProfile(world.history[s], Moments[k].day).asOf = Moments[k].day
      /\ BuildProfile(world.history[s], Moments[k].day).days
           = {d \in sessions : Cardinality({e \in sessions : e > d}) < 20}
  <2>1. sessions = SessionDays(world.history[s], Moments[k].day)
        /\ asked = {d \in sessions : d >= Moments[k].day - Lookback}
    OBVIOUS
  <2> HIDE DEF sessions, asked
  <2> QED BY <1>3, <1>4, <1>5, <2>1, ProfileDays
<1>7. Moments[k].day = Now.day
  BY <1>2, <1>6
<1> QED
  BY <1>2, <1>6, <1>7

\* The volume a symbol is measured against is that of its last twenty sessions
\* before today, however old the cache and whichever feeds failed
\* (volume_profile.py:106-164 and 196-204).
THEOREM ProfileTheorem == Spec => []ProfileOfToday
BY DayAlways, CacheAlways, CacheOfToday, PTL
===============================================================================
