------------------------- MODULE ProviderLimiterProofs -------------------------
(***************************************************************************)
(* What ProviderLimiter keeps for any number of calls, any priorities, any  *)
(* rate, capacity and cap: the rate in every window, the daily cap, that no *)
(* waiter oversleeps a token, and that requests go out by priority.         *)
(*                                                                         *)
(* The first three do not depend on the order of the queue, so their        *)
(* invariant leaves `queue` out; the last one depends on nothing else.      *)
(***************************************************************************)
EXTENDS ProviderLimiter, FiniteSetTheorems, SequenceTheorems, TLAPS

\* The types the arguments need.
ClockInv == now \in 0 .. MaxTime /\ today \in 0 .. MaxDay

BucketInv == tokens \in 0 .. Capacity /\ updated \in 0 .. now

CallInv == call \in [Calls -> [at : {"idle", "wait", "sent", "backoff"}, wake : Int, tries : Int]]

\* Whatever was spent since tick s came out of what a full bucket held at s and
\* what polls have refilled since; nothing was spent after the last poll.
RateInv ==
  /\ spent \in Nat /\ mark \in [0 .. MaxTime -> Nat]
  /\ \A s \in 0 .. now :
       /\ s <= updated => spent + tokens <= mark[s] + Capacity + (updated - s)
       /\ updated < s => spent = mark[s]

\* The counter is exact for its day, and nothing was sent on a later one.
CapInv ==
  /\ sent \in [0 .. MaxDay -> Nat]
  /\ budget \in [day : 0 .. today, count : 0 .. DailyCap]
  /\ sent[budget.day] = budget.count
  /\ \A d \in 0 .. MaxDay : sent[d] <= DailyCap /\ (d > budget.day => sent[d] = 0)

LimiterInv ==
  /\ ClockInv
  /\ BucketInv
  /\ CallInv
  /\ RateInv
  /\ CapInv
  /\ SleepsInTime

-----------------------------------------------------------------------------
\* The assumptions about the numbers, one by one.
LEMMA Constants ==
  /\ Cost \in Nat /\ Cost > 0 /\ Capacity \in Nat /\ Cost <= Capacity
  /\ MaxSleep \in Nat /\ MaxSleep > 0
  /\ DailyCap \in Nat /\ MaxTime \in Nat /\ MaxDay \in Nat
<1>1. {Cost, Capacity, MaxSleep} \subseteq Nat \ {0} /\ {DailyCap, MaxTime, MaxDay} \subseteq Nat
  BY LimiterAssumption
<1> QED  BY <1>1, LimiterAssumption

\* A refill keeps the bucket between empty and full and loses nothing that fits.
LEMMA RefilledBounds ==
  ASSUME BucketInv, now \in Nat
  PROVE  /\ Refilled \in 0 .. Capacity
         /\ Refilled <= tokens + (now - updated)
  BY Constants DEF BucketInv, Refilled

\* What one step does to the clock and to the bucket: a poll refills it and may
\* take one request's worth, the clock ticks, or neither changes.
PollStep ==
  /\ updated' = now /\ UNCHANGED <<now, today, mark>>
  /\ \/ tokens' = Refilled /\ UNCHANGED spent
     \/ Refilled >= Cost /\ tokens' = Refilled - Cost /\ spent' \in {spent, spent + Cost}

QuietStep == UNCHANGED <<now, today, tokens, updated, spent, mark>>

\* What one step does to the budget: it counts a request that goes out, notices
\* a new day, or is left alone.
CountStep ==
  \/ UNCHANGED <<budget, sent>>
  \/ /\ CountToday < DailyCap
     /\ budget' = [day |-> today, count |-> CountToday + 1]
     /\ sent' = [sent EXCEPT ![today] = @ + 1]
  \/ budget' = [day |-> today, count |-> CountToday] /\ UNCHANGED sent

\* What one step does to the sleepers: at most one call falls asleep, and it is
\* not for longer than Delay.
SleepStep ==
  \E c \in Calls :
    /\ CallInv'
    /\ \A d \in Calls \ {c} : call'[d] = call[d]
    /\ \/ ~Waiting(c)'
       \/ \E q : call'[c].wake = now + Delay(c, q)

\* An attempt polls, counts and sleeps.
LEMMA AttemptSteps ==
  ASSUME CallInv, ClockInv, BucketInv,
         NEW c \in Calls, NEW q, NEW tries \in Int, Attempt(c, q, tries)
  PROVE  PollStep /\ CountStep /\ SleepStep
<1>1. Refilled \in Int /\ Delay(c, q) \in Int
  BY RefilledBounds, Constants DEF ClockInv, Delay
<1>2. CASE GoToSleep(c, q, tries)
  <2>1. PollStep /\ CountStep
    BY <1>2 DEF Attempt, GoToSleep, PollStep, CountStep, history
  <2>2. SleepStep
    BY <1>1, <1>2 DEF GoToSleep, SleepStep, CallInv, ClockInv, Waiting
  <2> QED  BY <2>1, <2>2
<1>3. CASE TakeToken(c, q) /\ ChargeAndSend(c, tries)
  <2>1. PollStep /\ CountStep
    BY <1>1, <1>3, Constants
    DEF Attempt, TakeToken, ChargeAndSend, Send, PollStep, CountStep, history
  <2>2. SleepStep
    BY <1>3 DEF ChargeAndSend, Send, IdleCall, SleepStep, CallInv, Waiting
  <2> QED  BY <2>1, <2>2
<1> QED  BY <1>2, <1>3 DEF Attempt

\* Every step but a tick polls or is quiet.
LEMMA Steps ==
  ASSUME CallInv, ClockInv, BucketInv, Next
  PROVE  \/ (PollStep \/ QuietStep) /\ CountStep /\ SleepStep
         \/ Tick
<1>1. ASSUME NEW c \in Calls, Begin(c) \/ Retry(c) \/ Poll(c)
      PROVE  PollStep /\ CountStep /\ SleepStep
  <2>1. call[c].tries \in Int
    BY DEF CallInv
  <2>2. \E q : \E tries \in Int : Attempt(c, q, tries)
    <3>1. CASE Begin(c)
      BY <3>1 DEF Begin
    <3>2. CASE Retry(c)
      BY <2>1, <3>2 DEF Retry
    <3>3. CASE Poll(c)
      BY <2>1, <3>3 DEF Poll
    <3> QED  BY <1>1, <3>1, <3>2, <3>3
  <2> QED  BY <2>2, AttemptSteps
<1>2. ASSUME NEW c \in Calls, Fail(c) \/ Finish(c) \/ Cancel(c)
      PROVE  QuietStep /\ CountStep /\ SleepStep
  <2>1. QuietStep /\ CountStep
    BY <1>2 DEF Fail, Finish, Cancel, QuietStep, CountStep, bucketVars, history
  <2>2. SleepStep
    BY <1>2 DEF Fail, Finish, Cancel, IdleCall, SleepStep, CallInv, Waiting
  <2> QED  BY <2>1, <2>2
<1> QED  BY <1>1, <1>2 DEF Next

-----------------------------------------------------------------------------
\* The clock and the bucket stay in their bounds.
LEMMA BucketStays ==
  ASSUME ClockInv, BucketInv, PollStep \/ QuietStep \/ Tick
  PROVE  ClockInv' /\ BucketInv'
<1>1. CASE PollStep
  BY <1>1, RefilledBounds, Constants DEF ClockInv, BucketInv, PollStep
<1>2. CASE QuietStep
  BY <1>2 DEF ClockInv, BucketInv, QuietStep
<1>3. CASE Tick
  BY <1>3, Constants DEF ClockInv, BucketInv, Tick, bucketVars
<1> QED  BY <1>1, <1>2, <1>3

\* The account of a window survives every step.
LEMMA RateStays ==
  ASSUME ClockInv, BucketInv, RateInv, PollStep \/ QuietStep \/ Tick
  PROVE  RateInv'
<1>1. CASE PollStep
  <2>1. /\ now' = now /\ updated' = now /\ mark' = mark /\ spent' \in Nat
        /\ spent' + tokens' <= spent + Refilled /\ tokens' \in Int
    BY <1>1, RefilledBounds, Constants DEF ClockInv, RateInv, PollStep
  <2>2. ASSUME NEW s \in 0 .. now
        PROVE  spent + Refilled <= mark[s] + Capacity + (now - s)
    <3>1. mark[s] \in Nat /\ spent \in Nat
      BY Constants DEF RateInv, ClockInv
    <3>2. CASE s <= updated
      <4>1. spent + tokens <= mark[s] + Capacity + (updated - s)
        BY <3>2 DEF RateInv
      <4> QED  BY <3>1, <4>1, RefilledBounds, Constants DEF ClockInv, BucketInv
    <3>3. CASE updated < s
      <4>1. spent = mark[s]
        BY <3>3 DEF RateInv
      <4> QED  BY <3>1, <4>1, RefilledBounds, Constants DEF ClockInv, BucketInv
    <3> QED  BY <3>2, <3>3 DEF ClockInv, BucketInv
  <2>3. ASSUME NEW s \in 0 .. now
        PROVE  spent' + tokens' <= mark[s] + Capacity + (now - s)
    <3>1. mark[s] \in Nat /\ spent \in Nat /\ now \in Nat /\ s \in Nat
      BY Constants DEF RateInv, ClockInv
    <3>2. Refilled \in Int
      BY RefilledBounds, <3>1
    <3>3. spent + Refilled <= mark[s] + Capacity + (now - s)
      BY <2>2
    <3>4. PICK x \in Nat, k \in Int : spent' = x /\ tokens' = k /\ x + k <= spent + Refilled
      BY <2>1
    <3>5. x + k <= mark[s] + Capacity + (now - s)
      BY <3>1, <3>2, <3>3, <3>4, Constants
    <3> QED  BY <3>4, <3>5
  <2> QED  BY <2>1, <2>3 DEF RateInv, ClockInv
<1>2. CASE QuietStep
  BY <1>2 DEF RateInv, QuietStep
<1>3. CASE Tick
  <2>1. /\ now' = now + 1 /\ now + 1 \in 0 .. MaxTime
        /\ mark' = [mark EXCEPT ![now + 1] = spent]
        /\ UNCHANGED <<tokens, updated, spent>>
    BY <1>3, Constants DEF Tick, bucketVars, ClockInv
  <2>2. mark' \in [0 .. MaxTime -> Nat] /\ mark'[now + 1] = spent
    BY <2>1 DEF RateInv
  <2>3. \A s \in 0 .. now : mark'[s] = mark[s]
    BY <2>1 DEF RateInv, ClockInv
  <2>4. \A s \in 0 .. now' : s \in 0 .. now \/ s = now + 1
    BY <2>1 DEF ClockInv
  <2> QED  BY <2>1, <2>2, <2>3, <2>4 DEF RateInv, ClockInv, BucketInv
<1> QED  BY <1>1, <1>2, <1>3

\* The counter stays exact.
LEMMA CapStays ==
  ASSUME ClockInv, CapInv, ClockInv', (CountStep /\ today' = today) \/ Tick
  PROVE  CapInv'
<1> DEFINE Types == sent \in [0 .. MaxDay -> Nat] /\ today \in 0 .. MaxDay
                    /\ budget \in [day : 0 .. today, count : 0 .. DailyCap]
<1>0. Types
  BY DEF CapInv, ClockInv
<1>1. CASE Tick
  BY <1>0, <1>1 DEF CapInv, Tick
<1>2. CASE UNCHANGED <<budget, sent, today>>
  BY <1>2 DEF CapInv
<1>3. sent[today] = CountToday /\ CountToday \in 0 .. DailyCap
  BY <1>0, Constants DEF CapInv, CountToday
<1>4. CASE /\ CountToday < DailyCap /\ today' = today
           /\ budget' = [day |-> today, count |-> CountToday + 1]
           /\ sent' = [sent EXCEPT ![today] = @ + 1]
  <2>1. sent' \in [0 .. MaxDay -> Nat] /\ sent'[today] = CountToday + 1
    BY <1>0, <1>3, <1>4
  <2>2. \A d \in 0 .. MaxDay : d # today => sent'[d] = sent[d]
    BY <1>0, <1>4
  <2>3. \A d \in 0 .. MaxDay : d > today => d > budget.day
    BY <1>0
  <2>4. budget' \in [day : 0 .. today', count : 0 .. DailyCap]
    BY <1>0, <1>3, <1>4, Constants
  <2>5. budget'.day = today /\ budget'.count = CountToday + 1
    BY <1>4
  <2>6. ASSUME NEW d \in 0 .. MaxDay
        PROVE  sent'[d] <= DailyCap /\ (d > budget'.day => sent'[d] = 0)
    <3>1. CASE d = today
      BY <1>0, <1>3, <1>4, <2>1, <2>5, <3>1, Constants
    <3>2. CASE d # today
      BY <2>2, <2>3, <2>5, <3>2 DEF CapInv
    <3> QED  BY <3>1, <3>2
  <2> QED  BY <2>1, <2>4, <2>5, <2>6 DEF CapInv
<1>5. CASE /\ budget' = [day |-> today, count |-> CountToday]
           /\ today' = today /\ sent' = sent
  <2>1. budget' \in [day : 0 .. today', count : 0 .. DailyCap]
    BY <1>0, <1>3, <1>5
  <2>2. \A d \in 0 .. MaxDay : d > today => d > budget.day
    BY <1>0
  <2> QED  BY <1>3, <1>5, <2>1, <2>2 DEF CapInv
<1> QED  BY <1>1, <1>2, <1>4, <1>5 DEF CountStep

\* No step makes a sleeper oversleep: a poll only moves the token of others
\* further away, and a tick brings it at most one unit closer.
LEMMA SleepersStay ==
  ASSUME ClockInv, BucketInv, CallInv, SleepsInTime,
         ((PollStep \/ QuietStep) /\ SleepStep) \/ Tick
  PROVE  CallInv' /\ SleepsInTime'
<1>1. CASE Tick
  <2>1. now' = now + 1 /\ UNCHANGED <<tokens, updated, call>>
    BY <1>1 DEF Tick, bucketVars
  <2>2. Refilled' <= Refilled + 1 /\ Refilled' \in Int /\ Refilled \in Int
    BY <2>1, Constants DEF Refilled, ClockInv, BucketInv
  <2>3. \A c \in Calls : Waiting(c)' => call'[c].wake <= now' + 1
                              \/ call'[c].wake <= now' + (Cost - Refilled')
    <3> SUFFICES ASSUME NEW c \in Calls, Waiting(c)'
                 PROVE  call'[c].wake <= now' + 1 \/ call'[c].wake <= now' + (Cost - Refilled')
      OBVIOUS
    <3>1. call[c].wake \in Int /\ Waiting(c)
      BY <2>1 DEF CallInv, Waiting
    <3>2. call[c].wake <= now + 1 \/ call[c].wake <= now + (Cost - Refilled)
      BY <3>1 DEF SleepsInTime
    <3> QED  BY <2>1, <2>2, <3>1, <3>2, Constants DEF ClockInv
  <2> QED  BY <2>1, <2>3 DEF CallInv, SleepsInTime
<1>2. CASE (PollStep \/ QuietStep) /\ SleepStep
  <2>1. now' = now /\ now \in Int
    BY <1>2 DEF PollStep, QuietStep, ClockInv
  <2>2. Refilled' <= Refilled /\ Refilled' \in Int /\ Refilled \in Int
    <3>1. CASE PollStep
      <4>1. Refilled \in 0 .. Capacity
        BY RefilledBounds DEF ClockInv
      <4>2. PICK k \in Int : tokens' = k /\ k <= Refilled /\ updated' = now
        BY <3>1, <4>1, Constants DEF PollStep
      <4>3. k + (now - now) = k
        BY <2>1
      <4>4. Refilled' = IF k < Capacity THEN k ELSE Capacity
        BY <2>1, <4>2, <4>3 DEF Refilled
      <4> QED  BY <4>1, <4>2, <4>4, Constants
    <3>2. CASE QuietStep
      <4>1. Refilled' = Refilled
        BY <3>2 DEF QuietStep, Refilled
      <4> QED  BY <4>1, RefilledBounds DEF ClockInv
    <3> QED  BY <1>2, <3>1, <3>2
  <2>3. PICK c \in Calls : /\ CallInv'
                           /\ \A d \in Calls \ {c} : call'[d] = call[d]
                           /\ ~Waiting(c)' \/ \E q : call'[c].wake = now + Delay(c, q)
    BY <1>2 DEF SleepStep
  <2>4. ASSUME NEW d \in Calls, Waiting(d)'
        PROVE  call'[d].wake <= now' + 1 \/ call'[d].wake <= now' + (Cost - Refilled')
    <3>1. CASE d = c
      <4>1. PICK q : call'[c].wake = now + Delay(c, q)
        BY <2>3, <2>4, <3>1
      <4>2. Delay(c, q) <= 1 \/ Delay(c, q) <= Cost - Refilled
        BY <2>2, Constants DEF Delay
      <4>3. Delay(c, q) \in Int
        BY <2>2, Constants DEF Delay
      <4> QED  BY <2>1, <2>2, <3>1, <4>1, <4>2, <4>3, Constants
    <3>2. CASE d # c
      <4>1. call'[d] = call[d] /\ call[d].wake \in Int /\ Waiting(d)
        BY <2>3, <2>4, <3>2 DEF CallInv, Waiting
      <4>2. call[d].wake <= now + 1 \/ call[d].wake <= now + (Cost - Refilled)
        BY <4>1 DEF SleepsInTime
      <4> QED  BY <2>1, <2>2, <4>1, <4>2, Constants
    <3> QED  BY <3>1, <3>2
  <2> QED  BY <2>3, <2>4 DEF SleepsInTime
<1> QED  BY <1>1, <1>2

-----------------------------------------------------------------------------
\* The invariant holds at first and is kept by every step.
LEMMA LimiterStarts == Init => LimiterInv
<1> SUFFICES ASSUME Init PROVE LimiterInv
  OBVIOUS
<1>1. ClockInv /\ BucketInv /\ CallInv /\ RateInv
  BY Constants
  DEF Init, IdleCall, ClockInv, BucketInv, CallInv, RateInv
<1>2. CapInv
  BY Constants DEF Init, CapInv
<1>3. SleepsInTime
  BY DEF Init, IdleCall, SleepsInTime, Waiting
<1> QED  BY <1>1, <1>2, <1>3 DEF LimiterInv

LEMMA LimiterStays == LimiterInv /\ [Next]_vars => LimiterInv'
<1> SUFFICES ASSUME LimiterInv, [Next]_vars PROVE LimiterInv'
  OBVIOUS
<1> USE DEF LimiterInv
<1>1. CASE Next
  <2>1. \/ (PollStep \/ QuietStep) /\ CountStep /\ SleepStep
        \/ Tick
    BY <1>1, Steps
  <2>2. ClockInv' /\ BucketInv'
    BY <2>1, BucketStays
  <2>3. RateInv'
    BY <2>1, RateStays
  <2>4. CapInv'
    <3>1. PollStep \/ QuietStep => today' = today
      BY DEF PollStep, QuietStep
    <3> QED  BY <2>1, <2>2, <3>1, CapStays
  <2>5. CallInv' /\ SleepsInTime'
    BY <2>1, SleepersStay
  <2> QED  BY <2>2, <2>3, <2>4, <2>5
<1>2. CASE UNCHANGED vars
  BY <1>2 DEF vars, bucketVars, history, ClockInv, BucketInv, CallInv, RateInv,
              CapInv, SleepsInTime, Waiting, Refilled
<1> QED  BY <1>1, <1>2

LEMMA LimiterInvariant == Spec => []LimiterInv
  BY LimiterStarts, LimiterStays, PTL DEF Spec

\* In every window of time the provider sees at most a full bucket plus what the
\* window refills, for any rate, capacity, number of calls and retries.
THEOREM RateTheorem == Spec => []RateKept
<1>1. LimiterInv => RateKept
  <2> SUFFICES ASSUME LimiterInv, NEW s \in 0 .. now
               PROVE  spent - mark[s] <= Capacity + (now - s)
    BY DEF RateKept
  <2>1. mark[s] \in Nat /\ spent \in Nat
    BY Constants DEF LimiterInv, ClockInv, RateInv
  <2>2. CASE s <= updated
    <3>1. spent + tokens <= mark[s] + Capacity + (updated - s)
      BY <2>2 DEF LimiterInv, RateInv
    <3> QED  BY <2>1, <3>1, Constants DEF LimiterInv, ClockInv, BucketInv
  <2>3. CASE updated < s
    <3>1. spent = mark[s]
      BY <2>3 DEF LimiterInv, RateInv
    <3> QED  BY <2>1, <3>1, Constants DEF LimiterInv, ClockInv
  <2> QED  BY <2>2, <2>3 DEF LimiterInv, ClockInv, BucketInv
<1> QED  BY <1>1, LimiterInvariant, PTL

\* On no UTC day does the provider see more requests than the cap, whatever the
\* calls, their retries and their cancellations.
THEOREM CapTheorem == Spec => []CapKept
<1>1. LimiterInv => CapKept
  BY DEF LimiterInv, CapInv, CapKept
<1> QED  BY <1>1, LimiterInvariant, PTL

\* No waiter sleeps past the tick after its token is there, whoever joins, leaves
\* or is served meanwhile.
THEOREM SleepTheorem == Spec => []SleepsInTime
<1>1. LimiterInv => SleepsInTime
  BY DEF LimiterInv
<1> QED  BY <1>1, LimiterInvariant, PTL
-----------------------------------------------------------------------------
(* Priorities.                                                             *)

Holds(q, c) == \E i \in DOMAIN q : q[i] = c
Orderly(q) ==
  /\ q \in Seq(Calls)
  /\ \A i, k \in DOMAIN q : i < k => Prio[q[i]] <= Prio[q[k]]

\* The heap is in order and every sleeper is in it.
HeapInv == Orderly(queue) /\ \A c \in Calls : Waiting(c) => Holds(queue, c)

\* A set of positions that holds every one before its own is an interval.
LEMMA Initial ==
  ASSUME NEW n \in Nat, NEW S, S \subseteq 1 .. n,
         \A i \in S : \A k \in 1 .. i : k \in S
  PROVE  Cardinality(S) \in 0 .. n /\ S = 1 .. Cardinality(S)
<1> DEFINE m == Cardinality(S)
<1>1. IsFiniteSet(1 .. n) /\ Cardinality(1 .. n) = n
  BY FS_Interval
<1>2. IsFiniteSet(S) /\ m \in Nat /\ m <= n
  <2>1. S \in SUBSET (1 .. n)
    OBVIOUS
  <2> QED BY <1>1, <2>1, FS_Subset, FS_CardinalityType
<1> HIDE DEF m
<1>3. m + 1 \notin S
  <2>1. SUFFICES ASSUME m + 1 \in S PROVE FALSE
    OBVIOUS
  <2>2. 1 .. m + 1 \in SUBSET S
    BY <2>1
  <2>3. Cardinality(1 .. m + 1) = m + 1
    BY <1>2, FS_Interval
  <2>4. Cardinality(1 .. m + 1) <= m
    BY <1>2, <2>2, FS_Subset DEF m
  <2> QED BY <1>2, <2>3, <2>4
<1>4. S \in SUBSET (1 .. m)
  <2>1. SUFFICES ASSUME NEW i \in S, i > m PROVE FALSE
    BY <1>2
  <2>2. m + 1 \in 1 .. i
    BY <1>2, <2>1
  <2> QED BY <1>3, <2>2
<1>5. IsFiniteSet(1 .. m) /\ Cardinality(1 .. m) = m
  BY <1>2, FS_Interval
<1>6. S = 1 .. m
  BY <1>2, <1>4, <1>5, FS_Subset DEF m
<1> QED BY <1>2, <1>6 DEF m

\* The beginning and the rest of a list.
LEMMA Halves ==
  ASSUME NEW q \in Seq(Calls), NEW n \in 0 .. Len(q)
  PROVE  /\ SubSeq(q, 1, n) \in Seq(Calls) /\ Len(SubSeq(q, 1, n)) = n
         /\ \A i \in 1 .. n : SubSeq(q, 1, n)[i] = q[i]
         /\ SubSeq(q, n + 1, Len(q)) \in Seq(Calls) /\ Len(SubSeq(q, n + 1, Len(q))) = Len(q) - n
         /\ \A i \in 1 .. Len(q) - n : SubSeq(q, n + 1, Len(q))[i] = q[n + i]
<1>1. Len(q) \in Nat /\ n \in Nat /\ \A i \in 1 .. Len(q) : q[i] \in Calls
  BY ElementOfSeq
<1>2. /\ SubSeq(q, 1, n) \in Seq(Calls) /\ Len(SubSeq(q, 1, n)) = IF 1 <= n THEN n - 1 + 1 ELSE 0
      /\ \A i \in 1 .. n - 1 + 1 : SubSeq(q, 1, n)[i] = q[1 + i - 1]
  <2>1. \A i \in 1 .. n : q[i] \in Calls
    BY <1>1
  <2> QED BY <1>1, <2>1, SubSeqProperties
<1>3. /\ SubSeq(q, n + 1, Len(q)) \in Seq(Calls)
      /\ Len(SubSeq(q, n + 1, Len(q))) = IF n + 1 <= Len(q) THEN Len(q) - (n + 1) + 1 ELSE 0
      /\ \A i \in 1 .. Len(q) - (n + 1) + 1 : SubSeq(q, n + 1, Len(q))[i] = q[n + 1 + i - 1]
  <2>1. \A i \in n + 1 .. Len(q) : q[i] \in Calls
    BY <1>1
  <2>2. n + 1 \in Int /\ Len(q) \in Int
    BY <1>1
  <2> QED BY <2>1, <2>2, SubSeqProperties
<1>4. 1 .. n - 1 + 1 = 1 .. n /\ 1 .. Len(q) - (n + 1) + 1 = 1 .. Len(q) - n
  BY <1>1
<1>5. \A i \in Int : 1 + i - 1 = i /\ n + 1 + i - 1 = n + i
  BY <1>1
<1> QED BY <1>1, <1>2, <1>3, <1>4, <1>5

LEMMA InsertHeap ==
  ASSUME NEW q, Orderly(q), NEW c \in Calls
  PROVE  /\ Orderly(Insert(q, c)) /\ Holds(Insert(q, c), c)
         /\ \A d : Holds(q, d) => Holds(Insert(q, c), d)
<1> DEFINE S == {i \in DOMAIN q : Prio[q[i]] <= Prio[c]}
           m == Cardinality(S)
           r == Insert(q, c)
<1>1. q \in Seq(Calls) /\ DOMAIN q = 1 .. Len(q) /\ Len(q) \in Nat
  BY DEF Orderly
<1>2. \A i \in DOMAIN q : q[i] \in Calls /\ Prio[q[i]] \in Nat /\ Prio[c] \in Nat
  BY <1>1, LimiterAssumption
<1>3. m \in 0 .. Len(q) /\ S = 1 .. m
  <2>1. S \subseteq 1 .. Len(q)
    BY <1>1
  <2>2. \A i \in S : \A k \in 1 .. i : k \in S
    BY <1>1, <1>2 DEF Orderly
  <2> HIDE DEF S
  <2> QED BY <1>1, <2>1, <2>2, Initial
<1>4. \A i \in DOMAIN q : IF i <= m THEN Prio[q[i]] <= Prio[c] ELSE Prio[c] <= Prio[q[i]]
  BY <1>1, <1>2, <1>3
<1>5. r = SubSeq(q, 1, m) \o <<c>> \o SubSeq(q, m + 1, Len(q))
  <2> HIDE DEF S
  <2>1. r = InsertAt(q, m + 1, c)
    BY DEF Insert, S
  <2>2. (m + 1) - 1 = m
    BY <1>3
  <2> QED BY <2>1, <2>2 DEF InsertAt
<1> HIDE DEF S, m, r
<1>6. /\ r \in Seq(Calls) /\ Len(r) = Len(q) + 1
      /\ \A i \in 1 .. Len(q) + 1 : /\ i <= m => r[i] = q[i]
                                    /\ i = m + 1 => r[i] = c
                                    /\ i > m + 1 => r[i] = q[i - 1]
  <2>1. PICK a \in Seq(Calls) : a = SubSeq(q, 1, m) /\ Len(a) = m /\ \A i \in 1 .. m : a[i] = q[i]
    BY <1>1, <1>3, Halves
  <2>2. PICK b \in Seq(Calls) : /\ b = SubSeq(q, m + 1, Len(q)) /\ Len(b) = Len(q) - m
                                /\ \A i \in 1 .. Len(q) - m : b[i] = q[m + i]
    BY <1>1, <1>3, Halves
  <2>a. PICK one \in Seq(Calls) : one = <<c>> /\ Len(one) = 1 /\ one[1] = c
    <3>1. <<c>> \in Seq(Calls) /\ Len(<<c>>) = 1 /\ <<c>>[1] = c
      OBVIOUS
    <3> QED BY <3>1
  <2>b. /\ a \o one \in Seq(Calls) /\ Len(a \o one) = m + 1
        /\ \A i \in 1 .. m + 1 : (a \o one)[i] = IF i <= m THEN a[i] ELSE one[i - m]
    BY <2>1, <2>a, ConcatProperties
  <2>3. PICK f \in Seq(Calls) : /\ f = a \o one /\ Len(f) = m + 1 /\ f[m + 1] = c
                                /\ \A i \in 1 .. m : f[i] = a[i]
    <3>1. m + 1 \in 1 .. m + 1 /\ ~(m + 1 <= m) /\ (m + 1) - m = 1 /\ \A i \in 1 .. m : i \in 1 .. m + 1 /\ i <= m
      BY <1>3
    <3>2. (a \o one)[m + 1] = c
      BY <2>a, <2>b, <3>1
    <3> QED BY <2>b, <3>1, <3>2
  <2>4. r = f \o b
    BY <1>5, <2>1, <2>2, <2>a, <2>3
  <2>5. /\ r \in Seq(Calls) /\ Len(r) = Len(q) + 1
        /\ \A i \in 1 .. Len(q) + 1 : r[i] = IF i <= m + 1 THEN f[i] ELSE b[i - (m + 1)]
    <3>1. /\ f \o b \in Seq(Calls) /\ Len(f \o b) = (m + 1) + (Len(q) - m)
          /\ \A i \in 1 .. (m + 1) + (Len(q) - m) : (f \o b)[i] = IF i <= m + 1 THEN f[i] ELSE b[i - (m + 1)]
      <4>1. /\ f \o b \in Seq(Calls) /\ Len(f \o b) = Len(f) + Len(b)
            /\ \A i \in 1 .. Len(f) + Len(b) : (f \o b)[i] = IF i <= Len(f) THEN f[i] ELSE b[i - Len(f)]
        BY ConcatProperties
      <4> QED BY <2>2, <2>3, <4>1
    <3>2. (m + 1) + (Len(q) - m) = Len(q) + 1
      BY <1>1, <1>3
    <3> QED BY <2>4, <3>1, <3>2
  <2>6. ASSUME NEW i \in 1 .. Len(q) + 1
        PROVE  /\ i <= m => r[i] = q[i]
               /\ i = m + 1 => r[i] = c
               /\ i > m + 1 => r[i] = q[i - 1]
    <3>1. ASSUME i <= m PROVE r[i] = q[i]
      <4>1. i <= m + 1 /\ i \in 1 .. m
        BY <1>1, <1>3, <3>1
      <4> QED BY <2>1, <2>3, <2>5, <4>1
    <3>2. ASSUME i = m + 1 PROVE r[i] = c
      <4>1. i <= m + 1
        BY <1>3, <3>2
      <4> QED BY <2>3, <2>5, <3>2, <4>1
    <3>3. ASSUME i > m + 1 PROVE r[i] = q[i - 1]
      <4>1. r[i] = b[i - (m + 1)] /\ i - (m + 1) \in 1 .. Len(q) - m /\ m + (i - (m + 1)) = i - 1
        BY <1>1, <1>3, <2>5, <3>3
      <4> QED BY <2>2, <4>1
    <3> QED BY <3>1, <3>2, <3>3
  <2> QED BY <2>5, <2>6
<1>7. \A i, k \in DOMAIN r : i < k => Prio[r[i]] <= Prio[r[k]]
  <2>1. SUFFICES ASSUME NEW i \in 1 .. Len(q) + 1, NEW k \in 1 .. Len(q) + 1, i < k
                 PROVE  Prio[r[i]] <= Prio[r[k]]
    BY <1>1, <1>6
  <2>2. \A a, b \in DOMAIN q : a < b => Prio[q[a]] <= Prio[q[b]]
    BY DEF Orderly
  <2>3. CASE k <= m
    BY <1>1, <1>3, <1>6, <2>1, <2>2, <2>3
  <2>4. CASE k = m + 1
    BY <1>1, <1>3, <1>4, <1>6, <2>1, <2>4
  <2>5. CASE k > m + 1
    <3>1. PICK b \in DOMAIN q : b = k - 1 /\ b > m /\ r[k] = q[b]
      BY <1>1, <1>3, <1>6, <2>1, <2>5
    <3>2. CASE i <= m
      <4>1. r[i] = q[i] /\ i \in DOMAIN q /\ i < b
        BY <1>1, <1>3, <1>6, <2>1, <3>1, <3>2
      <4> QED BY <2>2, <3>1, <4>1
    <3>3. CASE i = m + 1
      <4>1. r[i] = c /\ ~(b <= m)
        BY <1>1, <1>3, <1>6, <2>1, <3>1, <3>3
      <4> QED BY <1>4, <3>1, <4>1
    <3>4. CASE i > m + 1
      <4>1. PICK a \in DOMAIN q : a = i - 1 /\ r[i] = q[a]
        BY <1>1, <1>3, <1>6, <2>1, <3>4
      <4>2. a < b
        BY <1>1, <2>1, <3>1, <4>1
      <4> QED BY <2>2, <3>1, <4>1, <4>2
    <3> QED BY <1>3, <3>2, <3>3, <3>4
  <2> QED BY <1>3, <2>3, <2>4, <2>5
<1>8. Holds(r, c)
  <2>1. m + 1 \in DOMAIN r /\ r[m + 1] = c
    BY <1>1, <1>3, <1>6
  <2> QED BY <2>1 DEF Holds
<1>9. ASSUME NEW d, Holds(q, d) PROVE Holds(r, d)
  <2>1. PICK i \in DOMAIN q : q[i] = d
    BY <1>9 DEF Holds
  <2>2. CASE i <= m
    BY <1>1, <1>3, <1>6, <2>1, <2>2 DEF Holds
  <2>3. CASE i > m
    <3>1. i + 1 \in DOMAIN r /\ r[i + 1] = q[i]
      BY <1>1, <1>3, <1>6, <2>3
    <3> QED BY <2>1, <3>1 DEF Holds
  <2> QED BY <1>1, <1>3, <2>2, <2>3
<1> QED BY <1>6, <1>7, <1>8, <1>9 DEF Orderly, r

\* A ticket that is taken out of the heap leaves the others in it.
LEMMA RemoveHeap ==
  ASSUME NEW q, Orderly(q), NEW n \in DOMAIN q
  PROVE  /\ Orderly(RemoveAt(q, n))
         /\ \A d : Holds(q, d) /\ d # q[n] => Holds(RemoveAt(q, n), d)
<1> DEFINE r == RemoveAt(q, n)
<1>1. q \in Seq(Calls) /\ DOMAIN q = 1 .. Len(q) /\ Len(q) \in Nat
  BY DEF Orderly
<1>2. r = SubSeq(q, 1, n - 1) \o SubSeq(q, n + 1, Len(q))
  BY DEF RemoveAt
<1> HIDE DEF r
<1>3. /\ r \in Seq(Calls) /\ Len(r) = Len(q) - 1
      /\ \A i \in 1 .. Len(q) - 1 : r[i] = IF i < n THEN q[i] ELSE q[i + 1]
  <2>0. PICK k \in 0 .. Len(q) : k = n - 1 /\ n = k + 1
    BY <1>1
  <2>1. PICK a \in Seq(Calls) : a = SubSeq(q, 1, n - 1) /\ Len(a) = n - 1 /\ \A i \in 1 .. n - 1 : a[i] = q[i]
    BY <1>1, <2>0, Halves
  <2>2. PICK b \in Seq(Calls) : /\ b = SubSeq(q, n + 1, Len(q)) /\ Len(b) = Len(q) - n
                                /\ \A i \in 1 .. Len(q) - n : b[i] = q[n + i]
    <3>1. n \in 0 .. Len(q)
      BY <1>1
    <3> QED BY <1>1, <3>1, Halves
  <2>3. r = a \o b
    BY <1>2, <2>1, <2>2
  <2>4. /\ r \in Seq(Calls) /\ Len(r) = Len(q) - 1
        /\ \A i \in 1 .. Len(q) - 1 : r[i] = IF i <= n - 1 THEN a[i] ELSE b[i - (n - 1)]
    <3>1. /\ a \o b \in Seq(Calls) /\ Len(a \o b) = (n - 1) + (Len(q) - n)
          /\ \A i \in 1 .. (n - 1) + (Len(q) - n) : (a \o b)[i] = IF i <= n - 1 THEN a[i] ELSE b[i - (n - 1)]
      <4>1. /\ a \o b \in Seq(Calls) /\ Len(a \o b) = Len(a) + Len(b)
            /\ \A i \in 1 .. Len(a) + Len(b) : (a \o b)[i] = IF i <= Len(a) THEN a[i] ELSE b[i - Len(a)]
        BY ConcatProperties
      <4> QED BY <2>1, <2>2, <4>1
    <3>2. (n - 1) + (Len(q) - n) = Len(q) - 1
      BY <1>1
    <3> QED BY <2>3, <3>1, <3>2
  <2>5. ASSUME NEW i \in 1 .. Len(q) - 1 PROVE r[i] = IF i < n THEN q[i] ELSE q[i + 1]
    <3>1. CASE i < n
      BY <1>1, <2>1, <2>4, <3>1
    <3>2. CASE ~(i < n)
      <4>1. r[i] = b[i - (n - 1)] /\ i - (n - 1) \in 1 .. Len(q) - n /\ n + (i - (n - 1)) = i + 1
        BY <1>1, <2>4, <3>2
      <4> QED BY <2>2, <3>2, <4>1
    <3> QED BY <3>1, <3>2
  <2> QED BY <2>4, <2>5
<1>4. \A i, k \in DOMAIN r : i < k => Prio[r[i]] <= Prio[r[k]]
  <2>1. SUFFICES ASSUME NEW i \in 1 .. Len(q) - 1, NEW k \in 1 .. Len(q) - 1, i < k
                 PROVE  Prio[r[i]] <= Prio[r[k]]
    BY <1>1, <1>3
  <2>2. PICK a \in DOMAIN q : a = IF i < n THEN i ELSE i + 1
    BY <1>1
  <2>3. PICK b \in DOMAIN q : b = IF k < n THEN k ELSE k + 1
    BY <1>1
  <2>4. a < b
    BY <1>1, <2>1, <2>2, <2>3
  <2>5. r[i] = q[a]
    BY <1>3, <2>2
  <2>6. r[k] = q[b]
    BY <1>3, <2>3
  <2> QED BY <2>4, <2>5, <2>6 DEF Orderly
<1>5. ASSUME NEW d, Holds(q, d), d # q[n] PROVE Holds(r, d)
  <2>1. PICK i \in DOMAIN q : q[i] = d /\ i # n
    BY <1>5 DEF Holds
  <2>2. CASE i < n
    BY <1>1, <1>3, <2>1, <2>2 DEF Holds
  <2>3. CASE i > n
    <3>1. i - 1 \in DOMAIN r /\ r[i - 1] = q[(i - 1) + 1] /\ (i - 1) + 1 = i
      BY <1>1, <1>3, <2>3
    <3> QED BY <2>1, <3>1 DEF Holds
  <2> QED BY <1>1, <2>1, <2>2, <2>3
<1> QED BY <1>3, <1>4, <1>5 DEF Orderly, r

LEMMA HeadFirst ==
  ASSUME NEW q, Orderly(q), NEW d, Holds(q, d)
  PROVE  /\ Prio[Head(q)] <= Prio[d]
         /\ Orderly(Tail(q)) /\ \A e : Holds(q, e) /\ e # Head(q) => Holds(Tail(q), e)
<1>1. q \in Seq(Calls) /\ DOMAIN q = 1 .. Len(q) /\ Len(q) \in Nat
  BY DEF Orderly
<1>2. PICK i \in DOMAIN q : q[i] = d
  BY DEF Holds
<1>3. 1 \in DOMAIN q /\ Head(q) = q[1]
  BY <1>1, <1>2
<1>4. Prio[q[1]] \in Nat
  BY <1>1, <1>3, LimiterAssumption
<1>5. Prio[Head(q)] <= Prio[d]
  BY <1>1, <1>2, <1>3, <1>4 DEF Orderly
<1>6. RemoveAt(q, 1) = Tail(q)
  BY <1>1, <1>3 DEF RemoveAt
<1> QED BY <1>3, <1>5, <1>6, RemoveHeap

\* What a step may do to the heap, and who may send in it.
HeapStep ==
  /\ HeapInv'
  /\ \A c \in Calls : call'[c].at = "sent" /\ call[c].at # "sent"
       => \A d \in Calls : Waiting(d) => Prio[c] <= Prio[d]

LEMMA AttemptHeap ==
  ASSUME CallInv, NEW c \in Calls, NEW q, NEW tries, Attempt(c, q, tries),
         Orderly(q), Holds(q, c), \A d \in Calls : Waiting(d) => Holds(q, d)
  PROVE  HeapStep
<1>1. CASE GoToSleep(c, q, tries)
  <2>1. PICK w : call' = [call EXCEPT ![c] = [at |-> "wait", wake |-> w, tries |-> tries]]
    BY <1>1 DEF GoToSleep
  <2>2. queue' = q
    BY <1>1 DEF GoToSleep
  <2>3. \A d \in Calls : /\ Waiting(d)' => d = c \/ Waiting(d)
                         /\ call'[d].at = "sent" => call[d].at = "sent"
    BY <2>1 DEF CallInv, Waiting
  <2> QED BY <2>2, <2>3 DEF HeapStep, HeapInv
<1>2. CASE TakeToken(c, q) /\ ChargeAndSend(c, tries)
  <2>1. c = Head(q) /\ queue' = Tail(q)
    BY <1>2 DEF TakeToken
  <2>2. PICK new : call' = [call EXCEPT ![c] = new] /\ new.at # "wait"
    <3>1. \/ call' = [call EXCEPT ![c] = [at |-> "sent", wake |-> 0, tries |-> tries]]
          \/ call' = [call EXCEPT ![c] = IdleCall]
      BY <1>2 DEF ChargeAndSend, Send
    <3>2. [at |-> "sent", wake |-> 0, tries |-> tries].at # "wait" /\ IdleCall.at # "wait"
      BY DEF IdleCall
    <3> QED BY <3>1, <3>2
  <2>3. \A d \in Calls : /\ Waiting(d)' => d # c /\ Waiting(d)
                         /\ d # c => call'[d] = call[d]
    BY <2>2 DEF CallInv, Waiting
  <2>4. HeapInv'
    BY <2>1, <2>3, HeadFirst DEF HeapInv
  <2>5. \A d \in Calls : Waiting(d) => Prio[c] <= Prio[d]
    BY <2>1, HeadFirst
  <2> QED BY <2>3, <2>4, <2>5 DEF HeapStep
<1> QED BY <1>1, <1>2 DEF Attempt

LEMMA HeapSteps ==
  ASSUME CallInv, HeapInv, [Next]_vars
  PROVE  HeapStep
<1>1. ASSUME NEW c \in Calls, Begin(c) \/ Retry(c) PROVE HeapStep
  <2>1. PICK tries : Attempt(c, Insert(queue, c), tries)
    BY <1>1 DEF Begin, Retry
  <2> QED BY <2>1, InsertHeap, AttemptHeap DEF HeapInv
<1>2. ASSUME NEW c \in Calls, Poll(c) PROVE HeapStep
  BY <1>2, AttemptHeap DEF Poll, HeapInv
<1>3. ASSUME NEW c \in Calls, Fail(c) \/ Finish(c) PROVE HeapStep
  <2>1. queue' = queue
    BY <1>3 DEF Fail, Finish, bucketVars
  <2>2. \A d \in Calls : /\ Waiting(d)' => Waiting(d)
                         /\ call'[d].at = "sent" => call[d].at = "sent"
    BY <1>3 DEF Fail, Finish, IdleCall, CallInv, Waiting
  <2> QED BY <2>1, <2>2 DEF HeapStep, HeapInv
<1>4. ASSUME NEW c \in Calls, Cancel(c) PROVE HeapStep
  <2>1. PICK n \in DOMAIN queue : queue[n] = c /\ queue' = RemoveAt(queue, n)
    <3>1. Holds(queue, c)
      BY <1>4 DEF Cancel, HeapInv
    <3> QED BY <1>4, <3>1 DEF Cancel, Without, Holds
  <2>2. \A d \in Calls : /\ Waiting(d)' => d # c /\ Waiting(d)
                         /\ call'[d].at = "sent" => call[d].at = "sent"
    BY <1>4 DEF Cancel, IdleCall, CallInv, Waiting
  <2> QED BY <2>1, <2>2, RemoveHeap DEF HeapStep, HeapInv
<1>5. CASE Tick \/ UNCHANGED vars
  BY <1>5 DEF Tick, vars, bucketVars, HeapStep, HeapInv, Waiting, Orderly, Holds
<1> QED BY <1>1, <1>2, <1>3, <1>4, <1>5 DEF Next

\* A request never goes out before that of a waiter with a higher priority,
\* whoever wakes first, however many calls join, leave, fail or are cancelled.
THEOREM PriorityTheorem == Spec => PriorityKept
<1>1. Init => LimiterInv /\ HeapInv
  BY LimiterStarts DEF Init, IdleCall, HeapInv, Orderly, Holds, Waiting
<1>2. LimiterInv /\ HeapInv /\ [Next]_vars => (LimiterInv /\ HeapInv)'
  BY LimiterStays, HeapSteps DEF LimiterInv, HeapStep
<1>3. LimiterInv /\ HeapInv /\ [Next]_vars =>
        \A c \in Calls : call'[c].at = "sent" /\ call[c].at # "sent"
          => \A d \in Calls : Waiting(d) => Prio[c] <= Prio[d]
  BY HeapSteps DEF LimiterInv, HeapStep
<1> QED BY <1>1, <1>2, <1>3, PTL DEF Spec, PriorityKept

-----------------------------------------------------------------------------
(* Types.  A call that backs off has an attempt left.                      *)

GoodState == {s \in CallState : s.at = "backoff" => s.tries < MaxTries}
CallTypes == call \in [Calls -> GoodState]

LEMMA AttemptTypes ==
  ASSUME LimiterInv, CallTypes, NEW c \in Calls, NEW q, NEW tries \in 0 .. MaxTries, Attempt(c, q, tries)
  PROVE  CallTypes'
<1>1. PICK n \in 0 .. MaxTime : n = now
  BY DEF LimiterInv, ClockInv
<1>2. PICK w \in 0 .. MaxTime + Cost + MaxSleep : w = now + Delay(c, q)
  <2>1. Refilled \in 0 .. Capacity
    BY <1>1, RefilledBounds, Constants DEF LimiterInv
  <2>2. Delay(c, q) \in 1 .. MaxSleep
    BY <2>1, Constants DEF Delay
  <2> QED BY <1>1, <2>2, Constants
<1>3. PICK new \in GoodState : call' = [call EXCEPT ![c] = new]
  <2>1. /\ [at |-> "wait", wake |-> w, tries |-> tries] \in GoodState
        /\ [at |-> "sent", wake |-> 0, tries |-> tries] \in GoodState
        /\ IdleCall \in GoodState
    BY Constants, LimiterAssumption DEF GoodState, CallState, IdleCall
  <2>2. CASE GoToSleep(c, q, tries)
    BY <1>2, <2>1, <2>2 DEF GoToSleep
  <2>3. CASE ChargeAndSend(c, tries)
    BY <2>1, <2>3 DEF ChargeAndSend, Send
  <2> QED BY <2>2, <2>3 DEF Attempt
<1> QED BY <1>3 DEF CallTypes

LEMMA CallsStay ==
  ASSUME LimiterInv, CallTypes, [Next]_vars
  PROVE  CallTypes'
<1>1. \A s \in GoodState : s.tries \in 0 .. MaxTries /\ (s.at = "backoff" => s.tries + 1 \in 0 .. MaxTries)
  <2>1. TAKE s \in GoodState
  <2>2. s.tries \in 0 .. MaxTries /\ (s.at = "backoff" => s.tries < MaxTries)
    BY DEF GoodState, CallState
  <2>3. MaxTries \in Nat \ {0}
    BY LimiterAssumption
  <2> QED BY <2>2, <2>3
<1>2. 1 \in 0 .. MaxTries
  BY LimiterAssumption
<1>3. ASSUME NEW c \in Calls PROVE call[c] \in GoodState
  BY DEF CallTypes
<1>4. ASSUME NEW c \in Calls, Begin(c) \/ Retry(c) \/ Poll(c) PROVE CallTypes'
  <2>1. CASE Begin(c)
    BY <1>2, <2>1, AttemptTypes DEF Begin
  <2>2. CASE Retry(c)
    <3>1. call[c].tries + 1 \in 0 .. MaxTries
      BY <1>1, <1>3, <2>2 DEF Retry
    <3> QED BY <2>2, <3>1, AttemptTypes DEF Retry
  <2>3. CASE Poll(c)
    <3>1. call[c].tries \in 0 .. MaxTries
      BY <1>1, <1>3
    <3> QED BY <2>3, <3>1, AttemptTypes DEF Poll
  <2> QED BY <1>4, <2>1, <2>2, <2>3
<1>5. ASSUME NEW c \in Calls, Fail(c) PROVE CallTypes'
  <2>1. PICK new : new = [call[c] EXCEPT !.at = "backoff"]
    OBVIOUS
  <2>2. call' = [call EXCEPT ![c] = new]
    BY <1>5, <2>1 DEF Fail
  <2>3. call[c] \in CallState /\ call[c].tries < MaxTries
    BY <1>3, <1>5 DEF Fail, GoodState
  <2>4. new \in GoodState
    BY <2>1, <2>3 DEF GoodState, CallState
  <2> QED BY <2>2, <2>4 DEF CallTypes
<1>6. ASSUME NEW c \in Calls, Finish(c) \/ Cancel(c) PROVE CallTypes'
  <2>1. IdleCall \in GoodState
    BY Constants, LimiterAssumption DEF GoodState, CallState, IdleCall
  <2> QED BY <1>6, <2>1 DEF Finish, Cancel, CallTypes
<1>7. CASE Tick \/ UNCHANGED vars
  BY <1>7 DEF Tick, vars, CallTypes
<1> QED BY <1>4, <1>5, <1>6, <1>7 DEF Next

\* Every variable keeps its type: no sleep lasts longer than MaxSleep, the
\* bucket never overflows or goes into debt, and no call tries too often.
THEOREM LimiterTypes == Spec => []TypeOK
<1>1. Init => LimiterInv /\ HeapInv /\ CallTypes
  <2>1. IdleCall \in GoodState
    BY Constants, LimiterAssumption DEF GoodState, CallState, IdleCall
  <2>2. Init => CallTypes
    BY <2>1 DEF Init, CallTypes
  <2>3. Init => HeapInv
    BY DEF Init, IdleCall, HeapInv, Orderly, Holds, Waiting
  <2> QED BY <2>2, <2>3, LimiterStarts
<1>2. LimiterInv /\ HeapInv /\ CallTypes /\ [Next]_vars => (LimiterInv /\ HeapInv /\ CallTypes)'
  BY LimiterStays, HeapSteps, CallsStay DEF LimiterInv, HeapStep
<1>3. LimiterInv /\ HeapInv /\ CallTypes => TypeOK
  <2>1. GoodState \subseteq CallState
    BY DEF GoodState
  <2> QED BY <2>1 DEF LimiterInv, ClockInv, BucketInv, RateInv, CapInv, HeapInv, Orderly, CallTypes, TypeOK
<1> QED BY <1>1, <1>2, <1>3, PTL DEF Spec
=============================================================================
