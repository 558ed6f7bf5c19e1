---------------------------- MODULE ProviderLimiter ----------------------------
(***************************************************************************)
(* Requests to one live provider (app/providers/ratelimit.py and the retry *)
(* loop of app/providers/_http.py): a token bucket whose waiters are kept   *)
(* in priority order, a daily request budget, and up to MaxTries attempts   *)
(* per call, each of which needs a token and a place in the budget.         *)
(*                                                                         *)
(* Everything runs in one event loop: between two awaits a call is alone.   *)
(* The bucket is refilled lazily, by whoever polls it, from the time that   *)
(* has passed since the last poll; waiters poll because they sleep, and a   *)
(* sleeper may wake a little late.                                          *)
(*                                                                         *)
(* Time is counted in ticks in which the bucket gains one unit; a request   *)
(* costs Cost units (the code's token).                                     *)
(***************************************************************************)
EXTENDS Integers, FiniteSets, SequencesExt

CONSTANTS Calls,      \* coroutines that call get_json
          Prio,       \* the priority each runs at; the lower is served first
          Cost,       \* ticks in which one request's worth is refilled
          Capacity,   \* units a full bucket holds
          MaxSleep,   \* the longest sleep of the first waiter
          Lag,        \* how late the event loop may wake a sleeper
          DailyCap,   \* requests the budget allows a day
          MaxTries,   \* attempts of one get_json
          MaxTime,    \* bounds on the model: ticks ...
          MaxDay      \* ... and UTC days

ASSUME LimiterAssumption ==
  /\ Prio \in [Calls -> Nat]
  /\ {Cost, Capacity, MaxSleep, MaxTries} \subseteq Nat \ {0}
  /\ {Lag, DailyCap, MaxTime, MaxDay} \subseteq Nat
  /\ Cost <= Capacity

VARIABLES now,        \* the monotonic clock
          today,      \* the UTC day
          tokens,     \* units in the bucket when it was last polled ...
          updated,    \* ... and when that was
          queue,      \* the waiters, in the order their tickets leave the heap
          call,       \* local state of each call
          budget,     \* the day the counter was last used on, and its count
          \* History: units spent on requests so far, what `spent` was when each
          \* tick began, and how many requests were sent on each day.
          spent, mark, sent

bucketVars == <<tokens, updated, queue>>
history == <<spent, mark, sent>>
vars == <<now, today, bucketVars, call, budget, history>>

\* wait: in the heap, asleep until `wake`; sent: the request is in flight;
\* backoff: waiting to be tried again; tries: attempts begun.
CallState == [at : {"idle", "wait", "sent", "backoff"},
              wake : 0 .. MaxTime + Cost + MaxSleep, tries : 0 .. MaxTries]
IdleCall == [at |-> "idle", wake |-> 0, tries |-> 0]

TypeOK ==
  /\ now \in 0 .. MaxTime /\ today \in 0 .. MaxDay
  /\ tokens \in 0 .. Capacity /\ updated \in 0 .. now
  /\ queue \in Seq(Calls)
  /\ call \in [Calls -> CallState]
  /\ budget \in [day : 0 .. today, count : 0 .. DailyCap]
  /\ spent \in Nat /\ mark \in [0 .. MaxTime -> Nat] /\ sent \in [0 .. MaxDay -> Nat]

Init ==
  /\ now = 0 /\ today = 0
  /\ tokens = Capacity /\ updated = 0 /\ queue = <<>>
  /\ call = [c \in Calls |-> IdleCall]
  /\ budget = [day |-> 0, count |-> 0]
  /\ spent = 0 /\ mark = [s \in 0 .. MaxTime |-> 0] /\ sent = [d \in 0 .. MaxDay |-> 0]

Waiting(c) == call[c].at = "wait"

-----------------------------------------------------------------------------
(* TokenBucket *)

Refilled ==
  LET all == tokens + (now - updated) IN IF all < Capacity THEN all ELSE Capacity

\* Mutant: first come, first served.
InsertLast(q, c) == Append(q, c)

\* A new ticket goes before the first one of a lower priority: behind as many as
\* are not of a lower one.
Insert(q, c) == InsertAt(q, Cardinality({i \in DOMAIN q : Prio[q[i]] <= Prio[c]}) + 1, c)

Without(q, c) == RemoveAt(q, CHOOSE i \in DOMAIN q : q[i] = c)

\* Mutant: every waiter sleeps as long as the first one may.
DelayLong(c, q) == MaxSleep

\* The first waiter sleeps until it expects its token, any other polls again.
Delay(c, q) ==
  IF c # Head(q) \/ Refilled >= Cost THEN 1
  ELSE IF Cost - Refilled < MaxSleep THEN Cost - Refilled ELSE MaxSleep

-----------------------------------------------------------------------------
(* One pass of the loop in `acquire` by call c, when q is the heap.          *)

\* Not its turn, or no token: sleep.
GoToSleep(c, q, tries) ==
  /\ c # Head(q) \/ Refilled < Cost
  /\ tokens' = Refilled /\ updated' = now /\ queue' = q
  /\ call' = [call EXCEPT ![c] =
                [at |-> "wait", wake |-> now + Delay(c, q), tries |-> tries]]
  /\ UNCHANGED <<budget, history>>

TakeToken(c, q) ==
  /\ c = Head(q) /\ Refilled >= Cost
  /\ tokens' = Refilled - Cost /\ updated' = now /\ queue' = Tail(q)

\* The request goes out.
Send(c, tries) ==
  /\ call' = [call EXCEPT ![c] = [at |-> "sent", wake |-> 0, tries |-> tries]]
  /\ spent' = spent + Cost
  /\ sent' = [sent EXCEPT ![today] = @ + 1]
  /\ UNCHANGED mark

\* The counter starts again with the first charge of a new day.
CountToday == IF budget.day = today THEN budget.count ELSE 0

\* Mutant: the reset forgets to note the new day.
ChargeForgetsDay(c, tries) ==
  /\ CountToday < DailyCap
  /\ budget' = [budget EXCEPT !.count = CountToday + 1]
  /\ Send(c, tries)

\* With its token, the call charges the budget and sends; a spent budget raises
\* BudgetExceededError, which is not retried (and the token is gone).
ChargeAndSend(c, tries) ==
  \/ /\ CountToday < DailyCap
     /\ budget' = [day |-> today, count |-> CountToday + 1]
     /\ Send(c, tries)
  \/ /\ CountToday >= DailyCap
     /\ budget' = [day |-> today, count |-> CountToday]
     /\ call' = [call EXCEPT ![c] = IdleCall]
     /\ UNCHANGED history

Attempt(c, q, tries) ==
  /\ \/ GoToSleep(c, q, tries)
     \/ TakeToken(c, q) /\ ChargeAndSend(c, tries)
  /\ UNCHANGED <<now, today>>

\* get_json finds nothing fresh in the cache and asks for permission.
Begin(c) ==
  /\ call[c].at = "idle"
  /\ Attempt(c, Insert(queue, c), 1)

\* Mutant: a retry goes straight to the provider.
RetryDirectly(c) ==
  /\ call[c].at = "backoff"
  /\ Send(c, call[c].tries + 1)
  /\ UNCHANGED <<now, today, bucketVars, budget>>

\* After the backoff get_json runs again from its beginning.
Retry(c) ==
  /\ call[c].at = "backoff"
  /\ Attempt(c, Insert(queue, c), call[c].tries + 1)

\* A sleeper wakes.
Poll(c) ==
  /\ Waiting(c) /\ call[c].wake <= now
  /\ Attempt(c, queue, call[c].tries)

\* 429, 5xx or a transport error: back off, up to MaxTries attempts.
Fail(c) ==
  /\ call[c].at = "sent" /\ call[c].tries < MaxTries
  /\ call' = [call EXCEPT ![c] = [@ EXCEPT !.at = "backoff"]]
  /\ UNCHANGED <<now, today, bucketVars, budget, history>>

\* An answer, a client error, the last failure, or a fresh cache entry found
\* before a retry: the call is over.
Finish(c) ==
  /\ call[c].at \in {"sent", "backoff"}
  /\ call' = [call EXCEPT ![c] = IdleCall]
  /\ UNCHANGED <<now, today, bucketVars, budget, history>>

\* The task is cancelled while it sleeps: its ticket is taken out.
Cancel(c) ==
  /\ Waiting(c)
  /\ queue' = Without(queue, c)
  /\ call' = [call EXCEPT ![c] = IdleCall]
  /\ UNCHANGED <<now, today, tokens, updated, budget, history>>

\* Time passes, though no sleeper is woken more than Lag ticks late; midnight
\* UTC may come with any tick.
Tick ==
  /\ now < MaxTime
  /\ \A c \in Calls : Waiting(c) => now < call[c].wake + Lag
  /\ now' = now + 1
  /\ today' \in {today, today + 1} \cap 0 .. MaxDay
  /\ mark' = [mark EXCEPT ![now + 1] = spent]
  /\ UNCHANGED <<bucketVars, call, budget, spent, sent>>

Next ==
  \/ \E c \in Calls : Begin(c) \/ Retry(c) \/ Poll(c) \/ Fail(c) \/ Finish(c) \/ Cancel(c)
  \/ Tick

Spec == Init /\ [][Next]_vars

-----------------------------------------------------------------------------
\* In every window of time, the provider sees at most a full bucket plus what is
\* refilled during the window: no retry, late poll or cancellation adds to it.
RateKept ==
  \A s \in 0 .. now : spent - mark[s] <= Capacity + (now - s)

\* On no UTC day does the provider see more requests than the cap.
CapKept == \A d \in 0 .. MaxDay : sent[d] <= DailyCap

\* A request never goes out before that of a waiter with a higher priority.
PriorityKept ==
  [][\A c \in Calls : call'[c].at = "sent" /\ call[c].at # "sent"
       => \A d \in Calls : Waiting(d) => Prio[c] <= Prio[d]]_vars

\* Nobody oversleeps a token: every waiter wakes by the tick the next request's
\* worth is in the bucket, or on the very next one, so that a token is never idle
\* because the call it is for sleeps on, whoever left or joined meanwhile.
SleepsInTime ==
  \A c \in Calls : Waiting(c) =>
    \/ call[c].wake <= now + 1
    \/ call[c].wake <= now + (Cost - Refilled)
=============================================================================
