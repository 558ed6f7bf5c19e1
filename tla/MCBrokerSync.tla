---------------------------- MODULE MCBrokerSync ----------------------------
(***************************************************************************)
(* Histories of a call spread that expires early, of two calls bought in   *)
(* one order that make no structure, and of two lots of a put, over two    *)
(* days in a row and two that are more than five days after them.          *)
(***************************************************************************)
EXTENDS BrokerSync

Call(k, exp) == [call |-> TRUE, k |-> k, exp |-> exp]
A == Call(100, 1)
B == Call(105, 1)
C == Call(110, 9)
D == Call(115, 9)
P == [call |-> FALSE, k |-> 95, exp |-> 8]
MCContracts == {A, B, C, D, P}
MCDays == {0, 1, 7, 8}

Opened(day, legs) == [day |-> day, legs |-> legs, effect |-> "open"]
Shut(day, legs) == [day |-> day, legs |-> legs, effect |-> "close"]
Leg1(c, n) == [x \in {c} |-> n]
Debit(n) == [x \in {A, B} |-> IF x = A THEN n ELSE -n]
Credit(n) == Debit(-n)
Pair(n) == [x \in {C, D} |-> n]

MCHistories == {
  \* One leg of a spread closed and the other left to expire.
  <<Opened(0, Debit(1)), Shut(0, Leg1(B, 1)), Opened(1, Leg1(P, 1))>>,
  \* A credit spread of two, one closed; two calls in one order, one sold.
  <<Opened(0, Credit(2)), Shut(1, Debit(1)), Opened(1, Pair(1))>>,
  <<Opened(0, Pair(1)), Shut(7, Leg1(C, -1)), Shut(8, Leg1(D, -1))>>,
  \* Two lots sold on different days.
  <<Opened(0, Leg1(P, 2)), Shut(1, Leg1(P, -1)), Shut(7, Leg1(P, -1))>>,
  \* Opened again on the next day, and a week later.
  <<Opened(0, Debit(1)), Shut(0, Debit(-1)), Opened(1, Debit(1))>>,
  <<Opened(0, Leg1(P, 1)), Shut(1, Leg1(P, -1)), Opened(8, Leg1(P, 1))>>}

(* Opened again on the same day. *)
SameDayHistory == {<<Opened(0, Debit(1)), Shut(0, Debit(-1)), Opened(0, Debit(1)), Shut(1, Debit(-1))>>}

(* Each contract has a price of its own every day. *)
MCPrice(c, day) == 100 * (1 + ((c.k * 7 + day * 31) % 97))
NoProb(spot, level, iv, days) == 0
=============================================================================
