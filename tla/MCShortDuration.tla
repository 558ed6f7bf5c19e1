---------------------------- MODULE MCShortDuration ----------------------------
(* Instances of ShortDuration for TLC: who is in flight, and the bounds.      *)
EXTENDS ShortDuration, TLC

CONSTANTS c1, c2, c3, t1, t2, o1, m1, m2, k1, p1, w1, s1, Nil

\* Every contract expires on the day it is detected.
SameDayLife == [c \in Candidates |-> 0]
=============================================================================
