--------------------------- MODULE MCProviderLimiter ---------------------------
(* Instances of ProviderLimiter for TLC.                                      *)
EXTENDS ProviderLimiter

CONSTANTS position, scanA, scanB

\* One call of an open position and two of a broad scan.
MCPrio == [c \in Calls |-> IF c = position THEN 0 ELSE 3]
=============================================================================
