----------------------------- MODULE PositionBook -----------------------------
(***************************************************************************)
(* What the paper desk promises of a position, whatever handlers are in    *)
(* flight and wherever one dies: it is opened once, leaves the market once *)
(* and for one reason, and the journal follows the market, never leads it. *)
(*                                                                         *)
(* Abstract specification; ShortDuration implements it for one monitor     *)
(* loop and no manual close, with market <- papers and journal <- the      *)
(* status of trades.                                                       *)
(***************************************************************************)
CONSTANTS Positions, Reasons

VARIABLES market, journal

bookVars == <<market, journal>>

BookInit ==
  /\ market = [p \in Positions |-> "none"]
  /\ journal = [p \in Positions |-> "none"]

Enter(p) ==
  /\ market[p] = "none"
  /\ market' = [market EXCEPT ![p] = "open"]
  /\ UNCHANGED journal

Leave(p) ==
  /\ market[p] = "open"
  /\ \E r \in Reasons : market' = [market EXCEPT ![p] = r]
  /\ UNCHANGED journal

NoteOpen(p) ==
  /\ journal[p] = "none" /\ market[p] = "open"
  /\ journal' = [journal EXCEPT ![p] = "open"]
  /\ UNCHANGED market

NoteClose(p) ==
  /\ journal[p] = "open" /\ market[p] \in Reasons
  /\ journal' = [journal EXCEPT ![p] = market[p]]
  /\ UNCHANGED market

BookNext ==
  \E p \in Positions : Enter(p) \/ Leave(p) \/ NoteOpen(p) \/ NoteClose(p)

BookSpec == BookInit /\ [][BookNext]_bookVars
=============================================================================
