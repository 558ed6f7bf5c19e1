----------------------------- MODULE EntryGates -----------------------------
(***************************************************************************)
(* The gates between a short-duration setup and an entry: evaluated once,  *)
(* by the scan, and brought up to the reading clock by every read of the   *)
(* board (app/shortduration/risk.py).  A moment is [day, kind, minute],    *)
(* the kind of day being that of the market clock.                         *)
(***************************************************************************)
EXTENDS MarketClock, FiniteSets

Gated == {"time_of_day_blocked", "stale_quote", "daily_loss_limit", "portfolio_limit", "restricted_event_window"}
Timing == "time_of_day_blocked"

(* Names of one cluster move together; any other name is its own cluster.  *)
CorrelationGroup(symbol) ==
  CASE symbol \in {"SPY", "QQQ", "IWM", "DIA"} -> "index"
    [] symbol \in {"NVDA", "AMD", "AVGO", "MU", "SMH"} -> "semis"
    [] symbol \in {"AAPL", "MSFT", "META", "GOOGL", "AMZN", "NFLX"} -> "megatech"
    [] OTHER -> symbol

InSession(m) == IsMarketOpen(m.kind, m.minute * Minute)

(* timing_gate_now(): closed, the first five minutes, or 15:00 for 0DTE.   *)
TimingBlocked(bucket, m) ==
  \/ ~InSession(m)
  \/ m.minute < 575
  \/ bucket = "0dte" /\ m.minute >= 900

(* The gates on the account, the data and the regime.  daily is            *)
(* [pnl, streak, open], open the positions held as [symbol, direction]     *)
(* under their slot; equity in dimes.                                      *)
AccountGates(symbol, direction, regime, stale, daily, equity) ==
  LET held == DOMAIN daily.open
      same == {i \in held : /\ CorrelationGroup(daily.open[i].symbol) = CorrelationGroup(symbol)
                            /\ daily.open[i].direction = direction}
  IN  {r \in Gated :
         \/ r = "stale_quote" /\ stale
         \/ r = "daily_loss_limit" /\ (20 * daily.pnl <= -equity \/ daily.streak >= 2)
         \/ r = "portfolio_limit" /\ (Cardinality(held) >= 2 \/ same # {})
         \/ r = "restricted_event_window" /\ regime = "blocked"}

(* evaluate_entry_gates(): a closed market answers before any other gate.  *)
EvaluateEntryGates(bucket, symbol, direction, regime, stale, daily, equity, m) ==
  IF ~InSession(m) THEN {Timing}
  ELSE AccountGates(symbol, direction, regime, stale, daily, equity)
         \cup (IF TimingBlocked(bucket, m) THEN {Timing} ELSE {})

\* Mutant: the timing of the scan is kept beside that of the read.
RefreshedRejectsKept(bucket, stored, m) == stored \cup (IF TimingBlocked(bucket, m) THEN {Timing} ELSE {})
(* refresh_timing_gate() and apply_live_timing(): the stored reasons with  *)
(* the timing of the read; the contract's own reasons do not bar entry.    *)
RefreshedRejects(bucket, stored, m) ==
  (stored \ {Timing}) \cup (IF TimingBlocked(bucket, m) THEN {Timing} ELSE {})
ShownAllowed(bucket, stored, m) == RefreshedRejects(bucket, stored, m) \cap Gated = {}
=============================================================================
