---------------------------- MODULE ShortSettings ----------------------------
(***************************************************************************)
(* The settings of the short-duration detector (app/config.py), with the   *)
(* values the code ships.  Shares and ratios are per 10000, scores per     *)
(* 1000, times of day are minutes since 09:30, ages are seconds.           *)
(***************************************************************************)
EXTENDS Integers

OpeningRangeMinutes == 15
MaxDte == 5

Orb ==
  [minRelVolume |-> 130, minBreak |-> 5, buffer |-> 1000, maxExtension |-> 10000,
   mode |-> "close", retestBand |-> 2500, vwapAligned |-> TRUE]

VwapRule == [minSlope |-> 2, lookback |-> 20, minQuality |-> 450]

ThesisRule == [counterMove |-> 200, nearInvalidation |-> 300, newsMin |-> 550, swingMinDte |-> 10]

\* Earnings inside the horizon reject the setup, no bucket is suspended and
\* 0DTE is captured for observation only.
Capture == [earningsGate |-> TRUE, suspended |-> {}, observed |-> {"0dte"}]

Swing == [minDte |-> 21, maxDte |-> 45]

Profile == [use |-> TRUE, sessions |-> 20, minSessions |-> 10, useMedian |-> TRUE,
            cacheMinutes |-> 360, fallback |-> TRUE]

ScoreBar == [watch |-> 500, arm |-> 700, zeroConviction |-> FALSE]

RankBucket == 50

Coverage == [abstain |-> 600, alert |-> 500]

Weights(bucket) ==
  IF bucket = "0dte"
  THEN [price_structure |-> 22, market_alignment |-> 15, relvol_momentum |-> 15,
        flow_quality |-> 10, contract_liquidity |-> 18, volatility |-> 10,
        catalyst_news |-> 5, risk_reward |-> 5]
  ELSE [daily_trend |-> 20, catalyst_news |-> 15, multi_session_flow |-> 15,
        market_alignment |-> 10, volatility |-> 10, contract_liquidity |-> 10,
        technical_entry |-> 10, risk_reward |-> 10]

\* The rules of the exit plan: flat by 15:45, one contract leaves at PT1.
ExitRule == [flattenAt |-> 375, momentumBars |-> 2, scaleAtPT1 |-> 5000, timeStopDte |-> 1]

\* Seconds a reading may be old, by the use made of it.
FreshFor ==
  [broad |-> [underlying |-> 120, option |-> 120],
   watchlist |-> [underlying |-> 30, option |-> 30],
   armed |-> [underlying |-> 8, option |-> 12, internals |-> 30, account |-> 60],
   open |-> [underlying |-> 5, option |-> 10]]
=============================================================================
