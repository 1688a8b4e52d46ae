----------------------------- MODULE MCDecision -----------------------------
(* Instances of Technical and Decision for TLC. *)
EXTENDS Decision, TLC

CONSTANTS btc, eth, dashboard, run

Reading(close, rsi, histogram) ==
  [close_price |-> close, rsi |-> rsi, macd_histogram |-> histogram,
   bb_upper |-> 12, bb_middle |-> 10, ema |-> 10]

\* One that leans up, one that leans down.
TwoReadings == {Reading(11, 40, 1), Reading(9, 70, -1)}

Answer(price, buckets) == [current_price |-> price, buckets |-> buckets]

OneAnswer == {Answer(10, <<<<11, 3>>, <<9, 1>>>>)}

\* Clusters on both sides, with a bucket that lacks its value; a price of zero, for which
\* scoring raises; and two that are worth nothing.
SomeAnswers == {Answer(10, <<<<11, 3>>, <<12, None>>, <<9, 1>>>>), Answer(0, <<<<11, 3>>>>),
                Answer(10, <<<<None, 3>>>>), Answer(None, <<<<11, 3>>>>)}

PollerSymmetry == Permutations(Pollers)
=============================================================================
