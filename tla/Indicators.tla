----------------------------- MODULE Indicators -----------------------------
(***************************************************************************)
(* The formulas of technical/indicators.py.  Prices are integers, an        *)
(* indicator is a fraction <<n, d>> in lowest terms, or None.  A candle is  *)
(* a record of high, low and close; the periods are arguments, as in the    *)
(* code.  Of the bands the variance is computed, not its root.              *)
(***************************************************************************)
EXTENDS SignalScores

gcd[p \in Nat \X Nat] == IF p[2] = 0 THEN p[1] ELSE gcd[<<p[2], p[1] % p[2]>>]

Magnitude(n) == IF n < 0 THEN -n ELSE n

Reduced(x) == LET g == gcd[<<Magnitude(x[1]), x[2]>>] IN <<x[1] \div g, x[2] \div g>>

Minus(x, y) == Reduced(Plus(x, Neg(y)))
Mean(xs)    == Reduced(Times(Sum(xs), <<1, Len(xs)>>))
Fractions(ns) == [i \in DOMAIN ns |-> <<ns[i], 1>>]
Larger(m, n)  == IF m > n THEN m ELSE n

\* From the mean of the first values on, the average moves towards every further value
\* by the share k.  Its domain is the positions the code does not pad with None.
Smoothed(values, period, k) ==
  LET average[i \in period..Len(values)] ==
        IF i = period THEN Mean(SubSeq(values, 1, period))
        ELSE Reduced(Plus(average[i - 1], Times(Minus(values[i], average[i - 1]), k)))
  IN average

\* Mutant: the share of the newest value is 2 / (period - 1).
EmaSeriesHasty(values, period) == Smoothed(values, period, <<2, period - 1>>)

ema_series(values, period) == Smoothed(values, period, <<2, period + 1>>)

ema(closes, period) ==
  IF Len(closes) < period THEN None ELSE ema_series(Fractions(closes), period)[Len(closes)]

\* Wilder's average of a sequence of numbers.
Wilder(ns, period) == Smoothed(Fractions(ns), period, <<1, period>>)[Len(ns)]

Diffs(closes) == [i \in 1..(Len(closes) - 1) |-> closes[i + 1] - closes[i]]

Gains(closes)  == [i \in DOMAIN Diffs(closes) |-> Larger(Diffs(closes)[i], 0)]
Losses(closes) == [i \in DOMAIN Diffs(closes) |-> Larger(-Diffs(closes)[i], 0)]

\* 100 - 100 / (1 + gain / loss), and 100 when there is no loss.
Strength(gain, loss) ==
  IF loss[1] = 0 THEN <<100, 1>>
  ELSE Reduced(<<100 * gain[1] * loss[2], gain[1] * loss[2] + loss[1] * gain[2]>>)

\* Mutant: the losses are not smoothed beyond the first period.
RsiLossesStay(closes, period) ==
  IF Len(closes) < period + 1 THEN None
  ELSE Strength(Wilder(Gains(closes), period), Wilder(SubSeq(Losses(closes), 1, period), period))

rsi(closes, period) ==
  IF Len(closes) < period + 1 THEN None
  ELSE Strength(Wilder(Gains(closes), period), Wilder(Losses(closes), period))

\* Mutant: the two averages are paired from the start of each, not by candle.
MacdLineUnaligned(closes, fast, slow) ==
  [i \in 1..Larger(Len(closes) - slow + 1, 0) |->
     Minus(ema_series(Fractions(closes), fast)[fast + i - 1],
           ema_series(Fractions(closes), slow)[slow + i - 1])]

\* The fast average less the slow one, for every candle that has both.
macd_line_series(closes, fast, slow) ==
  LET first == Larger(fast, slow) - 1
  IN [i \in 1..Larger(Len(closes) - first, 0) |->
        Minus(ema_series(Fractions(closes), fast)[first + i],
              ema_series(Fractions(closes), slow)[first + i])]

macd(closes, fast, slow, signal) ==
  LET line == macd_line_series(closes, fast, slow)
      last == Len(line)
  IN IF last < signal THEN None
     ELSE LET smooth == ema_series(line, signal)[last]
          IN [line |-> line[last], signal |-> smooth, histogram |-> Minus(line[last], smooth)]

\* The middle band, and the variance whose root gives the distance of the outer ones.
bollinger_bands(closes, period) ==
  IF Len(closes) < period THEN None
  ELSE LET window == Fractions(SubSeq(closes, Len(closes) - period + 1, Len(closes)))
           mean   == Mean(window)
           Square(x) == Times(Minus(x, mean), Minus(x, mean))
       IN [middle |-> mean, variance |-> Mean([i \in DOMAIN window |-> Square(window[i])])]

\* Mutant: the gap to the previous close is left out.
RangeWithinCandle(candle, prev_close) == candle.high - candle.low

true_range(candle, prev_close) ==
  Larger(candle.high - candle.low,
         Larger(Magnitude(candle.high - prev_close), Magnitude(candle.low - prev_close)))

atr(candles, period) ==
  IF Len(candles) < period + 1 THEN None
  ELSE Wilder([i \in 1..(Len(candles) - 1) |-> true_range(candles[i + 1], candles[i].close)], period)
=============================================================================
