---------------------------- MODULE SignalScores ----------------------------
(***************************************************************************)
(* The scores a decision is computed from: decision/technical_score.py,    *)
(* liquidation/score.py, the weighting in decision/service.py and the label *)
(* of dashboard/models.py.  A score is a fraction <<n, d>> with d > 0, or    *)
(* None; prices, indicators and notional values are integers.  The code's  *)
(* doubles round these fractions, which no property here depends on.       *)
(***************************************************************************)
EXTENDS Settings, Sequences, FiniteSets, SequencesExt

\* A missing value is neither a number nor a score.
ASSUME MissingAssumption == None \notin Int \union (Int \X Int)

Div(n, d)  == IF d < 0 THEN <<-n, -d>> ELSE <<n, d>>
Neg(x)     == <<-x[1], x[2]>>
Plus(x, y) == <<x[1] * y[2] + y[1] * x[2], x[2] * y[2]>>
Times(x, y) == <<x[1] * y[1], x[2] * y[2]>>
Leq(x, y)  == x[1] * y[2] <= y[1] * x[2]
Equal(x, y) == IF None \in {x, y} THEN x = y ELSE Leq(x, y) /\ Leq(y, x)

Zero    == <<0, 1>>
One     == <<1, 1>>
Sign(n) == IF n > 0 THEN One ELSE IF n < 0 THEN Neg(One) ELSE Zero

Sum(xs) ==
  LET upTo[i \in 0..Len(xs)] == IF i = 0 THEN Zero ELSE Plus(upTo[i - 1], xs[i])
  IN upTo[Len(xs)]

-----------------------------------------------------------------------------
\* decision/technical_score.py.  A snapshot is a record of numbers or None.

\* Mutant: only the upper bound is kept.
ClipAbove(x) == IF Leq(One, x) THEN One ELSE x

Clip(x) == IF Leq(One, x) THEN One ELSE IF Leq(x, Neg(One)) THEN Neg(One) ELSE x

ScoreRsi(rsi) == IF rsi = None THEN None ELSE Clip(<<50 - rsi, 50>>)

\* Mutant: a histogram of zero counts as rising.
ScoreMacdZeroRises(histogram) ==
  IF histogram = None THEN None ELSE IF histogram >= 0 THEN One ELSE Neg(One)

ScoreMacd(histogram) == IF histogram = None THEN None ELSE Sign(histogram)

\* A price beyond the middle band by one band width or more is clipped; equal bands
\* say nothing.
ScoreBollinger(close, upper, middle) ==
  IF None \in {close, upper, middle} \/ upper = middle THEN None
  ELSE Clip(Div(middle - close, upper - middle))

ScoreEma(close, ema) == IF None \in {close, ema} THEN None ELSE Sign(close - ema)

Usable(score) == IF score = None THEN <<>> ELSE <<score>>

Components(t) ==
  Usable(ScoreRsi(t.rsi)) \o Usable(ScoreMacd(t.macd_histogram))
    \o Usable(ScoreBollinger(t.close_price, t.bb_upper, t.bb_middle))
    \o Usable(ScoreEma(t.close_price, t.ema))

\* Mutant: the mean is taken over all four signals, usable or not.
TechnicalScoreOverFour(t) ==
  IF Components(t) = <<>> THEN None ELSE Times(Sum(Components(t)), <<1, 4>>)

compute_technical_score(t) ==
  IF Components(t) = <<>> THEN None
  ELSE Times(Sum(Components(t)), <<1, Len(Components(t))>>)

-----------------------------------------------------------------------------
\* liquidation/score.py.  A heatmap has a current_price and buckets, a sequence of
\* <<price, notional_usd>>.

Distance(h, b) == IF b[1] < h.current_price THEN h.current_price - b[1] ELSE b[1] - h.current_price

\* Mutant: a bucket farther away than the proximity counts too.
AnyDistance(h, b) == Distance(h, b) # 0

InReach(h, b) ==
  Distance(h, b) # 0 /\ Distance(h, b) * 100 <= ProximityPct * h.current_price

\* Mutant: the distance multiplies instead of dividing.
WeightByDistance(h, b) == <<b[2] * Distance(h, b), h.current_price>>

Weight(h, b) == <<b[2] * h.current_price, Distance(h, b)>>

SideOf(h, b) == IF b[1] < h.current_price THEN "long" ELSE "short"

\* What the buckets of a side add up to.
Weighted(h, side) ==
  Sum([i \in DOMAIN h.buckets |->
         LET b == h.buckets[i]
         IN IF InReach(h, b) /\ SideOf(h, b) = side THEN Weight(h, b) ELSE Zero])

\* Dividing by a current price of zero raises for the first bucket.
ScoreRaises(h) == h.current_price = 0 /\ h.buckets # <<>>

compute_liquidation_score(h) ==
  LET total == Plus(Weighted(h, "long"), Weighted(h, "short"))
      gap   == Plus(Weighted(h, "short"), Neg(Weighted(h, "long")))
  IN IF total[1] = 0 THEN None ELSE <<gap[1] * total[2], gap[2] * total[1]>>

\* Mutant: sorted in ascending order, as without reverse=True.
Smallest(bs, side, n) ==
  LET Before(i, j) == bs[i][2] < bs[j][2] \/ (bs[i][2] = bs[j][2] /\ i < j)
      Rank(i)      == Cardinality({j \in side : Before(j, i)}) + 1
      size         == IF Cardinality(side) < n THEN Cardinality(side) ELSE n
  IN [r \in 1..size |-> bs[CHOOSE i \in side : Rank(i) = r]]

\* Of the buckets at the positions side the n largest, the earlier one first among equals.
Largest(bs, side, n) ==
  LET Before(i, j) == bs[i][2] > bs[j][2] \/ (bs[i][2] = bs[j][2] /\ i < j)
      Rank(i)      == Cardinality({j \in side : Before(j, i)}) + 1
      size         == IF Cardinality(side) < n THEN Cardinality(side) ELSE n
  IN [r \in 1..size |-> bs[CHOOSE i \in side : Rank(i) = r]]

nearest_clusters(h, n) ==
  LET bs == h.buckets
  IN [long_below  |-> Largest(bs, {i \in DOMAIN bs : bs[i][1] < h.current_price}, n),
      short_above |-> Largest(bs, {i \in DOMAIN bs : bs[i][1] > h.current_price}, n)]

-----------------------------------------------------------------------------
\* decision/service.py and dashboard/models.py

\* Mutant: the shares of the two signals add up to more than one.
WeightedTooMuch(technical, liquidation) ==
  IF technical = None THEN None
  ELSE IF liquidation = None THEN technical
  ELSE Plus(Times(<<7, 10>>, technical), Times(<<4, 10>>, liquidation))

weighted_score(technical, liquidation) ==
  IF technical = None THEN None
  ELSE IF liquidation = None THEN technical
  ELSE Plus(Times(<<6, 10>>, technical), Times(<<4, 10>>, liquidation))

\* Mutant: the two thresholds differ.
MarketBiasLopsided(technical) ==
  IF technical = None THEN "INSUFFICIENT DATA"
  ELSE IF Leq(<<1, 4>>, technical) THEN "BULLISH BIAS"
  ELSE IF ~Leq(<<-1, 4>>, technical) THEN "BEARISH BIAS"
  ELSE "WAIT"

compute_market_bias(technical) ==
  IF technical = None THEN "INSUFFICIENT DATA"
  ELSE IF Leq(<<1, 4>>, technical) THEN "BULLISH BIAS"
  ELSE IF Leq(technical, <<-1, 4>>) THEN "BEARISH BIAS"
  ELSE "WAIT"
=============================================================================
