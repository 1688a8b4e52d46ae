--------------------------- MODULE MCSignalScores ---------------------------
(***************************************************************************)
(* The inputs of SignalScores and Indicators, built field by field, bucket   *)
(* by bucket and candle by candle as indicators become available, a heatmap *)
(* is parsed and candles close, and what must hold of the scores and        *)
(* indicators of every one of them.                                         *)
(***************************************************************************)
EXTENDS Indicators

CONSTANTS
  Price,           \* of the heatmap, and the centre of the mirror
  Prices,          \* of technical snapshots, their averages and the buckets
  RsiValues, Histograms,
  Middles, Widths, \* of the bands: the middle one, and how far the upper one is above it
  Notionals,
  Companions,      \* what the liquidation score may be beside the technical one
  MaxBuckets,
  Closes, Wicks,   \* of a candle: its close, and how far its range reaches beyond it
  MaxWicked,       \* bound on the number of candles that reach beyond their close
  MaxCandles,
  \* technical/service.py
  EMA_PERIOD, RSI_PERIOD, MACD_FAST, MACD_SLOW, MACD_SIGNAL, BOLLINGER_PERIOD, ATR_PERIOD

\* Indicators are any numbers, a heatmap's are not negative.
ASSUME InputsAssumption ==
  /\ Price \in Nat
  /\ Prices \union RsiValues \union Histograms \union Middles \subseteq Int
  /\ Widths \union Notionals \subseteq Nat
  /\ \A l \in Companions : l = None \/ l \in Int \X (Nat \ {0})
  /\ Closes \subseteq Int /\ Wicks \subseteq Nat

\* The code has 20, 14, 12, 26, 9, 20 and 14.
ASSUME PeriodsAssumption ==
  /\ {EMA_PERIOD, MACD_FAST, MACD_SIGNAL, BOLLINGER_PERIOD, ATR_PERIOD} \subseteq Nat \ {0}
  /\ RSI_PERIOD \in Nat /\ RSI_PERIOD >= 2
  /\ MACD_SLOW \in Nat /\ MACD_FAST < MACD_SLOW

\* Histograms and companions of the instance.
FallingOrRising == {-1, 0, 2}
SomeScores      == {None, <<-1, 1>>, <<-1, 3>>, <<0, 1>>, <<1, 1>>}

VARIABLES technical, heatmap, candles

vars == <<technical, heatmap, candles>>

Init ==
  /\ technical \in {[close_price |-> p, rsi |-> None, macd_histogram |-> None,
                     bb_upper |-> None, bb_middle |-> None, ema |-> None] : p \in Prices}
  /\ heatmap = [current_price |-> Price, buckets |-> <<>>]
  /\ candles = <<>>

Untouched == heatmap.buckets = <<>> /\ candles = <<>>

\* No indicator is filled in.  Equal bands are no signal, but they are.
NoneKnown == Components(technical) = <<>> /\ technical.bb_middle = None

EmaKnown ==
  /\ technical.ema = None /\ Untouched
  /\ \E p \in Prices : technical' = [technical EXCEPT !.ema = p]
  /\ UNCHANGED <<heatmap, candles>>

RsiKnown ==
  /\ technical.rsi = None /\ Untouched
  /\ \E r \in RsiValues : technical' = [technical EXCEPT !.rsi = r]
  /\ UNCHANGED <<heatmap, candles>>

MacdKnown ==
  /\ technical.macd_histogram = None /\ Untouched
  /\ \E m \in Histograms : technical' = [technical EXCEPT !.macd_histogram = m]
  /\ UNCHANGED <<heatmap, candles>>

BandsKnown ==
  /\ technical.bb_middle = None /\ Untouched
  /\ \E m \in Middles, w \in Widths :
       technical' = [technical EXCEPT !.bb_middle = m, !.bb_upper = m + w]
  /\ UNCHANGED <<heatmap, candles>>

BucketParsed ==
  /\ technical.close_price = Price /\ NoneKnown /\ candles = <<>>
  /\ Len(heatmap.buckets) < MaxBuckets
  /\ \E p \in Prices, n \in Notionals :
       heatmap' = [heatmap EXCEPT !.buckets = Append(@, <<p, n>>)]
  /\ UNCHANGED <<technical, candles>>

CandleClosed ==
  /\ technical.close_price = Price /\ NoneKnown /\ heatmap.buckets = <<>>
  /\ Len(candles) < MaxCandles
  /\ \E p \in Closes, up, down \in Wicks :
       /\ up # 0 \/ down # 0 =>
            Cardinality({i \in DOMAIN candles : candles[i].high # candles[i].low}) < MaxWicked
       /\ candles' = Append(candles, [high |-> p + up, low |-> p - down, close |-> p])
  /\ UNCHANGED <<technical, heatmap>>

Next == EmaKnown \/ RsiKnown \/ MacdKnown \/ BandsKnown \/ BucketParsed \/ CandleClosed

Spec == Init /\ [][Next]_vars

-----------------------------------------------------------------------------
Technical   == compute_technical_score(technical)
Liquidation == compute_liquidation_score(heatmap)

Bounded(x) == x = None \/ (Leq(<<-1, 1>>, x) /\ Leq(x, One))

\* Every score the prompt describes lies in [-1, 1] (decision/service.py:15-16), the
\* price however far beyond the bands.
ScoresAreBounded == Bounded(Technical) /\ Bounded(Liquidation)

\* The weighted score lies between the two it is made of, so that one bullish and one
\* bearish signal never make a score beyond either (decision/service.py:80-85).
WeightedLiesBetween ==
  \A l \in Companions :
    (Technical # None /\ l # None) =>
      LET w == weighted_score(Technical, l)
      IN \/ Leq(Technical, w) /\ Leq(w, l)
         \/ Leq(l, w) /\ Leq(w, Technical)

Mirror(p)     == IF p = None THEN None ELSE 2 * Price - p
Opposite(x)   == IF x = None THEN None ELSE Neg(x)
MirrorTechnical ==
  [close_price |-> Mirror(technical.close_price),
   rsi |-> IF technical.rsi = None THEN None ELSE 100 - technical.rsi,
   macd_histogram |-> IF technical.macd_histogram = None THEN None ELSE -technical.macd_histogram,
   bb_middle |-> Mirror(technical.bb_middle),
   bb_upper |-> IF technical.bb_middle = None THEN None
                ELSE Mirror(2 * technical.bb_middle - technical.bb_upper),
   ema |-> Mirror(technical.ema)]
MirrorHeatmap ==
  [heatmap EXCEPT !.buckets = [i \in DOMAIN @ |-> <<Mirror(@[i][1]), @[i][2]>>]]
OppositeLabel(b) ==
  CASE b = "BULLISH BIAS" -> "BEARISH BIAS" [] b = "BEARISH BIAS" -> "BULLISH BIAS" [] OTHER -> b

\* Bulls and bears are treated alike: in a market turned upside down every score
\* changes its sign and the bias its side (technical_score.py:8-41, score.py:16-29,
\* dashboard/models.py:44-50).
MirrorNegates ==
  /\ Equal(compute_technical_score(MirrorTechnical), Opposite(Technical))
  /\ Equal(compute_liquidation_score(MirrorHeatmap), Opposite(Liquidation))
  /\ compute_market_bias(Opposite(Technical)) = OppositeLabel(compute_market_bias(Technical))

\* A signal that is missing does not pull the score towards zero: where the usable
\* ones agree, the score is what they say (technical_score.py:46-58).
MissingIsNotNeutral ==
  LET cs == Components(technical)
  IN cs # <<>> /\ (\A i \in DOMAIN cs : Equal(cs[i], cs[1])) => Equal(Technical, cs[1])

\* Buckets farther than the proximity, and the order of the others, make no
\* difference (score.py:10-12, 18).
OnlyNearBucketsCount ==
  LET bs   == heatmap.buckets
      near == {i \in DOMAIN bs :
                 100 * bs[i][1] \in (100 - ProximityPct) * Price .. (100 + ProximityPct) * Price}
  IN \A order \in Bijection(1..Cardinality(near), near) :
       Equal(Liquidation,
             compute_liquidation_score(
               [heatmap EXCEPT !.buckets = [k \in 1..Cardinality(near) |-> bs[order[k]]]]))

\* A cluster above the price that comes closer never lowers the score (score.py:20):
\* the nearer it is, the stronger it pulls.
CloserPullsHarder ==
  \A i \in DOMAIN heatmap.buckets :
    LET moved == [heatmap EXCEPT !.buckets[i][1] = @ - 1]
    IN (heatmap.buckets[i][1] > Price + 1 /\ Liquidation # None) =>
         Leq(Liquidation, compute_liquidation_score(moved))

\* named are two different buckets of the side, or all it has, and whichever one of the
\* side is larger than one of them is named before that.
NamesLargest(named, side) ==
  LET bs   == heatmap.buckets
      size == IF Cardinality(side) < 2 THEN Cardinality(side) ELSE 2
  IN \E pick \in Injection(1..size, side) :
       /\ named = [r \in 1..size |-> bs[pick[r]]]
       /\ \A r \in 1..size, i \in side :
            bs[i][2] > bs[pick[r]][2] => \E q \in 1..(r - 1) : pick[q] = i

\* The clusters named to the model on a side are the largest of that side, each once
\* and the larger one first (score.py:40-49).
LargestClustersAreNamed ==
  LET bs == heatmap.buckets
      c  == nearest_clusters(heatmap, 2)
  IN /\ NamesLargest(c.long_below, {i \in DOMAIN bs : bs[i][1] < Price})
     /\ NamesLargest(c.short_above, {i \in DOMAIN bs : bs[i][1] > Price})

-----------------------------------------------------------------------------
\* The indicators compute_snapshot makes of the candles.
closes == [i \in DOMAIN candles |-> candles[i].close]

Rsi   == rsi(closes, RSI_PERIOD)
Ema   == ema(closes, EMA_PERIOD)
Macd  == macd(closes, MACD_FAST, MACD_SLOW, MACD_SIGNAL)
Bands == bollinger_bands(closes, BOLLINGER_PERIOD)
Atr   == atr(candles, ATR_PERIOD)

MirrorCloses  == [i \in DOMAIN closes |-> Mirror(closes[i])]
MirrorCandles ==
  [i \in DOMAIN candles |-> [high |-> Mirror(candles[i].low), low |-> Mirror(candles[i].high),
                             close |-> Mirror(candles[i].close)]]
Minimum(ns) == <<CHOOSE n \in ns : \A m \in ns : n <= m, 1>>
Maximum(ns) == <<CHOOSE n \in ns : \A m \in ns : m <= n, 1>>
Between(x, ns) == Leq(Minimum(ns), x) /\ Leq(x, Maximum(ns))
Moved == \E i \in DOMAIN closes : closes[i] # closes[1]

\* Rises and falls are measured alike: the indicators of a market turned upside down are
\* the reflected ones.  RSI is the exception where the price never moved: it reads 100,
\* not 50, on both sides of the mirror (indicators.py:19-33, 30-31).
IndicatorsMirror ==
  /\ Rsi # None =>
       Equal(rsi(MirrorCloses, RSI_PERIOD), IF Moved THEN Plus(<<100, 1>>, Neg(Rsi)) ELSE <<100, 1>>)
  /\ Ema # None => Equal(ema(MirrorCloses, EMA_PERIOD), Plus(<<2 * Price, 1>>, Neg(Ema)))
  /\ Macd # None =>
       Equal(macd(MirrorCloses, MACD_FAST, MACD_SLOW, MACD_SIGNAL).histogram, Neg(Macd.histogram))
  /\ Bands # None =>
       Equal(bollinger_bands(MirrorCloses, BOLLINGER_PERIOD).variance, Bands.variance)
  /\ Atr # None => Equal(atr(MirrorCandles, ATR_PERIOD), Atr)

\* In a market that rises or falls by the same amount every candle each average lags
\* behind by a constant, so that MACD is that constant and its histogram zero, from the
\* first candle that has one (indicators.py:1-11, 36-51): a seed, a weight or a pairing
\* of the two averages that is off by one shows as momentum.
SteadyTrendHasNoMomentum ==
  LET slope == closes[2] - closes[1] IN
  Macd # None /\ (\A i \in DOMAIN Diffs(closes) : Diffs(closes)[i] = slope) =>
    /\ Equal(Macd.line, <<slope * (MACD_SLOW - MACD_FAST), 2>>)
    /\ Equal(Macd.histogram, <<0, 1>>)

\* An average lies within what it averages: EMA within all closes, the middle band
\* within the last period, where the bands meet just when nothing moved
\* (indicators.py:1-16, 54-63).
AveragesStayWithin ==
  LET window == {closes[i] : i \in (Len(closes) - BOLLINGER_PERIOD + 1)..Len(closes)} IN
  /\ Ema # None => Between(Ema, {closes[i] : i \in DOMAIN closes})
  /\ Bands # None => /\ Between(Bands.middle, window)
                     /\ Bands.variance[1] >= 0
                     /\ Bands.variance[1] = 0 <=> Cardinality(window) = 1

\* ATR is at least the average way from close to close and, where no candle reaches
\* beyond its close, exactly that, gaps included (indicators.py:66-76).
AtrCoversTravel ==
  Atr # None =>
    LET travel == Wilder([i \in DOMAIN Diffs(closes) |-> Magnitude(Diffs(closes)[i])], ATR_PERIOD)
    IN /\ Leq(travel, Atr)
       /\ (\A i \in DOMAIN candles : candles[i].high = candles[i].low) => Equal(travel, Atr)
=============================================================================
