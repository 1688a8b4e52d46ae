------------------------- MODULE SignalScoresProofs --------------------------
(***************************************************************************)
(* The scores a decision is computed from, for every input the machine of  *)
(* MCSignalScores builds: its prices, indicator values, notionals and the  *)
(* number of buckets are constants, of which only InputsAssumption is used. *)
(***************************************************************************)
EXTENDS MCSignalScores, SequenceTheorems, FiniteSetTheorems, WellFoundedInduction, TLAPS

-----------------------------------------------------------------------------
(* Fractions. *)

Fractional == Int \X (Nat \ {0})

\* The fraction x lies in [-k, k].
Within(x, k) == x \in Fractional /\ -(k * x[2]) <= x[1] /\ x[1] <= k * x[2]

LEMMA ZeroIsFraction == Zero \in Fractional /\ Zero[1] = 0 /\ Zero[2] = 1
BY DEF Zero, Fractional

LEMMA NegIsFraction ==
  /\ Neg(Zero) = Zero
  /\ \A x \in Fractional : Neg(x) \in Fractional
<1>1. \A n \in Int : n <= 0 /\ 0 <= n => -n = 0
  OBVIOUS
<1>2. -Zero[1] = 0
  <2>1. Zero[1] \in Int /\ Zero[1] <= 0 /\ 0 <= Zero[1]
    BY ZeroIsFraction
  <2>2. QED BY <1>1, <2>1
<1>3. Neg(Zero) = <<0, Zero[2]>>
  BY <1>2 DEF Neg
<1>4. Neg(Zero) = Zero
  BY <1>3, ZeroIsFraction DEF Zero
<1>5. QED BY <1>4 DEF Neg, Fractional

LEMMA MultiplyLeq ==
  ASSUME NEW a \in Int, NEW b \in Int, NEW d \in Nat, a <= b
  PROVE  a * d <= b * d
OBVIOUS

LEMMA PositiveProduct ==
  ASSUME NEW b \in Nat \ {0}, NEW d \in Nat \ {0}
  PROVE  b * d \in Nat \ {0}
OBVIOUS

LEMMA PlusIsFraction ==
  ASSUME NEW x \in Fractional, NEW y \in Fractional
  PROVE  Plus(x, y) \in Fractional
<1>1. /\ x[1] \in Int /\ x[2] \in Nat \ {0} /\ y[1] \in Int /\ y[2] \in Nat \ {0}
  BY DEF Fractional
<1>2. x[2] * y[2] \in Nat \ {0}
  BY <1>1, PositiveProduct
<1>3. x[1] * y[2] + y[1] * x[2] \in Int
  BY <1>1
<1>4. QED BY <1>2, <1>3 DEF Plus, Fractional

LEMMA PlusWithin ==
  ASSUME NEW x, NEW y, NEW j \in Nat, NEW k \in Nat, Within(x, j), Within(y, k)
  PROVE  Within(Plus(x, y), j + k)
<1> DEFINE a == x[1]
           b == x[2]
           c == y[1]
           d == y[2]
<1>1. a \in Int /\ b \in Nat /\ c \in Int /\ d \in Nat
  BY DEF Within, Fractional
<1>2. -(j * b) <= a /\ a <= j * b /\ -(k * d) <= c /\ c <= k * d
  BY DEF Within
<1>3. Plus(x, y) = <<a * d + c * b, b * d>> /\ Plus(x, y) \in Fractional
  BY PlusIsFraction DEF Within, Plus
<1> HIDE DEF a, b, c, d
<1>4. a * d <= (j * b) * d /\ (-(j * b)) * d <= a * d
  BY <1>1, <1>2, MultiplyLeq
<1>5. c * b <= (k * d) * b /\ (-(k * d)) * b <= c * b
  BY <1>1, <1>2, MultiplyLeq
<1>6. (j * b) * d + (k * d) * b = (j + k) * (b * d)
  BY <1>1
<1>7. (-(j * b)) * d + (-(k * d)) * b = -((j + k) * (b * d))
  BY <1>1
<1>8. a * d + c * b <= (j + k) * (b * d) /\ -((j + k) * (b * d)) <= a * d + c * b
  <2>1. /\ a * d \in Int /\ c * b \in Int /\ (j * b) * d \in Int /\ (k * d) * b \in Int
        /\ (-(j * b)) * d \in Int /\ (-(k * d)) * b \in Int
    BY <1>1
  <2>2. QED BY <2>1, <1>4, <1>5, <1>6, <1>7
<1>9. QED BY <1>3, <1>8 DEF Within

-----------------------------------------------------------------------------
(* Sums. *)

\* A nonempty set of naturals has a least one: the induction principle of what follows.
LEMMA LeastExists ==
  ASSUME NEW S \in SUBSET Nat, S # {}
  PROVE  \E n \in S : \A k \in S : n <= k
<1>1. PICK n \in S : \A k \in S : ~(<<k, n>> \in OpToRel(<, Nat))
  BY NatLessThanWellFounded, WFMin
<1>2. \A k \in S : ~(k < n)
  BY <1>1 DEF OpToRel
<1>3. QED BY <1>2

\* g has the sum of the first i elements of xs, for every i up to n.
IsUpTo(g, xs, n) == g = [i \in 0..n |-> IF i = 0 THEN Zero ELSE Plus(g[i - 1], xs[i])]

LEMMA UpToExists ==
  ASSUME NEW xs, NEW n \in Nat
  PROVE  \E g : IsUpTo(g, xs, n)
<1> DEFINE S == {m \in Nat : ~\E g : IsUpTo(g, xs, m)}
<1>1. SUFFICES ASSUME S # {} PROVE FALSE
  OBVIOUS
<1>2. PICK m \in S : \A k \in S : m <= k
  <2> HIDE DEF S
  <2>1. S \in SUBSET Nat
    BY DEF S
  <2>2. QED BY <1>1, <2>1, LeastExists
<1>3. m # 0
  <2>1. IsUpTo([i \in 0..0 |-> Zero], xs, 0)
    BY DEF IsUpTo
  <2>2. QED BY <1>2, <2>1
<1>4. PICK h : IsUpTo(h, xs, m - 1)
  <2>1. m - 1 \in Nat /\ m - 1 \notin S
    BY <1>2, <1>3
  <2>2. QED BY <2>1
<1> DEFINE g == [i \in 0..m |-> IF i = m THEN Plus(h[m - 1], xs[m]) ELSE h[i]]
<1>5. ASSUME NEW i \in 0..m
      PROVE  g[i] = IF i = 0 THEN Zero ELSE Plus(g[i - 1], xs[i])
  <2>1. CASE i = m
    BY <1>3, <2>1
  <2>2. CASE i # m
    <3>1. i \in 0..(m - 1)
      BY <2>2
    <3>2. h[i] = IF i = 0 THEN Zero ELSE Plus(h[i - 1], xs[i])
      BY <1>4, <3>1 DEF IsUpTo
    <3>3. i # 0 => i - 1 \in 0..m /\ i - 1 # m
      BY <3>1
    <3>4. QED BY <2>2, <3>2, <3>3
  <2>3. QED BY <2>1, <2>2
<1>6. IsUpTo(g, xs, m)
  BY <1>5 DEF IsUpTo
<1>7. QED BY <1>2, <1>6

LEMMA SumIsLast ==
  ASSUME NEW xs, Len(xs) \in Nat
  PROVE  \E g : /\ Sum(xs) = g[Len(xs)] /\ g[0] = Zero
                /\ \A i \in 1..Len(xs) : g[i] = Plus(g[i - 1], xs[i])
<1> DEFINE g == CHOOSE g : IsUpTo(g, xs, Len(xs))
<1>1. IsUpTo(g, xs, Len(xs))
  BY UpToExists
<1>2. Sum(xs) = g[Len(xs)]
  BY DEF Sum, IsUpTo
<1> HIDE DEF g
<1>3. \A i \in 0..Len(xs) : g[i] = IF i = 0 THEN Zero ELSE Plus(g[i - 1], xs[i])
  BY <1>1 DEF IsUpTo
<1>4. QED BY <1>2, <1>3


\* What holds of no elements, and of i elements if of i - 1, holds of all.
LEMMA NoLeastCounterexample ==
  ASSUME NEW n \in Nat, NEW Good \in SUBSET (0..n), 0 \in Good,
         \A i \in 1..n : i - 1 \in Good => i \in Good
  PROVE  n \in Good
<1> DEFINE Bad == (0..n) \ Good
<1>1. SUFFICES ASSUME Bad # {} PROVE FALSE
  OBVIOUS
<1>2. PICK m \in Bad : \A k \in Bad : m <= k
  <2> HIDE DEF Bad
  <2>1. Bad \in SUBSET Nat
    BY DEF Bad
  <2>2. QED BY <1>1, <2>1, LeastExists
<1>3. m \in 1..n /\ m - 1 \in 0..n /\ ~(m <= m - 1)
  BY <1>2
<1>4. m - 1 \in Good
  BY <1>2, <1>3
<1>5. QED BY <1>2, <1>3, <1>4

LEMMA SumWithin ==
  ASSUME NEW xs, Len(xs) \in Nat, \A i \in 1..Len(xs) : Within(xs[i], 1)
  PROVE  Within(Sum(xs), Len(xs))
<1>1. PICK g : /\ Sum(xs) = g[Len(xs)] /\ g[0] = Zero
               /\ \A i \in 1..Len(xs) : g[i] = Plus(g[i - 1], xs[i])
  BY SumIsLast
<1> DEFINE Good == {i \in 0..Len(xs) : Within(g[i], i)}
<1>2. 0 \in Good
  <2>1. Within(Zero, 0) /\ 0 \in 0..Len(xs)
    BY ZeroIsFraction DEF Within
  <2>2. QED BY <1>1, <2>1
<1>3. ASSUME NEW i \in 1..Len(xs), i - 1 \in Good PROVE i \in Good
  <2>1. Within(g[i - 1], i - 1) /\ Within(xs[i], 1) /\ i - 1 \in Nat
    BY <1>3
  <2>2. Within(Plus(g[i - 1], xs[i]), (i - 1) + 1)
    BY <2>1, PlusWithin
  <2>3. (i - 1) + 1 = i
    OBVIOUS
  <2>4. QED BY <1>1, <2>2, <2>3
<1>4. Len(xs) \in Good
  <2> HIDE DEF Good
  <2>1. Good \in SUBSET (0..Len(xs))
    BY DEF Good
  <2>2. QED BY <1>2, <1>3, <2>1, NoLeastCounterexample
<1>5. QED BY <1>1, <1>4

Nonnegative(x) == x \in Fractional /\ x[1] >= 0

LEMMA PlusNonnegative ==
  ASSUME NEW x, NEW y, Nonnegative(x), Nonnegative(y)
  PROVE  Nonnegative(Plus(x, y))
<1>1. x[1] \in Nat /\ x[2] \in Nat /\ y[1] \in Nat /\ y[2] \in Nat
  BY DEF Nonnegative, Fractional
<1>2. x[1] * y[2] + y[1] * x[2] \in Nat
  BY <1>1
<1>3. QED BY <1>2, PlusIsFraction DEF Nonnegative, Plus

LEMMA SumNonnegative ==
  ASSUME NEW xs, Len(xs) \in Nat, \A i \in 1..Len(xs) : Nonnegative(xs[i])
  PROVE  Nonnegative(Sum(xs))
<1>1. PICK g : /\ Sum(xs) = g[Len(xs)] /\ g[0] = Zero
               /\ \A i \in 1..Len(xs) : g[i] = Plus(g[i - 1], xs[i])
  BY SumIsLast
<1> DEFINE Good == {i \in 0..Len(xs) : Nonnegative(g[i])}
<1>2. 0 \in Good
  <2>1. Nonnegative(Zero) /\ 0 \in 0..Len(xs)
    BY ZeroIsFraction DEF Nonnegative
  <2>2. QED BY <1>1, <2>1
<1>3. ASSUME NEW i \in 1..Len(xs), i - 1 \in Good PROVE i \in Good
  BY <1>1, <1>3, PlusNonnegative
<1>4. Len(xs) \in Good
  <2> HIDE DEF Good
  <2>1. Good \in SUBSET (0..Len(xs))
    BY DEF Good
  <2>2. QED BY <1>2, <1>3, <2>1, NoLeastCounterexample
<1>5. QED BY <1>1, <1>4

\* The sum of the opposites is the opposite of the sum.
LEMMA SumNegated ==
  ASSUME NEW xs, NEW ys, Len(xs) \in Nat, Len(ys) = Len(xs),
         \A i \in 1..Len(xs) : xs[i] \in Fractional /\ ys[i] = Neg(xs[i])
  PROVE  Sum(ys) = Neg(Sum(xs)) /\ Sum(xs) \in Fractional
<1>1. PICK g : /\ Sum(xs) = g[Len(xs)] /\ g[0] = Zero
               /\ \A i \in 1..Len(xs) : g[i] = Plus(g[i - 1], xs[i])
  BY SumIsLast
<1>2. PICK h : /\ Sum(ys) = h[Len(xs)] /\ h[0] = Zero
               /\ \A i \in 1..Len(xs) : h[i] = Plus(h[i - 1], ys[i])
  BY SumIsLast
<1> DEFINE Good == {i \in 0..Len(xs) : g[i] \in Fractional /\ h[i] = Neg(g[i])}
<1>3. 0 \in Good
  <2>1. 0 \in 0..Len(xs)
    OBVIOUS
  <2>2. QED BY <1>1, <1>2, <2>1, ZeroIsFraction, NegIsFraction
<1>4. ASSUME NEW i \in 1..Len(xs), i - 1 \in Good PROVE i \in Good
  <2> DEFINE x == g[i - 1]
             y == xs[i]
  <2>1. x \in Fractional /\ y \in Fractional /\ h[i - 1] = Neg(x)
    BY <1>4
  <2>2. g[i] = Plus(x, y) /\ h[i] = Plus(Neg(x), Neg(y))
    BY <1>1, <1>2, <2>1
  <2> HIDE DEF x, y
  <2>3. g[i] \in Fractional
    BY <2>1, <2>2, PlusIsFraction
  <2>4. /\ x[1] \in Int /\ x[2] \in Int /\ y[1] \in Int /\ y[2] \in Int
    BY <2>1 DEF Fractional
  <2>5. (-x[1]) * y[2] + (-y[1]) * x[2] = -(x[1] * y[2] + y[1] * x[2])
    BY <2>4
  <2>6. h[i] = Neg(g[i])
    BY <2>2, <2>5 DEF Plus, Neg
  <2>7. QED BY <2>3, <2>6
<1>5. Len(xs) \in Good
  <2> HIDE DEF Good
  <2>1. Good \in SUBSET (0..Len(xs))
    BY DEF Good
  <2>2. QED BY <1>3, <1>4, <2>1, NoLeastCounterexample
<1>6. QED BY <1>1, <1>2, <1>5


-----------------------------------------------------------------------------
(* The technical score. *)

Scores == {x \in Fractional : Within(x, 1)}

Known == Int \union {None}

Snapshots ==
  [close_price : Known, rsi : Known, macd_histogram : Known,
   bb_upper : Known, bb_middle : Known, ema : Known]

LEMMA ScoreIsBounded == \A x \in Scores : Bounded(x)
<1> SUFFICES ASSUME NEW x \in Scores PROVE Leq(<<-1, 1>>, x) /\ Leq(x, One)
  BY DEF Bounded
<1>1. x[1] \in Int /\ x[2] \in Nat /\ -(1 * x[2]) <= x[1] /\ x[1] <= 1 * x[2]
  BY DEF Scores, Within, Fractional
<1>2. QED BY <1>1 DEF Leq, One

LEMMA ClipIsScore ==
  ASSUME NEW x \in Fractional
  PROVE  Clip(x) \in Scores
<1>1. x[1] \in Int /\ x[2] \in Nat \ {0}
  BY DEF Fractional
<1>2. One \in Scores /\ Neg(One) \in Scores
  BY DEF Scores, Within, One, Neg, Fractional
<1>3. CASE ~Leq(One, x) /\ ~Leq(x, Neg(One))
  <2>1. x[1] <= x[2] /\ -x[2] <= x[1]
    BY <1>1, <1>3 DEF Leq, One, Neg
  <2>2. x \in Scores
    BY <1>1, <2>1 DEF Scores, Within
  <2>3. QED BY <1>3, <2>2 DEF Clip
<1>4. QED BY <1>2, <1>3 DEF Clip

LEMMA SignIsScore ==
  ASSUME NEW n \in Int
  PROVE  Sign(n) \in Scores
<1>1. One \in Scores /\ Neg(One) \in Scores /\ Zero \in Scores
  BY DEF Scores, Within, One, Neg, Zero, Fractional
<1>2. QED BY <1>1 DEF Sign

LEMMA DivIsFraction ==
  ASSUME NEW n \in Int, NEW d \in Int \ {0}
  PROVE  Div(n, d) \in Fractional
BY DEF Div, Fractional

LEMMA SignalsAreScores ==
  ASSUME NEW t \in Snapshots
  PROVE  /\ ScoreRsi(t.rsi) \in Scores \union {None}
         /\ ScoreMacd(t.macd_histogram) \in Scores \union {None}
         /\ ScoreBollinger(t.close_price, t.bb_upper, t.bb_middle) \in Scores \union {None}
         /\ ScoreEma(t.close_price, t.ema) \in Scores \union {None}
<1>1. ScoreRsi(t.rsi) \in Scores \union {None}
  <2>1. SUFFICES ASSUME t.rsi # None PROVE Clip(<<50 - t.rsi, 50>>) \in Scores
    BY DEF ScoreRsi
  <2>2. t.rsi \in Int
    BY <2>1 DEF Snapshots, Known
  <2>3. <<50 - t.rsi, 50>> \in Fractional
    BY <2>2 DEF Fractional
  <2>4. QED BY <2>3, ClipIsScore
<1>2. ScoreMacd(t.macd_histogram) \in Scores \union {None}
  BY SignIsScore DEF ScoreMacd, Snapshots, Known
<1>3. ScoreBollinger(t.close_price, t.bb_upper, t.bb_middle) \in Scores \union {None}
  <2>1. CASE None \in {t.close_price, t.bb_upper, t.bb_middle} \/ t.bb_upper = t.bb_middle
    BY <2>1 DEF ScoreBollinger
  <2>2. CASE ~(None \in {t.close_price, t.bb_upper, t.bb_middle} \/ t.bb_upper = t.bb_middle)
    <3>1. t.close_price \in Int /\ t.bb_upper \in Int /\ t.bb_middle \in Int
      BY <2>2 DEF Snapshots, Known
    <3>2. t.bb_middle - t.close_price \in Int /\ t.bb_upper - t.bb_middle \in Int \ {0}
      BY <2>2, <3>1
    <3>3. Clip(Div(t.bb_middle - t.close_price, t.bb_upper - t.bb_middle)) \in Scores
      BY <3>2, DivIsFraction, ClipIsScore
    <3>4. QED BY <2>2, <3>3 DEF ScoreBollinger
  <2>3. QED BY <2>1, <2>2
<1>4. ScoreEma(t.close_price, t.ema) \in Scores \union {None}
  <2>1. SUFFICES ASSUME None \notin {t.close_price, t.ema}
                 PROVE  Sign(t.close_price - t.ema) \in Scores
    BY DEF ScoreEma
  <2>2. t.close_price - t.ema \in Int
    BY <2>1 DEF Snapshots, Known
  <2>3. QED BY <2>2, SignIsScore
<1>5. QED BY <1>1, <1>2, <1>3, <1>4

LEMMA UsableIsSequence ==
  ASSUME NEW x \in Scores \union {None}
  PROVE  Usable(x) \in Seq(Scores)
BY DEF Usable

LEMMA ComponentsAreScores ==
  ASSUME NEW t \in Snapshots
  PROVE  Components(t) \in Seq(Scores)
BY SignalsAreScores, UsableIsSequence, ConcatProperties DEF Components

\* The mean of bounded signals is bounded, whichever of them are usable.
LEMMA TechnicalIsScore ==
  ASSUME NEW t \in Snapshots, Components(t) # <<>>
  PROVE  compute_technical_score(t) \in Scores
<1> DEFINE cs == Components(t)
           n  == Len(cs)
           s  == Sum(cs)
<1>1. cs \in Seq(Scores)
  BY ComponentsAreScores
<1>2. n \in Nat \ {0}
  BY <1>1, EmptySeq
<1>3. \A i \in 1..n : Within(cs[i], 1)
  BY <1>1, ElementOfSeq DEF Scores
<1>4. Within(s, n)
  BY <1>2, <1>3, SumWithin
<1>5. compute_technical_score(t) = <<s[1] * 1, s[2] * n>>
  BY DEF compute_technical_score, Times
<1> HIDE DEF cs, n, s
<1>6. s[1] \in Int /\ s[2] \in Nat \ {0} /\ -(n * s[2]) <= s[1] /\ s[1] <= n * s[2]
  BY <1>4 DEF Within, Fractional
<1>7. s[2] * n \in Nat \ {0} /\ n * s[2] = s[2] * n /\ s[1] * 1 = s[1]
  BY <1>2, <1>6, PositiveProduct
<1>8. QED BY <1>5, <1>6, <1>7 DEF Scores, Within, Fractional


-----------------------------------------------------------------------------
(* The liquidation score. *)

Heatmaps == [current_price : Nat, buckets : Seq(Int \X Nat)]

BucketAdds(h, b, side) == IF InReach(h, b) /\ SideOf(h, b) = side THEN Weight(h, b) ELSE Zero

LEMMA BucketAddsNonnegative ==
  ASSUME NEW h \in Heatmaps, NEW b \in Int \X Nat, NEW side
  PROVE  Nonnegative(BucketAdds(h, b, side))
<1>1. Nonnegative(Zero)
  BY ZeroIsFraction DEF Nonnegative
<1>2. ASSUME InReach(h, b) PROVE Nonnegative(Weight(h, b))
  <2>1. h.current_price \in Nat /\ b[1] \in Int /\ b[2] \in Nat
    BY DEF Heatmaps
  <2>2. Distance(h, b) \in Nat \ {0}
    BY <1>2, <2>1 DEF Distance, InReach
  <2>3. b[2] * h.current_price \in Nat
    BY <2>1
  <2>4. QED BY <2>2, <2>3 DEF Weight, Nonnegative, Fractional
<1>3. QED BY <1>1, <1>2 DEF BucketAdds

LEMMA WeightedIsSum ==
  ASSUME NEW h \in Heatmaps, NEW side
  PROVE  LET xs == [i \in DOMAIN h.buckets |-> BucketAdds(h, h.buckets[i], side)]
         IN /\ Weighted(h, side) = Sum(xs)
            /\ Len(xs) = Len(h.buckets) /\ Len(xs) \in Nat
            /\ \A i \in 1..Len(xs) : /\ h.buckets[i] \in Int \X Nat
                                     /\ xs[i] = BucketAdds(h, h.buckets[i], side)
<1> DEFINE xs == [i \in DOMAIN h.buckets |-> BucketAdds(h, h.buckets[i], side)]
<1>1. Weighted(h, side) = Sum(xs)
  BY DEF Weighted, BucketAdds
<1>2. h.buckets \in Seq(Int \X Nat)
  BY DEF Heatmaps
<1>3. DOMAIN h.buckets = 1..Len(h.buckets) /\ Len(h.buckets) \in Nat
  BY <1>2
<1>4. Len(xs) = Len(h.buckets)
  BY <1>3
<1>5. QED BY <1>1, <1>2, <1>3, <1>4, ElementOfSeq

LEMMA WeightedNonnegative ==
  ASSUME NEW h \in Heatmaps, NEW side
  PROVE  Nonnegative(Weighted(h, side))
<1> DEFINE xs == [i \in DOMAIN h.buckets |-> BucketAdds(h, h.buckets[i], side)]
<1>1. /\ Weighted(h, side) = Sum(xs) /\ Len(xs) \in Nat
      /\ \A i \in 1..Len(xs) : /\ h.buckets[i] \in Int \X Nat
                               /\ xs[i] = BucketAdds(h, h.buckets[i], side)
  BY WeightedIsSum
<1> HIDE DEF xs
<1>2. \A i \in 1..Len(xs) : Nonnegative(xs[i])
  BY <1>1, BucketAddsNonnegative
<1>3. QED BY <1>1, <1>2, SumNonnegative

\* The score, from the sums of the two sides.
LEMMA LiquidationOfSides ==
  ASSUME NEW h \in Heatmaps, NEW x, x = Weighted(h, "long"), NEW y, y = Weighted(h, "short")
  PROVE  /\ x[1] \in Nat /\ x[2] \in Nat \ {0} /\ y[1] \in Nat /\ y[2] \in Nat \ {0}
         /\ compute_liquidation_score(h) =
              IF x[1] * y[2] + y[1] * x[2] = 0 THEN None
              ELSE <<(y[1] * x[2] - x[1] * y[2]) * (x[2] * y[2]),
                     (x[2] * y[2]) * (x[1] * y[2] + y[1] * x[2])>>
<1>1. Nonnegative(x) /\ Nonnegative(y)
  BY WeightedNonnegative
<1>2. x[1] \in Nat /\ x[2] \in Nat \ {0} /\ y[1] \in Nat /\ y[2] \in Nat \ {0}
  BY <1>1 DEF Nonnegative, Fractional
<1>3. Plus(x, y) = <<x[1] * y[2] + y[1] * x[2], x[2] * y[2]>>
  BY DEF Plus
<1>4. Plus(y, Neg(x)) = <<y[1] * x[2] - x[1] * y[2], x[2] * y[2]>>
  <2>1. Plus(y, Neg(x)) = <<y[1] * x[2] + (-x[1]) * y[2], y[2] * x[2]>>
    BY DEF Plus, Neg
  <2>2. (-x[1]) * y[2] = -(x[1] * y[2]) /\ y[2] * x[2] = x[2] * y[2]
    BY <1>2
  <2>3. y[1] * x[2] + (-(x[1] * y[2])) = y[1] * x[2] - x[1] * y[2]
    BY <1>2
  <2>4. QED BY <2>1, <2>2, <2>3
<1>5. QED BY <1>2, <1>3, <1>4 DEF compute_liquidation_score

\* The difference of the sides over their sum is bounded, however many buckets count.
LEMMA LiquidationIsScore ==
  ASSUME NEW h \in Heatmaps, compute_liquidation_score(h) # None
  PROVE  compute_liquidation_score(h) \in Scores
<1>1. PICK x, y : x = Weighted(h, "long") /\ y = Weighted(h, "short")
  OBVIOUS
<1> DEFINE A == x[1] * y[2]
           C == y[1] * x[2]
           D == x[2] * y[2]
<1>2. x[1] \in Nat /\ x[2] \in Nat \ {0} /\ y[1] \in Nat /\ y[2] \in Nat \ {0}
  BY <1>1, LiquidationOfSides
<1>3. A \in Nat /\ C \in Nat /\ D \in Nat \ {0}
  BY <1>2, PositiveProduct
<1>4. compute_liquidation_score(h) = IF A + C = 0 THEN None ELSE <<(C - A) * D, D * (A + C)>>
  BY <1>1, LiquidationOfSides
<1> HIDE DEF A, C, D
<1>5. A + C \in Nat \ {0}
  BY <1>3, <1>4
<1>6. D * (A + C) \in Nat \ {0} /\ (A + C) * D = D * (A + C)
  BY <1>3, <1>5, PositiveProduct
<1>7. (C - A) * D <= (A + C) * D /\ (-(A + C)) * D <= (C - A) * D
  BY <1>3, MultiplyLeq
<1>8. (-(A + C)) * D = -((A + C) * D) /\ (C - A) * D \in Int
  BY <1>3
<1>9. <<(C - A) * D, D * (A + C)>> \in Scores
  BY <1>6, <1>7, <1>8 DEF Scores, Within, Fractional
<1>10. QED BY <1>4, <1>5, <1>9

-----------------------------------------------------------------------------
(* The machine builds such inputs. *)

Inputs ==
  /\ technical \in Snapshots
  /\ technical.bb_middle = None <=> technical.bb_upper = None
  /\ heatmap \in [current_price : {Price}, buckets : Seq(Prices \X Notionals)]

LEMMA PricesAreNumbers == Prices \subseteq Int /\ Notionals \subseteq Nat /\ Price \in Nat
BY InputsAssumption

LEMMA InputsInvariant == Spec => []Inputs
<1>1. Init => Inputs
  <2> SUFFICES ASSUME Init PROVE Inputs OBVIOUS
  <2>1. PICK p \in Prices :
          technical = [close_price |-> p, rsi |-> None, macd_histogram |-> None,
                       bb_upper |-> None, bb_middle |-> None, ema |-> None]
    BY DEF Init
  <2>2. p \in Int
    BY PricesAreNumbers
  <2>3. technical \in Snapshots /\ technical.bb_middle = None /\ technical.bb_upper = None
    BY <2>1, <2>2 DEF Snapshots, Known
  <2>4. QED BY <2>3 DEF Init, Inputs
<1>2. Inputs /\ [Next]_vars => Inputs'
  <2> SUFFICES ASSUME Inputs, [Next]_vars PROVE Inputs' OBVIOUS
  <2>1. CASE EmaKnown
    <3>1. PICK p \in Prices : technical' = [technical EXCEPT !.ema = p]
      BY <2>1 DEF EmaKnown
    <3>2. p \in Int /\ heatmap' = heatmap
      BY <2>1, PricesAreNumbers DEF EmaKnown
    <3>3. QED BY <3>1, <3>2 DEF Inputs, Snapshots, Known
  <2>2. CASE RsiKnown
    BY <2>2, InputsAssumption DEF RsiKnown, Inputs, Snapshots, Known
  <2>3. CASE MacdKnown
    BY <2>3, InputsAssumption DEF MacdKnown, Inputs, Snapshots, Known
  <2>4. CASE BandsKnown
    <3>1. PICK m \in Middles, w \in Widths :
            technical' = [technical EXCEPT !.bb_middle = m, !.bb_upper = m + w]
      BY <2>4 DEF BandsKnown
    <3>2. m \in Int /\ m + w \in Int
      BY InputsAssumption
    <3>3. heatmap' = heatmap
      BY <2>4 DEF BandsKnown
    <3>4. technical' \in Snapshots /\ technical'.bb_middle = m /\ technical'.bb_upper = m + w
      BY <3>1, <3>2 DEF Inputs, Snapshots, Known
    <3>5. QED BY <3>2, <3>3, <3>4, MissingAssumption DEF Inputs
  <2>5. CASE BucketParsed
    <3>1. PICK p \in Prices, n \in Notionals :
            heatmap' = [heatmap EXCEPT !.buckets = Append(@, <<p, n>>)]
      BY <2>5 DEF BucketParsed
    <3>2. technical' = technical
      BY <2>5 DEF BucketParsed
    <3>3. Append(heatmap.buckets, <<p, n>>) \in Seq(Prices \X Notionals)
      BY DEF Inputs
    <3>4. heatmap' \in [current_price : {Price}, buckets : Seq(Prices \X Notionals)]
      BY <3>1, <3>3 DEF Inputs
    <3>5. QED BY <3>2, <3>4 DEF Inputs
  <2>6. CASE CandleClosed
    BY <2>6 DEF CandleClosed, Inputs
  <2>7. CASE UNCHANGED vars
    BY <2>7 DEF vars, Inputs
  <2>8. QED BY <2>1, <2>2, <2>3, <2>4, <2>5, <2>6, <2>7 DEF Next
<1>3. QED BY <1>1, <1>2, PTL DEF Spec

LEMMA InputIsHeatmap ==
  ASSUME Inputs
  PROVE  /\ heatmap \in Heatmaps /\ heatmap.current_price = Price
         /\ \A i \in 1..Len(heatmap.buckets) : heatmap.buckets[i] \in Prices \X Notionals
<1>1. heatmap.buckets \in Seq(Prices \X Notionals)
  BY DEF Inputs
<1>2. heatmap.buckets \in Seq(Int \X Nat)
  <2>1. Prices \X Notionals \subseteq Int \X Nat
    BY PricesAreNumbers
  <2>2. QED BY <1>1, <2>1, SeqMonotonic
<1>3. QED BY <1>1, <1>2, PricesAreNumbers, ElementOfSeq DEF Inputs, Heatmaps

LEMMA TechnicalIsNoneOrScore ==
  ASSUME Inputs, Technical # None
  PROVE  Technical \in Scores
BY TechnicalIsScore DEF Inputs, Technical, compute_technical_score


\* Every score the prompt describes lies in [-1, 1] (decision/service.py:15-16), whichever
\* indicators are missing, however far the price is beyond the bands and however many
\* buckets a heatmap has.
THEOREM ScoresStayBounded == Spec => []ScoresAreBounded
<1>1. Inputs => ScoresAreBounded
  <2> SUFFICES ASSUME Inputs PROVE ScoresAreBounded OBVIOUS
  <2>1. Bounded(Technical)
    BY TechnicalIsNoneOrScore, ScoreIsBounded DEF Bounded
  <2>2. Bounded(Liquidation)
    <3>1. Liquidation # None => Liquidation \in Scores
      BY InputIsHeatmap, LiquidationIsScore DEF Liquidation
    <3>2. QED BY <3>1, ScoreIsBounded DEF Bounded
  <2>3. QED BY <2>1, <2>2 DEF ScoresAreBounded
<1>2. QED BY <1>1, InputsInvariant, PTL

-----------------------------------------------------------------------------
(* The weighted score. *)

LEMMA WeightedBetween ==
  ASSUME NEW t \in Fractional, t # None, NEW l \in Fractional, l # None
  PROVE  \/ Leq(t, weighted_score(t, l)) /\ Leq(weighted_score(t, l), l)
         \/ Leq(l, weighted_score(t, l)) /\ Leq(weighted_score(t, l), t)
<1> DEFINE a == t[1]
           b == t[2]
           c == l[1]
           d == l[2]
<1>1. a \in Int /\ b \in Nat \ {0} /\ c \in Int /\ d \in Nat \ {0}
  BY DEF Fractional
<1>2. weighted_score(t, l) = <<(6 * a) * (10 * d) + (4 * c) * (10 * b), (10 * b) * (10 * d)>>
  BY DEF weighted_score, Plus, Times
<1> DEFINE W == weighted_score(t, l)
           P == a * d
           Q == c * b
<1>3. W[1] = (6 * a) * (10 * d) + (4 * c) * (10 * b) /\ W[2] = (10 * b) * (10 * d)
  BY <1>2
<1> HIDE DEF a, b, c, d, W
<1>4. P \in Int /\ Q \in Int
  BY <1>1
<1>5. W[1] = 60 * P + 40 * Q
  BY <1>1, <1>3
<1>6. W[2] * a = (100 * P) * b /\ W[2] * c = (100 * Q) * d
  BY <1>1, <1>3
<1> HIDE DEF P, Q
<1>7. W[1] * b = (60 * P + 40 * Q) * b /\ W[1] * d = (60 * P + 40 * Q) * d
  BY <1>5
<1>8. CASE P <= Q
  <2>1. (100 * P) * b <= (60 * P + 40 * Q) * b /\ (60 * P + 40 * Q) * d <= (100 * Q) * d
    BY <1>1, <1>4, <1>8, MultiplyLeq
  <2>2. a * W[2] <= W[1] * b /\ W[1] * d <= c * W[2]
    BY <2>1, <1>1, <1>3, <1>6, <1>7
  <2>3. QED BY <2>2 DEF Leq, W, a, b, c, d
<1>9. CASE Q <= P
  <2>1. (60 * P + 40 * Q) * b <= (100 * P) * b /\ (100 * Q) * d <= (60 * P + 40 * Q) * d
    BY <1>1, <1>4, <1>9, MultiplyLeq
  <2>2. W[1] * b <= a * W[2] /\ c * W[2] <= W[1] * d
    BY <2>1, <1>1, <1>3, <1>6, <1>7
  <2>3. QED BY <2>2 DEF Leq, W, a, b, c, d
<1>10. QED BY <1>4, <1>8, <1>9

\* The weighted score lies between the two it is made of (decision/service.py:80-85), for
\* any technical score and any liquidation score beside it.
THEOREM WeightedStaysBetween == Spec => []WeightedLiesBetween
<1>1. Inputs => WeightedLiesBetween
  <2> SUFFICES ASSUME Inputs, NEW l \in Companions, Technical # None, l # None
               PROVE  \/ Leq(Technical, weighted_score(Technical, l))
                           /\ Leq(weighted_score(Technical, l), l)
                      \/ Leq(l, weighted_score(Technical, l))
                           /\ Leq(weighted_score(Technical, l), Technical)
    BY DEF WeightedLiesBetween
  <2>1. l \in Fractional
    BY InputsAssumption DEF Fractional
  <2>2. Technical \in Fractional
    BY TechnicalIsNoneOrScore DEF Scores
  <2>3. QED BY <2>1, <2>2, WeightedBetween
<1>2. QED BY <1>1, InputsInvariant, PTL


-----------------------------------------------------------------------------
(* Missing signals. *)

\* x and y are the same number.
SameNumber(x, y) == x[1] * y[2] = y[1] * x[2]

LEMMA EqualIsSame ==
  ASSUME NEW x \in Fractional, NEW y \in Fractional
  PROVE  Equal(x, y) <=> SameNumber(x, y)
<1>1. x \in Int \X Int /\ y \in Int \X Int
  BY DEF Fractional
<1>2. x # None /\ y # None
  BY <1>1, MissingAssumption
<1>3. x[1] * y[2] \in Int /\ y[1] * x[2] \in Int
  BY <1>1
<1>4. QED BY <1>2, <1>3 DEF Equal, Leq, SameNumber

LEMMA PlusOfMultiple ==
  ASSUME NEW x \in Fractional, NEW y \in Fractional, NEW z \in Fractional, NEW k \in Nat,
         x[1] * z[2] = (k * z[1]) * x[2], SameNumber(y, z)
  PROVE  Plus(x, y)[1] * z[2] = ((k + 1) * z[1]) * Plus(x, y)[2]
<1> DEFINE p == x[1]
           q == x[2]
           u == y[1]
           v == y[2]
           c == z[1]
           d == z[2]
<1>1. p \in Int /\ q \in Int /\ u \in Int /\ v \in Int /\ c \in Int /\ d \in Int
  BY DEF Fractional
<1>2. p * d = (k * c) * q /\ u * d = c * v
  BY DEF SameNumber
<1>3. Plus(x, y)[1] = p * v + u * q /\ Plus(x, y)[2] = q * v
  BY DEF Plus
<1> HIDE DEF p, q, u, v, c, d
<1>4. (p * v + u * q) * d = (p * d) * v + (u * d) * q
  BY <1>1
<1>5. ((k * c) * q) * v + (c * v) * q = ((k + 1) * c) * (q * v)
  BY <1>1
<1>6. (p * v + u * q) * d = ((k + 1) * c) * (q * v)
  BY <1>2, <1>4, <1>5
<1>7. QED BY <1>3, <1>6 DEF c, d

LEMMA SumOfSame ==
  ASSUME NEW xs, Len(xs) \in Nat, NEW z \in Fractional,
         \A i \in 1..Len(xs) : xs[i] \in Fractional /\ SameNumber(xs[i], z)
  PROVE  Sum(xs) \in Fractional /\ Sum(xs)[1] * z[2] = (Len(xs) * z[1]) * Sum(xs)[2]
<1>1. PICK g : /\ Sum(xs) = g[Len(xs)] /\ g[0] = Zero
               /\ \A i \in 1..Len(xs) : g[i] = Plus(g[i - 1], xs[i])
  BY SumIsLast
<1> DEFINE Good == {i \in 0..Len(xs) : g[i] \in Fractional
                                       /\ g[i][1] * z[2] = (i * z[1]) * g[i][2]}
<1>2. 0 \in Good
  <2>1. z[1] \in Int /\ z[2] \in Int
    BY DEF Fractional
  <2>2. 0 * z[2] = (0 * z[1]) * 1 /\ 0 \in 0..Len(xs)
    BY <2>1
  <2>3. QED BY <1>1, <2>2, ZeroIsFraction
<1>3. ASSUME NEW i \in 1..Len(xs), i - 1 \in Good PROVE i \in Good
  <2>1. /\ g[i - 1] \in Fractional /\ i - 1 \in Nat /\ (i - 1) + 1 = i
        /\ g[i - 1][1] * z[2] = ((i - 1) * z[1]) * g[i - 1][2]
    BY <1>3
  <2>2. Plus(g[i - 1], xs[i])[1] * z[2] = (((i - 1) + 1) * z[1]) * Plus(g[i - 1], xs[i])[2]
    BY <2>1, PlusOfMultiple
  <2>3. Plus(g[i - 1], xs[i]) \in Fractional
    BY <2>1, PlusIsFraction
  <2>4. QED BY <1>1, <2>1, <2>2, <2>3
<1>4. Len(xs) \in Good
  <2> HIDE DEF Good
  <2>1. Good \in SUBSET (0..Len(xs))
    BY DEF Good
  <2>2. QED BY <1>2, <1>3, <2>1, NoLeastCounterexample
<1>5. QED BY <1>1, <1>4

\* A signal that is missing does not pull the score towards zero: where the usable ones
\* agree, the score is what they say (technical_score.py:46-58), whichever are missing.
THEOREM MissingStaysOut == Spec => []MissingIsNotNeutral
<1>1. Inputs => MissingIsNotNeutral
  <2> DEFINE cs == Components(technical)
             n  == Len(cs)
             s  == Sum(cs)
  <2> SUFFICES ASSUME Inputs, cs # <<>>, \A i \in DOMAIN cs : Equal(cs[i], cs[1])
               PROVE  Equal(Technical, cs[1])
    BY DEF MissingIsNotNeutral
  <2>1. cs \in Seq(Scores)
    BY ComponentsAreScores DEF Inputs
  <2>2. n \in Nat \ {0} /\ DOMAIN cs = 1..n
    BY <2>1, EmptySeq
  <2>3. \A i \in 1..n : cs[i] \in Fractional
    BY <2>1, ElementOfSeq DEF Scores
  <2>4. cs[1] \in Fractional
    BY <2>2, <2>3
  <2>5. \A i \in 1..n : SameNumber(cs[i], cs[1])
    BY <2>2, <2>3, <2>4, EqualIsSame
  <2>6. s \in Fractional /\ s[1] * cs[1][2] = (n * cs[1][1]) * s[2]
    BY <2>2, <2>3, <2>4, <2>5, SumOfSame
  <2>7. Technical = <<s[1] * 1, s[2] * n>>
    BY DEF Technical, compute_technical_score, Times
  <2>8. Technical \in Fractional
    BY TechnicalIsScore DEF Inputs, Technical, Scores
  <2> HIDE DEF cs, n, s
  <2>9. s[1] \in Int /\ s[2] \in Int /\ cs[1][1] \in Int /\ cs[1][2] \in Int
    BY <2>4, <2>6 DEF Fractional
  <2>10. (s[1] * 1) * cs[1][2] = cs[1][1] * (s[2] * n)
    BY <2>2, <2>6, <2>9
  <2>11. SameNumber(Technical, cs[1])
    BY <2>7, <2>10 DEF SameNumber
  <2>12. QED BY <2>4, <2>8, <2>11, EqualIsSame
<1>2. QED BY <1>1, InputsInvariant, PTL


-----------------------------------------------------------------------------
(* The market turned upside down. *)

LEMMA NoFractionIsMissing == \A x \in Fractional : x # None
BY MissingAssumption DEF Fractional

LEMMA NegNeg == \A x \in Fractional : Neg(Neg(x)) = x
<1> SUFFICES ASSUME NEW x \in Fractional PROVE Neg(Neg(x)) = x OBVIOUS
<1>1. x[1] \in Int /\ x = <<x[1], x[2]>>
  BY DEF Fractional
<1>2. -(-x[1]) = x[1]
  BY <1>1
<1>3. QED BY <1>1, <1>2 DEF Neg

LEMMA OppositeIsScore == \A x \in Scores \union {None} : Opposite(x) \in Scores \union {None}
<1> SUFFICES ASSUME NEW x \in Scores PROVE Neg(x) \in Scores
  BY DEF Opposite
<1>1. x[1] \in Int /\ x[2] \in Nat \ {0} /\ -(1 * x[2]) <= x[1] /\ x[1] <= 1 * x[2]
  BY DEF Scores, Within, Fractional
<1>2. QED BY <1>1 DEF Scores, Within, Fractional, Neg

LEMMA ClipNegated ==
  ASSUME NEW x \in Fractional
  PROVE  Clip(Neg(x)) = Neg(Clip(x))
<1>1. x[1] \in Int /\ x[2] \in Nat \ {0}
  BY DEF Fractional
<1>2. Leq(One, Neg(x)) <=> Leq(x, Neg(One))
  BY <1>1 DEF Leq, One, Neg
<1>3. Leq(Neg(x), Neg(One)) <=> Leq(One, x)
  BY <1>1 DEF Leq, One, Neg
<1>4. ~(Leq(x, Neg(One)) /\ Leq(One, x))
  BY <1>1 DEF Leq, One, Neg
<1>5. Neg(Neg(One)) = One
  BY NegNeg DEF One, Fractional
<1>6. QED BY <1>2, <1>3, <1>4, <1>5 DEF Clip

LEMMA SignNegated ==
  ASSUME NEW n \in Int, NEW m \in Int, n + m = 0
  PROVE  Sign(m) = Neg(Sign(n))
<1>1. Neg(Neg(One)) = One
  BY NegNeg DEF One, Fractional
<1>2. (m > 0 <=> n < 0) /\ (m < 0 <=> n > 0)
  OBVIOUS
<1>3. ~(n > 0 /\ n < 0)
  OBVIOUS
<1>4. QED BY <1>1, <1>2, <1>3, NegIsFraction DEF Sign

LEMMA DivNegated ==
  ASSUME NEW n \in Int, NEW m \in Int, n + m = 0, NEW d \in Int
  PROVE  Div(m, d) = Neg(Div(n, d))
<1>1. m = -n /\ -m = n /\ -(-n) = n
  OBVIOUS
<1>2. QED BY <1>1 DEF Div, Neg

\* Each signal changes its sign.
LEMMA SignalsNegated ==
  ASSUME Inputs
  PROVE  LET t == technical
             m == MirrorTechnical
         IN /\ ScoreRsi(m.rsi) = Opposite(ScoreRsi(t.rsi))
            /\ ScoreMacd(m.macd_histogram) = Opposite(ScoreMacd(t.macd_histogram))
            /\ ScoreBollinger(m.close_price, m.bb_upper, m.bb_middle)
                 = Opposite(ScoreBollinger(t.close_price, t.bb_upper, t.bb_middle))
            /\ ScoreEma(m.close_price, m.ema) = Opposite(ScoreEma(t.close_price, t.ema))
<1> DEFINE t == technical
           m == MirrorTechnical
<1>1. /\ t.close_price \in Known /\ t.rsi \in Known /\ t.macd_histogram \in Known
      /\ t.bb_upper \in Known /\ t.bb_middle \in Known /\ t.ema \in Known
      /\ t.bb_middle = None <=> t.bb_upper = None
  BY DEF Inputs, Snapshots
<1>2. \A n \in Int : n # None
  BY MissingAssumption
<1>3. /\ m.close_price = Mirror(t.close_price) /\ m.ema = Mirror(t.ema)
      /\ m.rsi = IF t.rsi = None THEN None ELSE 100 - t.rsi
      /\ m.macd_histogram = IF t.macd_histogram = None THEN None ELSE -t.macd_histogram
      /\ m.bb_middle = Mirror(t.bb_middle)
      /\ m.bb_upper = IF t.bb_middle = None THEN None ELSE Mirror(2 * t.bb_middle - t.bb_upper)
  BY DEF MirrorTechnical
<1>centre. PICK centre \in Int : centre = 2 * Price
  BY InputsAssumption
<1>4. \A p \in Int : Mirror(p) = centre - p /\ Mirror(p) \in Int
  BY <1>2, <1>centre DEF Mirror
<1>5. Mirror(None) = None
  BY DEF Mirror
<1>6. Opposite(None) = None /\ \A x \in Fractional : Opposite(x) = Neg(x)
  BY NoFractionIsMissing DEF Opposite
<1> HIDE DEF t, m
<1>7. ScoreRsi(m.rsi) = Opposite(ScoreRsi(t.rsi))
  <2>1. CASE t.rsi = None
    BY <2>1, <1>3, <1>6 DEF ScoreRsi
  <2>2. CASE t.rsi # None
    <3>1. t.rsi \in Int /\ m.rsi = 100 - t.rsi /\ m.rsi # None
      BY <2>2, <1>1, <1>2, <1>3 DEF Known
    <3>2. 50 - m.rsi = -(50 - t.rsi)
      BY <3>1
    <3>3. <<50 - m.rsi, 50>> = Neg(<<50 - t.rsi, 50>>) /\ <<50 - t.rsi, 50>> \in Fractional
      BY <3>1, <3>2 DEF Neg, Fractional
    <3>4. Clip(<<50 - t.rsi, 50>>) \in Fractional
      BY <3>3, ClipIsScore DEF Scores
    <3>5. ScoreRsi(m.rsi) = Neg(Clip(<<50 - t.rsi, 50>>))
      BY <3>1, <3>3, ClipNegated DEF ScoreRsi
    <3>6. QED BY <2>2, <3>4, <3>5, <1>6 DEF ScoreRsi
  <2>3. QED BY <2>1, <2>2
<1>8. ScoreMacd(m.macd_histogram) = Opposite(ScoreMacd(t.macd_histogram))
  <2>1. CASE t.macd_histogram = None
    BY <2>1, <1>3, <1>6 DEF ScoreMacd
  <2>2. CASE t.macd_histogram # None
    <3>1. /\ t.macd_histogram \in Int /\ m.macd_histogram = -t.macd_histogram
          /\ m.macd_histogram \in Int /\ m.macd_histogram # None
      BY <2>2, <1>1, <1>2, <1>3 DEF Known
    <3>2. t.macd_histogram + m.macd_histogram = 0
      BY <3>1
    <3>3. Sign(m.macd_histogram) = Neg(Sign(t.macd_histogram)) /\ Sign(t.macd_histogram) \in Fractional
      BY <3>1, <3>2, SignNegated, SignIsScore DEF Scores
    <3>4. QED BY <2>2, <3>1, <3>3, <1>6 DEF ScoreMacd
  <2>3. QED BY <2>1, <2>2
<1>9. ScoreEma(m.close_price, m.ema) = Opposite(ScoreEma(t.close_price, t.ema))
  <2>1. CASE None \in {t.close_price, t.ema}
    BY <2>1, <1>3, <1>5, <1>6 DEF ScoreEma
  <2>2. CASE None \notin {t.close_price, t.ema}
    <3>1. /\ t.close_price \in Int /\ t.ema \in Int
      BY <2>2, <1>1 DEF Known
    <3>2. m.close_price = centre - t.close_price /\ m.ema = centre - t.ema
      BY <3>1, <1>3, <1>4
    <3>3. /\ m.close_price # None /\ m.ema # None
          /\ m.close_price - m.ema \in Int /\ t.close_price - t.ema \in Int
          /\ (t.close_price - t.ema) + (m.close_price - m.ema) = 0
      BY <3>1, <3>2, <1>2
    <3>4. /\ Sign(m.close_price - m.ema) = Neg(Sign(t.close_price - t.ema))
          /\ Sign(t.close_price - t.ema) \in Fractional
      BY <3>3, SignNegated, SignIsScore DEF Scores
    <3>5. QED BY <2>2, <3>3, <3>4, <1>6 DEF ScoreEma
  <2>3. QED BY <2>1, <2>2
<1>10. ScoreBollinger(m.close_price, m.bb_upper, m.bb_middle)
         = Opposite(ScoreBollinger(t.close_price, t.bb_upper, t.bb_middle))
  <2>1. CASE None \in {t.close_price, t.bb_upper, t.bb_middle}
    <3>1. None \in {m.close_price, m.bb_upper, m.bb_middle}
      BY <2>1, <1>1, <1>3, <1>5
    <3>2. QED BY <2>1, <3>1, <1>6 DEF ScoreBollinger
  <2>2. CASE None \notin {t.close_price, t.bb_upper, t.bb_middle}
    <3>1. t.close_price \in Int /\ t.bb_upper \in Int /\ t.bb_middle \in Int
      BY <2>2, <1>1 DEF Known
    <3>2. /\ m.close_price = centre - t.close_price /\ m.bb_middle = centre - t.bb_middle
          /\ m.bb_upper = centre - (2 * t.bb_middle - t.bb_upper)
      BY <3>1, <2>2, <1>3, <1>4
    <3> DEFINE n == t.bb_middle - t.close_price
               k == m.bb_middle - m.close_price
               d == t.bb_upper - t.bb_middle
    <3>3. /\ m.close_price # None /\ m.bb_upper # None /\ m.bb_middle # None
          /\ n \in Int /\ k \in Int /\ n + k = 0
          /\ d \in Int /\ m.bb_upper - m.bb_middle = d
          /\ m.bb_upper = m.bb_middle <=> t.bb_upper = t.bb_middle
      <4>1. m.close_price \in Int /\ m.bb_upper \in Int /\ m.bb_middle \in Int
        BY <3>1, <3>2
      <4>2. n \in Int /\ k \in Int /\ d \in Int
        BY <3>1, <4>1
      <4>3. n + k = 0
        BY <3>1, <3>2
      <4>4. m.bb_upper - m.bb_middle = d
        BY <3>1, <3>2
      <4>5. m.bb_upper = m.bb_middle <=> t.bb_upper = t.bb_middle
        BY <3>1, <3>2
      <4>6. QED BY <1>2, <4>1, <4>2, <4>3, <4>4, <4>5
    <3>4. CASE t.bb_upper = t.bb_middle
      BY <3>3, <3>4, <1>6 DEF ScoreBollinger
    <3>5. CASE t.bb_upper # t.bb_middle
      <4>1. d # 0
        BY <3>1, <3>5
      <4>2. ScoreBollinger(m.close_price, m.bb_upper, m.bb_middle) = Clip(Div(k, d))
        BY <3>3, <3>5 DEF ScoreBollinger
      <4>3. ScoreBollinger(t.close_price, t.bb_upper, t.bb_middle) = Clip(Div(n, d))
        BY <2>2, <3>5 DEF ScoreBollinger
      <4> HIDE DEF n, k, d
      <4>4. Div(k, d) = Neg(Div(n, d)) /\ Div(n, d) \in Fractional
        BY <3>3, <4>1, DivNegated, DivIsFraction
      <4>5. Clip(Div(k, d)) = Neg(Clip(Div(n, d))) /\ Clip(Div(n, d)) \in Fractional
        BY <4>4, ClipNegated, ClipIsScore DEF Scores
      <4>6. QED BY <4>2, <4>3, <4>5, <1>6
    <3>6. QED BY <3>4, <3>5
  <2>3. QED BY <2>1, <2>2
<1>11. QED BY <1>7, <1>8, <1>9, <1>10 DEF t, m


\* ys has the opposites of the signals of xs.
Opposes(ys, xs) ==
  /\ xs \in Seq(Scores) /\ ys \in Seq(Scores) /\ Len(ys) = Len(xs)
  /\ \A i \in 1..Len(xs) : ys[i] = Neg(xs[i])

LEMMA UsableOpposes ==
  ASSUME NEW x \in Scores \union {None}
  PROVE  Opposes(Usable(Opposite(x)), Usable(x))
<1>1. CASE x = None
  BY <1>1 DEF Opposes, Usable, Opposite
<1>2. CASE x # None
  <2>1. x \in Scores /\ Neg(x) \in Scores /\ Neg(x) # None
    BY <1>2, OppositeIsScore, NoFractionIsMissing, NegIsFraction DEF Opposite, Scores
  <2>2. Usable(x) = <<x>> /\ Usable(Opposite(x)) = <<Neg(x)>>
    BY <1>2, <2>1 DEF Usable, Opposite
  <2>3. QED BY <2>1, <2>2 DEF Opposes
<1>3. QED BY <1>1, <1>2

LEMMA ConcatOpposes ==
  ASSUME NEW xs, NEW ys, Opposes(ys, xs), NEW us, NEW vs, Opposes(vs, us)
  PROVE  Opposes(ys \o vs, xs \o us)
<1>1. /\ xs \in Seq(Scores) /\ ys \in Seq(Scores) /\ us \in Seq(Scores) /\ vs \in Seq(Scores)
      /\ Len(ys) = Len(xs) /\ Len(vs) = Len(us) /\ Len(xs) \in Nat /\ Len(us) \in Nat
  BY DEF Opposes
<1>2. /\ xs \o us \in Seq(Scores) /\ Len(xs \o us) = Len(xs) + Len(us)
      /\ ys \o vs \in Seq(Scores) /\ Len(ys \o vs) = Len(xs) + Len(us)
  <2>1. xs \o us \in Seq(Scores) /\ ys \o vs \in Seq(Scores)
    BY <1>1
  <2>2. Len(xs \o us) = Len(xs) + Len(us) /\ Len(ys \o vs) = Len(ys) + Len(vs)
    BY <1>1, ConcatProperties
  <2>3. QED BY <1>1, <2>1, <2>2
<1>3. ASSUME NEW i \in 1..(Len(xs) + Len(us)) PROVE (ys \o vs)[i] = Neg((xs \o us)[i])
  <2>1. /\ (xs \o us)[i] = IF i <= Len(xs) THEN xs[i] ELSE us[i - Len(xs)]
        /\ (ys \o vs)[i] = IF i <= Len(xs) THEN ys[i] ELSE vs[i - Len(xs)]
    BY <1>1, ConcatProperties
  <2>2. IF i <= Len(xs) THEN i \in 1..Len(xs) ELSE i - Len(xs) \in 1..Len(us)
    BY <1>1
  <2>3. QED BY <2>1, <2>2 DEF Opposes
<1>4. QED BY <1>2, <1>3 DEF Opposes

LEMMA ComponentsOppose ==
  ASSUME Inputs
  PROVE  Opposes(Components(MirrorTechnical), Components(technical))
<1> DEFINE r == ScoreRsi(technical.rsi)
           m == ScoreMacd(technical.macd_histogram)
           b == ScoreBollinger(technical.close_price, technical.bb_upper, technical.bb_middle)
           e == ScoreEma(technical.close_price, technical.ema)
<1>1. /\ r \in Scores \union {None} /\ m \in Scores \union {None}
      /\ b \in Scores \union {None} /\ e \in Scores \union {None}
  BY SignalsAreScores DEF Inputs
<1>2. Components(technical) = Usable(r) \o Usable(m) \o Usable(b) \o Usable(e)
  BY DEF Components
<1>3. Components(MirrorTechnical) = Usable(Opposite(r)) \o Usable(Opposite(m))
                                      \o Usable(Opposite(b)) \o Usable(Opposite(e))
  BY SignalsNegated DEF Components
<1> HIDE DEF r, m, b, e
<1>4. Opposes(Usable(Opposite(r)) \o Usable(Opposite(m)), Usable(r) \o Usable(m))
  BY <1>1, UsableOpposes, ConcatOpposes
<1>5. Opposes(Usable(Opposite(r)) \o Usable(Opposite(m)) \o Usable(Opposite(b)),
              Usable(r) \o Usable(m) \o Usable(b))
  BY <1>1, <1>4, UsableOpposes, ConcatOpposes
<1>6. QED BY <1>1, <1>2, <1>3, <1>5, UsableOpposes, ConcatOpposes

LEMMA TechnicalNegated ==
  ASSUME Inputs
  PROVE  compute_technical_score(MirrorTechnical) = Opposite(Technical)
<1>1. PICK xs : xs = Components(technical) OBVIOUS
<1>2. PICK ys : ys = Components(MirrorTechnical) OBVIOUS
<1>3. Opposes(ys, xs)
  BY <1>1, <1>2, ComponentsOppose
<1>4. /\ Len(xs) \in Nat /\ Len(ys) = Len(xs) /\ (ys = <<>> <=> xs = <<>>)
      /\ \A i \in 1..Len(xs) : xs[i] \in Fractional /\ ys[i] = Neg(xs[i])
  BY <1>3, EmptySeq, ElementOfSeq DEF Opposes, Scores
<1>5. CASE xs = <<>>
  BY <1>1, <1>2, <1>4, <1>5 DEF compute_technical_score, Technical, Opposite
<1>6. CASE xs # <<>>
  <2>1. Sum(ys) = Neg(Sum(xs)) /\ Sum(xs) \in Fractional
    BY <1>4, SumNegated
  <2>2. Technical = Times(Sum(xs), <<1, Len(xs)>>) /\ Technical \in Fractional
    BY <1>1, <1>6, TechnicalIsScore DEF Inputs, Technical, compute_technical_score, Scores
  <2>3. compute_technical_score(MirrorTechnical) = Times(Neg(Sum(xs)), <<1, Len(xs)>>)
    BY <1>2, <1>4, <1>6, <2>1 DEF compute_technical_score
  <2>4. PICK s : s = Sum(xs) OBVIOUS
  <2>5. s[1] \in Int /\ (-s[1]) * 1 = -(s[1] * 1)
    BY <2>1, <2>4 DEF Fractional
  <2>6. Times(Neg(s), <<1, Len(xs)>>) = Neg(Times(s, <<1, Len(xs)>>))
    BY <2>5 DEF Times, Neg
  <2>7. QED BY <2>2, <2>3, <2>4, <2>6, NoFractionIsMissing DEF Opposite
<1>7. QED BY <1>5, <1>6

\* The sides of a heatmap change places.
LEMMA SidesChange ==
  ASSUME Inputs
  PROVE  /\ MirrorHeatmap \in Heatmaps
         /\ Weighted(MirrorHeatmap, "long") = Weighted(heatmap, "short")
         /\ Weighted(MirrorHeatmap, "short") = Weighted(heatmap, "long")
<1>1. /\ heatmap \in Heatmaps /\ heatmap.current_price = Price
      /\ heatmap.buckets \in Seq(Prices \X Notionals)
      /\ \A i \in 1..Len(heatmap.buckets) : heatmap.buckets[i] \in Prices \X Notionals
  BY InputIsHeatmap DEF Inputs
<1> DEFINE mirror == [i \in DOMAIN heatmap.buckets |->
                        <<Mirror(heatmap.buckets[i][1]), heatmap.buckets[i][2]>>]
<1>2. MirrorHeatmap = [heatmap EXCEPT !.buckets = mirror]
  BY DEF MirrorHeatmap
<1>3. MirrorHeatmap.current_price = Price /\ MirrorHeatmap.buckets = mirror
  BY <1>1, <1>2 DEF Heatmaps
<1>4. DOMAIN heatmap.buckets = 1..Len(heatmap.buckets) /\ Len(heatmap.buckets) \in Nat
  BY <1>1
<1>5. ASSUME NEW p \in Prices PROVE Mirror(p) = 2 * Price - p /\ Mirror(p) \in Int
  BY MissingAssumption, PricesAreNumbers DEF Mirror
<1>6. \A i \in 1..Len(heatmap.buckets) : mirror[i] \in Int \X Nat
  BY <1>1, <1>4, <1>5, PricesAreNumbers
<1>7. mirror \in Seq(Int \X Nat)
  <2>1. mirror \in [1..Len(heatmap.buckets) -> Int \X Nat]
    BY <1>4, <1>6
  <2> HIDE DEF mirror
  <2>2. QED BY <1>4, <2>1, SeqDef
<1>8. MirrorHeatmap \in Heatmaps
  BY <1>1, <1>2, <1>7 DEF Heatmaps
<1>9. ASSUME NEW i \in DOMAIN heatmap.buckets
      PROVE  /\ BucketAdds(MirrorHeatmap, mirror[i], "long")
                  = BucketAdds(heatmap, heatmap.buckets[i], "short")
             /\ BucketAdds(MirrorHeatmap, mirror[i], "short")
                  = BucketAdds(heatmap, heatmap.buckets[i], "long")
  <2>1. PICK b : b = heatmap.buckets[i] OBVIOUS
  <2>2. PICK c : c = mirror[i] OBVIOUS
  <2>3. /\ b[1] \in Prices /\ b[1] \in Int /\ b[2] \in Nat
        /\ c[1] = 2 * Price - b[1] /\ c[2] = b[2] /\ Price \in Nat
    BY <1>1, <1>4, <1>5, <1>9, <2>1, <2>2, PricesAreNumbers
  <2>4. Distance(MirrorHeatmap, c) = Distance(heatmap, b)
    BY <1>1, <1>3, <2>3 DEF Distance
  <2>5. InReach(MirrorHeatmap, c) <=> InReach(heatmap, b)
    BY <1>1, <1>3, <2>4 DEF InReach
  <2>6. Weight(MirrorHeatmap, c) = Weight(heatmap, b)
    BY <1>1, <1>3, <2>3, <2>4 DEF Weight
  <2>7. InReach(heatmap, b) => b[1] # Price
    BY <1>1, <2>3 DEF InReach, Distance
  <2>8. b[1] # Price => /\ SideOf(MirrorHeatmap, c) = "long" <=> SideOf(heatmap, b) = "short"
                        /\ SideOf(MirrorHeatmap, c) = "short" <=> SideOf(heatmap, b) = "long"
    BY <1>1, <1>3, <2>3 DEF SideOf
  <2>9. QED BY <2>1, <2>2, <2>5, <2>6, <2>7, <2>8 DEF BucketAdds
<1>10. DOMAIN MirrorHeatmap.buckets = DOMAIN heatmap.buckets
  BY <1>3
<1>11. \A side : /\ Weighted(MirrorHeatmap, side) =
                      Sum([i \in DOMAIN heatmap.buckets |-> BucketAdds(MirrorHeatmap, mirror[i], side)])
                 /\ Weighted(heatmap, side) =
                      Sum([i \in DOMAIN heatmap.buckets |-> BucketAdds(heatmap, heatmap.buckets[i], side)])
  BY <1>3, <1>10 DEF Weighted, BucketAdds
<1> HIDE DEF mirror
<1>12. /\ [i \in DOMAIN heatmap.buckets |-> BucketAdds(MirrorHeatmap, mirror[i], "long")]
            = [i \in DOMAIN heatmap.buckets |-> BucketAdds(heatmap, heatmap.buckets[i], "short")]
       /\ [i \in DOMAIN heatmap.buckets |-> BucketAdds(MirrorHeatmap, mirror[i], "short")]
            = [i \in DOMAIN heatmap.buckets |-> BucketAdds(heatmap, heatmap.buckets[i], "long")]
  BY <1>9
<1>13. QED BY <1>8, <1>11, <1>12


LEMMA LiquidationNegated ==
  ASSUME Inputs
  PROVE  compute_liquidation_score(MirrorHeatmap) = Opposite(Liquidation)
<1>1. PICK x, y : x = Weighted(heatmap, "long") /\ y = Weighted(heatmap, "short")
  OBVIOUS
<1>2. heatmap \in Heatmaps /\ MirrorHeatmap \in Heatmaps
  BY InputIsHeatmap, SidesChange
<1>3. y = Weighted(MirrorHeatmap, "long") /\ x = Weighted(MirrorHeatmap, "short")
  BY <1>1, SidesChange
<1> DEFINE A == x[1] * y[2]
           C == y[1] * x[2]
           D == x[2] * y[2]
<1>4. x[1] \in Nat /\ x[2] \in Nat \ {0} /\ y[1] \in Nat /\ y[2] \in Nat \ {0}
  BY <1>1, <1>2, LiquidationOfSides
<1>5. A \in Nat /\ C \in Nat /\ D \in Nat \ {0} /\ y[2] * x[2] = D
  BY <1>4, PositiveProduct
<1>6. Liquidation = IF A + C = 0 THEN None ELSE <<(C - A) * D, D * (A + C)>>
  BY <1>1, <1>2, LiquidationOfSides DEF Liquidation
<1>7. compute_liquidation_score(MirrorHeatmap) =
        IF C + A = 0 THEN None ELSE <<(A - C) * D, D * (C + A)>>
  BY <1>2, <1>3, <1>5, LiquidationOfSides
<1>8. Liquidation # None => Liquidation \in Fractional
  BY <1>2, LiquidationIsScore DEF Liquidation, Scores
<1> HIDE DEF A, C, D
<1>9. A + C = C + A /\ (A - C) * D = -((C - A) * D)
  BY <1>5
<1>10. CASE A + C = 0
  BY <1>6, <1>7, <1>9, <1>10 DEF Opposite
<1>11. CASE A + C # 0
  <2>1. Liquidation = <<(C - A) * D, D * (A + C)>> /\ Liquidation # None
    BY <1>6, <1>11, NoFractionIsMissing, MissingAssumption, <1>5
  <2>2. compute_liquidation_score(MirrorHeatmap) = Neg(Liquidation)
    BY <1>7, <1>9, <1>11, <2>1 DEF Neg
  <2>3. QED BY <2>1, <2>2 DEF Opposite
<1>12. QED BY <1>10, <1>11

LEMMA EqualToItself ==
  ASSUME NEW x \in Fractional \union {None}
  PROVE  Equal(x, x)
<1>1. x # None => x[1] * x[2] \in Int
  BY DEF Fractional
<1>2. QED BY <1>1 DEF Equal, Leq

LEMMA BiasOpposes ==
  ASSUME NEW x \in Scores \union {None}
  PROVE  compute_market_bias(Opposite(x)) = OppositeLabel(compute_market_bias(x))
<1>1. CASE x = None
  BY <1>1 DEF compute_market_bias, Opposite, OppositeLabel
<1>2. CASE x # None
  <2>1. x[1] \in Int /\ x[2] \in Nat \ {0}
    BY <1>2 DEF Scores, Fractional
  <2>2. Opposite(x) = <<-x[1], x[2]>> /\ Opposite(x) # None
    BY <1>2, NegIsFraction, NoFractionIsMissing DEF Opposite, Neg, Scores
  <2>3. Leq(<<1, 4>>, x) <=> x[2] <= 4 * x[1]
    BY <2>1 DEF Leq
  <2>4. Leq(x, <<-1, 4>>) <=> 4 * x[1] <= -x[2]
    BY <2>1 DEF Leq
  <2>5. Leq(<<1, 4>>, Opposite(x)) <=> x[2] <= -(4 * x[1])
    BY <2>1, <2>2 DEF Leq
  <2>6. Leq(Opposite(x), <<-1, 4>>) <=> -(4 * x[1]) <= -x[2]
    BY <2>1, <2>2 DEF Leq
  <2>7. /\ Leq(<<1, 4>>, Opposite(x)) <=> Leq(x, <<-1, 4>>)
        /\ Leq(Opposite(x), <<-1, 4>>) <=> Leq(<<1, 4>>, x)
        /\ ~(Leq(<<1, 4>>, x) /\ Leq(x, <<-1, 4>>))
    BY <2>1, <2>3, <2>4, <2>5, <2>6
  <2>8. QED BY <1>2, <2>2, <2>7 DEF compute_market_bias, OppositeLabel
<1>3. QED BY <1>1, <1>2

\* Bulls and bears are treated alike: in a market turned upside down every score changes
\* its sign and the bias its side (technical_score.py:8-41, score.py:16-29,
\* dashboard/models.py:44-50), for any prices and indicators and heatmaps of any size.
THEOREM BullsAndBearsAlike == Spec => []MirrorNegates
<1>1. Inputs => MirrorNegates
  <2> SUFFICES ASSUME Inputs PROVE MirrorNegates OBVIOUS
  <2>1. Technical \in Scores \union {None} /\ Opposite(Technical) \in Fractional \union {None}
    BY TechnicalIsNoneOrScore, OppositeIsScore DEF Scores
  <2>2. Liquidation # None => Liquidation \in Scores
    BY InputIsHeatmap, LiquidationIsScore DEF Liquidation
  <2>3. Opposite(Liquidation) \in Fractional \union {None}
    BY <2>2, OppositeIsScore DEF Scores
  <2>4. Equal(compute_technical_score(MirrorTechnical), Opposite(Technical))
    BY <2>1, TechnicalNegated, EqualToItself
  <2>5. Equal(compute_liquidation_score(MirrorHeatmap), Opposite(Liquidation))
    BY <2>3, LiquidationNegated, EqualToItself
  <2>6. QED BY <2>1, <2>4, <2>5, BiasOpposes DEF MirrorNegates
<1>2. QED BY <1>1, InputsInvariant, PTL


-----------------------------------------------------------------------------
(* Clusters that come closer. *)

LEMMA PlusGrows ==
  ASSUME NEW x, Nonnegative(x), NEW y, Nonnegative(y), NEW u, Nonnegative(u),
         NEW v, Nonnegative(v), Leq(x, y), Leq(u, v)
  PROVE  Leq(Plus(x, u), Plus(y, v))
<1>1. /\ x[1] \in Nat /\ x[2] \in Nat /\ y[1] \in Nat /\ y[2] \in Nat
      /\ u[1] \in Nat /\ u[2] \in Nat /\ v[1] \in Nat /\ v[2] \in Nat
  BY DEF Nonnegative, Fractional
<1>2. x[1] * y[2] <= y[1] * x[2] /\ u[1] * v[2] <= v[1] * u[2]
  BY DEF Leq
<1>3. /\ (x[1] * y[2]) * (u[2] * v[2]) <= (y[1] * x[2]) * (u[2] * v[2])
      /\ (u[1] * v[2]) * (x[2] * y[2]) <= (v[1] * u[2]) * (x[2] * y[2])
  <2>1. /\ x[1] * y[2] \in Int /\ y[1] * x[2] \in Int /\ u[2] * v[2] \in Nat
        /\ u[1] * v[2] \in Int /\ v[1] * u[2] \in Int /\ x[2] * y[2] \in Nat
    BY <1>1
  <2>2. QED BY <1>2, <2>1, MultiplyLeq
<1>4. (x[1] * u[2] + u[1] * x[2]) * (y[2] * v[2])
        = (x[1] * y[2]) * (u[2] * v[2]) + (u[1] * v[2]) * (x[2] * y[2])
  BY <1>1
<1>5. (y[1] * v[2] + v[1] * y[2]) * (x[2] * u[2])
        = (y[1] * x[2]) * (u[2] * v[2]) + (v[1] * u[2]) * (x[2] * y[2])
  BY <1>1
<1>6. (x[1] * u[2] + u[1] * x[2]) * (y[2] * v[2]) <= (y[1] * v[2] + v[1] * y[2]) * (x[2] * u[2])
  <2>1. /\ (x[1] * y[2]) * (u[2] * v[2]) \in Int /\ (y[1] * x[2]) * (u[2] * v[2]) \in Int
        /\ (u[1] * v[2]) * (x[2] * y[2]) \in Int /\ (v[1] * u[2]) * (x[2] * y[2]) \in Int
    BY <1>1
  <2>2. QED BY <2>1, <1>3, <1>4, <1>5
<1>7. QED BY <1>6 DEF Plus, Leq

LEMMA SumGrows ==
  ASSUME NEW xs, NEW ys, Len(xs) \in Nat, Len(ys) = Len(xs),
         \A i \in 1..Len(xs) : Nonnegative(xs[i]) /\ Nonnegative(ys[i]) /\ Leq(xs[i], ys[i])
  PROVE  Leq(Sum(xs), Sum(ys))
<1>1. PICK g : /\ Sum(xs) = g[Len(xs)] /\ g[0] = Zero
               /\ \A i \in 1..Len(xs) : g[i] = Plus(g[i - 1], xs[i])
  BY SumIsLast
<1>2. PICK h : /\ Sum(ys) = h[Len(xs)] /\ h[0] = Zero
               /\ \A i \in 1..Len(xs) : h[i] = Plus(h[i - 1], ys[i])
  BY SumIsLast
<1> DEFINE Good == {i \in 0..Len(xs) : Nonnegative(g[i]) /\ Nonnegative(h[i]) /\ Leq(g[i], h[i])}
<1>3. 0 \in Good
  <2>1. Nonnegative(Zero) /\ Leq(Zero, Zero) /\ 0 \in 0..Len(xs)
    BY ZeroIsFraction DEF Nonnegative, Leq
  <2>2. QED BY <1>1, <1>2, <2>1
<1>4. ASSUME NEW i \in 1..Len(xs), i - 1 \in Good PROVE i \in Good
  BY <1>1, <1>2, <1>4, PlusNonnegative, PlusGrows
<1>5. Len(xs) \in Good
  <2> HIDE DEF Good
  <2>1. Good \in SUBSET (0..Len(xs))
    BY DEF Good
  <2>2. QED BY <1>3, <1>4, <2>1, NoLeastCounterexample
<1>6. QED BY <1>1, <1>2, <1>5

\* The score, from a side that stays and one that grows.
LEMMA ScoreGrows ==
  ASSUME NEW h \in Heatmaps, NEW m \in Heatmaps,
         Weighted(m, "long") = Weighted(h, "long"),
         Leq(Weighted(h, "short"), Weighted(m, "short")),
         compute_liquidation_score(h) # None
  PROVE  Leq(compute_liquidation_score(h), compute_liquidation_score(m))
<1>1. PICK x, y, z : /\ x = Weighted(h, "long") /\ y = Weighted(h, "short")
                     /\ x = Weighted(m, "long") /\ z = Weighted(m, "short")
  OBVIOUS
<1> DEFINE a == x[1]
           b == x[2]
           c == y[1]
           d == y[2]
           e == z[1]
           f == z[2]
<1>2. /\ a \in Nat /\ b \in Nat \ {0} /\ c \in Nat /\ d \in Nat \ {0} /\ e \in Nat /\ f \in Nat \ {0}
  BY <1>1, LiquidationOfSides
<1>3. c * f <= e * d
  BY <1>1 DEF Leq
<1>4. compute_liquidation_score(h) =
        IF a * d + c * b = 0 THEN None
        ELSE <<(c * b - a * d) * (b * d), (b * d) * (a * d + c * b)>>
  BY <1>1, LiquidationOfSides
<1>5. compute_liquidation_score(m) =
        IF a * f + e * b = 0 THEN None
        ELSE <<(e * b - a * f) * (b * f), (b * f) * (a * f + e * b)>>
  BY <1>1, LiquidationOfSides
<1> HIDE DEF a, b, c, d, e, f
<1>6. a * f + e * b # 0
  <2>1. SUFFICES ASSUME a * f = 0, e * b = 0 PROVE FALSE
    <3>1. a * f \in Nat /\ e * b \in Nat
      BY <1>2
    <3>2. QED BY <3>1
  <2>2. a = 0 /\ e = 0
    BY <1>2, <2>1
  <2>3. c * f <= 0
    BY <1>2, <1>3, <2>2
  <2>4. c = 0
    BY <1>2, <2>3
  <2>5. a * d + c * b = 0
    BY <1>2, <2>2, <2>4
  <2>6. QED BY <1>4, <2>5
<1>7. (c * b) * (a * f) <= (e * b) * (a * d)
  <2>1. a * b \in Nat
    BY <1>2
  <2>2. (c * f) * (a * b) <= (e * d) * (a * b)
    BY <1>2, <1>3, <2>1, MultiplyLeq
  <2>3. (c * f) * (a * b) = (c * b) * (a * f) /\ (e * d) * (a * b) = (e * b) * (a * d)
    BY <1>2
  <2>4. QED BY <2>2, <2>3
<1> DEFINE A == a * d
           C == c * b
           D == b * d
           F == a * f
           E == e * b
           G == b * f
<1>8. A \in Nat /\ C \in Nat /\ D \in Nat /\ F \in Nat /\ E \in Nat /\ G \in Nat
  BY <1>2
<1> HIDE DEF A, C, D, E, F, G
<1>9. (C - A) * (F + E) <= (E - F) * (A + C)
  <2>1. C * F <= E * A
    BY <1>7 DEF A, C, E, F
  <2>2. (C - A) * (F + E) = C * F + C * E - A * F - A * E
    BY <1>8
  <2>3. (E - F) * (A + C) = E * A + E * C - F * A - F * C
    BY <1>8
  <2>4. C * E = E * C /\ A * F = F * A /\ A * E = E * A /\ C * F = F * C
    BY <1>8
  <2>5. C * F \in Int /\ E * A \in Int /\ E * C \in Int /\ F * A \in Int
    BY <1>8
  <2>6. QED BY <2>1, <2>2, <2>3, <2>4, <2>5
<1>10. ((C - A) * (F + E)) * (D * G) <= ((E - F) * (A + C)) * (D * G)
  <2>1. D * G \in Nat /\ (C - A) * (F + E) \in Int /\ (E - F) * (A + C) \in Int
    BY <1>8
  <2>2. QED BY <1>9, <2>1, MultiplyLeq
<1>11. /\ ((C - A) * D) * (G * (F + E)) = ((C - A) * (F + E)) * (D * G)
       /\ ((E - F) * G) * (D * (A + C)) = ((E - F) * (A + C)) * (D * G)
  BY <1>8
<1>12. /\ compute_liquidation_score(h) = <<(C - A) * D, D * (A + C)>>
       /\ compute_liquidation_score(m) = <<(E - F) * G, G * (F + E)>>
  BY <1>4, <1>5, <1>6 DEF A, C, D, E, F, G
<1>13. QED BY <1>10, <1>11, <1>12 DEF Leq


\* What a bucket above the price adds when it is one closer.
LEMMA CloserAddsMore ==
  ASSUME NEW h \in Heatmaps, NEW m \in Heatmaps, m.current_price = h.current_price,
         NEW p \in Int, p > h.current_price + 1, NEW n \in Nat
  PROVE  /\ BucketAdds(h, <<p, n>>, "long") = Zero
         /\ BucketAdds(m, <<p - 1, n>>, "long") = Zero
         /\ Leq(BucketAdds(h, <<p, n>>, "short"), BucketAdds(m, <<p - 1, n>>, "short"))
<1> DEFINE b == <<p, n>>
           c == <<p - 1, n>>
<1> DEFINE price == h.current_price
<1>1. /\ price \in Nat /\ m.current_price = price /\ p > price + 1
      /\ p - 1 \in Int /\ ~(p < price) /\ ~(p - 1 < price)
  BY DEF Heatmaps
<1>reach. PICK reach \in Int : reach = ProximityPct * price
  BY <1>1, ProximityAssumption
<1> HIDE DEF price
<1>2. SideOf(h, b) = "short" /\ SideOf(m, c) = "short"
  BY <1>1 DEF SideOf, price
<1>3. Distance(h, b) = p - price /\ Distance(m, c) = (p - 1) - price
  BY <1>1 DEF Distance, price
<1>4. BucketAdds(h, b, "long") = Zero /\ BucketAdds(m, c, "long") = Zero
  BY <1>2 DEF BucketAdds
<1>5. Nonnegative(BucketAdds(m, c, "short"))
  BY <1>1, BucketAddsNonnegative
<1>6. CASE ~InReach(h, b)
  <2>1. BucketAdds(h, b, "short") = Zero
    BY <1>6 DEF BucketAdds
  <2>2. PICK y : y = BucketAdds(m, c, "short") OBVIOUS
  <2>3. y[1] \in Nat /\ y[2] \in Nat
    BY <1>5, <2>2 DEF Nonnegative, Fractional
  <2>4. Leq(Zero, y)
    BY <2>3, ZeroIsFraction DEF Leq
  <2>5. QED BY <1>4, <2>1, <2>2, <2>4
<1>7. CASE InReach(h, b)
  <2>1. (p - price) * 100 <= reach
    BY <1>3, <1>7, <1>reach DEF InReach, price
  <2>2. (p - 1) - price # 0 /\ ((p - 1) - price) * 100 <= reach
    BY <1>1, <2>1
  <2>3. InReach(m, c)
    BY <1>1, <1>3, <1>reach, <2>2 DEF InReach
  <2>4. /\ BucketAdds(h, b, "short") = <<n * price, p - price>>
        /\ BucketAdds(m, c, "short") = <<n * price, (p - 1) - price>>
    BY <1>1, <1>2, <1>3, <1>7, <2>3 DEF BucketAdds, Weight, price
  <2>5. PICK near, far, w \in Int : near = (p - 1) - price /\ far = p - price /\ w = n * price
    BY <1>1
  <2>6. w \in Nat /\ near <= far
    BY <1>1, <2>5
  <2>7. near * w <= far * w /\ near * w = w * near /\ far * w = w * far
    BY <2>5, <2>6, MultiplyLeq
  <2>8. QED BY <1>4, <2>4, <2>5, <2>7 DEF Leq
<1>8. QED BY <1>6, <1>7

\* A cluster above the price that comes closer never lowers the score (score.py:20), for
\* any price, any proximity and heatmaps of any size.
THEOREM CloserPulls == Spec => []CloserPullsHarder
<1>1. Inputs => CloserPullsHarder
  <2> SUFFICES ASSUME Inputs, NEW j \in DOMAIN heatmap.buckets,
                      heatmap.buckets[j][1] > Price + 1, Liquidation # None
               PROVE  Leq(Liquidation,
                          compute_liquidation_score([heatmap EXCEPT !.buckets[j][1] = @ - 1]))
    BY DEF CloserPullsHarder
  <2> DEFINE bs == heatmap.buckets
             m  == [heatmap EXCEPT !.buckets[j][1] = @ - 1]
             cs == m.buckets
  <2>1. /\ heatmap \in Heatmaps /\ heatmap.current_price = Price
        /\ bs \in Seq(Int \X Nat) /\ DOMAIN bs = 1..Len(bs) /\ Len(bs) \in Nat
        /\ \A i \in 1..Len(bs) : bs[i] \in Int \X Nat
    <3>1. heatmap \in Heatmaps /\ heatmap.current_price = Price
      BY InputIsHeatmap
    <3>2. bs \in Seq(Int \X Nat)
      BY <3>1 DEF Heatmaps
    <3> HIDE DEF bs
    <3>3. DOMAIN bs = 1..Len(bs) /\ Len(bs) \in Nat
      BY <3>2
    <3>4. QED BY <3>1, <3>2, <3>3, ElementOfSeq
  <2>2. PICK p \in Int, n \in Nat : bs[j] = <<p, n>>
    <3>1. j \in DOMAIN bs
      OBVIOUS
    <3> HIDE DEF bs, m, cs
    <3>2. bs[j] \in Int \X Nat
      BY <2>1, <3>1
    <3>3. QED BY <3>2
  <2>3. p > Price + 1 /\ p - 1 \in Int
    BY <2>2
  <2>4. m.current_price = Price /\ cs = [bs EXCEPT ![j] = <<p - 1, n>>]
    <3>1. [bs[j] EXCEPT ![1] = @ - 1] = <<p - 1, n>>
      BY <2>2
    <3>2. m = [heatmap EXCEPT !.buckets = [bs EXCEPT ![j] = [bs[j] EXCEPT ![1] = @ - 1]]]
      OBVIOUS
    <3>3. QED BY <2>1, <3>1, <3>2 DEF Heatmaps
  <2>5. /\ cs \in Seq(Int \X Nat) /\ Len(cs) = Len(bs) /\ DOMAIN cs = 1..Len(bs)
        /\ cs[j] = <<p - 1, n>> /\ \A i \in 1..Len(bs) : i # j => cs[i] = bs[i]
    <3>1. j \in 1..Len(bs) /\ <<p - 1, n>> \in Int \X Nat
      BY <2>1, <2>3
    <3> HIDE DEF m, cs, bs
    <3>2. cs \in Seq(Int \X Nat) /\ Len(cs) = Len(bs)
      BY <2>1, <2>4, <3>1, ExceptSeq
    <3>3. DOMAIN cs = 1..Len(bs)
      BY <3>2
    <3>4. QED BY <2>1, <2>4, <3>1, <3>2, <3>3
  <2>6. m \in Heatmaps
    BY <2>1, <2>4, <2>5 DEF Heatmaps
  <2> HIDE DEF m, cs, bs
  <2>7. ASSUME NEW i \in 1..Len(bs)
        PROVE  /\ BucketAdds(m, cs[i], "long") = BucketAdds(heatmap, bs[i], "long")
               /\ Leq(BucketAdds(heatmap, bs[i], "short"), BucketAdds(m, cs[i], "short"))
    <3>1. CASE i = j
      BY <2>1, <2>2, <2>3, <2>4, <2>5, <2>6, <3>1, CloserAddsMore
    <3>2. CASE i # j
      <4>1. PICK b : b = bs[i] OBVIOUS
      <4>2. cs[i] = b /\ b \in Int \X Nat
        BY <2>1, <2>5, <3>2, <4>1
      <4>3. \A side : BucketAdds(m, b, side) = BucketAdds(heatmap, b, side)
        BY <2>1, <2>4 DEF BucketAdds, InReach, SideOf, Weight, Distance
      <4>4. PICK y : y = BucketAdds(heatmap, b, "short") OBVIOUS
      <4>5. Nonnegative(y)
        BY <2>1, <4>2, <4>4, BucketAddsNonnegative
      <4>6. Leq(y, y)
        <5>1. y[1] * y[2] \in Int
          BY <4>5 DEF Nonnegative, Fractional
        <5>2. QED BY <5>1 DEF Leq
      <4>7. QED BY <4>1, <4>2, <4>3, <4>4, <4>6
    <3>3. QED BY <3>1, <3>2
  <2> DEFINE Adds(g, side) == [i \in DOMAIN g.buckets |-> BucketAdds(g, g.buckets[i], side)]
  <2>8. /\ Weighted(heatmap, "long") = Sum(Adds(heatmap, "long"))
        /\ Weighted(heatmap, "short") = Sum(Adds(heatmap, "short"))
        /\ Weighted(m, "long") = Sum(Adds(m, "long"))
        /\ Weighted(m, "short") = Sum(Adds(m, "short"))
    BY <2>1, <2>6, WeightedIsSum
  <2>9. Adds(m, "long") = Adds(heatmap, "long")
    BY <2>1, <2>5, <2>7 DEF bs, cs
  <2>10. PICK xs : xs = Adds(heatmap, "short") OBVIOUS
  <2>11. PICK ys : ys = Adds(m, "short") OBVIOUS
  <2>12. /\ Len(xs) = Len(bs) /\ Len(ys) = Len(bs)
         /\ \A i \in 1..Len(bs) : /\ xs[i] = BucketAdds(heatmap, bs[i], "short")
                                  /\ ys[i] = BucketAdds(m, cs[i], "short")
    BY <2>1, <2>5, <2>6, <2>10, <2>11, WeightedIsSum DEF bs, cs
  <2> HIDE DEF Adds
  <2>13. \A i \in 1..Len(bs) : Nonnegative(xs[i]) /\ Nonnegative(ys[i]) /\ Leq(xs[i], ys[i])
    <3>1. \A i \in 1..Len(bs) : bs[i] \in Int \X Nat /\ cs[i] \in Int \X Nat
      BY <2>1, <2>5, ElementOfSeq
    <3>2. QED BY <2>1, <2>6, <2>7, <2>12, <3>1, BucketAddsNonnegative
  <2>14. Leq(Sum(xs), Sum(ys))
    BY <2>1, <2>12, <2>13, SumGrows
  <2>15. Leq(compute_liquidation_score(heatmap), compute_liquidation_score(m))
    BY <2>1, <2>6, <2>8, <2>9, <2>10, <2>11, <2>14, ScoreGrows DEF Liquidation
  <2>16. QED BY <2>15 DEF Liquidation, m
<1>2. QED BY <1>1, InputsInvariant, PTL

-----------------------------------------------------------------------------
(* Which buckets count. *)

LEMMA PlusCommutes ==
  ASSUME NEW x \in Fractional, NEW y \in Fractional, NEW z \in Fractional
  PROVE  Plus(Plus(x, y), z) = Plus(Plus(x, z), y) /\ Plus(x, Zero) = x
<1>1. PICK a \in Int, b \in Nat, c \in Int, d \in Nat, e \in Int, f \in Nat :
        x = <<a, b>> /\ y = <<c, d>> /\ z = <<e, f>>
  BY DEF Fractional
<1>2. Plus(Plus(x, y), z) = <<(a * d + c * b) * f + e * (b * d), (b * d) * f>>
  BY <1>1 DEF Plus
<1>3. Plus(Plus(x, z), y) = <<(a * f + e * b) * d + c * (b * f), (b * f) * d>>
  BY <1>1 DEF Plus
<1>4. (a * d + c * b) * f + e * (b * d) = (a * f + e * b) * d + c * (b * f)
  BY <1>1
<1>5. (b * d) * f = (b * f) * d
  BY <1>1
<1>6. Plus(x, Zero) = <<a * 1 + 0 * b, b * 1>>
  BY <1>1 DEF Plus, Zero
<1>7. a * 1 + 0 * b = a /\ b * 1 = b
  BY <1>1
<1>8. QED BY <1>1, <1>2, <1>3, <1>4, <1>5, <1>6, <1>7

LEMMA SumIsFraction ==
  ASSUME NEW xs \in Seq(Fractional)
  PROVE  Sum(xs) \in Fractional
<1> DEFINE ys == [i \in 1..Len(xs) |-> Neg(xs[i])]
<1>1. Len(xs) \in Nat /\ Len(ys) = Len(xs) /\ \A i \in 1..Len(xs) : ys[i] = Neg(xs[i])
  OBVIOUS
<1> HIDE DEF ys
<1>2. \A i \in 1..Len(xs) : xs[i] \in Fractional
  BY ElementOfSeq
<1>3. QED BY <1>1, <1>2, SumNegated

\* xs without its element at k.
Without(xs, k) == [i \in 1..(Len(xs) - 1) |-> IF i < k THEN xs[i] ELSE xs[i + 1]]

LEMMA WithoutIsSequence ==
  ASSUME NEW S, NEW xs \in Seq(S), NEW k \in 1..Len(xs)
  PROVE  /\ Without(xs, k) \in Seq(S) /\ Len(Without(xs, k)) = Len(xs) - 1
         /\ \A i \in 1..(Len(xs) - 1) : Without(xs, k)[i] = IF i < k THEN xs[i] ELSE xs[i + 1]
<1>1. Len(xs) \in Nat /\ Len(xs) - 1 \in Nat /\ \A i \in 1..Len(xs) : xs[i] \in S
  BY ElementOfSeq
<1>2. \A i \in 1..(Len(xs) - 1) : i \in 1..Len(xs) /\ i + 1 \in 1..Len(xs)
  BY <1>1
<1>3. QED BY <1>1, <1>2 DEF Without

\* Any element may be added last.
LEMMA SumOfWithout ==
  ASSUME NEW xs \in Seq(Fractional), NEW k \in 1..Len(xs)
  PROVE  Sum(xs) = Plus(Sum(Without(xs, k)), xs[k])
<1>1. PICK n \in Nat : n = Len(xs) /\ n - 1 \in Nat /\ k \in 1..n
  OBVIOUS
<1>2. PICK ws \in Seq(Fractional) :
        /\ ws = Without(xs, k) /\ Len(ws) = n - 1
        /\ \A i \in 1..(n - 1) : ws[i] = IF i < k THEN xs[i] ELSE xs[i + 1]
  BY <1>1, WithoutIsSequence
<1>3. PICK g : /\ Sum(xs) = g[n] /\ g[0] = Zero
               /\ \A i \in 1..n : g[i] = Plus(g[i - 1], xs[i])
  BY <1>1, SumIsLast
<1>4. PICK h : /\ Sum(ws) = h[n - 1] /\ h[0] = Zero
               /\ \A i \in 1..(n - 1) : h[i] = Plus(h[i - 1], ws[i])
  <2>1. Len(ws) \in Nat
    BY <1>1, <1>2
  <2>2. \E h : /\ Sum(ws) = h[Len(ws)] /\ h[0] = Zero
               /\ \A i \in 1..Len(ws) : h[i] = Plus(h[i - 1], ws[i])
    BY <2>1, SumIsLast
  <2>3. QED BY <1>2, <2>2
<1>5. \A i \in 1..n : xs[i] \in Fractional
  BY <1>1, ElementOfSeq
<1> DEFINE Good == {i \in 0..n : /\ g[i] \in Fractional
                                 /\ i < k => h[i] = g[i]
                                 /\ i >= k => h[i - 1] \in Fractional /\ g[i] = Plus(h[i - 1], xs[k])}
<1>6. 0 \in Good
  BY <1>1, <1>3, <1>4, ZeroIsFraction
<1>7. ASSUME NEW i \in 1..n, i - 1 \in Good
      PROVE  i \in Good
  <2>1. /\ i - 1 \in 0..n /\ i \in 0..n /\ g[i - 1] \in Fractional
        /\ i - 1 < k => h[i - 1] = g[i - 1]
        /\ i - 1 >= k => h[(i - 1) - 1] \in Fractional /\ g[i - 1] = Plus(h[(i - 1) - 1], xs[k])
    BY <1>7
  <2> HIDE DEF Good
  <2>2. g[i] = Plus(g[i - 1], xs[i]) /\ g[i] \in Fractional
    BY <1>3, <1>5, <2>1, PlusIsFraction
  <2>3. CASE i < k
    <3>1. i \in 1..(n - 1) /\ i - 1 < k
      BY <1>1, <2>3
    <3>2. h[i] = Plus(h[i - 1], ws[i]) /\ ws[i] = xs[i]
      BY <1>2, <1>4, <2>3, <3>1
    <3>3. h[i] = g[i] /\ ~(i >= k)
      BY <1>1, <2>1, <2>2, <2>3, <3>1, <3>2
    <3>4. QED BY <2>1, <2>2, <3>3 DEF Good
  <2>4. CASE i = k
    <3>1. h[i - 1] = g[i - 1] /\ ~(i < k)
      BY <1>1, <2>1, <2>4
    <3>2. QED BY <2>1, <2>2, <2>4, <3>1 DEF Good
  <2>5. CASE i > k
    <3>1. i - 1 \in 1..(n - 1) /\ ~(i - 1 < k) /\ i - 1 >= k /\ (i - 1) + 1 = i
      BY <1>1, <2>5
    <3>2. h[i - 1] = Plus(h[(i - 1) - 1], ws[i - 1]) /\ ws[i - 1] = xs[i]
      BY <1>2, <1>4, <3>1
    <3>3. PICK z \in Fractional : z = h[(i - 1) - 1] /\ g[i - 1] = Plus(z, xs[k])
      BY <2>1, <3>1
    <3>4. g[i] = Plus(Plus(z, xs[i]), xs[k])
      BY <1>1, <1>5, <2>2, <3>3, PlusCommutes
    <3>5. h[i - 1] \in Fractional /\ g[i] = Plus(h[i - 1], xs[k])
      BY <1>5, <3>2, <3>3, <3>4, PlusIsFraction
    <3>6. ~(i < k)
      BY <1>1, <2>5
    <3>7. QED BY <2>1, <2>2, <3>5, <3>6 DEF Good
  <2>6. QED BY <1>1, <2>3, <2>4, <2>5
<1> HIDE DEF Good
<1>8. n \in Good
  BY <1>1, <1>6, <1>7, NoLeastCounterexample DEF Good
<1>9. h[n - 1] \in Fractional /\ g[n] = Plus(h[n - 1], xs[k])
  BY <1>1, <1>8 DEF Good
<1>10. QED BY <1>2, <1>3, <1>4, <1>9

\* ys is what is left of xs, in any order, when some of its zeros are left out.
LeavesOutZeros(ys, xs) ==
  \E f \in Injection(1..Len(ys), 1..Len(xs)) :
    /\ \A k \in 1..Len(ys) : ys[k] = xs[f[k]]
    /\ \A i \in 1..Len(xs) : (\A k \in 1..Len(ys) : f[k] # i) => xs[i] = Zero

LEMMA SumOfAnyOrder ==
  ASSUME NEW xs \in Seq(Fractional), NEW ys \in Seq(Fractional), LeavesOutZeros(ys, xs)
  PROVE  Sum(ys) = Sum(xs)
<1>1. PICK n \in Nat : n = Len(xs)
  OBVIOUS
<1> DEFINE Good == {i \in 0..n : \A us \in Seq(Fractional), vs \in Seq(Fractional) :
                      Len(us) = i /\ LeavesOutZeros(vs, us) => Sum(vs) = Sum(us)}
<1>2. 0 \in Good
  <2>1. ASSUME NEW us \in Seq(Fractional), NEW vs \in Seq(Fractional), Len(us) = 0,
               LeavesOutZeros(vs, us)
        PROVE  Sum(vs) = Sum(us)
    <3>1. PICK f \in Injection(1..Len(vs), 1..Len(us)) : TRUE
      BY <2>1 DEF LeavesOutZeros
    <3>2. Len(vs) \in Nat /\ f \in [1..Len(vs) -> 1..Len(us)]
      BY <3>1 DEF Injection
    <3>3. Len(vs) = 0
      <4>1. ASSUME Len(vs) # 0 PROVE FALSE
        <5>1. 1 \in 1..Len(vs)
          BY <3>2, <4>1
        <5>2. f[1] \in 1..0
          BY <2>1, <3>2, <5>1
        <5>3. QED BY <5>2
      <4>2. QED BY <4>1
    <3>4. us = <<>> /\ vs = <<>>
      BY <2>1, <3>3
    <3>5. QED BY <3>4
  <2>2. QED BY <2>1
<1>3. ASSUME NEW i \in 1..n, i - 1 \in Good PROVE i \in Good
  <2>1. SUFFICES ASSUME NEW us \in Seq(Fractional), NEW vs \in Seq(Fractional), Len(us) = i,
                        LeavesOutZeros(vs, us)
                 PROVE  Sum(vs) = Sum(us)
    OBVIOUS
  <2>2. \A u \in Seq(Fractional), v \in Seq(Fractional) :
          Len(u) = i - 1 /\ LeavesOutZeros(v, u) => Sum(v) = Sum(u)
    BY <1>3
  <2> HIDE DEF Good
  <2>3. PICK m \in Nat : m = Len(vs)
    OBVIOUS
  <2>4. PICK f \in Injection(1..m, 1..i) :
          /\ \A k \in 1..m : vs[k] = us[f[k]]
          /\ \A j \in 1..i : (\A k \in 1..m : f[k] # j) => us[j] = Zero
    BY <2>1, <2>3 DEF LeavesOutZeros
  <2>5. /\ \A k \in 1..m : f[k] \in 1..i
        /\ \A k, l \in 1..m : f[k] = f[l] => k = l
    BY <2>4 DEF Injection, IsInjective
  <2>6. PICK u \in Seq(Fractional) :
          /\ u = Without(us, i) /\ Len(u) = i - 1 /\ Sum(u) \in Fractional
          /\ \A j \in 1..(i - 1) : u[j] = us[j]
          /\ us[i] \in Fractional /\ Sum(us) = Plus(Sum(u), us[i])
    <3>1. i \in 1..Len(us)
      BY <2>1
    <3>2. \A j \in 1..(i - 1) : j < i
      OBVIOUS
    <3>3. /\ Without(us, i) \in Seq(Fractional) /\ Len(Without(us, i)) = i - 1
          /\ \A j \in 1..(i - 1) : Without(us, i)[j] = us[j]
      BY <2>1, <3>1, <3>2, WithoutIsSequence
    <3>4. us[i] \in Fractional
      BY <3>1, ElementOfSeq
    <3>5. Sum(us) = Plus(Sum(Without(us, i)), us[i])
      BY <3>1, SumOfWithout
    <3>6. QED BY <3>3, <3>4, <3>5, SumIsFraction
  <2>7. CASE \A k \in 1..m : f[k] # i
    <3>1. f \in Injection(1..m, 1..(i - 1))
      <4>1. \A k \in 1..m : f[k] \in 1..(i - 1)
        BY <2>5, <2>7
      <4>2. f \in [1..m -> 1..(i - 1)]
        BY <2>4, <4>1 DEF Injection
      <4>3. QED BY <2>4, <4>2 DEF Injection
    <3>2. \A j \in 1..(i - 1) : j \in 1..i
      OBVIOUS
    <3>3. LeavesOutZeros(vs, u)
      <4>1. \A k \in 1..m : f[k] \in 1..(i - 1)
        BY <2>5, <2>7
      <4>2. \A k \in 1..m : vs[k] = u[f[k]]
        BY <2>4, <2>6, <4>1
      <4>3. \A j \in 1..(i - 1) : (\A k \in 1..m : f[k] # j) => u[j] = Zero
        BY <2>4, <2>6, <3>2
      <4>4. QED BY <2>3, <2>6, <3>1, <4>2, <4>3 DEF LeavesOutZeros
    <3>4. Sum(vs) = Sum(u)
      BY <2>2, <2>6, <3>3
    <3>5. us[i] = Zero
      BY <2>4, <2>7
    <3>6. QED BY <2>6, <3>4, <3>5, PlusCommutes
  <2>8. CASE \E k \in 1..m : f[k] = i
    <3>1. PICK k \in 1..m : f[k] = i
      BY <2>8
    <3>2. PICK v \in Seq(Fractional) :
            /\ v = Without(vs, k) /\ Len(v) = m - 1 /\ m - 1 \in Nat
            /\ \A j \in 1..(m - 1) : v[j] = IF j < k THEN vs[j] ELSE vs[j + 1]
            /\ Sum(vs) = Plus(Sum(v), vs[k])
      BY <2>3, <3>1, WithoutIsSequence, SumOfWithout
    <3> DEFINE e == [j \in 1..(m - 1) |-> IF j < k THEN f[j] ELSE f[j + 1]]
    <3>3. \A j \in 1..(m - 1) : j \in 1..m /\ j + 1 \in 1..m
      BY <3>2
    <3>4. \A j \in 1..(m - 1) : e[j] \in 1..(i - 1)
      <4>1. ASSUME NEW j \in 1..(m - 1) PROVE e[j] \in 1..i /\ e[j] # i
        BY <2>5, <3>1, <3>3
      <4> HIDE DEF e
      <4>2. QED BY <4>1
    <3>5. \A j, l \in 1..(m - 1) : e[j] = e[l] => j = l
      BY <2>5, <3>3
    <3>6. e \in Injection(1..(m - 1), 1..(i - 1))
      <4>1. e \in [1..(m - 1) -> 1..(i - 1)]
        BY <3>4
      <4> HIDE DEF e
      <4>2. QED BY <3>5, <4>1 DEF Injection, IsInjective
    <3>7. \A j \in 1..(m - 1) : v[j] = u[e[j]]
      <4>1. ASSUME NEW j \in 1..(m - 1) PROVE v[j] = us[e[j]]
        BY <2>4, <3>2, <3>3
      <4> HIDE DEF e
      <4>2. QED BY <2>6, <3>4, <4>1
    <3>8. ASSUME NEW j \in 1..(i - 1), \A l \in 1..(m - 1) : e[l] # j
          PROVE  u[j] = Zero
      <4>1. ASSUME NEW l \in 1..m, f[l] = j PROVE FALSE
        <5>1. CASE l < k
          <6>1. l \in 1..(m - 1)
            BY <3>1, <5>1
          <6>2. e[l] = f[l]
            BY <5>1, <6>1
          <6>3. QED BY <3>8, <4>1, <6>1, <6>2
        <5>2. CASE l = k
          BY <3>1, <4>1, <5>2
        <5>3. CASE l > k
          <6>1. l - 1 \in 1..(m - 1) /\ ~(l - 1 < k) /\ (l - 1) + 1 = l
            BY <3>1, <5>3
          <6>2. e[l - 1] = f[l]
            BY <6>1
          <6>3. QED BY <3>8, <4>1, <6>1, <6>2
        <5>4. QED BY <5>1, <5>2, <5>3
      <4>2. j \in 1..i
        OBVIOUS
      <4>3. QED BY <2>4, <2>6, <4>1, <4>2
    <3> HIDE DEF e
    <3>9. LeavesOutZeros(v, u)
      <4>1. PICK l : l = m - 1 OBVIOUS
      <4>2. PICK c : c = i - 1 OBVIOUS
      <4>3. /\ e \in Injection(1..l, 1..c)
            /\ \A j \in 1..l : v[j] = u[e[j]]
            /\ \A j \in 1..c : (\A q \in 1..l : e[q] # j) => u[j] = Zero
        BY <3>6, <3>7, <3>8, <4>1, <4>2
      <4>4. Len(v) = l /\ Len(u) = c
        BY <2>6, <3>2, <4>1, <4>2
      <4>5. QED BY <4>3, <4>4 DEF LeavesOutZeros
    <3>10. Sum(v) = Sum(u)
      BY <2>2, <2>6, <3>9
    <3>11. QED BY <2>4, <2>6, <3>1, <3>2, <3>10
  <2>9. QED BY <2>7, <2>8
<1> HIDE DEF Good
<1>4. n \in Good
  BY <1>1, <1>2, <1>3, NoLeastCounterexample DEF Good
<1>5. QED BY <1>1, <1>4 DEF Good

\* Buckets out of reach add nothing, and the others may be added in any order, whatever the
\* proximity and however many there are (score.py:10-12, 18).
THEOREM NearBucketsDecide == Spec => []OnlyNearBucketsCount
<1>1. Inputs => OnlyNearBucketsCount
  <2> DEFINE bs   == heatmap.buckets
             near == {i \in DOMAIN bs :
                        100 * bs[i][1] \in (100 - ProximityPct) * Price .. (100 + ProximityPct) * Price}
             size == Cardinality(near)
  <2> SUFFICES ASSUME Inputs, NEW order \in Bijection(1..size, near)
               PROVE  Equal(Liquidation,
                        compute_liquidation_score(
                          [heatmap EXCEPT !.buckets = [k \in 1..size |-> bs[order[k]]]]))
    BY DEF OnlyNearBucketsCount
  <2> DEFINE cs == [k \in 1..size |-> bs[order[k]]]
             m  == [heatmap EXCEPT !.buckets = cs]
  <2>1. /\ heatmap \in Heatmaps /\ heatmap.current_price = Price
        /\ bs \in Seq(Int \X Nat) /\ DOMAIN bs = 1..Len(bs) /\ Len(bs) \in Nat
        /\ \A i \in 1..Len(bs) : bs[i] \in Int \X Nat
    <3>1. heatmap \in Heatmaps /\ heatmap.current_price = Price
      BY InputIsHeatmap
    <3>2. bs \in Seq(Int \X Nat)
      BY <3>1 DEF Heatmaps
    <3> HIDE DEF bs
    <3>3. DOMAIN bs = 1..Len(bs) /\ Len(bs) \in Nat
      BY <3>2
    <3>4. QED BY <3>1, <3>2, <3>3, ElementOfSeq
  <2>2. near \subseteq 1..Len(bs) /\ size \in Nat
    <3>1. IsFiniteSet(1..Len(bs))
      BY <2>1, FS_Interval
    <3>2. near \in SUBSET (1..Len(bs))
      BY <2>1
    <3> HIDE DEF near
    <3>3. QED BY <3>1, <3>2, FS_Subset, FS_CardinalityType
  <2>3. /\ \A k \in 1..size : order[k] \in near
        /\ \A i \in near : \E k \in 1..size : order[k] = i
        /\ order \in Injection(1..size, 1..Len(bs))
    <3> HIDE DEF near, size
    <3>1. /\ order \in [1..size -> near] /\ IsInjective(order)
          /\ \A i \in near : \E k \in 1..size : order[k] = i
      BY DEF Bijection, Injection, Surjection
    <3>2. order \in [1..size -> 1..Len(bs)]
      BY <2>2, <3>1
    <3>3. QED BY <3>1, <3>2 DEF Injection
  <2>4. /\ cs \in Seq(Int \X Nat) /\ Len(cs) = size /\ DOMAIN cs = 1..size
        /\ \A k \in 1..size : cs[k] = bs[order[k]]
    <3> HIDE DEF near, size, bs
    <3>1. \A k \in 1..size : bs[order[k]] \in Int \X Nat
      BY <2>1, <2>2, <2>3
    <3>2. QED BY <2>2, <3>1
  <2> HIDE DEF cs
  <2>5. /\ m \in Heatmaps /\ m.current_price = Price /\ m.buckets = cs
    BY <2>1, <2>4 DEF Heatmaps
  <2> HIDE DEF m, size
  <2>6. ASSUME NEW i \in 1..Len(bs), i \notin near, NEW side
        PROVE  BucketAdds(heatmap, bs[i], side) = Zero
    <3>1. PICK p \in Int, n \in Nat : bs[i] = <<p, n>>
      <4> HIDE DEF bs
      <4>1. bs[i] \in Int \X Nat
        BY <2>1
      <4>2. QED BY <4>1
    <3>reach. PICK reach \in Int : reach = ProximityPct * Price
      BY ProximityAssumption, InputsAssumption
    <3>2. ~(100 * p >= 100 * Price - reach /\ 100 * p <= 100 * Price + reach)
      <4>1. (100 - ProximityPct) * Price = 100 * Price - reach
            /\ (100 + ProximityPct) * Price = 100 * Price + reach
        BY <3>reach, ProximityAssumption, InputsAssumption
      <4>2. ~(100 * p \in 100 * Price - reach .. 100 * Price + reach)
        BY <2>1, <2>6, <3>1, <4>1
      <4>3. 100 * Price - reach \in Int /\ 100 * Price + reach \in Int /\ 100 * p \in Int
        BY <3>1, <3>reach, InputsAssumption
      <4>4. QED BY <4>2, <4>3
    <3>3. Distance(heatmap, <<p, n>>) = IF p < Price THEN Price - p ELSE p - Price
      BY <2>1 DEF Distance
    <3>4. ~((IF p < Price THEN Price - p ELSE p - Price) * 100 <= reach)
      BY <3>2, <3>reach, InputsAssumption
    <3>5. ~InReach(heatmap, <<p, n>>)
      BY <2>1, <3>3, <3>4, <3>reach DEF InReach
    <3>6. QED BY <3>1, <3>5 DEF BucketAdds
  <2>7. ASSUME NEW side PROVE Weighted(m, side) = Weighted(heatmap, side)
    <3> DEFINE xs == [i \in 1..Len(bs) |-> BucketAdds(heatmap, bs[i], side)]
               ys == [k \in 1..size |-> BucketAdds(m, cs[k], side)]
    <3>1. Weighted(heatmap, side) = Sum(xs)
      BY <2>1, WeightedIsSum
    <3>2. Weighted(m, side) = Sum(ys)
      BY <2>4, <2>5, WeightedIsSum
    <3>3. \A b : BucketAdds(m, b, side) = BucketAdds(heatmap, b, side)
      BY <2>1, <2>5 DEF BucketAdds, InReach, SideOf, Weight, Distance
    <3>4. \A b \in Int \X Nat : BucketAdds(heatmap, b, side) \in Fractional
      BY <2>1, BucketAddsNonnegative DEF Nonnegative
    <3>5. xs \in Seq(Fractional) /\ Len(xs) = Len(bs)
      <4> HIDE DEF bs
      <4>1. \A i \in 1..Len(bs) : BucketAdds(heatmap, bs[i], side) \in Fractional
        BY <2>1, <3>4
      <4>2. QED BY <2>1, <4>1
    <3>6. ys \in Seq(Fractional) /\ Len(ys) = size
      <4>1. \A k \in 1..size : BucketAdds(m, cs[k], side) \in Fractional
        BY <2>2, <2>4, <3>3, <3>4, ElementOfSeq
      <4>2. QED BY <2>2, <4>1
    <3>7. \A k \in 1..size : ys[k] = xs[order[k]]
      <4>1. \A k \in 1..size : order[k] \in 1..Len(bs)
        BY <2>2, <2>3
      <4>2. QED BY <2>4, <3>3, <4>1
    <3>8. \A i \in 1..Len(bs) : (\A k \in 1..size : order[k] # i) => xs[i] = Zero
      BY <2>3, <2>6
    <3> HIDE DEF xs, ys
    <3>9. LeavesOutZeros(ys, xs)
      BY <2>3, <3>5, <3>6, <3>7, <3>8 DEF LeavesOutZeros
    <3>10. QED BY <3>1, <3>2, <3>5, <3>6, <3>9, SumOfAnyOrder
  <2>8. compute_liquidation_score(m) = Liquidation
    BY <2>7 DEF compute_liquidation_score, Liquidation
  <2>9. Equal(Liquidation, Liquidation)
    <3>1. Liquidation \in Fractional \union {None}
      BY <2>1, LiquidationIsScore DEF Liquidation, Scores
    <3>2. QED BY <3>1, EqualToItself
  <2>10. QED BY <2>8, <2>9 DEF m, cs
<1>2. QED BY <1>1, InputsInvariant, PTL

-----------------------------------------------------------------------------
(* Which buckets are named. *)

\* Ranking is a bijection: what is ahead of the better one of two buckets is ahead of the
\* other as well, together with the better one itself.
LEMMA LargestArePicked ==
  ASSUME NEW bs \in Seq(Int \X Nat), NEW side \in SUBSET (DOMAIN bs), NEW n \in Nat
  PROVE  LET size == IF Cardinality(side) < n THEN Cardinality(side) ELSE n
         IN \E pick \in Injection(1..size, side) :
              /\ Largest(bs, side, n) = [r \in 1..size |-> bs[pick[r]]]
              /\ \A r \in 1..size, i \in side :
                   bs[i][2] > bs[pick[r]][2] => \E q \in 1..(r - 1) : pick[q] = i
<1> DEFINE Before(i, j) == bs[i][2] > bs[j][2] \/ (bs[i][2] = bs[j][2] /\ i < j)
           Ahead(i) == {j \in side : Before(j, i)}
           Rank(i)  == Cardinality(Ahead(i)) + 1
           size     == IF Cardinality(side) < n THEN Cardinality(side) ELSE n
           pick     == [r \in 1..size |-> CHOOSE i \in side : Rank(i) = r]
<1>1. /\ \A i \in side : i \in Nat /\ bs[i][2] \in Nat
      /\ IsFiniteSet(side) /\ Cardinality(side) \in Nat
  <2>1. DOMAIN bs = 1..Len(bs) /\ Len(bs) \in Nat
    OBVIOUS
  <2>2. \A i \in DOMAIN bs : i \in Nat /\ bs[i] \in Int \X Nat
    BY <2>1
  <2>3. IsFiniteSet(DOMAIN bs)
    BY <2>1, FS_Interval
  <2>4. QED BY <2>2, <2>3, FS_Subset, FS_CardinalityType
<1>2. \A i, j, k \in side : /\ i # j => Before(i, j) \/ Before(j, i)
                            /\ ~Before(i, i)
                            /\ Before(i, j) /\ Before(j, k) => Before(i, k)
  BY <1>1
<1>3. \A i \in side : IsFiniteSet(Ahead(i)) /\ Cardinality(Ahead(i)) \in Nat
  BY <1>1, FS_Subset, FS_CardinalityType
<1>4. ASSUME NEW i \in side, NEW j \in side, Before(i, j) PROVE Rank(i) < Rank(j)
  <2> HIDE DEF Before
  <2>1. Ahead(i) \union {i} \in SUBSET Ahead(j) /\ i \notin Ahead(i)
    BY <1>2, <1>4
  <2> HIDE DEF Ahead
  <2>2. Cardinality(Ahead(i) \union {i}) = Cardinality(Ahead(i)) + 1
    BY <1>3, <2>1, FS_AddElement
  <2>3. Cardinality(Ahead(i) \union {i}) <= Cardinality(Ahead(j))
    BY <1>3, <2>1, FS_Subset
  <2>4. QED BY <1>3, <2>2, <2>3
<1>5. ASSUME NEW i \in side PROVE Rank(i) \in 1..Cardinality(side)
  <2> HIDE DEF Before
  <2>1. Ahead(i) \in SUBSET (side \ {i})
    BY <1>2
  <2> HIDE DEF Ahead
  <2>2. IsFiniteSet(side \ {i}) /\ Cardinality(side \ {i}) = Cardinality(side) - 1
    BY <1>1, FS_RemoveElement
  <2>3. Cardinality(Ahead(i)) <= Cardinality(side) - 1
    BY <2>1, <2>2, FS_Subset
  <2>4. QED BY <1>1, <1>3, <2>3
<1>6. \A i, j \in side : Rank(i) = Rank(j) => i = j
  <2>1. \A i \in side : Rank(i) \in Nat
    <3> HIDE DEF Ahead
    <3>1. QED BY <1>3
  <2> HIDE DEF Before, Rank
  <2>2. QED BY <1>2, <1>4, <2>1
<1>7. ASSUME NEW r \in 1..Cardinality(side) PROVE \E i \in side : Rank(i) = r
  <2> DEFINE rank == [i \in side |-> Rank(i)]
  <2> HIDE DEF Rank
  <2>1. rank \in Injection(side, 1..Cardinality(side))
    BY <1>5, <1>6 DEF Injection, IsInjective
  <2>2. IsFiniteSet(1..Cardinality(side)) /\ Cardinality(1..Cardinality(side)) = Cardinality(side)
    <3>1. 1 \in Int /\ Cardinality(side) \in Int
      BY <1>1
    <3>2. Cardinality(1..Cardinality(side)) = IF 1 > Cardinality(side) THEN 0 ELSE Cardinality(side) - 1 + 1
      BY <3>1, FS_Interval
    <3>3. QED BY <1>1, <3>1, <3>2, FS_Interval
  <2>3. rank \in Surjection(side, 1..Cardinality(side))
    BY <2>1, <2>2, FS_Injection
  <2>4. QED BY <2>3 DEF Surjection
<1>8. /\ size \in Nat /\ size <= Cardinality(side)
      /\ \A r \in 1..size : pick[r] \in side /\ Rank(pick[r]) = r
  <2>1. size \in Nat /\ size <= Cardinality(side)
    BY <1>1
  <2> HIDE DEF Rank, size
  <2>2. \A r \in 1..size : r \in 1..Cardinality(side)
    BY <1>1, <2>1
  <2>3. QED BY <1>7, <2>1, <2>2
<1>9. pick \in Injection(1..size, side)
  <2> HIDE DEF Rank, size
  <2>1. pick \in [1..size -> side]
    BY <1>8
  <2>2. QED BY <1>8, <2>1 DEF Injection, IsInjective
<1>10. Largest(bs, side, n) = [r \in 1..size |-> bs[pick[r]]]
  BY DEF Largest
<1>11. ASSUME NEW r \in 1..size, NEW i \in side, bs[i][2] > bs[pick[r]][2]
       PROVE  \E q \in 1..(r - 1) : pick[q] = i
  <2>1. Rank(i) < r
    <3>1. Before(i, pick[r])
      BY <1>11
    <3> HIDE DEF Before, Rank, pick
    <3>2. QED BY <1>4, <1>8, <3>1
  <2> HIDE DEF Before, Rank, pick
  <2>2. Rank(i) \in 1..(r - 1) /\ Rank(i) \in 1..size
    BY <1>5, <1>8, <2>1
  <2>3. pick[Rank(i)] \in side /\ Rank(pick[Rank(i)]) = Rank(i)
    BY <1>8, <2>2
  <2>4. QED BY <1>6, <2>2, <2>3
<1> HIDE DEF pick, size
<1>12. \E p \in Injection(1..size, side) :
         /\ Largest(bs, side, n) = [r \in 1..size |-> bs[p[r]]]
         /\ \A r \in 1..size, i \in side : bs[i][2] > bs[p[r]][2] => \E q \in 1..(r - 1) : p[q] = i
  BY <1>9, <1>10, <1>11
<1>13. QED BY <1>12 DEF size

\* The clusters named on each side are the largest ones, each once and the larger one first
\* (score.py:40-49), however many buckets the heatmap has.
THEOREM NamedAreLargest == Spec => []LargestClustersAreNamed
<1>1. Inputs => LargestClustersAreNamed
  <2> SUFFICES ASSUME Inputs PROVE LargestClustersAreNamed
    OBVIOUS
  <2> DEFINE bs == heatmap.buckets
             below == {i \in DOMAIN bs : bs[i][1] < Price}
             above == {i \in DOMAIN bs : bs[i][1] > Price}
  <2>1. bs \in Seq(Int \X Nat) /\ heatmap.current_price = Price
    BY InputIsHeatmap DEF Heatmaps
  <2>2. /\ nearest_clusters(heatmap, 2).long_below = Largest(bs, below, 2)
        /\ nearest_clusters(heatmap, 2).short_above = Largest(bs, above, 2)
    BY <2>1 DEF nearest_clusters
  <2>3. ASSUME NEW side \in SUBSET (DOMAIN bs) PROVE NamesLargest(Largest(bs, side, 2), side)
    <3>1. LET size == IF Cardinality(side) < 2 THEN Cardinality(side) ELSE 2
          IN \E pick \in Injection(1..size, side) :
               /\ Largest(bs, side, 2) = [r \in 1..size |-> bs[pick[r]]]
               /\ \A r \in 1..size, i \in side :
                    bs[i][2] > bs[pick[r]][2] => \E q \in 1..(r - 1) : pick[q] = i
      <4> HIDE DEF bs
      <4>1. 2 \in Nat
        OBVIOUS
      <4>2. QED BY <2>1, <4>1, LargestArePicked, Zenon
    <3>2. QED BY <3>1, Zenon DEF NamesLargest
  <2>4. QED BY <2>2, <2>3 DEF LargestClustersAreNamed
<1>2. QED BY <1>1, InputsInvariant, PTL
=============================================================================
