-------------------------- MODULE IndicatorsProofs ---------------------------
(***************************************************************************)
(* The indicators of any number of candles: what a fraction is in lowest    *)
(* terms or out of them, what a moving average keeps of the numbers it is    *)
(* the average of, and from both what holds of RSI, EMA, MACD, the bands and *)
(* ATR.  Closes, wicks, periods and the number of candles are constants, of  *)
(* which only InputsAssumption and PeriodsAssumption are used.               *)
(***************************************************************************)
EXTENDS SignalScoresProofs

-----------------------------------------------------------------------------
(* The greatest common divisor: what Reduced divides by. *)

\* g obeys the equation of gcd for every second argument up to n.
IsGcdUpTo(g, n) ==
  g = [p \in Nat \X (0..n) |-> IF p[2] = 0 THEN p[1] ELSE g[<<p[2], p[1] % p[2]>>]]

LEMMA RemainderIsLess ==
  ASSUME NEW a \in Int, NEW b \in Nat \ {0}
  PROVE  /\ a \div b \in Int /\ a % b \in 0..(b - 1)
         /\ a = b * (a \div b) + (a % b)
OBVIOUS

LEMMA GcdUpToExists ==
  ASSUME NEW n \in Nat
  PROVE  \E g : IsGcdUpTo(g, n)
<1> DEFINE Good == {i \in 0..n : \E g : IsGcdUpTo(g, i)}
<1>1. 0 \in Good
  <2> DEFINE g == [p \in Nat \X (0..0) |-> p[1]]
  <2>1. IsGcdUpTo(g, 0)
    BY DEF IsGcdUpTo
  <2>2. QED BY <2>1
<1>2. ASSUME NEW i \in 1..n, i - 1 \in Good PROVE i \in Good
  <2>1. PICK h : IsGcdUpTo(h, i - 1)
    BY <1>2
  <2> DEFINE g == [p \in Nat \X (0..i) |-> IF p[2] = i THEN h[<<i, p[1] % i>>] ELSE h[p]]
  <2>2. ASSUME NEW a \in Nat, NEW b \in 0..i
        PROVE  g[<<a, b>>] = IF b = 0 THEN a ELSE g[<<b, a % b>>]
    <3>1. b # 0 => a % b \in 0..(b - 1)
      BY RemainderIsLess
    <3>2. CASE b = i
      <4>1. a % i \in 0..i /\ a % i # i
        BY <3>1, <3>2
      <4>2. g[<<a, b>>] = h[<<i, a % i>>] /\ g[<<i, a % i>>] = h[<<i, a % i>>]
        BY <3>2, <4>1
      <4>3. QED BY <3>2, <4>2
    <3>3. CASE b # i
      <4>1. b \in 0..(i - 1)
        BY <3>3
      <4>2. g[<<a, b>>] = h[<<a, b>>]
        BY <3>3
      <4>3. h[<<a, b>>] = IF b = 0 THEN a ELSE h[<<b, a % b>>]
        BY <2>1, <4>1 DEF IsGcdUpTo
      <4>4. b # 0 => a % b \in 0..i /\ a % b # i /\ b \in Nat
        BY <3>1, <4>1
      <4>5. b # 0 => g[<<b, a % b>>] = h[<<b, a % b>>]
        BY <4>4
      <4>6. QED BY <4>2, <4>3, <4>5
    <3>4. QED BY <3>2, <3>3
  <2>3. IsGcdUpTo(g, i)
    <3>1. \A p \in Nat \X (0..i) : g[p] = IF p[2] = 0 THEN p[1] ELSE g[<<p[2], p[1] % p[2]>>]
      <4> HIDE DEF g
      <4>1. QED BY <2>2
    <3>2. QED BY <3>1 DEF IsGcdUpTo
  <2>4. QED BY <2>3
<1> HIDE DEF Good
<1>3. n \in Good
  BY <1>1, <1>2, NoLeastCounterexample DEF Good
<1>4. QED BY <1>3 DEF Good

\* They agree where they are both defined.
LEMMA GcdUpToAgree ==
  ASSUME NEW m \in Nat, NEW n \in Nat, NEW g, NEW h, IsGcdUpTo(g, m), IsGcdUpTo(h, n),
         NEW a \in Nat, NEW b \in Nat, b <= m, b <= n
  PROVE  g[<<a, b>>] = h[<<a, b>>]
<1> DEFINE Good == {i \in 0..b : \A c \in Nat : \A j \in 0..i : g[<<c, j>>] = h[<<c, j>>]}
<1>1. \A c \in Nat : g[<<c, 0>>] = c /\ h[<<c, 0>>] = c
  BY DEF IsGcdUpTo
<1>2. 0 \in Good
  BY <1>1
<1>3. ASSUME NEW i \in 1..b, i - 1 \in Good PROVE i \in Good
  <2>1. \A c \in Nat : \A j \in 0..(i - 1) : g[<<c, j>>] = h[<<c, j>>]
    BY <1>3
  <2>2. ASSUME NEW c \in Nat PROVE g[<<c, i>>] = h[<<c, i>>]
    <3>1. i \in 0..m /\ i \in 0..n /\ i # 0 /\ i \in Nat
      OBVIOUS
    <3>2. g[<<c, i>>] = g[<<i, c % i>>] /\ h[<<c, i>>] = h[<<i, c % i>>]
      BY <3>1 DEF IsGcdUpTo
    <3>3. c % i \in 0..(i - 1)
      BY RemainderIsLess
    <3>4. QED BY <2>1, <3>1, <3>2, <3>3
  <2>3. QED BY <2>1, <2>2
<1> HIDE DEF Good
<1>4. b \in Good
  BY <1>2, <1>3, NoLeastCounterexample DEF Good
<1>5. QED BY <1>4 DEF Good

LEMMA GcdUnfolds ==
  ASSUME NEW a \in Nat, NEW b \in Nat
  PROVE  gcd[<<a, b>>] = IF b = 0 THEN a ELSE gcd[<<b, a % b>>]
<1> DEFINE Of(n) == CHOOSE g : IsGcdUpTo(g, n)
           f == [p \in Nat \X Nat |-> Of(p[2])[p]]
<1>1. \A n \in Nat : IsGcdUpTo(Of(n), n)
  BY GcdUpToExists
<1>2. ASSUME NEW c \in Nat, NEW d \in Nat
      PROVE  f[<<c, d>>] = IF d = 0 THEN c ELSE f[<<d, c % d>>]
  <2>1. f[<<c, d>>] = Of(d)[<<c, d>>]
    OBVIOUS
  <2>2. Of(d)[<<c, d>>] = IF d = 0 THEN c ELSE Of(d)[<<d, c % d>>]
    <3> HIDE DEF Of
    <3>1. IsGcdUpTo(Of(d), d) /\ d \in 0..d
      BY <1>1
    <3>2. QED BY <3>1 DEF IsGcdUpTo
  <2>3. ASSUME d # 0 PROVE f[<<d, c % d>>] = Of(d)[<<d, c % d>>]
    <3>1. c % d \in Nat /\ c % d <= d
      BY <2>3, RemainderIsLess
    <3>2. f[<<d, c % d>>] = Of(c % d)[<<d, c % d>>]
      BY <3>1
    <3> HIDE DEF Of, f
    <3>3. QED BY <1>1, <3>1, <3>2, GcdUpToAgree
  <2> HIDE DEF Of, f
  <2>4. QED BY <2>1, <2>2, <2>3
<1>3. \A p \in Nat \X Nat : f[p] = IF p[2] = 0 THEN p[1] ELSE f[<<p[2], p[1] % p[2]>>]
  <2> HIDE DEF f
  <2>1. QED BY <1>2
<1>4. f = [p \in Nat \X Nat |-> IF p[2] = 0 THEN p[1] ELSE f[<<p[2], p[1] % p[2]>>]]
  BY <1>3
<1> HIDE DEF f
<1>5. gcd = [p \in Nat \X Nat |-> IF p[2] = 0 THEN p[1] ELSE gcd[<<p[2], p[1] % p[2]>>]]
  BY <1>4 DEF gcd
<1>6. QED BY <1>5

\* It divides both numbers.
LEMMA GcdDivides ==
  ASSUME NEW a \in Nat, NEW b \in Nat, a # 0 \/ b # 0
  PROVE  /\ gcd[<<a, b>>] \in Nat \ {0}
         /\ \E q \in Nat, r \in Nat : a = gcd[<<a, b>>] * q /\ b = gcd[<<a, b>>] * r
<1> DEFINE Divides(c, d) == /\ gcd[<<c, d>>] \in Nat \ {0}
                            /\ \E q \in Nat, r \in Nat : c = gcd[<<c, d>>] * q /\ d = gcd[<<c, d>>] * r
           Good == {i \in 0..b : \A c \in Nat : \A d \in 0..i : c # 0 \/ d # 0 => Divides(c, d)}
<1>1. 0 \in Good
  <2>1. ASSUME NEW c \in Nat, c # 0 PROVE Divides(c, 0)
    <3>1. gcd[<<c, 0>>] = c
      BY GcdUnfolds
    <3>2. c = c * 1 /\ 0 = c * 0
      OBVIOUS
    <3>3. QED BY <2>1, <3>1, <3>2
  <2>2. QED BY <2>1
<1>2. ASSUME NEW i \in 1..b, i - 1 \in Good PROVE i \in Good
  <2>1. \A c \in Nat : \A d \in 0..(i - 1) : c # 0 \/ d # 0 => Divides(c, d)
    BY <1>2
  <2>2. ASSUME NEW c \in Nat PROVE Divides(c, i)
    <3>1. PICK g : g = gcd[<<i, c % i>>] OBVIOUS
    <3>2. PICK e \in Nat, t \in Nat : e = c % i /\ e \in 0..(i - 1) /\ c = i * t + e
      <4>1. PICK e \in Nat, t \in Int : e = c % i /\ e \in 0..(i - 1) /\ c = i * t + e
        <5>1. i \in Nat \ {0}
          OBVIOUS
        <5>2. c \div i \in Int /\ c % i \in 0..(i - 1) /\ c = i * (c \div i) + (c % i)
          BY <5>1, RemainderIsLess
        <5>3. PICK e, t : e = c % i /\ t = c \div i OBVIOUS
        <5>4. e \in Nat /\ t \in Int /\ e \in 0..(i - 1) /\ c = i * t + e
          BY <5>2, <5>3
        <5>5. QED BY <5>3, <5>4
      <4>2. ASSUME t <= -1 PROVE FALSE
        <5>1. t * i <= (-1) * i
          BY <4>1, <4>2, MultiplyLeq
        <5>2. QED BY <4>1, <5>1
      <4>3. t \in Nat
        BY <4>1, <4>2
      <4>4. QED BY <4>1, <4>3
    <3>3. gcd[<<c, i>>] = g
      BY <3>1, GcdUnfolds
    <3>4. g \in Nat \ {0} /\ \E q \in Nat, r \in Nat : i = g * q /\ e = g * r
      <4> HIDE DEF Divides
      <4>1. Divides(i, e)
        BY <2>1, <3>2
      <4>2. QED BY <3>1, <3>2, <4>1 DEF Divides
    <3>5. PICK q \in Nat, r \in Nat : i = g * q /\ e = g * r
      BY <3>4
    <3>6. c = g * (q * t + r) /\ q * t + r \in Nat
      <4>1. c = (g * q) * t + g * r
        BY <3>2, <3>5
      <4>2. (g * q) * t + g * r = g * (q * t + r)
        BY <3>4
      <4>3. QED BY <4>1, <4>2
    <3>7. QED BY <3>3, <3>4, <3>5, <3>6
  <2> HIDE DEF Divides
  <2>3. QED BY <2>1, <2>2
<1> HIDE DEF Good
<1>3. b \in Good
  BY <1>1, <1>2, NoLeastCounterexample DEF Good
<1>4. Divides(a, b)
  <2> HIDE DEF Divides
  <2>1. QED BY <1>3 DEF Good
<1>5. QED BY <1>4

LEMMA ExactDivision ==
  ASSUME NEW g \in Nat \ {0}, NEW q \in Int
  PROVE  (g * q) \div g = q
<1>1. PICK d \in Int, r \in Int : d = (g * q) \div g /\ 0 <= r /\ r < g /\ g * q = g * d + r
  BY RemainderIsLess
<1>2. g * (q - d) = r
  BY <1>1
<1>3. ASSUME q - d >= 1 PROVE FALSE
  <2>1. 1 * g <= (q - d) * g
    BY <1>1, <1>3, MultiplyLeq
  <2>2. QED BY <1>1, <1>2, <2>1
<1>4. ASSUME q - d <= -1 PROVE FALSE
  <2>1. (q - d) * g <= (-1) * g
    BY <1>1, <1>4, MultiplyLeq
  <2>2. QED BY <1>1, <1>2, <2>1
<1>5. QED BY <1>1, <1>3, <1>4

-----------------------------------------------------------------------------
(* What number a fraction is. *)

\* x is v / s: two fractions are compared, added and multiplied by what they are at a scale
\* common to both.
At(x, v, s) == /\ x \in Fractional /\ v \in Int /\ s \in Nat \ {0}
               /\ x[1] * s = v * x[2]

LEMMA AtItself ==
  ASSUME NEW x \in Fractional
  PROVE  x[1] \in Int /\ x[2] \in Nat \ {0} /\ At(x, x[1], x[2])
BY DEF At, Fractional

LEMMA AtScaled ==
  ASSUME NEW x, NEW v, NEW s, At(x, v, s), NEW t \in Nat \ {0}
  PROVE  At(x, v * t, s * t)
<1>1. PICK a \in Int, b \in Nat \ {0} : x = <<a, b>>
  BY DEF At, Fractional
<1>2. v \in Int /\ s \in Nat \ {0} /\ a * s = v * b
  BY <1>1 DEF At
<1>3. (a * s) * t = (v * b) * t
  BY <1>2
<1>4. a * (s * t) = (a * s) * t /\ (v * b) * t = (v * t) * b
  BY <1>1, <1>2
<1>5. s * t \in Nat \ {0} /\ v * t \in Int
  BY <1>2, PositiveProduct
<1>6. QED BY <1>1, <1>3, <1>4, <1>5 DEF At, Fractional

LEMMA AtInteger ==
  ASSUME NEW n \in Int, NEW s \in Nat \ {0}
  PROVE  At(<<n, 1>>, n * s, s)
<1>1. n * s = (n * s) * 1 /\ n * s \in Int
  OBVIOUS
<1>2. QED BY <1>1 DEF At, Fractional

LEMMA CommonScale ==
  ASSUME NEW x \in Fractional, NEW y \in Fractional
  PROVE  \E v \in Int, w \in Int, s \in Nat \ {0} : At(x, v, s) /\ At(y, w, s)
<1>1. PICK a \in Int, b \in Nat \ {0} : At(x, a, b)
  BY AtItself
<1>2. PICK c \in Int, d \in Nat \ {0} : At(y, c, d)
  BY AtItself
<1>3. At(x, a * d, b * d)
  BY <1>1, AtScaled
<1>4. At(y, c * b, b * d)
  <2>1. d * b = b * d
    OBVIOUS
  <2>2. At(y, c * b, d * b)
    BY <1>2, AtScaled
  <2>3. QED BY <2>1, <2>2
<1>5. a * d \in Int /\ c * b \in Int /\ b * d \in Nat \ {0}
  BY PositiveProduct
<1>6. QED BY <1>3, <1>4, <1>5

LEMMA CommonScaleOfFour ==
  ASSUME NEW x \in Fractional, NEW y \in Fractional, NEW z \in Fractional, NEW u \in Fractional
  PROVE  \E a \in Int, b \in Int, c \in Int, d \in Int, s \in Nat \ {0} :
           At(x, a, s) /\ At(y, b, s) /\ At(z, c, s) /\ At(u, d, s)
<1>1. PICK a \in Int, b \in Int, s \in Nat \ {0} : At(x, a, s) /\ At(y, b, s)
  BY CommonScale
<1>2. PICK c \in Int, d \in Int, t \in Nat \ {0} : At(z, c, t) /\ At(u, d, t)
  BY CommonScale
<1>3. At(x, a * t, s * t) /\ At(y, b * t, s * t)
  BY <1>1, AtScaled
<1>4. At(z, c * s, s * t) /\ At(u, d * s, s * t)
  <2>1. t * s = s * t
    OBVIOUS
  <2>2. At(z, c * s, t * s) /\ At(u, d * s, t * s)
    BY <1>2, AtScaled
  <2>3. QED BY <2>1, <2>2
<1>5. a * t \in Int /\ b * t \in Int /\ c * s \in Int /\ d * s \in Int /\ s * t \in Nat \ {0}
  BY PositiveProduct
<1>6. QED BY <1>3, <1>4, <1>5

LEMMA CancelFactor ==
  ASSUME NEW v \in Int, NEW w \in Int, NEW d \in Nat \ {0}
  PROVE  /\ v * d = w * d => v = w
         /\ v * d <= w * d => v <= w
<1>1. ASSUME v * d <= w * d, ~(v <= w) PROVE FALSE
  <2>1. (w + 1) * d <= v * d
    BY <1>1, MultiplyLeq
  <2>2. (w + 1) * d = w * d + d
    OBVIOUS
  <2>3. QED BY <1>1, <2>1, <2>2
<1>2. ASSUME w * d <= v * d, ~(w <= v) PROVE FALSE
  <2>1. (v + 1) * d <= w * d
    BY <1>2, MultiplyLeq
  <2>2. (v + 1) * d = v * d + d
    OBVIOUS
  <2>3. QED BY <1>2, <2>1, <2>2
<1>3. v * d \in Int /\ w * d \in Int
  OBVIOUS
<1>4. QED BY <1>1, <1>2, <1>3

LEMMA AtCompares ==
  ASSUME NEW x, NEW y, NEW v, NEW w, NEW s, At(x, v, s), At(y, w, s)
  PROVE  (Leq(x, y) <=> v <= w) /\ (Equal(x, y) <=> v = w)
<1>1. PICK a \in Int, b \in Nat \ {0} : x = <<a, b>>
  BY DEF At, Fractional
<1>2. PICK c \in Int, d \in Nat \ {0} : y = <<c, d>>
  BY DEF At, Fractional
<1>3. v \in Int /\ w \in Int /\ s \in Nat \ {0} /\ a * s = v * b /\ c * s = w * d
  BY <1>1, <1>2 DEF At
<1>4. b * d \in Nat \ {0}
  BY PositiveProduct
<1>5. (a * d) * s = v * (b * d)
  <2>1. (a * d) * s = (a * s) * d /\ (v * b) * d = v * (b * d)
    BY <1>3
  <2>2. QED BY <1>3, <2>1
<1>6. (c * b) * s = w * (b * d)
  <2>1. (c * b) * s = (c * s) * b /\ (w * d) * b = w * (b * d)
    BY <1>3
  <2>2. QED BY <1>3, <2>1
<1>7. PICK e \in Int, f \in Int, g \in Nat \ {0} : e = a * d /\ f = c * b /\ g = b * d
  BY <1>4
<1>8. e * s = v * g /\ f * s = w * g
  BY <1>5, <1>6, <1>7
<1>9. e <= f <=> v <= w
  BY <1>3, <1>8, MultiplyLeq, CancelFactor
<1>10. f <= e <=> w <= v
  BY <1>3, <1>8, MultiplyLeq, CancelFactor
<1>11. Leq(x, y) <=> e <= f
  BY <1>1, <1>2, <1>7 DEF Leq
<1>12. Leq(y, x) <=> f <= e
  BY <1>1, <1>2, <1>7 DEF Leq
<1>13. Equal(x, y) <=> Leq(x, y) /\ Leq(y, x)
  <2>1. x # None /\ y # None
    BY NoFractionIsMissing DEF At
  <2>2. QED BY <2>1 DEF Equal
<1>14. QED BY <1>3, <1>9, <1>10, <1>11, <1>12, <1>13

LEMMA AtPlus ==
  ASSUME NEW x, NEW y, NEW v, NEW w, NEW s, At(x, v, s), At(y, w, s)
  PROVE  At(Plus(x, y), v + w, s)
<1>1. PICK a \in Int, b \in Nat \ {0} : x = <<a, b>>
  BY DEF At, Fractional
<1>2. PICK c \in Int, d \in Nat \ {0} : y = <<c, d>>
  BY DEF At, Fractional
<1>3. v \in Int /\ w \in Int /\ s \in Nat \ {0} /\ a * s = v * b /\ c * s = w * d
  BY <1>1, <1>2 DEF At
<1>4. Plus(x, y) = <<a * d + c * b, b * d>> /\ Plus(x, y) \in Fractional
  BY <1>1, <1>2, PlusIsFraction DEF Plus, At
<1>5. (a * d + c * b) * s = (v + w) * (b * d)
  <2>1. (a * d + c * b) * s = (a * s) * d + (c * s) * b
    BY <1>3
  <2>2. (v * b) * d + (w * d) * b = (v + w) * (b * d)
    BY <1>3
  <2>3. QED BY <1>3, <2>1, <2>2
<1>6. QED BY <1>3, <1>4, <1>5 DEF At

LEMMA AtNeg ==
  ASSUME NEW x, NEW v, NEW s, At(x, v, s)
  PROVE  At(Neg(x), -v, s)
<1>1. PICK a \in Int, b \in Nat \ {0} : x = <<a, b>>
  BY DEF At, Fractional
<1>2. v \in Int /\ s \in Nat \ {0} /\ a * s = v * b
  BY <1>1 DEF At
<1>3. (-a) * s = -(a * s) /\ (-v) * b = -(v * b)
  BY <1>2
<1>4. QED BY <1>1, <1>2, <1>3 DEF At, Neg, Fractional

LEMMA AtTimes ==
  ASSUME NEW x, NEW y, NEW v, NEW w, NEW s, NEW t, At(x, v, s), At(y, w, t)
  PROVE  At(Times(x, y), v * w, s * t)
<1>1. PICK a \in Int, b \in Nat \ {0} : x = <<a, b>>
  BY DEF At, Fractional
<1>2. PICK c \in Int, d \in Nat \ {0} : y = <<c, d>>
  BY DEF At, Fractional
<1>3. /\ v \in Int /\ w \in Int /\ s \in Nat \ {0} /\ t \in Nat \ {0}
      /\ a * s = v * b /\ c * t = w * d
  BY <1>1, <1>2 DEF At
<1>4. (a * c) * (s * t) = (v * w) * (b * d)
  <2>1. (a * c) * (s * t) = (a * s) * (c * t)
    BY <1>3
  <2>2. (v * b) * (w * d) = (v * w) * (b * d)
    BY <1>3
  <2>3. QED BY <1>3, <2>1, <2>2
<1>5. b * d \in Nat \ {0} /\ s * t \in Nat \ {0} /\ a * c \in Int /\ v * w \in Int
  BY <1>3, PositiveProduct
<1>6. QED BY <1>1, <1>2, <1>4, <1>5 DEF At, Times, Fractional

LEMMA ReducedByFactor ==
  ASSUME NEW x \in Fractional
  PROVE  \E g \in Nat \ {0}, q \in Int, r \in Nat \ {0} :
           x = <<g * q, g * r>> /\ Reduced(x) = <<q, r>>
<1>1. PICK a \in Int, b \in Nat \ {0} : x = <<a, b>>
  BY DEF Fractional
<1>2. PICK m \in Nat : m = Magnitude(a) /\ m = IF a < 0 THEN -a ELSE a
  BY DEF Magnitude
<1>3. PICK g : g = gcd[<<m, b>>] OBVIOUS
<1>4. g \in Nat \ {0} /\ \E q \in Nat, r \in Nat : m = g * q /\ b = g * r
  BY <1>3, GcdDivides
<1>5. PICK q \in Nat, r \in Nat : m = g * q /\ b = g * r
  BY <1>4
<1>6. PICK z \in Int : a = g * z
  <2>1. g * (-q) = -(g * q)
    BY <1>4
  <2>2. CASE a < 0
    <3>1. a = g * (-q) /\ -q \in Int
      BY <1>2, <1>4, <1>5, <2>1, <2>2
    <3>2. QED BY <3>1
  <2>3. CASE ~(a < 0)
    BY <1>2, <1>5, <2>3
  <2>4. QED BY <2>2, <2>3
<1>7. r # 0
  BY <1>4, <1>5
<1>8. a \div g = z /\ b \div g = r
  BY <1>4, <1>5, <1>6, ExactDivision
<1>9. Reduced(x) = <<z, r>>
  BY <1>1, <1>2, <1>3, <1>8 DEF Reduced
<1>10. QED BY <1>1, <1>4, <1>5, <1>6, <1>7, <1>9

LEMMA AtReduced ==
  ASSUME NEW x, NEW v, NEW s, At(x, v, s)
  PROVE  At(Reduced(x), v, s)
<1>1. PICK g \in Nat \ {0}, q \in Int, r \in Nat \ {0} :
        x = <<g * q, g * r>> /\ Reduced(x) = <<q, r>>
  BY ReducedByFactor DEF At
<1>2. v \in Int /\ s \in Nat \ {0} /\ (g * q) * s = v * (g * r)
  BY <1>1 DEF At
<1>3. (q * s) * g = (v * r) * g
  <2>1. (g * q) * s = (q * s) * g /\ v * (g * r) = (v * r) * g
    BY <1>2
  <2>2. QED BY <1>2, <2>1
<1>4. q * s = v * r
  <2>1. q * s \in Int /\ v * r \in Int
    BY <1>2
  <2>2. QED BY <1>3, <2>1, CancelFactor
<1>5. QED BY <1>1, <1>2, <1>4 DEF At, Fractional

LEMMA AtMinus ==
  ASSUME NEW x, NEW y, NEW v, NEW w, NEW s, At(x, v, s), At(y, w, s)
  PROVE  At(Minus(x, y), v - w, s)
<1>1. At(Plus(x, Neg(y)), v + (-w), s)
  BY AtNeg, AtPlus
<1>2. v + (-w) = v - w
  BY DEF At
<1>3. QED BY <1>1, <1>2, AtReduced DEF Minus

-----------------------------------------------------------------------------
(* What averages preserve. *)

\* p x + q y <= c.  With one of p and q zero this bounds a value, with p = -q it orders two,
\* and both ways with p = q it says what they add up to.
Linear(x, y, p, q, c) == (p * x[1]) * y[2] + (q * y[1]) * x[2] <= c * (x[2] * y[2])

LEMMA LinearAt ==
  ASSUME NEW x, NEW y, NEW v, NEW w, NEW s, At(x, v, s), At(y, w, s),
         NEW p \in Int, NEW q \in Int, NEW c \in Int
  PROVE  Linear(x, y, p, q, c) <=> p * v + q * w <= c * s
<1>1. PICK a \in Int, b \in Nat \ {0} : x = <<a, b>>
  BY DEF At, Fractional
<1>2. PICK e \in Int, d \in Nat \ {0} : y = <<e, d>>
  BY DEF At, Fractional
<1>3. v \in Int /\ w \in Int /\ s \in Nat \ {0} /\ a * s = v * b /\ e * s = w * d
  BY <1>1, <1>2 DEF At
<1>4. PICK f \in Int, g \in Nat \ {0} : f = (p * a) * d + (q * e) * b /\ g = b * d
  BY PositiveProduct
<1>5. f * s = (p * v + q * w) * g
  <2>1. f * s = (p * d) * (a * s) + (q * b) * (e * s)
    BY <1>3, <1>4
  <2>2. (p * d) * (v * b) + (q * b) * (w * d) = (p * v + q * w) * (b * d)
    BY <1>3
  <2>3. QED BY <1>3, <1>4, <2>1, <2>2
<1>6. (c * g) * s = (c * s) * g
  BY <1>3
<1>7. PICK l \in Int, r \in Int, t \in Int : l = p * v + q * w /\ r = c * s /\ t = c * g
  BY <1>3
<1>8. f <= t <=> l <= r
  <2>1. f * s = l * g /\ t * s = r * g
    BY <1>5, <1>6, <1>7
  <2>2. QED BY <1>3, <1>7, <2>1, MultiplyLeq, CancelFactor
<1>9. QED BY <1>1, <1>2, <1>4, <1>7, <1>8 DEF Linear

LEMMA LinearPlus ==
  ASSUME NEW x \in Fractional, NEW y \in Fractional, NEW z \in Fractional, NEW u \in Fractional,
         NEW p \in Int, NEW q \in Int, NEW c \in Int, NEW e \in Int,
         Linear(x, y, p, q, c), Linear(z, u, p, q, e)
  PROVE  Linear(Plus(x, z), Plus(y, u), p, q, c + e)
<1>1. PICK a \in Int, b \in Int, f \in Int, d \in Int, s \in Nat \ {0} :
        At(x, a, s) /\ At(y, b, s) /\ At(z, f, s) /\ At(u, d, s)
  BY CommonScaleOfFour
<1>2. p * a + q * b <= c * s /\ p * f + q * d <= e * s
  BY <1>1, LinearAt
<1>3. p * (a + f) + q * (b + d) <= (c + e) * s
  <2>1. p * (a + f) + q * (b + d) = (p * a + q * b) + (p * f + q * d)
    OBVIOUS
  <2>2. (c + e) * s = c * s + e * s
    OBVIOUS
  <2>3. QED BY <1>2, <2>1, <2>2
<1>4. At(Plus(x, z), a + f, s) /\ At(Plus(y, u), b + d, s)
  BY <1>1, AtPlus
<1>5. PICK t \in Int : t = c + e
  OBVIOUS
<1>6. p * (a + f) + q * (b + d) <= t * s
  BY <1>3, <1>5
<1>7. Linear(Plus(x, z), Plus(y, u), p, q, t)
  BY <1>4, <1>6, LinearAt
<1>8. QED BY <1>5, <1>7

LEMMA SumLinear ==
  ASSUME NEW xs \in Seq(Fractional), NEW ys \in Seq(Fractional), Len(ys) = Len(xs),
         NEW p \in Int, NEW q \in Int, NEW c \in Int,
         \A i \in 1..Len(xs) : Linear(xs[i], ys[i], p, q, c)
  PROVE  Linear(Sum(xs), Sum(ys), p, q, Len(xs) * c)
<1>1. PICK n \in Nat : n = Len(xs)
  OBVIOUS
<1>2. PICK g : /\ Sum(xs) = g[n] /\ g[0] = Zero
               /\ \A i \in 1..n : g[i] = Plus(g[i - 1], xs[i])
  BY <1>1, SumIsLast
<1>3. PICK h : /\ Sum(ys) = h[n] /\ h[0] = Zero
               /\ \A i \in 1..n : h[i] = Plus(h[i - 1], ys[i])
  BY <1>1, SumIsLast
<1>4. \A i \in 1..n : xs[i] \in Fractional /\ ys[i] \in Fractional
  BY <1>1, ElementOfSeq
<1> DEFINE Good == {i \in 0..n : /\ g[i] \in Fractional /\ h[i] \in Fractional
                                 /\ Linear(g[i], h[i], p, q, i * c)}
<1>5. 0 \in Good
  <2>1. Linear(Zero, Zero, p, q, 0 * c)
    <3>1. At(Zero, 0, 1) /\ 0 * c \in Int /\ p * 0 + q * 0 <= (0 * c) * 1
      BY DEF At, Zero, Fractional
    <3>2. QED BY <3>1, LinearAt
  <2>2. QED BY <1>2, <1>3, <2>1, ZeroIsFraction
<1>6. ASSUME NEW i \in 1..n, i - 1 \in Good PROVE i \in Good
  <2>1. g[i - 1] \in Fractional /\ h[i - 1] \in Fractional
        /\ Linear(g[i - 1], h[i - 1], p, q, (i - 1) * c)
    BY <1>6
  <2>2. (i - 1) * c \in Int /\ (i - 1) * c + c = i * c
    OBVIOUS
  <2>3. Linear(xs[i], ys[i], p, q, c)
    BY <1>1
  <2>4. Linear(Plus(g[i - 1], xs[i]), Plus(h[i - 1], ys[i]), p, q, (i - 1) * c + c)
    BY <1>4, <2>1, <2>2, <2>3, LinearPlus
  <2>5. QED BY <1>2, <1>3, <1>4, <2>1, <2>2, <2>4, PlusIsFraction
<1> HIDE DEF Good
<1>7. n \in Good
  BY <1>5, <1>6, NoLeastCounterexample DEF Good
<1>8. QED BY <1>1, <1>2, <1>3, <1>7 DEF Good

LEMMA AtMean ==
  ASSUME NEW xs \in Seq(Fractional), Len(xs) # 0, NEW v, NEW s, At(Sum(xs), v, s)
  PROVE  At(Mean(xs), v, s * Len(xs)) /\ Mean(xs) \in Fractional
<1>1. At(<<1, Len(xs)>>, 1, Len(xs))
  BY DEF At, Fractional
<1>2. At(Times(Sum(xs), <<1, Len(xs)>>), v, s * Len(xs))
  <2>1. v * 1 = v
    BY DEF At
  <2>2. At(Times(Sum(xs), <<1, Len(xs)>>), v * 1, s * Len(xs))
    BY <1>1, AtTimes
  <2>3. QED BY <2>1, <2>2
<1>3. At(Mean(xs), v, s * Len(xs))
  BY <1>2, AtReduced DEF Mean
<1>4. QED BY <1>3 DEF At

LEMMA MeanIsFraction ==
  ASSUME NEW xs \in Seq(Fractional), Len(xs) # 0
  PROVE  Mean(xs) \in Fractional
BY SumIsFraction, AtItself, AtMean

LEMMA MeanLinear ==
  ASSUME NEW xs \in Seq(Fractional), NEW ys \in Seq(Fractional), Len(xs) # 0, Len(ys) = Len(xs),
         NEW p \in Int, NEW q \in Int, NEW c \in Int,
         \A i \in 1..Len(xs) : Linear(xs[i], ys[i], p, q, c)
  PROVE  Linear(Mean(xs), Mean(ys), p, q, c)
<1>1. PICK n \in Nat \ {0} : n = Len(xs)
  OBVIOUS
<1>2. PICK v \in Int, w \in Int, s \in Nat \ {0} : At(Sum(xs), v, s) /\ At(Sum(ys), w, s)
  BY SumIsFraction, CommonScale
<1>3. Linear(Sum(xs), Sum(ys), p, q, n * c)
  <2>1. Linear(Sum(xs), Sum(ys), p, q, Len(xs) * c)
    BY SumLinear
  <2>2. QED BY <1>1, <2>1
<1>4. PICK t \in Int : t = n * c
  OBVIOUS
<1>5. p * v + q * w <= t * s /\ t * s = c * (s * n)
  BY <1>2, <1>3, <1>4, LinearAt
<1>6. At(Mean(xs), v, s * n) /\ At(Mean(ys), w, s * n)
  <2>1. At(Mean(xs), v, s * Len(xs))
    BY <1>2, AtMean
  <2>2. At(Mean(ys), w, s * Len(ys))
    BY <1>2, AtMean
  <2>3. QED BY <1>1, <2>1, <2>2
<1>7. PICK d : d = s * n OBVIOUS
<1>8. p * v + q * w <= c * d
  BY <1>5, <1>7
<1>9. At(Mean(xs), v, d) /\ At(Mean(ys), w, d)
  BY <1>6, <1>7
<1>10. QED BY <1>8, <1>9, LinearAt

\* What the average a becomes with the value x.
Toward(a, x, k) == Reduced(Plus(a, Times(Minus(x, a), k)))

\* Of the newest value an average takes no more than all.
Shares == {k \in Nat \X (Nat \ {0}) : k[1] <= k[2]}

LEMMA AtToward ==
  ASSUME NEW a, NEW x, NEW v, NEW w, NEW s, At(a, v, s), At(x, w, s), NEW k \in Shares
  PROVE  /\ At(Toward(a, x, k), v * k[2] + (w - v) * k[1], s * k[2])
         /\ Toward(a, x, k) \in Fractional
<1>1. At(k, k[1], k[2]) /\ k[2] \in Nat \ {0} /\ k[1] \in Int
  BY DEF At, Fractional, Shares
<1>2. At(Minus(x, a), w - v, s)
  BY AtMinus
<1>3. At(Times(Minus(x, a), k), (w - v) * k[1], s * k[2])
  BY <1>1, <1>2, AtTimes
<1>4. At(a, v * k[2], s * k[2])
  BY <1>1, AtScaled
<1>5. At(Toward(a, x, k), v * k[2] + (w - v) * k[1], s * k[2])
  BY <1>3, <1>4, AtPlus, AtReduced DEF Toward
<1>6. QED BY <1>5 DEF At

LEMMA TowardIsFraction ==
  ASSUME NEW a \in Fractional, NEW x \in Fractional, NEW k \in Shares
  PROVE  Toward(a, x, k) \in Fractional
BY CommonScale, AtToward

LEMMA TowardLinear ==
  ASSUME NEW a \in Fractional, NEW x \in Fractional, NEW b \in Fractional, NEW y \in Fractional,
         NEW p \in Int, NEW q \in Int, NEW c \in Int, NEW k \in Shares,
         Linear(a, b, p, q, c), Linear(x, y, p, q, c)
  PROVE  Linear(Toward(a, x, k), Toward(b, y, k), p, q, c)
<1>1. PICK v \in Int, w \in Int, e \in Int, f \in Int, s \in Nat \ {0} :
        At(a, v, s) /\ At(b, w, s) /\ At(x, e, s) /\ At(y, f, s)
  BY CommonScaleOfFour
<1>2. PICK l \in Nat, m \in Nat \ {0}, r \in Nat : k = <<l, m>> /\ m = l + r
  <2>1. PICK l \in Nat, m \in Nat \ {0} : k = <<l, m>> /\ l <= m
    BY DEF Shares
  <2>2. m - l \in Nat /\ m = l + (m - l)
    BY <2>1
  <2>3. QED BY <2>1, <2>2
<1>3. /\ At(Toward(a, x, k), v * m + (e - v) * l, s * m)
      /\ At(Toward(b, y, k), w * m + (f - w) * l, s * m)
  BY <1>1, <1>2, AtToward
<1>4. p * v + q * w <= c * s /\ p * e + q * f <= c * s
  BY <1>1, LinearAt
<1>5. PICK g \in Int, h \in Int, t \in Int : g = p * v + q * w /\ h = p * e + q * f /\ t = c * s
  OBVIOUS
<1>6. g * r + h * l <= t * m
  <2>1. g * r <= t * r /\ h * l <= t * l
    BY <1>4, <1>5, MultiplyLeq
  <2>2. t * m = t * r + t * l
    BY <1>2
  <2>3. g * r \in Int /\ h * l \in Int /\ t * r \in Int /\ t * l \in Int
    OBVIOUS
  <2>4. QED BY <2>1, <2>2, <2>3
<1>7. p * (v * m + (e - v) * l) + q * (w * m + (f - w) * l) = g * r + h * l
  <2>1. v * m + (e - v) * l = v * r + e * l /\ w * m + (f - w) * l = w * r + f * l
    BY <1>2
  <2>2. p * (v * r + e * l) + q * (w * r + f * l) = (p * v + q * w) * r + (p * e + q * f) * l
    OBVIOUS
  <2>3. QED BY <1>5, <2>1, <2>2
<1>8. t * m = c * (s * m)
  <2>1. (c * s) * m = c * (s * m)
    OBVIOUS
  <2>2. QED BY <1>5, <2>1
<1>9. PICK i, j, d : i = v * m + (e - v) * l /\ j = w * m + (f - w) * l /\ d = s * m
  OBVIOUS
<1>10. At(Toward(a, x, k), i, d) /\ At(Toward(b, y, k), j, d)
  BY <1>3, <1>9
<1>11. p * i + q * j <= c * d
  BY <1>6, <1>7, <1>8, <1>9
<1>12. QED BY <1>10, <1>11, LinearAt

-----------------------------------------------------------------------------
(* Averages that move. *)

IsAverage(g, values, period, k, n) ==
  g = [i \in period..n |-> IF i = period THEN Mean(SubSeq(values, 1, period))
                           ELSE Toward(g[i - 1], values[i], k)]

LEMMA AverageExists ==
  ASSUME NEW values, NEW k, NEW period \in Nat \ {0}, NEW n \in Nat
  PROVE  \E g : IsAverage(g, values, period, k, n)
<1> DEFINE Good == {i \in 0..n : \E g : IsAverage(g, values, period, k, i)}
<1>1. 0 \in Good
  <2>1. IsAverage([i \in period..0 |-> 0], values, period, k, 0)
    BY DEF IsAverage
  <2>2. QED BY <2>1
<1>2. ASSUME NEW m \in 1..n, m - 1 \in Good PROVE m \in Good
  <2>1. PICK h : IsAverage(h, values, period, k, m - 1)
    BY <1>2
  <2> DEFINE g == [i \in period..m |->
                     IF i = period THEN Mean(SubSeq(values, 1, period))
                     ELSE IF i = m THEN Toward(h[m - 1], values[m], k) ELSE h[i]]
  <2>2. ASSUME NEW i \in period..m
        PROVE  g[i] = IF i = period THEN Mean(SubSeq(values, 1, period))
                      ELSE Toward(g[i - 1], values[i], k)
    <3>1. CASE i = period
      BY <3>1
    <3>2. CASE i # period /\ i # m
      <4>1. i \in period..(m - 1) /\ i - 1 \in period..m /\ i - 1 \in period..(m - 1) /\ i - 1 # m
        BY <3>2
      <4>2. h[i] = Toward(h[i - 1], values[i], k)
        BY <2>1, <3>2, <4>1 DEF IsAverage
      <4>3. g[i - 1] = h[i - 1]
        BY <2>1, <4>1 DEF IsAverage
      <4>4. g[i] = h[i]
        BY <3>2
      <4>5. QED BY <3>2, <4>2, <4>3, <4>4
    <3>3. CASE i # period /\ i = m
      <4>1. i - 1 \in period..m /\ i - 1 \in period..(m - 1) /\ i - 1 # m
        BY <3>3
      <4>2. g[i - 1] = h[i - 1]
        BY <2>1, <4>1 DEF IsAverage
      <4>3. g[i] = Toward(h[m - 1], values[m], k)
        BY <3>3
      <4>4. QED BY <3>3, <4>2, <4>3
    <3>4. QED BY <3>1, <3>2, <3>3
  <2>3. IsAverage(g, values, period, k, m)
    BY <2>2 DEF IsAverage
  <2>4. QED BY <2>3
<1> HIDE DEF Good
<1>3. n \in Good
  BY <1>1, <1>2, NoLeastCounterexample DEF Good
<1>4. QED BY <1>3 DEF Good

LEMMA SmoothedUnfolds ==
  ASSUME NEW values, Len(values) \in Nat, NEW k, NEW period \in Nat \ {0}, period <= Len(values)
  PROVE  LET g == Smoothed(values, period, k)
         IN /\ g[period] = Mean(SubSeq(values, 1, period))
            /\ \A i \in (period + 1)..Len(values) : g[i] = Toward(g[i - 1], values[i], k)
<1> DEFINE g == CHOOSE g : IsAverage(g, values, period, k, Len(values))
<1>1. IsAverage(g, values, period, k, Len(values))
  BY AverageExists
<1>2. Smoothed(values, period, k) = g
  BY DEF Smoothed, IsAverage, Toward
<1> HIDE DEF g
<1>3. \A i \in period..Len(values) :
        g[i] = IF i = period THEN Mean(SubSeq(values, 1, period)) ELSE Toward(g[i - 1], values[i], k)
  BY <1>1 DEF IsAverage
<1>4. \A i \in (period + 1)..Len(values) : i \in period..Len(values) /\ i # period
  OBVIOUS
<1>5. QED BY <1>2, <1>3, <1>4

LEMMA Seed ==
  ASSUME NEW values \in Seq(Fractional), NEW period \in Nat \ {0}, period <= Len(values)
  PROVE  LET seed == SubSeq(values, 1, period)
         IN /\ seed \in Seq(Fractional) /\ Len(seed) = period
            /\ \A i \in 1..period : seed[i] = values[i] /\ i \in 1..Len(values)
            /\ Mean(seed) \in Fractional
<1>1. PICK seed : seed = SubSeq(values, 1, period) OBVIOUS
<1>2. seed \in Seq(Fractional) /\ Len(seed) = period /\ \A i \in 1..period : seed[i] = values[i]
  <2>1. /\ \A i \in 1..period : values[i] \in Fractional
        /\ seed = [i \in 1..period |-> values[i]]
    <3>1. Len(values) \in Nat /\ \A i \in 1..period : i \in 1..Len(values) /\ 1 + i - 1 = i
      OBVIOUS
    <3>2. QED BY <1>1, <3>1, ElementOfSeq
  <2>2. QED BY <2>1
<1>3. \A i \in 1..period : i \in 1..Len(values)
  OBVIOUS
<1>4. QED BY <1>1, <1>2, <1>3, MeanIsFraction

LEMMA SmoothedLinear ==
  ASSUME NEW xs \in Seq(Fractional), NEW ys \in Seq(Fractional), Len(ys) = Len(xs),
         NEW p \in Int, NEW q \in Int, NEW c \in Int, NEW k \in Shares,
         NEW period \in Nat \ {0}, period <= Len(xs),
         \A i \in 1..Len(xs) : Linear(xs[i], ys[i], p, q, c)
  PROVE  \A i \in period..Len(xs) :
           /\ Smoothed(xs, period, k)[i] \in Fractional
           /\ Smoothed(ys, period, k)[i] \in Fractional
           /\ Linear(Smoothed(xs, period, k)[i], Smoothed(ys, period, k)[i], p, q, c)
<1>1. PICK n \in Nat : n = Len(xs)
  OBVIOUS
<1>2. PICK g : /\ g = Smoothed(xs, period, k)
               /\ g[period] = Mean(SubSeq(xs, 1, period))
               /\ \A i \in (period + 1)..n : g[i] = Toward(g[i - 1], xs[i], k)
  BY <1>1, SmoothedUnfolds
<1>3. PICK h : /\ h = Smoothed(ys, period, k)
               /\ h[period] = Mean(SubSeq(ys, 1, period))
               /\ \A i \in (period + 1)..n : h[i] = Toward(h[i - 1], ys[i], k)
  BY <1>1, SmoothedUnfolds
<1>4. \A i \in 1..n : xs[i] \in Fractional /\ ys[i] \in Fractional
  BY <1>1, ElementOfSeq
<1> DEFINE Holds(i) == g[i] \in Fractional /\ h[i] \in Fractional /\ Linear(g[i], h[i], p, q, c)
<1>5. Holds(period)
  <2>1. PICK us \in Seq(Fractional) :
          us = SubSeq(xs, 1, period) /\ Len(us) = period /\ \A i \in 1..period : us[i] = xs[i]
    BY Seed
  <2>2. PICK vs \in Seq(Fractional) :
          vs = SubSeq(ys, 1, period) /\ Len(vs) = period /\ \A i \in 1..period : vs[i] = ys[i]
    BY Seed
  <2>3. \A i \in 1..period : Linear(us[i], vs[i], p, q, c)
    BY <1>1, <2>1, <2>2
  <2>4. Mean(us) \in Fractional /\ Mean(vs) \in Fractional
    BY <2>1, <2>2, MeanIsFraction
  <2>5. Linear(Mean(us), Mean(vs), p, q, c)
    <3>1. Len(us) # 0 /\ Len(vs) = Len(us) /\ \A i \in 1..Len(us) : Linear(us[i], vs[i], p, q, c)
      BY <2>1, <2>2, <2>3
    <3>2. QED BY <3>1, MeanLinear
  <2>6. g[period] = Mean(us) /\ h[period] = Mean(vs)
    BY <1>2, <1>3, <2>1, <2>2
  <2>7. QED BY <2>4, <2>5, <2>6
<1>6. ASSUME NEW i \in (period + 1)..n, Holds(i - 1) PROVE Holds(i)
  <2>1. i \in 1..n
    OBVIOUS
  <2>2. g[i] = Toward(g[i - 1], xs[i], k) /\ h[i] = Toward(h[i - 1], ys[i], k)
    BY <1>2, <1>3
  <2>3. g[i] \in Fractional /\ h[i] \in Fractional
    BY <1>4, <1>6, <2>1, <2>2, TowardIsFraction
  <2>4. Linear(xs[i], ys[i], p, q, c)
    BY <1>1, <2>1
  <2>5. PICK a, b, x, y : a = g[i - 1] /\ b = h[i - 1] /\ x = xs[i] /\ y = ys[i]
    OBVIOUS
  <2>6. /\ a \in Fractional /\ b \in Fractional /\ x \in Fractional /\ y \in Fractional
        /\ Linear(a, b, p, q, c) /\ Linear(x, y, p, q, c)
    BY <1>4, <1>6, <2>1, <2>4, <2>5
  <2>7. Linear(Toward(a, x, k), Toward(b, y, k), p, q, c)
    BY <2>6, TowardLinear
  <2>8. QED BY <2>2, <2>3, <2>5, <2>7
<1> HIDE DEF Holds
<1>7. ASSUME NEW j \in period..n PROVE Holds(j)
  <2> DEFINE Good == {d \in 0..(j - period) : Holds(period + d)}
  <2>1. j - period \in Nat /\ period + 0 = period /\ period + (j - period) = j
    OBVIOUS
  <2>2. 0 \in Good
    BY <1>5, <2>1
  <2>3. ASSUME NEW d \in 1..(j - period), d - 1 \in Good PROVE d \in Good
    <3>1. period + d \in (period + 1)..n /\ (period + d) - 1 = period + (d - 1)
      OBVIOUS
    <3>2. QED BY <1>6, <2>3, <3>1
  <2> HIDE DEF Good
  <2>4. j - period \in Good
    BY <2>1, <2>2, <2>3, NoLeastCounterexample DEF Good
  <2>5. QED BY <2>1, <2>4 DEF Good
<1>8. QED BY <1>1, <1>2, <1>3, <1>7 DEF Holds

-----------------------------------------------------------------------------
(* What Linear says, and sequences of numbers. *)

LEMMA AtHasSign ==
  ASSUME NEW x, NEW v, NEW s, At(x, v, s)
  PROVE  /\ x[1] >= 0 <=> v >= 0
         /\ x[1] = 0 <=> v = 0
<1>1. PICK a \in Int, b \in Nat \ {0} : x = <<a, b>>
  BY DEF At, Fractional
<1>2. v \in Int /\ s \in Nat \ {0} /\ a * s = v * b
  BY <1>1 DEF At
<1>3. 0 * s = 0 /\ 0 * b = 0
  BY <1>2
<1>4. a >= 0 <=> v >= 0
  <2>1. a >= 0 <=> 0 * s <= a * s
    BY <1>2, MultiplyLeq, CancelFactor
  <2>2. v >= 0 <=> 0 * b <= v * b
    BY <1>2, MultiplyLeq, CancelFactor
  <2>3. QED BY <1>2, <1>3, <2>1, <2>2
<1>5. 0 >= a <=> 0 >= v
  <2>1. 0 >= a <=> a * s <= 0 * s
    BY <1>2, MultiplyLeq, CancelFactor
  <2>2. 0 >= v <=> v * b <= 0 * b
    BY <1>2, MultiplyLeq, CancelFactor
  <2>3. QED BY <1>2, <1>3, <2>1, <2>2
<1>6. QED BY <1>1, <1>2, <1>4, <1>5

LEMMA AtUnscaled ==
  ASSUME NEW x, NEW v \in Int, NEW s \in Nat \ {0}, NEW t \in Nat \ {0}, At(x, v * t, s * t)
  PROVE  At(x, v, s)
<1>1. PICK a \in Int, b \in Nat \ {0} : x = <<a, b>>
  BY DEF At, Fractional
<1>2. a * (s * t) = (v * t) * b
  BY <1>1 DEF At
<1>3. (a * s) * t = (v * b) * t
  <2>1. a * (s * t) = (a * s) * t /\ (v * t) * b = (v * b) * t
    OBVIOUS
  <2>2. QED BY <1>2, <2>1
<1>4. a * s = v * b
  <2>1. a * s \in Int /\ v * b \in Int
    OBVIOUS
  <2>2. QED BY <1>3, <2>1, CancelFactor
<1>5. QED BY <1>1, <1>4 DEF At, Fractional

LEMMA LinearOrders ==
  ASSUME NEW x \in Fractional, NEW y \in Fractional
  PROVE  /\ Linear(x, y, 1, -1, 0) <=> Leq(x, y)
         /\ Linear(x, y, -1, 1, 0) <=> Leq(y, x)
         /\ Equal(x, y) <=> Leq(x, y) /\ Leq(y, x)
<1>1. PICK v \in Int, w \in Int, s \in Nat \ {0} : At(x, v, s) /\ At(y, w, s)
  BY CommonScale
<1>2. Linear(x, y, 1, -1, 0) <=> v <= w
  <2>1. Linear(x, y, 1, -1, 0) <=> 1 * v + (-1) * w <= 0 * s
    BY <1>1, LinearAt
  <2>2. QED BY <2>1
<1>3. Linear(x, y, -1, 1, 0) <=> w <= v
  <2>1. Linear(x, y, -1, 1, 0) <=> (-1) * v + 1 * w <= 0 * s
    BY <1>1, LinearAt
  <2>2. QED BY <2>1
<1>4. (Leq(x, y) <=> v <= w) /\ (Leq(y, x) <=> w <= v) /\ (Equal(x, y) <=> v = w)
  BY <1>1, AtCompares
<1>5. QED BY <1>2, <1>3, <1>4

\* x and y add up to the whole number c.
SumsTo(x, y, c) == Linear(x, y, 1, 1, c) /\ Linear(x, y, -1, -1, -c)

LEMMA SumsToAt ==
  ASSUME NEW x, NEW y, NEW v, NEW w, NEW s, At(x, v, s), At(y, w, s), NEW c \in Int
  PROVE  SumsTo(x, y, c) <=> v + w = c * s
<1>1. v \in Int /\ w \in Int /\ s \in Nat \ {0}
  BY DEF At
<1>2. Linear(x, y, 1, 1, c) <=> 1 * v + 1 * w <= c * s
  BY LinearAt
<1>3. Linear(x, y, -1, -1, -c) <=> (-1) * v + (-1) * w <= (-c) * s
  BY LinearAt
<1>4. (-c) * s = -(c * s) /\ c * s \in Int
  BY <1>1
<1>5. QED BY <1>1, <1>2, <1>3, <1>4 DEF SumsTo

LEMMA SumsToEqual ==
  ASSUME NEW x \in Fractional, NEW y \in Fractional, NEW c \in Int, SumsTo(x, y, c)
  PROVE  Equal(y, Plus(<<c, 1>>, Neg(x)))
<1>1. PICK v \in Int, w \in Int, s \in Nat \ {0} : At(x, v, s) /\ At(y, w, s)
  BY CommonScale
<1>2. v + w = c * s
  BY <1>1, SumsToAt
<1>3. PICK d \in Int : d = c * s
  OBVIOUS
<1>4. At(<<c, 1>>, d, s)
  BY <1>3, AtInteger
<1>5. At(Plus(<<c, 1>>, Neg(x)), d + (-v), s)
  BY <1>1, <1>4, AtNeg, AtPlus
<1>6. w = d + (-v)
  BY <1>2, <1>3
<1>7. QED BY <1>1, <1>5, <1>6, AtCompares

LEMMA MinusSumsTo ==
  ASSUME NEW x \in Fractional, NEW y \in Fractional, NEW z \in Fractional, NEW u \in Fractional,
         NEW c \in Int, SumsTo(x, y, c), SumsTo(z, u, c)
  PROVE  /\ SumsTo(Minus(x, z), Minus(y, u), 0)
         /\ Minus(x, z) \in Fractional /\ Minus(y, u) \in Fractional
<1>1. PICK a \in Int, b \in Int, f \in Int, d \in Int, s \in Nat \ {0} :
        At(x, a, s) /\ At(y, b, s) /\ At(z, f, s) /\ At(u, d, s)
  BY CommonScaleOfFour
<1>2. a + b = c * s /\ f + d = c * s
  BY <1>1, SumsToAt
<1>3. At(Minus(x, z), a - f, s) /\ At(Minus(y, u), b - d, s)
  BY <1>1, AtMinus
<1>4. (a - f) + (b - d) = 0 * s
  <2>1. (a - f) + (b - d) = (a + b) - (f + d) /\ 0 * s = 0 /\ c * s \in Int
    OBVIOUS
  <2>2. QED BY <1>2, <2>1
<1>5. SumsTo(Minus(x, z), Minus(y, u), 0)
  BY <1>3, <1>4, SumsToAt
<1>6. QED BY <1>3, <1>5 DEF At

LEMMA FractionsOf ==
  ASSUME NEW ns \in Seq(Int)
  PROVE  /\ Fractions(ns) \in Seq(Fractional) /\ Len(Fractions(ns)) = Len(ns)
         /\ \A i \in 1..Len(ns) : ns[i] \in Int /\ Fractions(ns)[i] = <<ns[i], 1>>
<1>1. \A i \in 1..Len(ns) : ns[i] \in Int /\ <<ns[i], 1>> \in Fractional
  BY ElementOfSeq DEF Fractional
<1>2. Fractions(ns) = [i \in 1..Len(ns) |-> <<ns[i], 1>>]
  BY DEF Fractions
<1>3. QED BY <1>1, <1>2

LEMMA LinearOfNumbers ==
  ASSUME NEW m \in Int, NEW n \in Int, NEW p \in Int, NEW q \in Int, NEW c \in Int
  PROVE  Linear(<<m, 1>>, <<n, 1>>, p, q, c) <=> p * m + q * n <= c
<1>1. At(<<m, 1>>, m, 1) /\ At(<<n, 1>>, n, 1)
  BY DEF At, Fractional
<1>2. Linear(<<m, 1>>, <<n, 1>>, p, q, c) <=> p * m + q * n <= c * 1
  BY <1>1, LinearAt
<1>3. QED BY <1>2

\* What holds of every pair of numbers holds of their averages.
LEMMA AveragesLinear ==
  ASSUME NEW ns \in Seq(Int), NEW ms \in Seq(Int), Len(ms) = Len(ns),
         NEW p \in Int, NEW q \in Int, NEW c \in Int, NEW k \in Shares,
         NEW period \in Nat \ {0}, period <= Len(ns),
         \A i \in 1..Len(ns) : p * ns[i] + q * ms[i] <= c
  PROVE  \A i \in period..Len(ns) :
           /\ Smoothed(Fractions(ns), period, k)[i] \in Fractional
           /\ Smoothed(Fractions(ms), period, k)[i] \in Fractional
           /\ Linear(Smoothed(Fractions(ns), period, k)[i], Smoothed(Fractions(ms), period, k)[i], p, q, c)
<1>1. PICK xs \in Seq(Fractional), ys \in Seq(Fractional) :
        /\ xs = Fractions(ns) /\ ys = Fractions(ms) /\ Len(xs) = Len(ns) /\ Len(ys) = Len(ns)
        /\ \A i \in 1..Len(ns) : /\ ns[i] \in Int /\ xs[i] = <<ns[i], 1>>
                                 /\ ms[i] \in Int /\ ys[i] = <<ms[i], 1>>
  BY FractionsOf
<1>2. \A i \in 1..Len(xs) : Linear(xs[i], ys[i], p, q, c)
  <2> SUFFICES ASSUME NEW i \in 1..Len(ns) PROVE Linear(xs[i], ys[i], p, q, c)
    BY <1>1
  <2>1. PICK m \in Int, n \in Int : m = ns[i] /\ n = ms[i] /\ xs[i] = <<m, 1>> /\ ys[i] = <<n, 1>>
    BY <1>1
  <2>2. p * ns[i] + q * ms[i] <= c
    OBVIOUS
  <2>3. p * m + q * n <= c
    BY ONLY <2>1, <2>2
  <2>4. QED BY <2>1, <2>3, LinearOfNumbers
<1>3. \A i \in period..Len(xs) :
        /\ Smoothed(xs, period, k)[i] \in Fractional
        /\ Smoothed(ys, period, k)[i] \in Fractional
        /\ Linear(Smoothed(xs, period, k)[i], Smoothed(ys, period, k)[i], p, q, c)
  <2>1. Len(ys) = Len(xs) /\ period <= Len(xs)
    BY <1>1
  <2>2. QED BY <1>2, <2>1, SmoothedLinear
<1>4. QED BY <1>1, <1>3

LEMMA WilderLinear ==
  ASSUME NEW ns \in Seq(Int), NEW ms \in Seq(Int), Len(ms) = Len(ns),
         NEW p \in Int, NEW q \in Int, NEW c \in Int,
         NEW period \in Nat \ {0}, period <= Len(ns),
         \A i \in 1..Len(ns) : p * ns[i] + q * ms[i] <= c
  PROVE  /\ Wilder(ns, period) \in Fractional /\ Wilder(ms, period) \in Fractional
         /\ Linear(Wilder(ns, period), Wilder(ms, period), p, q, c)
<1>1. <<1, period>> \in Shares
  BY DEF Shares
<1>2. Len(ns) \in period..Len(ns)
  OBVIOUS
<1>3. QED BY <1>1, <1>2, AveragesLinear DEF Wilder

LEMMA WilderOrdered ==
  ASSUME NEW ns \in Seq(Int), NEW ms \in Seq(Int), Len(ms) = Len(ns),
         NEW period \in Nat \ {0}, period <= Len(ns),
         \A i \in 1..Len(ns) : ns[i] <= ms[i]
  PROVE  /\ Wilder(ns, period) \in Fractional /\ Wilder(ms, period) \in Fractional
         /\ Leq(Wilder(ns, period), Wilder(ms, period))
<1>1. PICK p \in Int, q \in Int, c \in Int : p = 1 /\ q = -1 /\ c = 0
  OBVIOUS
<1>2. \A i \in 1..Len(ns) : p * ns[i] + q * ms[i] <= c
  <2> SUFFICES ASSUME NEW i \in 1..Len(ns) PROVE p * ns[i] + q * ms[i] <= c
    OBVIOUS
  <2>1. ns[i] \in Int /\ ms[i] \in Int /\ ns[i] <= ms[i]
    BY ElementOfSeq
  <2>2. QED BY <1>1, <2>1
<1>3. /\ Wilder(ns, period) \in Fractional /\ Wilder(ms, period) \in Fractional
      /\ Linear(Wilder(ns, period), Wilder(ms, period), p, q, c)
  BY <1>2, WilderLinear
<1>4. QED BY <1>1, <1>3, LinearOrders

-----------------------------------------------------------------------------
(* The candles of the machine, and its periods. *)

LEMMA PeriodsAreNumbers ==
  /\ EMA_PERIOD \in Nat \ {0} /\ MACD_FAST \in Nat \ {0} /\ MACD_SIGNAL \in Nat \ {0}
  /\ BOLLINGER_PERIOD \in Nat \ {0} /\ ATR_PERIOD \in Nat \ {0}
  /\ RSI_PERIOD \in Nat /\ RSI_PERIOD >= 2
  /\ MACD_SLOW \in Nat \ {0} /\ MACD_SLOW >= 2
BY PeriodsAssumption

Candles == {c \in [high : Int, low : Int, close : Int] : c.low <= c.close /\ c.close <= c.high}

\* A candle closes within its range.
Traded == candles \in Seq(Candles)

LEMMA CandlesInvariant == Spec => []Traded
<1>1. Init => Traded
  BY DEF Init, Traded
<1>2. Traded /\ [Next]_vars => Traded'
  <2> SUFFICES ASSUME Traded, [Next]_vars PROVE Traded'
    OBVIOUS
  <2>1. CASE UNCHANGED candles
    BY <2>1 DEF Traded
  <2>2. CASE CandleClosed
    <3>1. PICK p \in Closes, up \in Wicks, down \in Wicks :
            candles' = Append(candles, [high |-> p + up, low |-> p - down, close |-> p])
      BY <2>2 DEF CandleClosed
    <3>2. p \in Int /\ up \in Nat /\ down \in Nat
      BY InputsAssumption
    <3>3. [high |-> p + up, low |-> p - down, close |-> p] \in Candles
      BY <3>2 DEF Candles
    <3>4. QED BY <3>1, <3>3 DEF Traded
  <2>3. QED BY <2>1, <2>2 DEF Next, vars, EmaKnown, RsiKnown, MacdKnown, BandsKnown, BucketParsed
<1>3. QED BY <1>1, <1>2, PTL DEF Spec

LEMMA CandlesOfTraded ==
  ASSUME Traded
  PROVE  /\ Len(candles) \in Nat /\ DOMAIN candles = 1..Len(candles)
         /\ \A i \in 1..Len(candles) :
              /\ candles[i].high \in Int /\ candles[i].low \in Int /\ candles[i].close \in Int
              /\ candles[i].low <= candles[i].close /\ candles[i].close <= candles[i].high
         /\ closes \in Seq(Int) /\ Len(closes) = Len(candles)
         /\ DOMAIN closes = 1..Len(candles)
         /\ \A i \in 1..Len(candles) : closes[i] = candles[i].close /\ closes[i] \in Int
<1>1. candles \in Seq(Candles) /\ Len(candles) \in Nat /\ DOMAIN candles = 1..Len(candles)
  BY DEF Traded
<1>2. \A i \in 1..Len(candles) : candles[i] \in Candles
  BY <1>1, ElementOfSeq
<1>3. \A i \in 1..Len(candles) :
              /\ candles[i].high \in Int /\ candles[i].low \in Int /\ candles[i].close \in Int
              /\ candles[i].low <= candles[i].close /\ candles[i].close <= candles[i].high
  BY <1>2 DEF Candles
<1>4. closes = [i \in 1..Len(candles) |-> candles[i].close]
  BY <1>1 DEF closes
<1>5. closes \in Seq(Int) /\ Len(closes) = Len(candles)
  <2>1. \A i \in 1..Len(candles) : candles[i].close \in Int
    BY <1>3
  <2> HIDE DEF closes
  <2>2. QED BY <1>1, <1>4, <2>1
<1>6. QED BY <1>1, <1>3, <1>4, <1>5

LEMMA DiffsOf ==
  ASSUME NEW ns \in Seq(Int), Len(ns) # 0
  PROVE  /\ Diffs(ns) \in Seq(Int) /\ Len(Diffs(ns)) = Len(ns) - 1
         /\ DOMAIN Diffs(ns) = 1..(Len(ns) - 1)
         /\ \A i \in 1..(Len(ns) - 1) : /\ Diffs(ns)[i] = ns[i + 1] - ns[i] /\ Diffs(ns)[i] \in Int
                                        /\ ns[i + 1] \in Int /\ ns[i] \in Int
<1>1. Len(ns) \in Nat /\ Len(ns) - 1 \in Nat /\ \A i \in 1..(Len(ns) - 1) : i \in 1..Len(ns) /\ i + 1 \in 1..Len(ns)
  OBVIOUS
<1>2. \A i \in 1..(Len(ns) - 1) : ns[i + 1] \in Int /\ ns[i] \in Int
  BY <1>1, ElementOfSeq
<1>3. Diffs(ns) = [i \in 1..(Len(ns) - 1) |-> ns[i + 1] - ns[i]]
  BY DEF Diffs
<1>4. QED BY <1>1, <1>2, <1>3

\* The range r covers the way from the close b to the close c.
Covers(r, h, l, c, b) == /\ r \in Int /\ Magnitude(c - b) \in Int /\ Magnitude(c - b) <= r
                         /\ h = l => r = Magnitude(c - b)

LEMMA RangeCovers ==
  ASSUME NEW h \in Int, NEW l \in Int, NEW c \in Int, NEW b \in Int, l <= c, c <= h,
         NEW r, r = Larger(h - l, Larger(Magnitude(h - b), Magnitude(l - b)))
  PROVE  Covers(r, h, l, c, b)
<1>1. PICK a \in Int, d \in Int, e \in Int :
        a = Magnitude(h - b) /\ d = Magnitude(l - b) /\ e = Magnitude(c - b)
  <2>1. \A m \in Int : Magnitude(m) \in Int
    BY DEF Magnitude
  <2>2. h - b \in Int /\ l - b \in Int /\ c - b \in Int
    OBVIOUS
  <2>3. QED BY <2>1, <2>2
<1>2. /\ a = IF h - b < 0 THEN -(h - b) ELSE h - b
      /\ d = IF l - b < 0 THEN -(l - b) ELSE l - b
      /\ e = IF c - b < 0 THEN -(c - b) ELSE c - b
  BY <1>1 DEF Magnitude
<1>3. (e <= a \/ e <= d) /\ 0 <= e /\ (h = l => a = e /\ d = e)
  <2>1. CASE c - b < 0
    BY <1>2, <2>1
  <2>2. CASE ~(c - b < 0)
    BY <1>2, <2>2
  <2>3. QED BY <2>1, <2>2
<1>4. PICK f \in Int : f = Larger(a, d) /\ e <= f /\ (h = l => f = e)
  BY <1>3 DEF Larger
<1>5. PICK g \in Int : g = Larger(h - l, f) /\ e <= g /\ (h = l => g = e)
  BY <1>3, <1>4 DEF Larger
<1>6. QED BY <1>1, <1>4, <1>5 DEF Covers

\* ATR is at least the average way from close to close and, where no candle reaches
\* beyond its close, exactly that, gaps included (indicators.py:66-76), for any prices, any
\* number of candles and any period.
THEOREM AtrCovers == Spec => []AtrCoversTravel
<1>1. Traded => AtrCoversTravel
  <2> DEFINE n  == Len(candles)
             ds == [i \in DOMAIN Diffs(closes) |-> Magnitude(Diffs(closes)[i])]
             rs == [i \in 1..(n - 1) |-> true_range(candles[i + 1], candles[i].close)]
  <2> SUFFICES ASSUME Traded, Atr # None
               PROVE  /\ Leq(Wilder(ds, ATR_PERIOD), Atr)
                      /\ (\A i \in DOMAIN candles : candles[i].high = candles[i].low) =>
                            Equal(Wilder(ds, ATR_PERIOD), Atr)
    BY DEF AtrCoversTravel
  <2>1. Atr = Wilder(rs, ATR_PERIOD) /\ n - 1 >= ATR_PERIOD /\ n \in Nat
        /\ ATR_PERIOD \in Nat \ {0} /\ n - 1 >= 1
    BY CandlesOfTraded, PeriodsAreNumbers DEF Atr, atr
  <2>2. ds = [i \in 1..(n - 1) |-> Magnitude(Diffs(closes)[i])]
    BY <2>1, CandlesOfTraded, DiffsOf
  <2>3. ASSUME NEW i \in 1..(n - 1)
        PROVE  /\ Magnitude(Diffs(closes)[i]) \in Int
               /\ true_range(candles[i + 1], candles[i].close) \in Int
               /\ Magnitude(Diffs(closes)[i]) <= true_range(candles[i + 1], candles[i].close)
               /\ candles[i + 1].high = candles[i + 1].low =>
                    true_range(candles[i + 1], candles[i].close) = Magnitude(Diffs(closes)[i])
    <3>1. i \in 1..n /\ i + 1 \in 1..n
      BY <2>1
    <3>2. PICK h \in Int, l \in Int, c \in Int, b \in Int :
            /\ h = candles[i + 1].high /\ l = candles[i + 1].low
            /\ c = candles[i + 1].close /\ b = candles[i].close
            /\ l <= c /\ c <= h
      BY <3>1, CandlesOfTraded
    <3>3. Diffs(closes)[i] = c - b
      <4>1. closes \in Seq(Int) /\ Len(closes) = n /\ closes[i + 1] = c /\ closes[i] = b
        BY <3>1, <3>2, CandlesOfTraded
      <4>2. Diffs(closes)[i] = closes[i + 1] - closes[i]
        <5>1. Len(closes) # 0 /\ i \in 1..(Len(closes) - 1)
          BY <2>1, <4>1
        <5>2. QED BY <4>1, <5>1, DiffsOf
      <4>3. QED BY <4>1, <4>2
    <3>4. true_range(candles[i + 1], candles[i].close) =
            Larger(h - l, Larger(Magnitude(h - b), Magnitude(l - b)))
      BY <3>2 DEF true_range
    <3>5. h \in Int /\ l \in Int /\ c \in Int /\ b \in Int
      BY <3>2
    <3>6. Covers(true_range(candles[i + 1], candles[i].close), h, l, c, b)
      BY <3>2, <3>4, <3>5, RangeCovers
    <3>7. QED BY <3>2, <3>3, <3>6 DEF Covers
  <2>4. ds \in Seq(Int) /\ rs \in Seq(Int) /\ Len(ds) = n - 1 /\ Len(rs) = n - 1
        /\ \A i \in 1..(n - 1) : ds[i] <= rs[i] /\ ds[i] \in Int /\ rs[i] \in Int
    BY <2>1, <2>2, <2>3
  <2>5. (\A i \in DOMAIN candles : candles[i].high = candles[i].low) =>
           \A i \in 1..(n - 1) : rs[i] <= ds[i]
    <3> SUFFICES ASSUME \A i \in DOMAIN candles : candles[i].high = candles[i].low, NEW i \in 1..(n - 1)
                 PROVE  rs[i] <= ds[i]
      OBVIOUS
    <3>1. i + 1 \in DOMAIN candles
      BY <2>1, CandlesOfTraded
    <3>2. rs[i] = true_range(candles[i + 1], candles[i].close) /\ ds[i] = Magnitude(Diffs(closes)[i])
      BY <2>1, <2>2
    <3>3. QED BY <2>3, <3>1, <3>2
  <2> HIDE DEF ds, rs
  <2>6. ATR_PERIOD \in Nat \ {0} /\ ATR_PERIOD <= Len(ds) /\ Len(rs) = Len(ds)
    BY <2>1, <2>4
  <2>7. Wilder(ds, ATR_PERIOD) \in Fractional /\ Wilder(rs, ATR_PERIOD) \in Fractional /\ Leq(Wilder(ds, ATR_PERIOD), Wilder(rs, ATR_PERIOD))
    BY <2>4, <2>6, WilderOrdered
  <2>8. (\A i \in DOMAIN candles : candles[i].high = candles[i].low) => Leq(Wilder(rs, ATR_PERIOD), Wilder(ds, ATR_PERIOD))
    BY <2>4, <2>5, <2>6, WilderOrdered
  <2>9. QED BY <2>1, <2>7, <2>8, LinearOrders
<1>2. QED BY <1>1, CandlesInvariant, PTL

-----------------------------------------------------------------------------
(* Bounds of averages. *)

LEMMA LinearBounds ==
  ASSUME NEW x \in Fractional, NEW c \in Int
  PROVE  /\ Linear(x, x, 1, 0, c) <=> Leq(x, <<c, 1>>)
         /\ Linear(x, x, -1, 0, -c) <=> Leq(<<c, 1>>, x)
<1>1. PICK v \in Int, s \in Nat \ {0} : At(x, v, s)
  BY AtItself
<1>2. Linear(x, x, 1, 0, c) <=> 1 * v + 0 * v <= c * s
  BY <1>1, LinearAt
<1>3. Linear(x, x, -1, 0, -c) <=> (-1) * v + 0 * v <= (-c) * s
  BY <1>1, LinearAt
<1>4. PICK d \in Int : d = c * s /\ (-c) * s = -d
  <2>1. c * s \in Int /\ (-c) * s = -(c * s)
    OBVIOUS
  <2>2. QED BY <2>1
<1>5. At(<<c, 1>>, d, s)
  BY <1>4, AtInteger
<1>6. (Leq(x, <<c, 1>>) <=> v <= d) /\ (Leq(<<c, 1>>, x) <=> d <= v)
  BY <1>1, <1>5, AtCompares
<1>7. QED BY <1>2, <1>3, <1>4, <1>6

LEMMA AveragesBetween ==
  ASSUME NEW ns \in Seq(Int), NEW lo \in Int, NEW hi \in Int, NEW k \in Shares,
         NEW period \in Nat \ {0}, period <= Len(ns),
         \A i \in 1..Len(ns) : lo <= ns[i] /\ ns[i] <= hi
  PROVE  \A i \in period..Len(ns) :
           /\ Smoothed(Fractions(ns), period, k)[i] \in Fractional
           /\ Leq(<<lo, 1>>, Smoothed(Fractions(ns), period, k)[i])
           /\ Leq(Smoothed(Fractions(ns), period, k)[i], <<hi, 1>>)
<1>1. PICK p \in Int, q \in Int, c \in Int : p = 1 /\ q = 0 /\ c = hi
  OBVIOUS
<1>2. \A i \in 1..Len(ns) : ns[i] \in Int
  BY ElementOfSeq
<1>3. \A i \in 1..Len(ns) : p * ns[i] + q * ns[i] <= c
  BY <1>1, <1>2
<1>4. PICK r \in Int, t \in Int : r = -1 /\ t = -lo
  OBVIOUS
<1>5. \A i \in 1..Len(ns) : r * ns[i] + q * ns[i] <= t
  BY <1>1, <1>2, <1>4
<1>6. SUFFICES ASSUME NEW i \in period..Len(ns)
               PROVE  /\ Smoothed(Fractions(ns), period, k)[i] \in Fractional
                      /\ Leq(<<lo, 1>>, Smoothed(Fractions(ns), period, k)[i])
                      /\ Leq(Smoothed(Fractions(ns), period, k)[i], <<hi, 1>>)
  OBVIOUS
<1>7. PICK x : x = Smoothed(Fractions(ns), period, k)[i]
  OBVIOUS
<1>8. x \in Fractional /\ Linear(x, x, p, q, c)
  BY <1>3, <1>7, AveragesLinear
<1>9. Linear(x, x, r, q, t)
  BY <1>5, <1>7, AveragesLinear
<1>10. Linear(x, x, 1, 0, hi) /\ Linear(x, x, -1, 0, -lo)
  BY <1>1, <1>4, <1>8, <1>9
<1>11. QED BY <1>7, <1>8, <1>10, LinearBounds

LEMMA MeanBetween ==
  ASSUME NEW ns \in Seq(Int), Len(ns) # 0, NEW lo \in Int, NEW hi \in Int,
         \A i \in 1..Len(ns) : lo <= ns[i] /\ ns[i] <= hi
  PROVE  /\ Mean(Fractions(ns)) \in Fractional
         /\ Leq(<<lo, 1>>, Mean(Fractions(ns)))
         /\ Leq(Mean(Fractions(ns)), <<hi, 1>>)
<1>1. PICK p \in Int, q \in Int, c \in Int : p = 1 /\ q = 0 /\ c = hi
  OBVIOUS
<1>2. PICK r \in Int, t \in Int : r = -1 /\ t = -lo
  OBVIOUS
<1>3. PICK xs \in Seq(Fractional) :
        /\ xs = Fractions(ns) /\ Len(xs) = Len(ns)
        /\ \A i \in 1..Len(ns) : ns[i] \in Int /\ xs[i] = <<ns[i], 1>>
  BY FractionsOf
<1>4. ASSUME NEW i \in 1..Len(xs) PROVE Linear(xs[i], xs[i], p, q, c) /\ Linear(xs[i], xs[i], r, q, t)
  <2>1. PICK n \in Int : n = ns[i] /\ lo <= n /\ n <= hi /\ xs[i] = <<n, 1>>
    BY <1>3
  <2>2. p * n + q * n <= c /\ r * n + q * n <= t
    BY <1>1, <1>2, <2>1
  <2>3. Linear(<<n, 1>>, <<n, 1>>, p, q, c) /\ Linear(<<n, 1>>, <<n, 1>>, r, q, t)
    BY <2>2, LinearOfNumbers
  <2>4. QED BY <2>1, <2>3
<1>5. PICK x : x = Mean(xs) OBVIOUS
<1>6. x \in Fractional /\ Linear(x, x, p, q, c) /\ Linear(x, x, r, q, t)
  BY <1>3, <1>4, <1>5, MeanIsFraction, MeanLinear
<1>7. Linear(x, x, 1, 0, hi) /\ Linear(x, x, -1, 0, -lo)
  BY <1>1, <1>2, <1>6
<1>8. QED BY <1>3, <1>5, <1>6, <1>7, LinearBounds

LEMMA GreatestExists ==
  ASSUME NEW f, NEW lo \in Int, NEW hi \in Int, lo <= hi, \A i \in lo..hi : f[i] \in Int
  PROVE  \E i \in lo..hi : \A j \in lo..hi : f[j] <= f[i]
<1> DEFINE Good == {d \in 0..(hi - lo) : \E i \in lo..(lo + d) : \A j \in lo..(lo + d) : f[j] <= f[i]}
<1>1. hi - lo \in Nat /\ lo + (hi - lo) = hi
  OBVIOUS
<1>2. 0 \in Good
  <2>1. \A j \in lo..(lo + 0) : j = lo
    OBVIOUS
  <2>2. lo \in lo..(lo + 0) /\ f[lo] <= f[lo]
    OBVIOUS
  <2>3. QED BY <1>1, <2>1, <2>2
<1>3. ASSUME NEW d \in 1..(hi - lo), d - 1 \in Good PROVE d \in Good
  <2>1. PICK i \in lo..(lo + (d - 1)) : \A j \in lo..(lo + (d - 1)) : f[j] <= f[i]
    BY <1>3
  <2>2. PICK e \in lo..hi : e = lo + d
    OBVIOUS
  <2>3. \A j \in lo..e : j \in lo..(lo + (d - 1)) \/ j = e
    BY <2>2
  <2>4. i \in lo..e /\ e \in lo..e /\ \A j \in lo..e : f[j] \in Int
    BY <2>2
  <2>5. CASE f[e] <= f[i]
    <3>1. \A j \in lo..e : f[j] <= f[i]
      BY <2>1, <2>3, <2>5
    <3>2. QED BY <2>2, <2>4, <3>1
  <2>6. CASE ~(f[e] <= f[i])
    <3>1. \A j \in lo..e : f[j] <= f[e]
      BY <2>1, <2>3, <2>4, <2>6
    <3>2. QED BY <2>2, <2>4, <3>1
  <2>7. QED BY <2>5, <2>6
<1> HIDE DEF Good
<1>4. hi - lo \in Good
  BY <1>1, <1>2, <1>3, NoLeastCounterexample DEF Good
<1>5. QED BY <1>1, <1>4 DEF Good

ValuesOf(f, lo, hi) == {f[i] : i \in lo..hi}

\* The least and the greatest of them.
LEMMA BoundsExist ==
  ASSUME NEW f, NEW lo \in Int, NEW hi \in Int, lo <= hi, \A i \in lo..hi : f[i] \in Int
  PROVE  \E least \in Int, greatest \in Int :
           /\ Minimum(ValuesOf(f, lo, hi)) = <<least, 1>>
           /\ Maximum(ValuesOf(f, lo, hi)) = <<greatest, 1>>
           /\ \A i \in lo..hi : least <= f[i] /\ f[i] <= greatest
<1>1. PICK S : S = ValuesOf(f, lo, hi) /\ S = {f[i] : i \in lo..hi}
  BY DEF ValuesOf
<1>2. PICK i \in lo..hi : \A j \in lo..hi : f[j] <= f[i]
  BY GreatestExists
<1>3. PICK k \in lo..hi : \A j \in lo..hi : f[k] <= f[j]
  <2> DEFINE g == [j \in lo..hi |-> -f[j]]
  <2>1. \A j \in lo..hi : g[j] \in Int /\ g[j] = -f[j]
    OBVIOUS
  <2> HIDE DEF g
  <2>2. PICK k \in lo..hi : \A j \in lo..hi : g[j] <= g[k]
    BY <2>1, GreatestExists
  <2>3. QED BY <2>1, <2>2
<1>4. PICK greatest \in S : \A m \in S : m <= greatest
  BY <1>1, <1>2
<1>5. PICK least \in S : \A m \in S : least <= m
  BY <1>1, <1>3
<1>6. \A n \in S : n \in Int
  BY <1>1
<1>7. (CHOOSE n \in S : \A m \in S : m <= n) = greatest
  BY <1>4, <1>6
<1>8. (CHOOSE n \in S : \A m \in S : n <= m) = least
  BY <1>5, <1>6
<1>9. Minimum(S) = <<least, 1>> /\ Maximum(S) = <<greatest, 1>>
  BY <1>7, <1>8 DEF Minimum, Maximum
<1>10. \A j \in lo..hi : f[j] \in S
  BY <1>1
<1>11. QED BY <1>1, <1>4, <1>5, <1>6, <1>9, <1>10

-----------------------------------------------------------------------------
(* Averages of what is not negative. *)

LEMMA PlusHasSign ==
  ASSUME NEW x \in Fractional, NEW y \in Fractional, x[1] >= 0, y[1] >= 0
  PROVE  /\ Plus(x, y)[1] >= 0
         /\ Plus(x, y)[1] = 0 <=> x[1] = 0 /\ y[1] = 0
<1>1. PICK v \in Int, w \in Int, s \in Nat \ {0} : At(x, v, s) /\ At(y, w, s)
  BY CommonScale
<1>2. v >= 0 /\ w >= 0 /\ (x[1] = 0 <=> v = 0) /\ (y[1] = 0 <=> w = 0)
  BY <1>1, AtHasSign
<1>3. PICK t \in Int : t = v + w OBVIOUS
<1>4. At(Plus(x, y), t, s)
  BY <1>1, <1>3, AtPlus
<1>5. (Plus(x, y)[1] >= 0 <=> t >= 0) /\ (Plus(x, y)[1] = 0 <=> t = 0)
  BY <1>4, AtHasSign
<1>6. t >= 0 /\ (t = 0 <=> v = 0 /\ w = 0)
  BY <1>2, <1>3
<1>7. QED BY <1>2, <1>5, <1>6

LEMMA SumHasSign ==
  ASSUME NEW xs \in Seq(Fractional), \A i \in 1..Len(xs) : xs[i][1] >= 0
  PROVE  /\ Sum(xs)[1] >= 0
         /\ Sum(xs)[1] = 0 <=> \A i \in 1..Len(xs) : xs[i][1] = 0
<1>1. PICK n \in Nat : n = Len(xs)
  OBVIOUS
<1>2. PICK g : /\ Sum(xs) = g[n] /\ g[0] = Zero
               /\ \A i \in 1..n : g[i] = Plus(g[i - 1], xs[i])
  BY <1>1, SumIsLast
<1>3. \A i \in 1..n : xs[i] \in Fractional /\ xs[i][1] >= 0
  BY <1>1, ElementOfSeq
<1> DEFINE Good == {i \in 0..n : /\ g[i] \in Fractional /\ g[i][1] >= 0
                                 /\ g[i][1] = 0 <=> \A j \in 1..i : xs[j][1] = 0}
<1>4. 0 \in Good
  <2>1. g[0] \in Fractional /\ g[0][1] = 0
    BY <1>2, ZeroIsFraction
  <2>2. \A j \in 1..0 : xs[j][1] = 0
    OBVIOUS
  <2>3. QED BY <2>1, <2>2
<1>5. ASSUME NEW i \in 1..n, i - 1 \in Good PROVE i \in Good
  <2>1. PICK x, y : x = g[i - 1] /\ y = xs[i] OBVIOUS
  <2>2. x \in Fractional /\ x[1] >= 0 /\ (x[1] = 0 <=> \A j \in 1..(i - 1) : xs[j][1] = 0)
    BY <1>5, <2>1
  <2>3. y \in Fractional /\ y[1] >= 0
    BY <1>3, <2>1
  <2>4. g[i] = Plus(x, y)
    BY <1>2, <2>1
  <2>5. Plus(x, y)[1] >= 0 /\ (Plus(x, y)[1] = 0 <=> x[1] = 0 /\ y[1] = 0) /\ Plus(x, y) \in Fractional
    BY <2>2, <2>3, PlusHasSign, PlusIsFraction
  <2>6. (\A j \in 1..i : xs[j][1] = 0) <=> ((\A j \in 1..(i - 1) : xs[j][1] = 0) /\ xs[i][1] = 0)
    <3>1. \A j \in 1..i : j \in 1..(i - 1) \/ j = i
      OBVIOUS
    <3>2. i \in 1..i /\ \A j \in 1..(i - 1) : j \in 1..i
      OBVIOUS
    <3>3. QED BY <3>1, <3>2
  <2>7. QED BY <2>1, <2>2, <2>4, <2>5, <2>6
<1> HIDE DEF Good
<1>6. n \in Good
  BY <1>4, <1>5, NoLeastCounterexample DEF Good
<1>7. QED BY <1>1, <1>2, <1>6 DEF Good

LEMMA MeanHasSign ==
  ASSUME NEW xs \in Seq(Fractional), Len(xs) # 0, \A i \in 1..Len(xs) : xs[i][1] >= 0
  PROVE  /\ Mean(xs) \in Fractional /\ Mean(xs)[1] >= 0
         /\ Mean(xs)[1] = 0 <=> \A i \in 1..Len(xs) : xs[i][1] = 0
<1>1. PICK v \in Int, s \in Nat \ {0} : At(Sum(xs), v, s)
  BY SumIsFraction, AtItself
<1>2. PICK t : t = s * Len(xs) OBVIOUS
<1>3. At(Mean(xs), v, t) /\ Mean(xs) \in Fractional
  BY <1>1, <1>2, AtMean
<1>4. /\ Mean(xs)[1] >= 0 <=> v >= 0
      /\ Mean(xs)[1] = 0 <=> v = 0
  BY <1>3, AtHasSign
<1>5. /\ Sum(xs)[1] >= 0 <=> v >= 0
      /\ Sum(xs)[1] = 0 <=> v = 0
  BY <1>1, AtHasSign
<1>6. QED BY <1>3, <1>4, <1>5, SumHasSign

LEMMA SquareHasSign ==
  ASSUME NEW x \in Fractional, NEW m \in Fractional
  PROVE  /\ Times(Minus(x, m), Minus(x, m)) \in Fractional
         /\ Times(Minus(x, m), Minus(x, m))[1] >= 0
         /\ Times(Minus(x, m), Minus(x, m))[1] = 0 <=> Equal(x, m)
<1>1. PICK v \in Int, w \in Int, s \in Nat \ {0} : At(x, v, s) /\ At(m, w, s)
  BY CommonScale
<1>2. PICK d \in Int : d = v - w OBVIOUS
<1>3. At(Minus(x, m), d, s)
  BY <1>1, <1>2, AtMinus
<1>4. PICK z, t : z = d * d /\ t = s * s OBVIOUS
<1>5. At(Times(Minus(x, m), Minus(x, m)), z, t)
  BY <1>3, <1>4, AtTimes
<1>6. z >= 0 /\ (z = 0 <=> d = 0)
  BY <1>4
<1>7. Equal(x, m) <=> d = 0
  BY <1>1, <1>2, AtCompares
<1>8. /\ Times(Minus(x, m), Minus(x, m))[1] >= 0 <=> z >= 0
      /\ Times(Minus(x, m), Minus(x, m))[1] = 0 <=> z = 0
  BY <1>5, AtHasSign
<1>9. QED BY <1>5, <1>6, <1>7, <1>8 DEF At

-----------------------------------------------------------------------------
(* Averages within what they average. *)

LEMMA WindowOf ==
  ASSUME NEW ns \in Seq(Int), NEW period \in Nat \ {0}, period <= Len(ns)
  PROVE  LET ws == SubSeq(ns, Len(ns) - period + 1, Len(ns))
         IN /\ ws \in Seq(Int) /\ Len(ws) = period
            /\ \A i \in 1..period : ws[i] = ns[Len(ns) - period + i]
<1>1. PICK n \in Nat, first \in Nat \ {0} : n = Len(ns) /\ first = n - period + 1
  <2>1. Len(ns) - period + 1 \in Nat \ {0} /\ Len(ns) \in Nat
    OBVIOUS
  <2>2. QED BY <2>1
<1>2. PICK ws : ws = SubSeq(ns, first, n) OBVIOUS
<1>3. /\ \A i \in 1..period : ns[first + i - 1] \in Int
      /\ ws = [i \in 1..period |-> ns[first + i - 1]]
  <2>1. (n - first) + 1 = period /\ \A i \in 1..period : first + i - 1 \in 1..n
    BY <1>1
  <2>2. \A i \in 1..period : ns[first + i - 1] \in Int
    BY <1>1, <2>1, ElementOfSeq
  <2>3. QED BY <1>1, <1>2, <2>1, <2>2
<1>4. ws \in Seq(Int) /\ Len(ws) = period /\ \A i \in 1..period : ws[i] = ns[first + i - 1]
  BY <1>3
<1>5. \A i \in 1..period : first + i - 1 = Len(ns) - period + i
  BY <1>1
<1>6. QED BY <1>1, <1>2, <1>4, <1>5

Squares(xs, m) == [i \in DOMAIN xs |-> Times(Minus(xs[i], m), Minus(xs[i], m))]

LEMMA SquaresOf ==
  ASSUME NEW xs \in Seq(Fractional), NEW m \in Fractional
  PROVE  /\ Squares(xs, m) \in Seq(Fractional) /\ Len(Squares(xs, m)) = Len(xs)
         /\ \A i \in 1..Len(xs) :
              /\ Squares(xs, m)[i] = Times(Minus(xs[i], m), Minus(xs[i], m))
              /\ Squares(xs, m)[i][1] >= 0
              /\ Squares(xs, m)[i][1] = 0 <=> Equal(xs[i], m)
<1>1. \A i \in 1..Len(xs) : xs[i] \in Fractional
  BY ElementOfSeq
<1>2. DOMAIN xs = 1..Len(xs) /\ Len(xs) \in Nat
  OBVIOUS
<1>3. PICK sq : sq = [i \in 1..Len(xs) |-> Times(Minus(xs[i], m), Minus(xs[i], m))]
  OBVIOUS
<1>4. \A i \in 1..Len(xs) : /\ sq[i] = Times(Minus(xs[i], m), Minus(xs[i], m))
                            /\ sq[i] \in Fractional /\ sq[i][1] >= 0
                            /\ sq[i][1] = 0 <=> Equal(xs[i], m)
  BY <1>1, <1>3, SquareHasSign
<1>5. sq \in Seq(Fractional) /\ Len(sq) = Len(xs)
  BY <1>2, <1>3, <1>4
<1>6. Squares(xs, m) = sq
  BY <1>2, <1>3 DEF Squares
<1>7. QED BY <1>4, <1>5, <1>6

\* The variance is zero just when all numbers are the same.
LEMMA VarianceOf ==
  ASSUME NEW ns \in Seq(Int), Len(ns) # 0
  PROVE  LET variance == Mean(Squares(Fractions(ns), Mean(Fractions(ns))))
         IN /\ variance \in Fractional /\ variance[1] >= 0
            /\ variance[1] = 0 <=> \A i \in 1..Len(ns) : ns[i] = ns[1]
<1> PICK xs : xs = Fractions(ns) OBVIOUS
<1> PICK m : m = Mean(xs) OBVIOUS
<1> PICK sq : sq = Squares(xs, m) OBVIOUS
<1>1. /\ xs \in Seq(Fractional) /\ Len(xs) = Len(ns) /\ m \in Fractional
      /\ \A i \in 1..Len(ns) : ns[i] \in Int /\ xs[i] = <<ns[i], 1>>
  BY FractionsOf, MeanIsFraction
<1>2. /\ sq \in Seq(Fractional) /\ Len(sq) = Len(ns)
      /\ \A i \in 1..Len(ns) : sq[i][1] >= 0 /\ (sq[i][1] = 0 <=> Equal(xs[i], m))
  <2>1. /\ Squares(xs, m) \in Seq(Fractional) /\ Len(Squares(xs, m)) = Len(xs)
        /\ \A i \in 1..Len(xs) : /\ Squares(xs, m)[i][1] >= 0
                                 /\ Squares(xs, m)[i][1] = 0 <=> Equal(xs[i], m)
    BY <1>1, SquaresOf
  <2>2. QED BY <1>1, <2>1
<1>3. /\ Mean(sq) \in Fractional /\ Mean(sq)[1] >= 0
      /\ Mean(sq)[1] = 0 <=> \A i \in 1..Len(ns) : sq[i][1] = 0
  BY <1>2, MeanHasSign
<1>4. 1 \in 1..Len(ns)
  OBVIOUS
<1>5. ASSUME \A i \in 1..Len(ns) : ns[i] = ns[1], NEW i \in 1..Len(ns)
      PROVE  Equal(xs[i], m)
  <2>1. PICK c \in Int : c = ns[1]
    BY <1>1, <1>4
  <2>2. \A j \in 1..Len(ns) : c <= ns[j] /\ ns[j] <= c
    BY <1>5, <2>1
  <2>3. Leq(<<c, 1>>, m) /\ Leq(m, <<c, 1>>)
    BY <2>2, MeanBetween
  <2>4. xs[i] = <<c, 1>> /\ xs[i] \in Fractional
    BY <1>1, <1>5, <2>1, ElementOfSeq
  <2>5. QED BY <1>1, <2>3, <2>4, LinearOrders
<1>6. ASSUME \A i \in 1..Len(ns) : Equal(xs[i], m), NEW i \in 1..Len(ns)
      PROVE  ns[i] = ns[1]
  <2>1. PICK a \in Int, b \in Int : a = ns[i] /\ b = ns[1]
    BY <1>1, <1>4
  <2>2. PICK e \in Int, d \in Nat \ {0} : m = <<e, d>>
    BY <1>1 DEF Fractional
  <2>3. At(m, e, d) /\ At(<<a, 1>>, a * d, d) /\ At(<<b, 1>>, b * d, d)
    BY <1>1, <2>2, AtItself, AtInteger
  <2>4. Equal(<<a, 1>>, m) /\ Equal(<<b, 1>>, m)
    BY <1>1, <1>4, <1>6, <2>1
  <2>5. a * d = e /\ b * d = e
    BY <2>3, <2>4, AtCompares
  <2>6. a * d = b * d
    BY <2>5
  <2>7. a = b
    BY <2>6, CancelFactor
  <2>8. QED BY <2>1, <2>7
<1>7. QED BY <1>2, <1>3, <1>5, <1>6

\* The numbers from position lo to hi are one number just when they are all the same.
LEMMA OneNumber ==
  ASSUME NEW f, NEW lo \in Int, NEW hi \in Int, lo <= hi
  PROVE  Cardinality(ValuesOf(f, lo, hi)) = 1 <=> \A i \in lo..hi : f[i] = f[lo]
<1>1. PICK S : S = ValuesOf(f, lo, hi) /\ S = {f[i] : i \in lo..hi}
  BY DEF ValuesOf
<1>2. IsFiniteSet(S)
  <2>1. IsFiniteSet(lo..hi)
    BY FS_Interval
  <2>2. [i \in lo..hi |-> f[i]] \in Surjection(lo..hi, S)
    BY <1>1 DEF Surjection
  <2>3. QED BY <2>1, <2>2, FS_Surjection
<1>3. Cardinality(S) = 1 <=> \E x : S = {x}
  BY <1>2, FS_Singleton
<1>4. lo \in lo..hi
  OBVIOUS
<1>5. (\E x : S = {x}) <=> \A i \in lo..hi : f[i] = f[lo]
  BY <1>1, <1>4
<1>6. QED BY <1>1, <1>3, <1>5

\* An average lies within what it averages: EMA within all closes, the middle band within
\* the last period, where the bands meet just when nothing moved (indicators.py:1-16,
\* 54-63), for any prices, any number of candles and any periods.
THEOREM AveragesWithin == Spec => []AveragesStayWithin
<1>1. Traded => AveragesStayWithin
  <2> SUFFICES ASSUME Traded, NEW n, n = Len(closes), NEW lo, lo = n - BOLLINGER_PERIOD + 1,
                      NEW window, window = ValuesOf(closes, lo, n)
               PROVE  /\ Ema # None => Between(Ema, ValuesOf(closes, 1, n))
                      /\ Bands # None => /\ Between(Bands.middle, window)
                                         /\ Bands.variance[1] >= 0
                                         /\ Bands.variance[1] = 0 <=> Cardinality(window) = 1
    <3>1. Traded => ValuesOf(closes, 1, Len(closes)) = {closes[i] : i \in DOMAIN closes}
      BY CandlesOfTraded DEF ValuesOf
    <3>2. ValuesOf(closes, Len(closes) - BOLLINGER_PERIOD + 1, Len(closes)) =
            {closes[i] : i \in (Len(closes) - BOLLINGER_PERIOD + 1)..Len(closes)}
      BY DEF ValuesOf
    <3>3. QED BY <3>1, <3>2 DEF AveragesStayWithin
  <2>1. /\ closes \in Seq(Int) /\ n \in Nat /\ DOMAIN closes = 1..n
        /\ \A i \in 1..n : closes[i] \in Int
    BY CandlesOfTraded
  <2>2. ASSUME Ema # None PROVE Between(Ema, ValuesOf(closes, 1, n))
    <3>1. /\ EMA_PERIOD \in Nat \ {0} /\ n >= EMA_PERIOD /\ n >= 1
          /\ Ema = Smoothed(Fractions(closes), EMA_PERIOD, <<2, EMA_PERIOD + 1>>)[n]
      BY <2>1, <2>2, PeriodsAreNumbers DEF Ema, ema, ema_series
    <3>2. PICK least \in Int, greatest \in Int :
            /\ Minimum(ValuesOf(closes, 1, n)) = <<least, 1>>
            /\ Maximum(ValuesOf(closes, 1, n)) = <<greatest, 1>>
            /\ \A i \in 1..n : least <= closes[i] /\ closes[i] <= greatest
      <4>1. PICK one \in Int : one = 1 /\ one <= n
        BY <3>1
      <4>2. n \in Int /\ \A i \in one..n : closes[i] \in Int
        BY <2>1, <4>1
      <4>3. PICK least \in Int, greatest \in Int :
              /\ Minimum(ValuesOf(closes, one, n)) = <<least, 1>>
              /\ Maximum(ValuesOf(closes, one, n)) = <<greatest, 1>>
              /\ \A i \in one..n : least <= closes[i] /\ closes[i] <= greatest
        BY <4>1, <4>2, BoundsExist
      <4>4. QED BY <4>1, <4>3
    <3>3. <<2, EMA_PERIOD + 1>> \in Shares /\ EMA_PERIOD <= n /\ n \in EMA_PERIOD..n
      BY <2>1, <3>1 DEF Shares
    <3>4. Leq(<<least, 1>>, Ema) /\ Leq(Ema, <<greatest, 1>>)
      BY <2>1, <3>1, <3>2, <3>3, AveragesBetween
    <3>5. QED BY <3>2, <3>4 DEF Between
  <2>3. ASSUME Bands # None
        PROVE  /\ Between(Bands.middle, window)
               /\ Bands.variance[1] >= 0
               /\ Bands.variance[1] = 0 <=> Cardinality(window) = 1
    <3>1. PICK ws : ws = SubSeq(closes, lo, n) OBVIOUS
    <3>2. PICK xs : xs = Fractions(ws) OBVIOUS
    <3>3. PICK m : m = Mean(xs) OBVIOUS
    <3>4. PICK sq : sq = Squares(xs, m) OBVIOUS
    <3> PICK period \in Nat \ {0} : period = BOLLINGER_PERIOD
      BY PeriodsAreNumbers
    <3>5. n >= period /\ n >= 1 /\ Bands.middle = m /\ Bands.variance = Mean(sq)
      <4>1. n >= period /\ n >= 1
        BY <2>1, <2>3 DEF Bands, bollinger_bands
      <4>2. Bands = [middle |-> m, variance |-> Mean(sq)]
        BY <2>1, <3>1, <3>2, <3>3, <3>4, <4>1 DEF Bands, bollinger_bands, Squares
      <4>3. QED BY <4>1, <4>2
    <3>6. /\ ws \in Seq(Int) /\ Len(ws) = period
          /\ \A i \in 1..period : ws[i] = closes[n - period + i]
      BY <2>1, <3>1, <3>5, WindowOf
    <3>7. lo \in Int /\ lo = n - period + 1 /\ lo <= n /\ \A i \in lo..n : i \in 1..n
      BY <2>1, <3>5
    <3>8. \A i \in 1..period : ws[i] = closes[n - period + i] /\ n - period + i \in lo..n
      BY <2>1, <3>5, <3>6, <3>7
    <3>9. \A i \in lo..n : i - (n - period) \in 1..period /\ n - period + (i - (n - period)) = i
      BY <2>1, <3>7
    <3>10. PICK least \in Int, greatest \in Int :
             /\ Minimum(window) = <<least, 1>> /\ Maximum(window) = <<greatest, 1>>
             /\ \A i \in lo..n : least <= closes[i] /\ closes[i] <= greatest
      <4>1. \A i \in lo..n : closes[i] \in Int
        BY <2>1, <3>7
      <4>2. n \in Int /\ lo \in Int /\ lo <= n
        BY <2>1, <3>7
      <4>3. PICK least \in Int, greatest \in Int :
              /\ Minimum(ValuesOf(closes, lo, n)) = <<least, 1>>
              /\ Maximum(ValuesOf(closes, lo, n)) = <<greatest, 1>>
              /\ \A i \in lo..n : least <= closes[i] /\ closes[i] <= greatest
        BY <4>1, <4>2, BoundsExist
      <4>4. QED BY <4>3
    <3>11. Leq(<<least, 1>>, m) /\ Leq(m, <<greatest, 1>>)
      <4>1. \A i \in 1..Len(ws) : least <= ws[i] /\ ws[i] <= greatest
        BY <3>6, <3>8, <3>10
      <4>2. Len(ws) # 0
        BY <3>6
      <4>3. QED BY <3>2, <3>3, <3>6, <4>1, <4>2, MeanBetween
    <3>12. /\ Mean(sq)[1] >= 0
           /\ Mean(sq)[1] = 0 <=> \A i \in 1..period : ws[i] = ws[1]
      <4>1. Len(ws) # 0
        BY <3>6
      <4>2. /\ Mean(sq)[1] >= 0
            /\ Mean(sq)[1] = 0 <=> \A i \in 1..Len(ws) : ws[i] = ws[1]
        <5>1. sq = Squares(Fractions(ws), Mean(Fractions(ws)))
          BY <3>2, <3>3, <3>4
        <5>2. QED BY <3>6, <4>1, <5>1, VarianceOf
      <4>3. QED BY <3>6, <4>2
    <3>13. Cardinality(window) = 1 <=> \A i \in lo..n : closes[i] = closes[lo]
      BY <2>1, <3>7, OneNumber
    <3>14. (\A i \in lo..n : closes[i] = closes[lo]) <=> \A i \in 1..period : ws[i] = ws[1]
      <4>1. ws[1] = closes[lo]
        BY <3>6, <3>7
      <4>2. \A i \in lo..n : closes[i] = ws[i - (n - period)]
        BY <3>6, <3>9
      <4>3. QED BY <3>8, <3>9, <4>1, <4>2
    <3>15. QED BY <3>5, <3>10, <3>11, <3>12, <3>13, <3>14 DEF Between
  <2>4. QED BY <2>1, <2>2, <2>3
<1>2. QED BY <1>1, CandlesInvariant, PTL

-----------------------------------------------------------------------------
(* Averages of a market turned upside down. *)

LEMMA SumsToZero ==
  ASSUME NEW x \in Fractional, NEW y \in Fractional, SumsTo(x, y, 0)
  PROVE  Equal(y, Neg(x))
<1>1. PICK v \in Int, w \in Int, s \in Nat \ {0} : At(x, v, s) /\ At(y, w, s)
  BY CommonScale
<1>2. v + w = 0 * s
  BY <1>1, SumsToAt
<1>3. w = -v
  BY <1>2
<1>4. At(Neg(x), w, s)
  BY <1>1, <1>3, AtNeg
<1>5. QED BY <1>1, <1>4, AtCompares

LEMMA SmoothedSumsTo ==
  ASSUME NEW xs \in Seq(Fractional), NEW ys \in Seq(Fractional), Len(ys) = Len(xs),
         NEW c \in Int, NEW k \in Shares, NEW period \in Nat \ {0}, period <= Len(xs),
         \A i \in 1..Len(xs) : SumsTo(xs[i], ys[i], c)
  PROVE  \A i \in period..Len(xs) :
           /\ Smoothed(xs, period, k)[i] \in Fractional
           /\ Smoothed(ys, period, k)[i] \in Fractional
           /\ SumsTo(Smoothed(xs, period, k)[i], Smoothed(ys, period, k)[i], c)
<1>1. PICK p \in Int, q \in Int, d \in Int : p = 1 /\ q = -1 /\ d = -c
  OBVIOUS
<1>2. \A i \in 1..Len(xs) : Linear(xs[i], ys[i], p, p, c) /\ Linear(xs[i], ys[i], q, q, d)
  BY <1>1 DEF SumsTo
<1>3. SUFFICES ASSUME NEW i \in period..Len(xs)
               PROVE  /\ Smoothed(xs, period, k)[i] \in Fractional
                      /\ Smoothed(ys, period, k)[i] \in Fractional
                      /\ SumsTo(Smoothed(xs, period, k)[i], Smoothed(ys, period, k)[i], c)
  OBVIOUS
<1>4. PICK x, y : x = Smoothed(xs, period, k)[i] /\ y = Smoothed(ys, period, k)[i]
  OBVIOUS
<1>5. x \in Fractional /\ y \in Fractional /\ Linear(x, y, p, p, c)
  <2>1. \A j \in period..Len(xs) :
          /\ Smoothed(xs, period, k)[j] \in Fractional
          /\ Smoothed(ys, period, k)[j] \in Fractional
          /\ Linear(Smoothed(xs, period, k)[j], Smoothed(ys, period, k)[j], p, p, c)
    BY <1>2, SmoothedLinear
  <2>2. QED BY <1>4, <2>1
<1>6. Linear(x, y, q, q, d)
  <2>1. \A j \in period..Len(xs) :
          Linear(Smoothed(xs, period, k)[j], Smoothed(ys, period, k)[j], q, q, d)
    BY <1>2, SmoothedLinear
  <2>2. QED BY <1>4, <2>1
<1>7. SumsTo(x, y, c)
  BY <1>1, <1>5, <1>6 DEF SumsTo
<1>8. QED BY <1>4, <1>5, <1>7

LEMMA MeanSumsTo ==
  ASSUME NEW xs \in Seq(Fractional), NEW ys \in Seq(Fractional), Len(xs) # 0, Len(ys) = Len(xs),
         NEW c \in Int, \A i \in 1..Len(xs) : SumsTo(xs[i], ys[i], c)
  PROVE  SumsTo(Mean(xs), Mean(ys), c)
<1>1. PICK p \in Int, q \in Int, d \in Int : p = 1 /\ q = -1 /\ d = -c
  OBVIOUS
<1>2. \A i \in 1..Len(xs) : Linear(xs[i], ys[i], p, p, c) /\ Linear(xs[i], ys[i], q, q, d)
  BY <1>1 DEF SumsTo
<1>3. Linear(Mean(xs), Mean(ys), p, p, c) /\ Linear(Mean(xs), Mean(ys), q, q, d)
  BY <1>2, MeanLinear
<1>4. QED BY <1>1, <1>3 DEF SumsTo

LEMMA MeanSame ==
  ASSUME NEW xs \in Seq(Fractional), NEW ys \in Seq(Fractional), Len(xs) # 0, Len(ys) = Len(xs),
         \A i \in 1..Len(xs) : Equal(xs[i], ys[i])
  PROVE  Equal(Mean(xs), Mean(ys))
<1>1. PICK p \in Int, q \in Int, c \in Int : p = 1 /\ q = -1 /\ c = 0
  OBVIOUS
<1>2. \A i \in 1..Len(xs) : Linear(xs[i], ys[i], p, q, c) /\ Linear(xs[i], ys[i], q, p, c)
  <2>1. \A i \in 1..Len(xs) : xs[i] \in Fractional /\ ys[i] \in Fractional
    BY ElementOfSeq
  <2>2. QED BY <1>1, <2>1, LinearOrders
<1>3. Linear(Mean(xs), Mean(ys), p, q, c) /\ Linear(Mean(xs), Mean(ys), q, p, c)
  BY <1>2, MeanLinear
<1>4. Mean(xs) \in Fractional /\ Mean(ys) \in Fractional
  BY MeanIsFraction
<1>5. QED BY <1>1, <1>3, <1>4, LinearOrders

\* ms are the numbers ns reflected.
Reflects(ms, ns, c) == /\ ms \in Seq(Int) /\ ns \in Seq(Int) /\ c \in Int
                       /\ Len(ms) = Len(ns)
                       /\ \A i \in 1..Len(ns) : ms[i] = c - ns[i]

LEMMA NumbersReflected ==
  ASSUME NEW ms, NEW ns, NEW c, Reflects(ms, ns, c)
  PROVE  /\ Fractions(ms) \in Seq(Fractional) /\ Fractions(ns) \in Seq(Fractional)
         /\ Len(Fractions(ms)) = Len(ns) /\ Len(Fractions(ns)) = Len(ns)
         /\ \A i \in 1..Len(ns) : SumsTo(Fractions(ns)[i], Fractions(ms)[i], c)
<1>1. /\ Fractions(ms) \in Seq(Fractional) /\ Fractions(ns) \in Seq(Fractional)
      /\ Len(Fractions(ms)) = Len(ns) /\ Len(Fractions(ns)) = Len(ns)
      /\ \A i \in 1..Len(ns) : /\ ns[i] \in Int /\ Fractions(ns)[i] = <<ns[i], 1>>
                               /\ ms[i] \in Int /\ Fractions(ms)[i] = <<ms[i], 1>>
  BY FractionsOf DEF Reflects
<1>2. ASSUME NEW i \in 1..Len(ns) PROVE SumsTo(Fractions(ns)[i], Fractions(ms)[i], c)
  <2>1. PICK m \in Int, n \in Int : m = ms[i] /\ n = ns[i]
    BY <1>1
  <2>2. c \in Int /\ n + m = c * 1
    BY <2>1 DEF Reflects
  <2>3. At(<<n, 1>>, n, 1) /\ At(<<m, 1>>, m, 1)
    BY DEF At, Fractional
  <2>4. SumsTo(<<n, 1>>, <<m, 1>>, c)
    BY <2>2, <2>3, SumsToAt
  <2>5. QED BY <1>1, <2>1, <2>4
<1>3. QED BY <1>1, <1>2

LEMMA EmaReflected ==
  ASSUME NEW ms, NEW ns, NEW c, Reflects(ms, ns, c), NEW period \in Nat \ {0}, period <= Len(ns)
  PROVE  \A i \in period..Len(ns) :
           /\ ema_series(Fractions(ns), period)[i] \in Fractional
           /\ ema_series(Fractions(ms), period)[i] \in Fractional
           /\ SumsTo(ema_series(Fractions(ns), period)[i], ema_series(Fractions(ms), period)[i], c)
<1>1. <<2, period + 1>> \in Shares
  BY DEF Shares
<1>2. PICK xs \in Seq(Fractional), ys \in Seq(Fractional) :
        /\ xs = Fractions(ns) /\ ys = Fractions(ms) /\ Len(xs) = Len(ns) /\ Len(ys) = Len(ns)
        /\ \A i \in 1..Len(ns) : SumsTo(xs[i], ys[i], c)
  BY NumbersReflected
<1>3. c \in Int
  BY DEF Reflects
<1>4. PICK k \in Shares : k = <<2, period + 1>>
  BY <1>1
<1>5. Len(ys) = Len(xs) /\ period <= Len(xs) /\ \A i \in 1..Len(xs) : SumsTo(xs[i], ys[i], c)
  BY <1>2
<1>6. \A i \in period..Len(xs) :
        /\ Smoothed(xs, period, k)[i] \in Fractional
        /\ Smoothed(ys, period, k)[i] \in Fractional
        /\ SumsTo(Smoothed(xs, period, k)[i], Smoothed(ys, period, k)[i], c)
  BY <1>3, <1>5, SmoothedSumsTo
<1>7. QED BY <1>2, <1>4, <1>6 DEF ema_series

\* What the averages differ by changes its sign.
LEMMA LineReflected ==
  ASSUME NEW ms, NEW ns, NEW c, Reflects(ms, ns, c),
         NEW fast \in Nat \ {0}, NEW slow \in Nat \ {0},
         NEW us, us = macd_line_series(ns, fast, slow),
         NEW vs, vs = macd_line_series(ms, fast, slow)
  PROVE  /\ us \in Seq(Fractional) /\ vs \in Seq(Fractional) /\ Len(vs) = Len(us)
         /\ \A i \in 1..Len(us) : SumsTo(us[i], vs[i], 0)
<1>1. PICK n \in Nat : n = Len(ns) /\ n = Len(ms)
  BY DEF Reflects
<1>2. PICK first \in Nat : first = Larger(fast, slow) - 1 /\ first + 1 >= fast /\ first + 1 >= slow
  BY DEF Larger
<1>3. PICK size \in Nat : size = Larger(n - first, 0) /\ (size # 0 => size = n - first)
  BY DEF Larger
<1> DEFINE f(i) == ema_series(Fractions(ns), fast)[first + i]
           g(i) == ema_series(Fractions(ms), fast)[first + i]
           h(i) == ema_series(Fractions(ns), slow)[first + i]
           e(i) == ema_series(Fractions(ms), slow)[first + i]
<1>4. us = [i \in 1..size |-> Minus(f(i), h(i))] /\ vs = [i \in 1..size |-> Minus(g(i), e(i))]
  BY <1>1, <1>2, <1>3 DEF macd_line_series
<1>5. ASSUME NEW i \in 1..size
      PROVE  /\ Minus(f(i), h(i)) \in Fractional /\ Minus(g(i), e(i)) \in Fractional
             /\ SumsTo(Minus(f(i), h(i)), Minus(g(i), e(i)), 0)
  <2>1. /\ first + i \in fast..Len(ns) /\ first + i \in slow..Len(ns)
        /\ fast <= Len(ns) /\ slow <= Len(ns) /\ c \in Int
    <3>1. i <= size /\ size # 0 /\ 1 <= i
      OBVIOUS
    <3>2. i <= n - first
      BY <1>3, <3>1
    <3>3. first + i \in fast..n /\ first + i \in slow..n /\ fast <= n /\ slow <= n
      BY <1>2, <3>1, <3>2
    <3>4. QED BY <1>1, <3>3 DEF Reflects
  <2>2. f(i) \in Fractional /\ g(i) \in Fractional /\ SumsTo(f(i), g(i), c)
    BY <2>1, EmaReflected
  <2>3. h(i) \in Fractional /\ e(i) \in Fractional /\ SumsTo(h(i), e(i), c)
    BY <2>1, EmaReflected
  <2> HIDE DEF f, g, h, e
  <2>4. QED BY <2>1, <2>2, <2>3, MinusSumsTo
<1> HIDE DEF f, g, h, e
<1>6. QED BY <1>4, <1>5

LEMMA MacdReflected ==
  ASSUME NEW ms, NEW ns, NEW c, Reflects(ms, ns, c),
         NEW fast \in Nat \ {0}, NEW slow \in Nat \ {0}, NEW signal \in Nat \ {0},
         macd(ns, fast, slow, signal) # None
  PROVE  Equal(macd(ms, fast, slow, signal).histogram, Neg(macd(ns, fast, slow, signal).histogram))
<1>1. PICK us \in Seq(Fractional), vs \in Seq(Fractional) :
        /\ us = macd_line_series(ns, fast, slow) /\ vs = macd_line_series(ms, fast, slow)
        /\ Len(vs) = Len(us)
        /\ \A i \in 1..Len(us) : SumsTo(us[i], vs[i], 0)
  BY LineReflected
<1>2. PICK last \in Nat : last = Len(us) /\ last = Len(vs)
  BY <1>1
<1>3. last >= signal
  BY <1>1, <1>2 DEF macd
<1>4. PICK k \in Shares : k = <<2, signal + 1>>
  <2>1. <<2, signal + 1>> \in Shares
    BY DEF Shares
  <2>2. QED BY <2>1
<1>5. PICK x, y : x = Smoothed(us, signal, k)[last] /\ y = Smoothed(vs, signal, k)[last]
  OBVIOUS
<1>6. macd(ns, fast, slow, signal).histogram = Minus(us[last], x)
  BY <1>1, <1>2, <1>3, <1>4, <1>5 DEF macd, ema_series
<1>7. macd(ms, fast, slow, signal).histogram = Minus(vs[last], y)
  BY <1>1, <1>2, <1>3, <1>4, <1>5 DEF macd, ema_series
<1>8. x \in Fractional /\ y \in Fractional /\ SumsTo(x, y, 0)
  <2>1. PICK z \in Int : z = 0
    OBVIOUS
  <2>2. \A i \in 1..Len(us) : SumsTo(us[i], vs[i], z)
    BY <1>1, <2>1
  <2>3. signal <= Len(us) /\ last \in signal..Len(us)
    BY <1>2, <1>3
  <2>4. x \in Fractional /\ y \in Fractional /\ SumsTo(x, y, z)
    BY <1>1, <1>5, <2>2, <2>3, SmoothedSumsTo
  <2>5. QED BY <2>1, <2>4
<1>9. us[last] \in Fractional /\ vs[last] \in Fractional /\ SumsTo(us[last], vs[last], 0)
  <2>1. last \in 1..Len(us) /\ last \in 1..Len(vs)
    BY <1>2, <1>3
  <2>2. QED BY <1>1, <2>1, ElementOfSeq
<1>10. PICK a, b : a = us[last] /\ b = vs[last] OBVIOUS
<1>11. /\ SumsTo(Minus(a, x), Minus(b, y), 0)
       /\ Minus(a, x) \in Fractional /\ Minus(b, y) \in Fractional
  <2>1. PICK z \in Int : z = 0
    OBVIOUS
  <2>2. /\ a \in Fractional /\ b \in Fractional /\ SumsTo(a, b, z)
        /\ x \in Fractional /\ y \in Fractional /\ SumsTo(x, y, z)
    BY <1>8, <1>9, <1>10, <2>1
  <2>3. QED BY <2>2, MinusSumsTo
<1>12. QED BY <1>6, <1>7, <1>10, <1>11, SumsToZero

-----------------------------------------------------------------------------
(* The bands of it. *)

LEMMA SquaresReflected ==
  ASSUME NEW x \in Fractional, NEW y \in Fractional, NEW m \in Fractional, NEW n \in Fractional,
         NEW c \in Int, SumsTo(x, y, c), SumsTo(m, n, c)
  PROVE  Equal(Times(Minus(x, m), Minus(x, m)), Times(Minus(y, n), Minus(y, n)))
<1>1. PICK a, b : a = Minus(x, m) /\ b = Minus(y, n) OBVIOUS
<1>2. a \in Fractional /\ b \in Fractional /\ SumsTo(a, b, 0)
  BY <1>1, MinusSumsTo
<1>3. PICK v \in Int, w \in Int, s \in Nat \ {0} : At(a, v, s) /\ At(b, w, s)
  BY <1>2, CommonScale
<1>4. v + w = 0 * s
  BY <1>2, <1>3, SumsToAt
<1>5. v * v = w * w
  <2>1. w = -v
    BY <1>4
  <2>2. (-v) * (-v) = v * v
    OBVIOUS
  <2>3. QED BY <2>1, <2>2
<1>6. PICK z, d, t : z = v * v /\ d = w * w /\ t = s * s OBVIOUS
<1>7. At(Times(a, a), z, t) /\ At(Times(b, b), d, t)
  BY <1>3, <1>6, AtTimes
<1>8. Equal(Times(a, a), Times(b, b))
  BY <1>5, <1>6, <1>7, AtCompares
<1>9. QED BY <1>1, <1>8

LEMMA VarianceReflected ==
  ASSUME NEW xs \in Seq(Fractional), NEW ys \in Seq(Fractional), Len(xs) # 0, Len(ys) = Len(xs),
         NEW c \in Int, \A i \in 1..Len(xs) : SumsTo(xs[i], ys[i], c)
  PROVE  Equal(Mean(Squares(ys, Mean(ys))), Mean(Squares(xs, Mean(xs))))
<1>1. PICK m \in Fractional, n \in Fractional : m = Mean(xs) /\ n = Mean(ys) /\ SumsTo(m, n, c)
  BY MeanIsFraction, MeanSumsTo
<1>2. PICK sq \in Seq(Fractional) :
        /\ sq = Squares(xs, m) /\ Len(sq) = Len(xs)
        /\ \A i \in 1..Len(xs) : sq[i] = Times(Minus(xs[i], m), Minus(xs[i], m))
  BY SquaresOf
<1>3. PICK sr \in Seq(Fractional) :
        /\ sr = Squares(ys, n) /\ Len(sr) = Len(xs)
        /\ \A i \in 1..Len(xs) : sr[i] = Times(Minus(ys[i], n), Minus(ys[i], n))
  <2>1. /\ Squares(ys, n) \in Seq(Fractional) /\ Len(Squares(ys, n)) = Len(ys)
        /\ \A i \in 1..Len(ys) : Squares(ys, n)[i] = Times(Minus(ys[i], n), Minus(ys[i], n))
    BY SquaresOf
  <2>2. QED BY <2>1
<1>4. \A i \in 1..Len(xs) : Equal(sr[i], sq[i])
  <2> SUFFICES ASSUME NEW i \in 1..Len(xs) PROVE Equal(sr[i], sq[i])
    OBVIOUS
  <2>1. PICK x, y : x = xs[i] /\ y = ys[i] OBVIOUS
  <2>2. x \in Fractional /\ y \in Fractional /\ SumsTo(x, y, c)
    BY <2>1, ElementOfSeq
  <2>3. Equal(Times(Minus(x, m), Minus(x, m)), Times(Minus(y, n), Minus(y, n)))
    BY <1>1, <2>2, SquaresReflected
  <2>4. sq[i] = Times(Minus(x, m), Minus(x, m)) /\ sr[i] = Times(Minus(y, n), Minus(y, n))
    BY <1>2, <1>3, <2>1
  <2>5. sq[i] \in Fractional /\ sr[i] \in Fractional
    BY <1>2, <1>3, ElementOfSeq
  <2>6. Equal(sq[i], sr[i])
    BY <2>3, <2>4
  <2>7. QED BY <2>5, <2>6, LinearOrders
<1>5. QED BY <1>1, <1>2, <1>3, <1>4, MeanSame

-----------------------------------------------------------------------------
(* The strength of a market turned upside down. *)

LEMMA TowardHasSign ==
  ASSUME NEW a \in Fractional, NEW x \in Fractional, a[1] >= 0, x[1] >= 0,
         NEW k \in Shares, 0 < k[1], k[1] < k[2]
  PROVE  /\ Toward(a, x, k) \in Fractional /\ Toward(a, x, k)[1] >= 0
         /\ Toward(a, x, k)[1] = 0 <=> a[1] = 0 /\ x[1] = 0
<1>1. PICK v \in Int, w \in Int, s \in Nat \ {0} : At(a, v, s) /\ At(x, w, s)
  BY CommonScale
<1>2. v >= 0 /\ w >= 0 /\ (a[1] = 0 <=> v = 0) /\ (x[1] = 0 <=> w = 0)
  BY <1>1, AtHasSign
<1>3. PICK l \in Nat \ {0}, r \in Nat \ {0} : l = k[1] /\ r = k[2] - k[1] /\ k[2] = l + r
  BY DEF Shares
<1>4. PICK d, t : d = v * k[2] + (w - v) * k[1] /\ t = s * k[2]
  OBVIOUS
<1>5. At(Toward(a, x, k), d, t) /\ Toward(a, x, k) \in Fractional
  BY <1>1, <1>4, AtToward
<1>6. d = v * r + w * l
  <2>1. v * (l + r) + (w - v) * l = v * r + w * l
    OBVIOUS
  <2>2. QED BY <1>3, <1>4, <2>1
<1>7. d >= 0 /\ (d = 0 <=> v = 0 /\ w = 0)
  <2>1. 0 * r <= v * r /\ 0 * l <= w * l
    BY <1>2, MultiplyLeq
  <2>2. v # 0 => 1 * r <= v * r
    BY <1>2, MultiplyLeq
  <2>3. w # 0 => 1 * l <= w * l
    BY <1>2, MultiplyLeq
  <2>4. PICK e \in Int, f \in Int : e = v * r /\ f = w * l
    OBVIOUS
  <2>5. 0 <= e /\ 0 <= f /\ (v # 0 => 1 <= e) /\ (w # 0 => 1 <= f)
    BY <2>1, <2>2, <2>3, <2>4
  <2>6. v = 0 /\ w = 0 => e = 0 /\ f = 0
    BY <2>4
  <2>7. QED BY <1>6, <2>4, <2>5, <2>6
<1>8. (Toward(a, x, k)[1] >= 0 <=> d >= 0) /\ (Toward(a, x, k)[1] = 0 <=> d = 0)
  BY <1>5, AtHasSign
<1>9. QED BY <1>2, <1>5, <1>7, <1>8

\* Of what is not negative the average is zero only while all of it was.
LEMMA SmoothedHasSign ==
  ASSUME NEW xs \in Seq(Fractional), \A i \in 1..Len(xs) : xs[i][1] >= 0,
         NEW period \in Nat \ {0}, period <= Len(xs), NEW k \in Shares, 0 < k[1], k[1] < k[2]
  PROVE  \A i \in period..Len(xs) :
           /\ Smoothed(xs, period, k)[i] \in Fractional
           /\ Smoothed(xs, period, k)[i][1] >= 0
           /\ Smoothed(xs, period, k)[i][1] = 0 <=> \A j \in 1..i : xs[j][1] = 0
<1>1. PICK n \in Nat : n = Len(xs)
  OBVIOUS
<1>2. PICK g : /\ g = Smoothed(xs, period, k)
               /\ g[period] = Mean(SubSeq(xs, 1, period))
               /\ \A i \in (period + 1)..n : g[i] = Toward(g[i - 1], xs[i], k)
  BY <1>1, SmoothedUnfolds
<1>3. \A i \in 1..n : xs[i] \in Fractional /\ xs[i][1] >= 0
  BY <1>1, ElementOfSeq
<1> DEFINE Holds(i) == /\ g[i] \in Fractional /\ g[i][1] >= 0
                       /\ g[i][1] = 0 <=> \A j \in 1..i : xs[j][1] = 0
<1>4. Holds(period)
  <2>1. PICK us \in Seq(Fractional) :
          us = SubSeq(xs, 1, period) /\ Len(us) = period /\ \A i \in 1..period : us[i] = xs[i]
    BY Seed
  <2>2. \A i \in 1..Len(us) : us[i][1] >= 0
    BY <1>1, <1>3, <2>1
  <2>3. /\ Mean(us) \in Fractional /\ Mean(us)[1] >= 0
        /\ Mean(us)[1] = 0 <=> \A i \in 1..Len(us) : us[i][1] = 0
    BY <2>1, <2>2, MeanHasSign
  <2>4. QED BY <1>2, <2>1, <2>3
<1>5. ASSUME NEW i \in (period + 1)..n, Holds(i - 1) PROVE Holds(i)
  <2>1. i \in 1..n
    OBVIOUS
  <2>2. PICK a, x : a = g[i - 1] /\ x = xs[i] OBVIOUS
  <2>3. /\ a \in Fractional /\ a[1] >= 0 /\ x \in Fractional /\ x[1] >= 0
        /\ a[1] = 0 <=> \A j \in 1..(i - 1) : xs[j][1] = 0
    BY <1>3, <1>5, <2>1, <2>2
  <2>4. /\ Toward(a, x, k) \in Fractional /\ Toward(a, x, k)[1] >= 0
        /\ Toward(a, x, k)[1] = 0 <=> a[1] = 0 /\ x[1] = 0
    BY <2>3, TowardHasSign
  <2>5. g[i] = Toward(a, x, k)
    BY <1>2, <2>2
  <2>6. (\A j \in 1..i : xs[j][1] = 0) <=> ((\A j \in 1..(i - 1) : xs[j][1] = 0) /\ xs[i][1] = 0)
    <3>1. \A j \in 1..i : j \in 1..(i - 1) \/ j = i
      OBVIOUS
    <3>2. i \in 1..i /\ \A j \in 1..(i - 1) : j \in 1..i
      OBVIOUS
    <3>3. QED BY <3>1, <3>2
  <2>7. QED BY <2>2, <2>3, <2>4, <2>5, <2>6
<1> HIDE DEF Holds
<1>6. ASSUME NEW j \in period..n PROVE Holds(j)
  <2> DEFINE Good == {d \in 0..(j - period) : Holds(period + d)}
  <2>1. j - period \in Nat /\ period + 0 = period /\ period + (j - period) = j
    OBVIOUS
  <2>2. 0 \in Good
    BY <1>4, <2>1
  <2>3. ASSUME NEW d \in 1..(j - period), d - 1 \in Good PROVE d \in Good
    <3>1. period + d \in (period + 1)..n /\ (period + d) - 1 = period + (d - 1)
      OBVIOUS
    <3>2. QED BY <1>5, <2>3, <3>1
  <2> HIDE DEF Good
  <2>4. j - period \in Good
    BY <2>1, <2>2, <2>3, NoLeastCounterexample DEF Good
  <2>5. QED BY <2>1, <2>4 DEF Good
<1>7. QED BY <1>1, <1>2, <1>6 DEF Holds

LEMMA WilderHasSign ==
  ASSUME NEW ns \in Seq(Int), \A i \in 1..Len(ns) : ns[i] >= 0,
         NEW period \in Nat, period >= 2, period <= Len(ns)
  PROVE  /\ Wilder(ns, period) \in Fractional /\ Wilder(ns, period)[1] >= 0
         /\ Wilder(ns, period)[1] = 0 <=> \A i \in 1..Len(ns) : ns[i] = 0
<1>1. PICK xs \in Seq(Fractional) :
        /\ xs = Fractions(ns) /\ Len(xs) = Len(ns)
        /\ \A i \in 1..Len(ns) : ns[i] \in Int /\ xs[i] = <<ns[i], 1>>
  BY FractionsOf
<1>2. PICK k \in Shares : k = <<1, period>>
  <2>1. <<1, period>> \in Shares
    BY DEF Shares
  <2>2. QED BY <2>1
<1>3. /\ \A i \in 1..Len(xs) : xs[i][1] >= 0
      /\ period \in Nat \ {0} /\ period <= Len(xs) /\ 0 < k[1] /\ k[1] < k[2]
      /\ Len(xs) \in period..Len(xs)
  BY <1>1, <1>2
<1>4. PICK a : a = Smoothed(xs, period, k)[Len(xs)] OBVIOUS
<1>5. /\ a \in Fractional /\ a[1] >= 0
      /\ a[1] = 0 <=> \A j \in 1..Len(xs) : xs[j][1] = 0
  BY <1>3, <1>4, SmoothedHasSign
<1>6. Wilder(ns, period) = a
  BY <1>1, <1>2, <1>4 DEF Wilder
<1>7. QED BY <1>1, <1>5, <1>6

LEMMA GainsAndLosses ==
  ASSUME NEW ns \in Seq(Int), Len(ns) # 0
  PROVE  /\ Gains(ns) \in Seq(Int) /\ Losses(ns) \in Seq(Int)
         /\ Len(Gains(ns)) = Len(ns) - 1 /\ Len(Losses(ns)) = Len(ns) - 1
         /\ \A i \in 1..(Len(ns) - 1) :
              /\ Gains(ns)[i] >= 0 /\ Losses(ns)[i] >= 0
              /\ Gains(ns)[i] = 0 /\ Losses(ns)[i] = 0 <=> ns[i + 1] = ns[i]
<1>1. PICK n \in Nat : n = Len(ns) - 1
  BY DiffsOf
<1>2. /\ DOMAIN Diffs(ns) = 1..n
      /\ \A i \in 1..n : /\ Diffs(ns)[i] = ns[i + 1] - ns[i] /\ Diffs(ns)[i] \in Int
                         /\ ns[i + 1] \in Int /\ ns[i] \in Int
  BY <1>1, DiffsOf
<1>3. \A d \in Int : /\ Larger(d, 0) \in Int /\ Larger(-d, 0) \in Int
                     /\ Larger(d, 0) >= 0 /\ Larger(-d, 0) >= 0
                     /\ Larger(d, 0) = 0 /\ Larger(-d, 0) = 0 <=> d = 0
  BY DEF Larger
<1>4. /\ Gains(ns) = [i \in 1..n |-> Larger(Diffs(ns)[i], 0)]
      /\ Losses(ns) = [i \in 1..n |-> Larger(-Diffs(ns)[i], 0)]
  BY <1>2 DEF Gains, Losses
<1>5. \A i \in 1..n : Larger(Diffs(ns)[i], 0) \in Int /\ Larger(-Diffs(ns)[i], 0) \in Int
  BY <1>2, <1>3
<1>6. /\ Gains(ns) \in Seq(Int) /\ Losses(ns) \in Seq(Int)
      /\ Len(Gains(ns)) = n /\ Len(Losses(ns)) = n
  BY <1>4, <1>5
<1>7. ASSUME NEW i \in 1..n
      PROVE  /\ Gains(ns)[i] >= 0 /\ Losses(ns)[i] >= 0
             /\ Gains(ns)[i] = 0 /\ Losses(ns)[i] = 0 <=> ns[i + 1] = ns[i]
  <2>1. PICK d \in Int : d = Diffs(ns)[i] /\ (d = 0 <=> ns[i + 1] = ns[i])
    <3>1. PICK a \in Int, b \in Int : a = ns[i + 1] /\ b = ns[i] /\ Diffs(ns)[i] = a - b
      BY <1>2
    <3>2. a - b \in Int /\ (a - b = 0 <=> a = b)
      OBVIOUS
    <3>3. QED BY <3>1, <3>2
  <2>2. Gains(ns)[i] = Larger(d, 0) /\ Losses(ns)[i] = Larger(-d, 0)
    BY <1>4, <2>1
  <2>3. QED BY <1>3, <2>1, <2>2
<1>8. QED BY <1>1, <1>6, <1>7

\* What is a gain on one side of the mirror is a loss on the other.
LEMMA GainsReflected ==
  ASSUME NEW ms, NEW ns, NEW c, Reflects(ms, ns, c), Len(ns) # 0
  PROVE  Gains(ms) = Losses(ns) /\ Losses(ms) = Gains(ns)
<1>1. PICK n \in Nat : n = Len(ns) - 1 /\ n = Len(ms) - 1
  <2>1. Len(ns) \in Nat /\ Len(ms) = Len(ns)
    BY DEF Reflects
  <2>2. QED BY <2>1
<1>2. /\ DOMAIN Diffs(ns) = 1..n /\ DOMAIN Diffs(ms) = 1..n
      /\ \A i \in 1..n : /\ Diffs(ns)[i] = ns[i + 1] - ns[i] /\ ns[i + 1] \in Int /\ ns[i] \in Int
                         /\ Diffs(ms)[i] = ms[i + 1] - ms[i]
  BY <1>1, DiffsOf DEF Reflects
<1>3. ASSUME NEW i \in 1..n
      PROVE  /\ Larger(Diffs(ms)[i], 0) = Larger(-Diffs(ns)[i], 0)
             /\ Larger(-Diffs(ms)[i], 0) = Larger(Diffs(ns)[i], 0)
  <2>1. i \in 1..Len(ns) /\ i + 1 \in 1..Len(ns)
    BY <1>1
  <2>2. ms[i] = c - ns[i] /\ ms[i + 1] = c - ns[i + 1] /\ c \in Int
    BY <2>1 DEF Reflects
  <2>3. PICK a \in Int, b \in Int : a = ns[i + 1] /\ b = ns[i]
    BY <1>2
  <2>4. Diffs(ns)[i] = a - b /\ Diffs(ms)[i] = (c - a) - (c - b)
    BY <1>2, <2>2, <2>3
  <2>5. (c - a) - (c - b) = -(a - b) /\ -((c - a) - (c - b)) = a - b
    BY <2>2
  <2>6. QED BY <2>4, <2>5
<1>4. QED BY <1>2, <1>3 DEF Gains, Losses

LEMMA StrengthAt ==
  ASSUME NEW a \in Nat, NEW b \in Nat \ {0}, NEW e \in Nat, NEW d \in Nat \ {0}, a # 0 \/ e # 0
  PROVE  /\ a * d + e * b \in Nat \ {0}
         /\ At(Strength(<<a, b>>, <<e, d>>), 100 * (a * d), a * d + e * b)
<1>1. PICK p \in Nat, q \in Nat : p = a * d /\ q = e * b
  OBVIOUS
<1>2. (a # 0 => p # 0) /\ (e # 0 => q # 0) /\ (e = 0 => q = 0)
  <2>1. a # 0 => a * d \in Nat \ {0}
    BY PositiveProduct
  <2>2. e # 0 => e * b \in Nat \ {0}
    BY PositiveProduct
  <2>3. e = 0 => e * b = 0
    OBVIOUS
  <2>4. QED BY <1>1, <2>1, <2>2, <2>3
<1>3. p + q \in Nat \ {0} /\ 100 * p \in Int
  BY <1>2
<1>4. CASE e = 0
  <2>1. Strength(<<a, b>>, <<e, d>>) = <<100, 1>>
    BY <1>4 DEF Strength
  <2>2. At(<<100, 1>>, 100 * (p + q), p + q)
    BY <1>3, AtInteger
  <2>3. 100 * (p + q) = 100 * p
    BY <1>2, <1>4
  <2>4. QED BY <1>1, <1>3, <2>1, <2>2, <2>3
<1>5. CASE e # 0
  <2>1. Strength(<<a, b>>, <<e, d>>) = Reduced(<<100 * a * d, p + q>>)
    BY <1>1, <1>5 DEF Strength
  <2>2. 100 * a * d = 100 * p
    BY <1>1
  <2>3. At(<<100 * p, p + q>>, 100 * p, p + q)
    BY <1>3, AtItself DEF Fractional
  <2>4. At(Reduced(<<100 * p, p + q>>), 100 * p, p + q)
    BY <2>3, AtReduced
  <2>5. QED BY <1>1, <1>3, <2>1, <2>2, <2>4
<1>6. QED BY <1>4, <1>5

\* Gains and losses exchanged.
LEMMA StrengthReflected ==
  ASSUME NEW g \in Fractional, NEW l \in Fractional, g[1] >= 0, l[1] >= 0
  PROVE  Equal(Strength(l, g), IF g[1] = 0 /\ l[1] = 0 THEN <<100, 1>>
                               ELSE Plus(<<100, 1>>, Neg(Strength(g, l))))
<1>1. PICK a \in Nat, b \in Nat \ {0} : g = <<a, b>>
  BY DEF Fractional
<1>2. PICK e \in Nat, d \in Nat \ {0} : l = <<e, d>>
  BY DEF Fractional
<1>3. CASE a = 0 /\ e = 0
  <2>1. Strength(l, g) = <<100, 1>>
    BY <1>1, <1>2, <1>3 DEF Strength
  <2>2. <<100, 1>> \in Fractional
    BY DEF Fractional
  <2>3. Equal(<<100, 1>>, <<100, 1>>)
    BY <2>2, EqualToItself
  <2>4. QED BY <1>1, <1>2, <1>3, <2>1, <2>3
<1>4. CASE a # 0 \/ e # 0
  <2>1. PICK p \in Nat, q \in Nat : p = a * d /\ q = e * b
    OBVIOUS
  <2>2. p + q \in Nat \ {0} /\ At(Strength(g, l), 100 * p, p + q)
    BY <1>1, <1>2, <1>4, <2>1, StrengthAt
  <2>3. At(Strength(l, g), 100 * q, q + p)
    BY <1>1, <1>2, <1>4, <2>1, StrengthAt
  <2>4. PICK v \in Int, w \in Int, s \in Nat \ {0}, c \in Int :
          v = 100 * p /\ w = 100 * q /\ s = p + q /\ s = q + p /\ c = 100
    BY <2>2
  <2>5. At(Strength(g, l), v, s) /\ At(Strength(l, g), w, s)
    BY <2>2, <2>3, <2>4
  <2>6. v + w = c * s
    BY <2>4
  <2>7. SumsTo(Strength(g, l), Strength(l, g), c)
    BY <2>5, <2>6, SumsToAt
  <2>8. Equal(Strength(l, g), Plus(<<c, 1>>, Neg(Strength(g, l))))
    BY <2>5, <2>7, SumsToEqual DEF At
  <2>9. QED BY <1>1, <1>2, <1>4, <2>4, <2>8
<1>5. QED BY <1>3, <1>4

LEMMA NeverMoved ==
  ASSUME NEW ns \in Seq(Int), \A i \in 1..(Len(ns) - 1) : ns[i + 1] = ns[i]
  PROVE  \A i \in 1..Len(ns) : ns[i] = ns[1]
<1>1. SUFFICES ASSUME NEW j \in 1..Len(ns) PROVE ns[j] = ns[1]
  OBVIOUS
<1> DEFINE Good == {d \in 0..(j - 1) : ns[1 + d] = ns[1]}
<1>2. j - 1 \in Nat /\ 1 + (j - 1) = j /\ 1 + 0 = 1
  OBVIOUS
<1>3. 0 \in Good
  BY <1>2
<1>4. ASSUME NEW d \in 1..(j - 1), d - 1 \in Good PROVE d \in Good
  <2>1. d \in 1..(Len(ns) - 1) /\ 1 + (d - 1) = d /\ 1 + d = d + 1
    OBVIOUS
  <2>2. QED BY <1>4, <2>1
<1> HIDE DEF Good
<1>5. j - 1 \in Good
  BY <1>2, <1>3, <1>4, NoLeastCounterexample DEF Good
<1>6. QED BY <1>2, <1>5 DEF Good

LEMMA RsiReflected ==
  ASSUME NEW ms, NEW ns, NEW c, Reflects(ms, ns, c), NEW period \in Nat, period >= 2,
         Len(ns) >= period + 1
  PROVE  Equal(rsi(ms, period), IF \E i \in 1..Len(ns) : ns[i] # ns[1]
                                THEN Plus(<<100, 1>>, Neg(rsi(ns, period))) ELSE <<100, 1>>)
<1>1. PICK n \in Nat : n = Len(ns) - 1 /\ n >= period /\ Len(ns) # 0 /\ Len(ms) = Len(ns)
  <2>1. Len(ns) \in Nat /\ Len(ms) = Len(ns)
    BY DEF Reflects
  <2>2. QED BY <2>1
<1>2. PICK gains \in Seq(Int), losses \in Seq(Int) :
        /\ gains = Gains(ns) /\ losses = Losses(ns) /\ Len(gains) = n /\ Len(losses) = n
        /\ \A i \in 1..n : /\ gains[i] >= 0 /\ losses[i] >= 0
                           /\ gains[i] = 0 /\ losses[i] = 0 <=> ns[i + 1] = ns[i]
  BY <1>1, GainsAndLosses DEF Reflects
<1>3. PICK g \in Fractional : /\ g = Wilder(gains, period) /\ g[1] >= 0
                              /\ g[1] = 0 <=> \A i \in 1..n : gains[i] = 0
  <2>1. Len(gains) = n /\ period <= Len(gains) /\ \A i \in 1..Len(gains) : gains[i] >= 0
    BY <1>1, <1>2
  <2>2. /\ Wilder(gains, period) \in Fractional /\ Wilder(gains, period)[1] >= 0
        /\ Wilder(gains, period)[1] = 0 <=> \A i \in 1..Len(gains) : gains[i] = 0
    BY <2>1, WilderHasSign
  <2>3. QED BY <2>1, <2>2
<1>4. PICK l \in Fractional : /\ l = Wilder(losses, period) /\ l[1] >= 0
                              /\ l[1] = 0 <=> \A i \in 1..n : losses[i] = 0
  <2>1. Len(losses) = n /\ period <= Len(losses) /\ \A i \in 1..Len(losses) : losses[i] >= 0
    BY <1>1, <1>2
  <2>2. /\ Wilder(losses, period) \in Fractional /\ Wilder(losses, period)[1] >= 0
        /\ Wilder(losses, period)[1] = 0 <=> \A i \in 1..Len(losses) : losses[i] = 0
    BY <2>1, WilderHasSign
  <2>3. QED BY <2>1, <2>2
<1>5. rsi(ns, period) = Strength(g, l)
  BY <1>1, <1>2, <1>3, <1>4 DEF rsi, Reflects
<1>6. rsi(ms, period) = Strength(l, g)
  <2>1. Gains(ms) = losses /\ Losses(ms) = gains
    BY <1>1, <1>2, GainsReflected
  <2>2. ~(Len(ms) < period + 1)
    BY <1>1
  <2>3. QED BY <1>3, <1>4, <2>1, <2>2 DEF rsi
<1>7. g[1] = 0 /\ l[1] = 0 <=> ~ \E i \in 1..Len(ns) : ns[i] # ns[1]
  <2>1. g[1] = 0 /\ l[1] = 0 <=> \A i \in 1..n : ns[i + 1] = ns[i]
    BY <1>2, <1>3, <1>4
  <2>2. (\A i \in 1..n : ns[i + 1] = ns[i]) => \A i \in 1..Len(ns) : ns[i] = ns[1]
    BY <1>1, NeverMoved DEF Reflects
  <2>3. (\A i \in 1..Len(ns) : ns[i] = ns[1]) => \A i \in 1..n : ns[i + 1] = ns[i]
    BY <1>1
  <2>4. QED BY <2>1, <2>2, <2>3
<1>8. QED BY <1>3, <1>4, <1>5, <1>6, <1>7, StrengthReflected

\* The last period numbers of each.
LEMMA WindowReflected ==
  ASSUME NEW ms \in Seq(Int), NEW ns \in Seq(Int), NEW c \in Int, Len(ms) = Len(ns),
         \A i \in 1..Len(ns) : ms[i] = c - ns[i], NEW period \in Nat \ {0}, period <= Len(ns)
  PROVE  LET us == SubSeq(ns, Len(ns) - period + 1, Len(ns))
             vs == SubSeq(ms, Len(ms) - period + 1, Len(ms))
         IN /\ us \in Seq(Int) /\ Len(us) = period /\ vs \in Seq(Int) /\ Len(vs) = period
            /\ Reflects(vs, us, c)
<1>1. PICK us, vs : /\ us = SubSeq(ns, Len(ns) - period + 1, Len(ns))
                    /\ vs = SubSeq(ms, Len(ms) - period + 1, Len(ms))
  OBVIOUS
<1>2. us \in Seq(Int) /\ Len(us) = period /\ \A i \in 1..period : us[i] = ns[Len(ns) - period + i]
  BY <1>1, WindowOf
<1>3. vs \in Seq(Int) /\ Len(vs) = period /\ \A i \in 1..period : vs[i] = ms[Len(ns) - period + i]
  BY <1>1, WindowOf
<1>4. \A i \in 1..period : Len(ns) - period + i \in 1..Len(ns)
  OBVIOUS
<1>5. \A i \in 1..period : vs[i] = c - us[i]
  BY <1>2, <1>3, <1>4
<1>6. Reflects(vs, us, c)
  BY <1>2, <1>3, <1>5 DEF Reflects
<1>7. QED BY <1>1, <1>2, <1>3, <1>6

LEMMA BandsReflected ==
  ASSUME NEW ms, NEW ns, NEW c, Reflects(ms, ns, c), NEW period \in Nat \ {0},
         bollinger_bands(ns, period) # None
  PROVE  Equal(bollinger_bands(ms, period).variance, bollinger_bands(ns, period).variance)
<1>1. PICK n \in Nat : n = Len(ns) /\ n = Len(ms)
  BY DEF Reflects
<1>2. period <= n
  BY <1>1 DEF bollinger_bands
<1>3. PICK us, vs : /\ us = SubSeq(ns, Len(ns) - period + 1, Len(ns))
                    /\ vs = SubSeq(ms, Len(ms) - period + 1, Len(ms))
  OBVIOUS
<1>4. /\ ms \in Seq(Int) /\ ns \in Seq(Int) /\ c \in Int /\ Len(ms) = Len(ns)
      /\ \A i \in 1..Len(ns) : ms[i] = c - ns[i]
      /\ period <= Len(ns)
  BY <1>1, <1>2 DEF Reflects
<1>5. /\ us \in Seq(Int) /\ Len(us) = period /\ vs \in Seq(Int) /\ Len(vs) = period
      /\ c \in Int /\ Reflects(vs, us, c)
  <2>1. us \in Seq(Int) /\ vs \in Seq(Int)
    BY <1>4, <1>3, WindowReflected
  <2>2. Len(us) = period /\ Len(vs) = period
    BY <1>4, <1>3, WindowReflected
  <2>3. Reflects(vs, us, c)
    BY <1>4, <1>3, WindowReflected
  <2>4. QED BY <1>4, <2>1, <2>2, <2>3
<1>6. PICK xs \in Seq(Fractional), ys \in Seq(Fractional) :
        /\ xs = Fractions(us) /\ ys = Fractions(vs) /\ Len(xs) = period /\ Len(ys) = period
        /\ \A i \in 1..period : SumsTo(xs[i], ys[i], c)
  BY <1>5, NumbersReflected
<1>7. Equal(Mean(Squares(ys, Mean(ys))), Mean(Squares(xs, Mean(xs))))
  BY <1>5, <1>6, VarianceReflected
<1>8. bollinger_bands(ns, period).variance = Mean(Squares(xs, Mean(xs)))
  <2>1. bollinger_bands(ns, period) = [middle |-> Mean(xs), variance |-> Mean(Squares(xs, Mean(xs)))]
    BY <1>1, <1>2, <1>3, <1>6 DEF bollinger_bands, Squares
  <2>2. QED BY <2>1
<1>9. bollinger_bands(ms, period).variance = Mean(Squares(ys, Mean(ys)))
  <2>1. bollinger_bands(ms, period) = [middle |-> Mean(ys), variance |-> Mean(Squares(ys, Mean(ys)))]
    BY <1>1, <1>2, <1>3, <1>6 DEF bollinger_bands, Squares
  <2>2. QED BY <2>1
<1>10. QED BY <1>7, <1>8, <1>9

LEMMA RangeReflected ==
  ASSUME NEW h \in Int, NEW l \in Int, NEW b \in Int, NEW c \in Int
  PROVE  Larger((c - l) - (c - h), Larger(Magnitude((c - l) - (c - b)), Magnitude((c - h) - (c - b)))) =
         Larger(h - l, Larger(Magnitude(h - b), Magnitude(l - b)))
<1>1. (c - l) - (c - h) = h - l /\ (c - l) - (c - b) = -(l - b) /\ (c - h) - (c - b) = -(h - b)
  OBVIOUS
<1>2. \A m \in Int : Magnitude(-m) = Magnitude(m) /\ Magnitude(m) \in Int
  BY DEF Magnitude
<1>3. PICK d \in Int, e \in Int : d = h - b /\ e = l - b
  OBVIOUS
<1>4. Magnitude(-d) = Magnitude(d) /\ Magnitude(-e) = Magnitude(e)
  BY <1>2
<1>5. \A m \in Int, n \in Int : Larger(m, n) = Larger(n, m)
  BY DEF Larger
<1>6. Larger(Magnitude(e), Magnitude(d)) = Larger(Magnitude(d), Magnitude(e))
  BY <1>2, <1>5
<1>7. QED BY <1>1, <1>3, <1>4, <1>6

LEMMA RangeIsNumber ==
  ASSUME NEW h \in Int, NEW l \in Int, NEW b \in Int
  PROVE  Larger(h - l, Larger(Magnitude(h - b), Magnitude(l - b))) \in Int
<1>1. \A m \in Int : Magnitude(m) \in Int
  BY DEF Magnitude
<1>2. \A m \in Int, k \in Int : Larger(m, k) \in Int
  BY DEF Larger
<1>3. h - l \in Int /\ h - b \in Int /\ l - b \in Int
  OBVIOUS
<1>4. Magnitude(h - b) \in Int /\ Magnitude(l - b) \in Int
  BY <1>1, <1>3
<1>5. QED BY <1>2, <1>3, <1>4

LEMMA TrueRangeReflected ==
  ASSUME NEW candle, NEW h \in Int, h = candle.high, NEW l \in Int, l = candle.low,
         NEW other, NEW c \in Int, other.high = c - l, other.low = c - h,
         NEW b \in Int, NEW a, a = c - b
  PROVE  true_range(other, a) = true_range(candle, b) /\ true_range(candle, b) \in Int
<1>1. true_range(candle, b) = Larger(h - l, Larger(Magnitude(h - b), Magnitude(l - b)))
  BY DEF true_range
<1>2. true_range(other, a) =
        Larger((c - l) - (c - h), Larger(Magnitude((c - l) - (c - b)), Magnitude((c - h) - (c - b))))
  BY DEF true_range
<1>3. QED BY <1>1, <1>2, RangeIsNumber, RangeReflected

LEMMA MirrorReflects ==
  ASSUME Traded
  PROVE  2 * Price \in Int /\ Reflects(MirrorCloses, closes, 2 * Price)
<1>1. /\ closes \in Seq(Int) /\ DOMAIN closes = 1..Len(closes) /\ Len(closes) \in Nat
      /\ \A i \in 1..Len(closes) : closes[i] \in Int
  BY CandlesOfTraded
<1>2. PICK n \in Nat : n = Len(closes)
  BY <1>1
<1> PICK c \in Int : c = 2 * Price
  BY InputsAssumption
<1>3. \A p \in Int : Mirror(p) = c - p
  BY MissingAssumption DEF Mirror
<1>4. MirrorCloses = [i \in 1..n |-> c - closes[i]]
  BY <1>1, <1>2, <1>3 DEF MirrorCloses
<1>5. \A i \in 1..n : c - closes[i] \in Int
  BY <1>1, <1>2
<1>6. MirrorCloses \in Seq(Int) /\ Len(MirrorCloses) = n /\ \A i \in 1..n : MirrorCloses[i] = c - closes[i]
  BY <1>4, <1>5
<1>7. QED BY <1>1, <1>2, <1>6 DEF Reflects

\* Rises and falls are measured alike: the indicators of a market turned upside down are
\* the reflected ones.  RSI is the exception where the price never moved: it reads 100,
\* not 50, on both sides of the mirror (indicators.py:19-33, 30-31).  For any prices, any
\* number of candles and any periods.
THEOREM IndicatorsReflected == Spec => []IndicatorsMirror
<1>1. Traded => IndicatorsMirror
  <2> SUFFICES ASSUME Traded PROVE IndicatorsMirror OBVIOUS
  <2>1. /\ closes \in Seq(Int) /\ Len(closes) \in Nat /\ Len(closes) = Len(candles)
        /\ DOMAIN closes = 1..Len(closes)
    BY CandlesOfTraded
  <2> PICK centre \in Int : centre = 2 * Price
    BY MirrorReflects
  <2>2. Reflects(MirrorCloses, closes, centre)
    BY MirrorReflects
  <2>3. ASSUME Rsi # None
        PROVE  Equal(rsi(MirrorCloses, RSI_PERIOD), IF Moved THEN Plus(<<100, 1>>, Neg(Rsi)) ELSE <<100, 1>>)
    <3>1. PICK period \in Nat : period = RSI_PERIOD /\ period >= 2 /\ Len(closes) >= period + 1
      BY <2>1, <2>3, PeriodsAreNumbers DEF Rsi, rsi
    <3>2. Rsi = rsi(closes, period)
      BY <3>1 DEF Rsi
    <3>3. Equal(rsi(MirrorCloses, period),
                IF \E i \in 1..Len(closes) : closes[i] # closes[1]
                THEN Plus(<<100, 1>>, Neg(rsi(closes, period))) ELSE <<100, 1>>)
      BY <2>2, <3>1, RsiReflected
    <3>4. Moved <=> \E i \in 1..Len(closes) : closes[i] # closes[1]
      BY <2>1 DEF Moved
    <3>5. QED BY <3>1, <3>2, <3>3, <3>4
  <2>4. ASSUME Ema # None
        PROVE  Equal(ema(MirrorCloses, EMA_PERIOD), Plus(<<2 * Price, 1>>, Neg(Ema)))
    <3>1. PICK period \in Nat \ {0} : period = EMA_PERIOD /\ period <= Len(closes)
      BY <2>1, <2>4, PeriodsAreNumbers DEF Ema, ema
    <3>2. PICK x, y : /\ x = ema_series(Fractions(closes), period)[Len(closes)]
                      /\ y = ema_series(Fractions(MirrorCloses), period)[Len(closes)]
      OBVIOUS
    <3>3. x \in Fractional /\ y \in Fractional /\ SumsTo(x, y, centre)
      <4>1. Len(closes) \in period..Len(closes)
        BY <2>1, <3>1
      <4>2. QED BY <2>2, <3>1, <3>2, <4>1, EmaReflected
    <3>4. Len(MirrorCloses) = Len(closes)
      BY <2>2 DEF Reflects
    <3>5. Ema = x /\ ema(MirrorCloses, EMA_PERIOD) = y
      BY <2>1, <3>1, <3>2, <3>4 DEF Ema, ema
    <3>6. QED BY <3>3, <3>5, SumsToEqual
  <2>5. ASSUME Macd # None
        PROVE  Equal(macd(MirrorCloses, MACD_FAST, MACD_SLOW, MACD_SIGNAL).histogram, Neg(Macd.histogram))
    <3>1. PICK fast \in Nat \ {0}, slow \in Nat \ {0}, signal \in Nat \ {0} :
            fast = MACD_FAST /\ slow = MACD_SLOW /\ signal = MACD_SIGNAL
      BY PeriodsAreNumbers
    <3>2. Macd = macd(closes, fast, slow, signal)
      BY <3>1 DEF Macd
    <3>3. Equal(macd(MirrorCloses, fast, slow, signal).histogram,
                Neg(macd(closes, fast, slow, signal).histogram))
      BY <2>2, <2>5, <3>2, MacdReflected
    <3>4. QED BY <3>1, <3>2, <3>3
  <2>6. ASSUME Bands # None
        PROVE  Equal(bollinger_bands(MirrorCloses, BOLLINGER_PERIOD).variance, Bands.variance)
    <3>1. PICK period \in Nat \ {0} : period = BOLLINGER_PERIOD
      BY PeriodsAreNumbers
    <3>2. Bands = bollinger_bands(closes, period)
      BY <3>1 DEF Bands
    <3>3. Equal(bollinger_bands(MirrorCloses, period).variance, bollinger_bands(closes, period).variance)
      BY <2>2, <2>6, <3>2, BandsReflected
    <3>4. QED BY <3>1, <3>2, <3>3
  <2>7. ASSUME Atr # None
        PROVE  Equal(atr(MirrorCandles, ATR_PERIOD), Atr)
    <3> DEFINE rs == [i \in 1..(Len(candles) - 1) |-> true_range(candles[i + 1], candles[i].close)]
               qs == [i \in 1..(Len(candles) - 1) |-> true_range(MirrorCandles[i + 1], MirrorCandles[i].close)]
    <3>1. PICK n \in Nat : n = Len(candles) /\ n - 1 >= ATR_PERIOD /\ n - 1 >= 1
      <4>1. ~(Len(candles) < ATR_PERIOD + 1)
        BY <2>7 DEF Atr, atr
      <4>2. Len(candles) \in Nat
        BY <2>1
      <4>3. QED BY <4>1, <4>2, PeriodsAreNumbers
    <3>2. /\ Len(MirrorCandles) = n
          /\ \A i \in 1..n : /\ MirrorCandles[i].high = centre - candles[i].low
                             /\ MirrorCandles[i].low = centre - candles[i].high
                             /\ MirrorCandles[i].close = centre - candles[i].close
      <4>1. \A p \in Int : Mirror(p) = centre - p
        BY MissingAssumption DEF Mirror
      <4>2. MirrorCandles = [i \in 1..n |-> [high |-> centre - candles[i].low, low |-> centre - candles[i].high,
                                             close |-> centre - candles[i].close]]
        BY <3>1, <4>1, CandlesOfTraded DEF MirrorCandles
      <4>3. QED BY <3>1, <4>2
    <3>3. ASSUME NEW i \in 1..(n - 1)
          PROVE  /\ true_range(MirrorCandles[i + 1], MirrorCandles[i].close) =
                      true_range(candles[i + 1], candles[i].close)
                 /\ true_range(candles[i + 1], candles[i].close) \in Int
      <4>1. i \in 1..n /\ i + 1 \in 1..n
        BY <3>1
      <4>2. PICK h \in Int, l \in Int, b \in Int :
              h = candles[i + 1].high /\ l = candles[i + 1].low /\ b = candles[i].close
        BY <3>1, <4>1, CandlesOfTraded
      <4>3. /\ MirrorCandles[i + 1].high = centre - l /\ MirrorCandles[i + 1].low = centre - h
            /\ MirrorCandles[i].close = centre - b
        BY <3>2, <4>1, <4>2
      <4>4. QED BY <4>2, <4>3, TrueRangeReflected
    <3>4. qs = rs /\ rs \in Seq(Int) /\ Len(rs) = n - 1
      BY <3>1, <3>3
    <3>5. Atr = Wilder(rs, ATR_PERIOD) /\ atr(MirrorCandles, ATR_PERIOD) = Wilder(qs, ATR_PERIOD)
      <4>1. ATR_PERIOD \in Nat /\ n >= ATR_PERIOD + 1
        BY <3>1, PeriodsAreNumbers
      <4>2. Atr = Wilder(rs, ATR_PERIOD)
        BY <2>7 DEF Atr, atr
      <4>3. ~(Len(MirrorCandles) < ATR_PERIOD + 1) /\ Len(MirrorCandles) = Len(candles)
        BY <3>1, <3>2, <4>1
      <4>4. atr(MirrorCandles, ATR_PERIOD) = Wilder(qs, ATR_PERIOD)
        BY <4>3 DEF atr
      <4>5. QED BY <4>2, <4>4
    <3> HIDE DEF rs, qs
    <3>6. Wilder(rs, ATR_PERIOD) \in Fractional
      <4>1. PICK period \in Nat \ {0} : period = ATR_PERIOD /\ period <= Len(rs)
        BY <3>1, <3>4, PeriodsAreNumbers
      <4>2. \A i \in 1..Len(rs) : rs[i] <= rs[i]
        BY <3>4
      <4>3. Wilder(rs, period) \in Fractional
        BY <3>4, <4>1, <4>2, WilderOrdered
      <4>4. QED BY <4>1, <4>3
    <3>7. QED BY <3>4, <3>5, <3>6, EqualToItself
  <2>8. QED BY <2>3, <2>4, <2>5, <2>6, <2>7 DEF IndicatorsMirror
<1>2. QED BY <1>1, CandlesInvariant, PTL

-----------------------------------------------------------------------------
(* Averages of a steady trend. *)

\* Every number is the one before it plus slope.
Steady(ns, slope) == /\ ns \in Seq(Int) /\ slope \in Int
                     /\ \A i \in 1..(Len(ns) - 1) : ns[i + 1] - ns[i] = slope

LEMMA StepOfSteady ==
  ASSUME NEW ns, NEW slope, Steady(ns, slope), NEW i \in 2..Len(ns)
  PROVE  ns[i] \in Int /\ ns[i - 1] \in Int /\ ns[i] = ns[i - 1] + slope
<1>1. ns \in Seq(Int) /\ slope \in Int /\ Len(ns) \in Nat
  BY DEF Steady
<1>2. i \in 1..Len(ns) /\ i - 1 \in 1..Len(ns) /\ i - 1 \in 1..(Len(ns) - 1) /\ (i - 1) + 1 = i
  BY <1>1
<1>3. ns[i] \in Int /\ ns[i - 1] \in Int
  BY <1>1, <1>2, ElementOfSeq
<1>4. ns[(i - 1) + 1] - ns[i - 1] = slope
  BY <1>2 DEF Steady
<1>5. QED BY <1>1, <1>2, <1>3, <1>4

LEMMA SeedOfSteady ==
  ASSUME NEW ns, NEW slope, Steady(ns, slope), NEW period \in Nat \ {0}, period <= Len(ns)
  PROVE  At(Mean(SubSeq(Fractions(ns), 1, period)), 2 * ns[period] - slope * (period - 1), 2)
<1>1. ns \in Seq(Int) /\ slope \in Int /\ Len(ns) \in Nat
  BY DEF Steady
<1>2. /\ Fractions(ns) \in Seq(Fractional) /\ Len(Fractions(ns)) = Len(ns)
      /\ \A i \in 1..Len(ns) : ns[i] \in Int /\ Fractions(ns)[i] = <<ns[i], 1>>
  BY <1>1, FractionsOf
<1>3. PICK us \in Seq(Fractional) :
        /\ us = SubSeq(Fractions(ns), 1, period) /\ Len(us) = period
        /\ \A i \in 1..period : us[i] = <<ns[i], 1>> /\ ns[i] \in Int
  <2>1. PICK us \in Seq(Fractional) :
          /\ us = SubSeq(Fractions(ns), 1, period) /\ Len(us) = period
          /\ \A i \in 1..period : us[i] = Fractions(ns)[i] /\ i \in 1..Len(ns)
    BY <1>2, Seed
  <2>2. QED BY <1>2, <2>1
<1>4. PICK g : /\ Sum(us) = g[period] /\ g[0] = Zero
               /\ \A i \in 1..period : g[i] = Plus(g[i - 1], us[i])
  BY <1>3, SumIsLast
<1> DEFINE Holds(i) == At(g[i], i * (2 * ns[i] - slope * (i - 1)), 2)
<1>5. ASSUME NEW i \in 1..period PROVE At(us[i], ns[i] * 2, 2)
  <2>1. PICK n \in Int, s \in Nat \ {0} : n = ns[i] /\ s = 2
    BY <1>3
  <2>2. At(<<n, 1>>, n * s, s)
    BY AtInteger
  <2>3. QED BY <1>3, <2>1, <2>2
<1>6. Holds(1)
  <2>1. g[1] = Plus(Zero, us[1]) /\ 1 \in 1..period
    BY <1>4
  <2>2. At(Zero, 0, 2)
    BY DEF At, Zero, Fractional
  <2>3. PICK n \in Int : n = ns[1]
    BY <1>3, <2>1
  <2>4. At(us[1], n * 2, 2)
    BY <1>5, <2>1, <2>3
  <2>5. At(Plus(Zero, us[1]), 0 + n * 2, 2)
    BY <2>2, <2>4, AtPlus
  <2>6. 0 + n * 2 = 1 * (2 * n - slope * (1 - 1))
    BY <1>1
  <2>7. QED BY <2>1, <2>3, <2>5, <2>6
<1>7. ASSUME NEW i \in 2..period, Holds(i - 1) PROVE Holds(i)
  <2>1. i \in 2..Len(ns) /\ i \in 1..period
    BY <1>1
  <2>2. PICK n \in Int, m \in Int : n = ns[i] /\ m = ns[i - 1] /\ m = n - slope
    BY <1>1, <2>1, StepOfSteady
  <2>3. PICK v : v = (i - 1) * (2 * m - slope * ((i - 1) - 1)) OBVIOUS
  <2>4. At(g[i - 1], v, 2)
    BY <1>7, <2>2, <2>3
  <2>5. At(us[i], n * 2, 2)
    BY <1>5, <2>1, <2>2
  <2>6. At(Plus(g[i - 1], us[i]), v + n * 2, 2)
    BY <2>4, <2>5, AtPlus
  <2>7. v + n * 2 = i * (2 * n - slope * (i - 1))
    <3>1. i \in Int /\ slope \in Int
      BY <1>1
    <3>2. n \in Int /\ m \in Int /\ m = n - slope
      BY <2>2
    <3>3. QED BY ONLY <2>3, <3>1, <3>2
  <2>8. g[i] = Plus(g[i - 1], us[i])
    BY <1>4, <2>1
  <2>9. QED BY <2>2, <2>6, <2>7, <2>8
<1> HIDE DEF Holds
<1>8. Holds(period)
  <2> DEFINE Good == {d \in 0..(period - 1) : Holds(1 + d)}
  <2>1. period - 1 \in Nat /\ 1 + 0 = 1 /\ 1 + (period - 1) = period
    OBVIOUS
  <2>2. 0 \in Good
    BY <1>6, <2>1
  <2>3. ASSUME NEW d \in 1..(period - 1), d - 1 \in Good PROVE d \in Good
    <3>1. 1 + d \in 2..period /\ (1 + d) - 1 = 1 + (d - 1)
      OBVIOUS
    <3>2. QED BY <1>7, <2>3, <3>1
  <2> HIDE DEF Good
  <2>4. period - 1 \in Good
    BY <2>1, <2>2, <2>3, NoLeastCounterexample DEF Good
  <2>5. QED BY <2>1, <2>4 DEF Good
<1>9. PICK v \in Int : v = 2 * ns[period] - slope * (period - 1)
  <2>1. ns[period] \in Int
    BY <1>3
  <2>2. QED BY <1>1, <2>1
<1>10. At(Sum(us), period * v, 2)
  BY <1>4, <1>8, <1>9 DEF Holds
<1>11. At(Mean(us), period * v, 2 * period)
  <2>1. Len(us) # 0
    BY <1>3
  <2>2. At(Mean(us), period * v, 2 * Len(us))
    BY <1>10, <2>1, AtMean
  <2>3. QED BY <1>3, <2>2
<1>12. At(Mean(us), v, 2)
  <2>1. period * v = v * period
    OBVIOUS
  <2>2. At(Mean(us), v * period, 2 * period)
    BY <1>11, <2>1
  <2>3. PICK s \in Nat \ {0} : s = 2
    OBVIOUS
  <2>4. At(Mean(us), v, s)
    BY <2>2, <2>3, AtUnscaled
  <2>5. QED BY <2>3, <2>4
<1>13. QED BY <1>3, <1>9, <1>12

\* An average lags behind a steady trend by slope (period - 1) / 2.
LEMMA EmaLags ==
  ASSUME NEW ns, NEW slope, Steady(ns, slope), NEW period \in Nat \ {0}, period <= Len(ns)
  PROVE  \A i \in period..Len(ns) :
           At(ema_series(Fractions(ns), period)[i], 2 * ns[i] - slope * (period - 1), 2)
<1>1. ns \in Seq(Int) /\ slope \in Int /\ Len(ns) \in Nat
  BY DEF Steady
<1>2. PICK n \in Nat : n = Len(ns)
  BY <1>1
<1>3. PICK xs \in Seq(Fractional) :
        /\ xs = Fractions(ns) /\ Len(xs) = n
        /\ \A i \in 1..n : ns[i] \in Int /\ xs[i] = <<ns[i], 1>>
  BY <1>1, <1>2, FractionsOf
<1>4. PICK k \in Shares : k = <<2, period + 1>>
  <2>1. <<2, period + 1>> \in Shares
    BY DEF Shares
  <2>2. QED BY <2>1
<1>5. PICK g : /\ g = Smoothed(xs, period, k)
               /\ g[period] = Mean(SubSeq(xs, 1, period))
               /\ \A i \in (period + 1)..n : g[i] = Toward(g[i - 1], xs[i], k)
  <2>1. Len(xs) \in Nat /\ Len(xs) = n /\ period <= Len(xs)
    BY <1>2, <1>3
  <2>2. QED BY <2>1, SmoothedUnfolds
<1> DEFINE Holds(i) == At(g[i], 2 * ns[i] - slope * (period - 1), 2)
<1>6. Holds(period)
  BY <1>3, <1>5, SeedOfSteady
<1>7. ASSUME NEW i \in (period + 1)..n, Holds(i - 1) PROVE Holds(i)
  <2>1. i \in 2..Len(ns) /\ i \in 1..n
    BY <1>2
  <2>2. PICK b \in Int, a \in Int : b = ns[i] /\ a = ns[i - 1] /\ b = a + slope
    BY <2>1, StepOfSteady
  <2>3. PICK v \in Int, w \in Int : v = 2 * a - slope * (period - 1) /\ w = 2 * b - slope * (period - 1)
    <3>1. slope * (period - 1) \in Int
      BY <1>1
    <3>2. QED BY <3>1
  <2>4. At(g[i - 1], v, 2)
    BY <1>7, <2>2, <2>3
  <2>5. PICK s \in Nat \ {0}, y \in Int : s = 2 /\ y = b * 2
    OBVIOUS
  <2>6. At(xs[i], y, s) /\ At(g[i - 1], v, s)
    BY <1>3, <2>1, <2>2, <2>4, <2>5, AtInteger
  <2>7. At(Toward(g[i - 1], xs[i], k), v * k[2] + (y - v) * k[1], s * k[2])
    BY <2>6, AtToward
  <2>8. PICK m \in Nat \ {0} : m = period + 1 /\ k = <<2, m>>
    BY <1>4
  <2>9. v * m + (y - v) * 2 = w * m
    <3>1. w = v + 2 * slope
      <4>1. PICK z \in Int : z = slope * (period - 1)
        BY <1>1
      <4>2. v = 2 * a - z /\ w = 2 * b - z
        BY <2>3, <4>1
      <4>3. b = a + slope /\ slope \in Int
        BY <1>1, <2>2
      <4>4. (2 * b) - z = ((2 * a) - z) + 2 * slope
        BY <4>3
      <4>5. QED BY <4>2, <4>4
    <3>2. y = w + slope * (period - 1)
      BY <1>1, <2>3, <2>5
    <3>3. v * m + (y - v) * 2 = v * m + (2 * slope + slope * (period - 1)) * 2
      BY <1>1, <3>1, <3>2
    <3>4. w * m = v * m + (2 * slope) * m
      BY <1>1, <3>1
    <3>5. (2 * slope + slope * (period - 1)) * 2 = (2 * slope) * m
      <4>1. (2 * slope + slope * (period - 1)) * 2 = (2 * slope) * (period + 1)
        BY <1>1
      <4>2. QED BY <2>8, <4>1
    <3>6. QED BY <3>3, <3>4, <3>5
  <2>10. At(Toward(g[i - 1], xs[i], k), w * m, s * m)
    BY <2>7, <2>8, <2>9
  <2>11. At(Toward(g[i - 1], xs[i], k), w, s)
    BY <2>10, AtUnscaled
  <2>12. g[i] = Toward(g[i - 1], xs[i], k)
    BY <1>5
  <2>13. QED BY <2>2, <2>3, <2>5, <2>11, <2>12
<1> HIDE DEF Holds
<1>8. ASSUME NEW j \in period..n PROVE Holds(j)
  <2> DEFINE Good == {d \in 0..(j - period) : Holds(period + d)}
  <2>1. j - period \in Nat /\ period + 0 = period /\ period + (j - period) = j
    OBVIOUS
  <2>2. 0 \in Good
    BY <1>6, <2>1
  <2>3. ASSUME NEW d \in 1..(j - period), d - 1 \in Good PROVE d \in Good
    <3>1. period + d \in (period + 1)..n /\ (period + d) - 1 = period + (d - 1)
      OBVIOUS
    <3>2. QED BY <1>7, <2>3, <3>1
  <2> HIDE DEF Good
  <2>4. j - period \in Good
    BY <2>1, <2>2, <2>3, NoLeastCounterexample DEF Good
  <2>5. QED BY <2>1, <2>4 DEF Good
<1>9. QED BY <1>2, <1>3, <1>4, <1>5, <1>8 DEF Holds, ema_series

LEMMA SmoothedOfConstant ==
  ASSUME NEW xs \in Seq(Fractional), NEW m \in Int, \A i \in 1..Len(xs) : At(xs[i], m, 2),
         NEW k \in Shares, NEW period \in Nat \ {0}, period <= Len(xs)
  PROVE  \A i \in period..Len(xs) : At(Smoothed(xs, period, k)[i], m, 2)
<1>1. PICK p \in Int, q \in Int, r \in Int, c \in Int : p = 2 /\ q = 0 /\ r = -2 /\ c = -m
  OBVIOUS
<1>2. ASSUME NEW i \in 1..Len(xs) PROVE Linear(xs[i], xs[i], p, q, m) /\ Linear(xs[i], xs[i], r, q, c)
  <2>1. PICK x : x = xs[i] /\ At(x, m, 2) OBVIOUS
  <2>2. p * m + q * m <= m * 2 /\ r * m + q * m <= c * 2
    BY <1>1
  <2>3. Linear(x, x, p, q, m) /\ Linear(x, x, r, q, c)
    BY <2>1, <2>2, LinearAt
  <2>4. QED BY <2>1, <2>3
<1>3. SUFFICES ASSUME NEW i \in period..Len(xs) PROVE At(Smoothed(xs, period, k)[i], m, 2)
  OBVIOUS
<1>4. PICK x : x = Smoothed(xs, period, k)[i] OBVIOUS
<1>5. x \in Fractional /\ Linear(x, x, p, q, m)
  <2>1. \A j \in 1..Len(xs) : Linear(xs[j], xs[j], p, q, m)
    BY <1>2
  <2>2. \A j \in period..Len(xs) :
          /\ Smoothed(xs, period, k)[j] \in Fractional
          /\ Linear(Smoothed(xs, period, k)[j], Smoothed(xs, period, k)[j], p, q, m)
    BY <2>1, SmoothedLinear
  <2>3. QED BY <1>4, <2>2
<1>6. Linear(x, x, r, q, c)
  <2>1. \A j \in period..Len(xs) :
          Linear(Smoothed(xs, period, k)[j], Smoothed(xs, period, k)[j], r, q, c)
    BY <1>2, SmoothedLinear
  <2>2. QED BY <1>4, <2>1
<1>7. PICK a \in Int, b \in Nat \ {0} : x = <<a, b>> /\ At(x, a, b)
  BY <1>5, AtItself DEF Fractional
<1>8. p * a + q * a <= m * b /\ r * a + q * a <= c * b
  BY <1>5, <1>6, <1>7, LinearAt
<1>9. a * 2 = m * b
  <2>1. PICK d \in Int : d = m * b /\ c * b = -d
    <3>1. (-m) * b = -(m * b) /\ m * b \in Int
      OBVIOUS
    <3>2. QED BY <1>1, <3>1
  <2>2. 2 * a <= d /\ (-2) * a <= -d
    BY <1>1, <1>8, <2>1
  <2>3. QED BY <2>1, <2>2
<1>10. QED BY <1>4, <1>7, <1>9 DEF At

\* The fast and the slow average lag behind by different amounts, always the same ones.
LEMMA MacdOfSteady ==
  ASSUME NEW ns, NEW slope, Steady(ns, slope),
         NEW fast \in Nat \ {0}, NEW slow \in Nat \ {0}, NEW signal \in Nat \ {0},
         macd(ns, fast, slow, signal) # None
  PROVE  /\ Equal(macd(ns, fast, slow, signal).line, <<slope * (slow - fast), 2>>)
         /\ Equal(macd(ns, fast, slow, signal).histogram, <<0, 1>>)
<1>1. PICK n \in Nat : n = Len(ns) /\ ns \in Seq(Int) /\ slope \in Int
  BY DEF Steady
<1>2. PICK first \in Nat : first = Larger(fast, slow) - 1 /\ first + 1 >= fast /\ first + 1 >= slow
  BY DEF Larger
<1>3. PICK size \in Nat : size = Larger(n - first, 0) /\ (size # 0 => size = n - first)
  BY DEF Larger
<1> DEFINE f(i) == ema_series(Fractions(ns), fast)[first + i]
           h(i) == ema_series(Fractions(ns), slow)[first + i]
<1>4. PICK us : us = macd_line_series(ns, fast, slow) OBVIOUS
<1>5. us = [i \in 1..size |-> Minus(f(i), h(i))]
  BY <1>1, <1>2, <1>3, <1>4 DEF macd_line_series
<1>6. PICK m \in Int : m = slope * (slow - fast)
  BY <1>1
<1>7. ASSUME NEW i \in 1..size
      PROVE  At(Minus(f(i), h(i)), m, 2) /\ Minus(f(i), h(i)) \in Fractional
  <2>1. first + i \in fast..n /\ first + i \in slow..n /\ fast <= n /\ slow <= n /\ first + i \in 1..n
    <3>1. i <= size /\ size # 0 /\ 1 <= i
      OBVIOUS
    <3>2. i <= n - first
      BY <1>3, <3>1
    <3>3. QED BY <1>2, <3>1, <3>2
  <2>2. PICK b \in Int : b = ns[first + i]
    BY <1>1, <2>1, ElementOfSeq
  <2>3. PICK v, w : v = 2 * b - slope * (fast - 1) /\ w = 2 * b - slope * (slow - 1)
    OBVIOUS
  <2>4. At(f(i), v, 2)
    BY <1>1, <2>1, <2>2, <2>3, EmaLags
  <2>5. At(h(i), w, 2)
    BY <1>1, <2>1, <2>2, <2>3, EmaLags
  <2> HIDE DEF f, h
  <2>6. At(Minus(f(i), h(i)), v - w, 2)
    BY <2>4, <2>5, AtMinus
  <2>7. v - w = m
    BY <1>1, <1>6, <2>3
  <2>8. QED BY <2>6, <2>7 DEF At
<1> HIDE DEF f, h
<1>8. us \in Seq(Fractional) /\ Len(us) = size /\ \A i \in 1..size : At(us[i], m, 2)
  BY <1>5, <1>7
<1>9. size >= signal
  BY <1>4, <1>8 DEF macd
<1>10. PICK k \in Shares : k = <<2, signal + 1>>
  <2>1. <<2, signal + 1>> \in Shares
    BY DEF Shares
  <2>2. QED BY <2>1
<1>11. PICK x, y : x = us[size] /\ y = Smoothed(us, signal, k)[size]
  OBVIOUS
<1>12. /\ macd(ns, fast, slow, signal).line = x
       /\ macd(ns, fast, slow, signal).histogram = Minus(x, y)
  <2>1. macd(ns, fast, slow, signal) = [line |-> x, signal |-> y, histogram |-> Minus(x, y)]
    BY <1>4, <1>8, <1>9, <1>10, <1>11 DEF macd, ema_series
  <2>2. QED BY <2>1
<1>13. At(x, m, 2)
  <2>1. size \in 1..size
    BY <1>9
  <2>2. QED BY <1>8, <1>11, <2>1
<1>14. At(y, m, 2)
  <2>1. size \in signal..Len(us) /\ signal <= Len(us) /\ \A i \in 1..Len(us) : At(us[i], m, 2)
    BY <1>8, <1>9
  <2>2. QED BY <1>8, <1>11, <2>1, SmoothedOfConstant
<1>15. Equal(x, <<m, 2>>)
  <2>1. At(<<m, 2>>, m, 2)
    BY DEF At, Fractional
  <2>2. QED BY <1>13, <2>1, AtCompares
<1>16. Equal(Minus(x, y), <<0, 1>>)
  <2>1. PICK z \in Int : z = m - m
    OBVIOUS
  <2>2. At(Minus(x, y), z, 2)
    BY <1>13, <1>14, <2>1, AtMinus
  <2>3. At(<<0, 1>>, 0, 2)
    BY DEF At, Fractional
  <2>4. z = 0
    BY <2>1
  <2>5. QED BY <2>2, <2>3, <2>4, AtCompares
<1>17. QED BY <1>6, <1>12, <1>15, <1>16

\* In a market that rises or falls by the same amount every candle each average lags
\* behind by a constant, so that MACD is that constant and its histogram zero, from the
\* first candle that has one (indicators.py:1-11, 36-51): for any slope and any periods, and
\* however long the trend lasts.
THEOREM NoMomentumInSteadyTrend == Spec => []SteadyTrendHasNoMomentum
<1>1. Traded => SteadyTrendHasNoMomentum
  <2> SUFFICES ASSUME Traded, NEW slope, slope = closes[2] - closes[1], Macd # None,
                      \A i \in DOMAIN Diffs(closes) : Diffs(closes)[i] = slope
               PROVE  /\ Equal(Macd.line, <<slope * (MACD_SLOW - MACD_FAST), 2>>)
                      /\ Equal(Macd.histogram, <<0, 1>>)
    BY DEF SteadyTrendHasNoMomentum
  <2>1. closes \in Seq(Int) /\ Len(closes) \in Nat
    BY CandlesOfTraded
  <2>2. PICK fast \in Nat \ {0}, slow \in Nat \ {0}, signal \in Nat \ {0} :
          fast = MACD_FAST /\ slow = MACD_SLOW /\ signal = MACD_SIGNAL /\ slow >= 2
    BY PeriodsAreNumbers
  <2>3. Macd = macd(closes, fast, slow, signal)
    BY <2>2 DEF Macd
  <2>4. Len(closes) >= 2
    <3>1. ~(Len(macd_line_series(closes, fast, slow)) < signal)
      BY <2>3 DEF macd
    <3>2. PICK n \in Nat : n = Len(closes)
      BY <2>1
    <3>3. PICK first \in Nat : first = Larger(fast, slow) - 1 /\ first >= 1
      BY <2>2 DEF Larger
    <3>4. PICK size \in Nat : size = Larger(n - first, 0) /\ (size # 0 => size = n - first)
      <4>1. \A m \in Int : Larger(m, 0) \in Nat /\ (Larger(m, 0) # 0 => Larger(m, 0) = m)
        BY DEF Larger
      <4>2. n - first \in Int
        BY <3>2, <3>3
      <4>3. QED BY <4>1, <4>2
    <3>5. Len(macd_line_series(closes, fast, slow)) = size
      BY <3>2, <3>3, <3>4 DEF macd_line_series
    <3>6. QED BY <3>1, <3>2, <3>3, <3>4, <3>5
  <2>5. /\ DOMAIN Diffs(closes) = 1..(Len(closes) - 1)
        /\ \A i \in 1..(Len(closes) - 1) : Diffs(closes)[i] = closes[i + 1] - closes[i]
    BY <2>1, <2>4, DiffsOf
  <2>6. slope \in Int
    <3>1. 1 \in 1..Len(closes) /\ 2 \in 1..Len(closes)
      BY <2>4
    <3>2. QED BY <2>1, <3>1, ElementOfSeq
  <2>7. Steady(closes, slope)
    BY <2>1, <2>5, <2>6 DEF Steady
  <2>8. /\ Equal(macd(closes, fast, slow, signal).line, <<slope * (slow - fast), 2>>)
        /\ Equal(macd(closes, fast, slow, signal).histogram, <<0, 1>>)
    BY <2>3, <2>7, MacdOfSteady
  <2>9. QED BY <2>2, <2>3, <2>8
<1>2. QED BY <1>1, CandlesInvariant, PTL
==============================================================================
