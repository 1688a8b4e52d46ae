----------------------- MODULE HyperdashAdapterProofs -----------------------
(***************************************************************************)
(* What holds of HyperdashAdapter for every watch list, every set of       *)
(* wallets, every set of exposures and every bound.                        *)
(***************************************************************************)
EXTENDS HyperdashAdapter, SequenceTheorems, FiniteSetTheorems, WellFoundedInduction, TLAPS

-----------------------------------------------------------------------------
(* What MapThenSumSet computes over a finite set, whatever order CHOOSE takes the elements in. *)

\* A nonempty collection of finite sets has one that contains no other of them: the
\* induction principle of the proofs below, for the counterexamples to what they show.
LEMMA MinimalExists ==
  ASSUME NEW C, C # {}, \A T \in C : IsFiniteSet(T)
  PROVE  \E T \in C : \A R \in C : R \subseteq T => R = T
<1> DEFINE Sizes == {Cardinality(T) : T \in C}
<1>1. Sizes \subseteq Nat /\ Sizes # {}
  BY FS_CardinalityType
<1>2. PICK n \in Sizes : \A k \in Sizes : ~(<<k, n>> \in OpToRel(<, Nat))
  <2> HIDE DEF Sizes
  <2> QED BY <1>1, NatLessThanWellFounded, WFMin
<1>3. \A k \in Sizes : ~(k < n)
  BY <1>1, <1>2 DEF OpToRel
<1>4. PICK T \in C : Cardinality(T) = n
  OBVIOUS
<1>5. ASSUME NEW R \in C, R \subseteq T PROVE R = T
  <2>1. IsFiniteSet(T) /\ IsFiniteSet(R)
    OBVIOUS
  <2>2. Cardinality(R) <= Cardinality(T) /\ (Cardinality(T) = Cardinality(R) => R = T)
    BY <1>5, <2>1, FS_Subset
  <2>3. Cardinality(R) \in Nat /\ Cardinality(T) \in Nat /\ ~(Cardinality(R) < Cardinality(T))
    BY <1>1, <1>3, <1>4
  <2>4. QED BY <2>2, <2>3
<1>6. QED BY <1>5

-----------------------------------------------------------------------------
\* The sum of f over S, for a function f that is defined on S.
SumOver(f, S) == MapThenSumSet(LAMBDA x : f[x], S)

Pick(s) == CHOOSE x \in s : TRUE

\* g has the sum over every subset of S.
IsSum(g, f, S) ==
  g = [s \in SUBSET S |-> IF s = {} THEN 0 ELSE f[Pick(s)] + g[s \ {Pick(s)}]]

LEMMA PickIsIn ==
  ASSUME NEW S, S # {}
  PROVE  Pick(S) \in S
BY DEF Pick

\* The function MapThenSumSet is defined by is one of those, if there is any.
LEMMA SumIsOne ==
  ASSUME NEW f, NEW S, \E g : IsSum(g, f, S)
  PROVE  \E g : IsSum(g, f, S) /\ SumOver(f, S) = g[S]
<1> DEFINE g == CHOOSE g : IsSum(g, f, S)
<1>1. IsSum(g, f, S)
  OBVIOUS
<1>2. SumOver(f, S) = g[S]
  BY DEF IsSum, SumOver, MapThenSumSet, MapThenFoldSet, Pick
<1>3. QED BY <1>1, <1>2

\* Two of them agree where both are defined.
LEMMA SumsAgree ==
  ASSUME NEW f, NEW S, IsFiniteSet(S), NEW U, S \subseteq U,
         NEW g, IsSum(g, f, S), NEW h, IsSum(h, f, U)
  PROVE  g[S] = h[S]
<1> DEFINE C == {T \in SUBSET S : g[T] # h[T]}
<1>1. SUFFICES ASSUME C # {} PROVE FALSE
  OBVIOUS
<1>2. \A T \in C : IsFiniteSet(T)
  BY FS_Subset
<1>3. PICK T \in C : \A R \in C : R \subseteq T => R = T
  <2> HIDE DEF C
  <2> QED BY <1>1, <1>2, MinimalExists
<1>4. /\ g[T] = IF T = {} THEN 0 ELSE f[Pick(T)] + g[T \ {Pick(T)}]
      /\ h[T] = IF T = {} THEN 0 ELSE f[Pick(T)] + h[T \ {Pick(T)}]
  BY DEF IsSum
<1>5. T # {}
  BY <1>4
<1>6. T \ {Pick(T)} \notin C
  BY <1>3, <1>5, PickIsIn
<1>7. QED BY <1>4, <1>5, <1>6

\* How a sum is taken apart, where the functions exist.
LEMMA SumTakenApart ==
  ASSUME NEW f, NEW S, IsFiniteSet(S), \A T \in SUBSET S : \E g : IsSum(g, f, T)
  PROVE  SumOver(f, S) = IF S = {} THEN 0 ELSE f[Pick(S)] + SumOver(f, S \ {Pick(S)})
<1>1. PICK g : IsSum(g, f, S) /\ SumOver(f, S) = g[S]
  BY SumIsOne
<1>2. g[S] = IF S = {} THEN 0 ELSE f[Pick(S)] + g[S \ {Pick(S)}]
  BY <1>1 DEF IsSum
<1> DEFINE R == S \ {Pick(S)}
<1>3. PICK h : IsSum(h, f, R) /\ SumOver(f, R) = h[R]
  BY SumIsOne
<1>4. IsFiniteSet(R)
  BY FS_Subset
<1>5. h[R] = g[R]
  BY <1>1, <1>3, <1>4, SumsAgree
<1>6. QED BY <1>1, <1>2, <1>3, <1>5

\* They exist.
LEMMA SumExists ==
  ASSUME NEW D, NEW f \in [D -> Nat], NEW S \in SUBSET D, IsFiniteSet(S)
  PROVE  \E g : IsSum(g, f, S)
<1> DEFINE C == {T \in SUBSET S : ~\E g : IsSum(g, f, T)}
<1>1. SUFFICES ASSUME C # {} PROVE FALSE
  OBVIOUS
<1>2. \A T \in C : IsFiniteSet(T)
  BY FS_Subset
<1>3. PICK T \in C : \A R \in C : R \subseteq T => R = T
  <2> HIDE DEF C
  <2> QED BY <1>1, <1>2, MinimalExists
<1>4. \A R \in SUBSET T : R # T => \E g : IsSum(g, f, R)
  BY <1>3
<1>5. ASSUME NEW R \in SUBSET T, R # T
      PROVE  SumOver(f, R) = IF R = {} THEN 0 ELSE f[Pick(R)] + SumOver(f, R \ {Pick(R)})
  <2>1. IsFiniteSet(R) /\ \A Q \in SUBSET R : \E g : IsSum(g, f, Q)
    BY <1>4, <1>5, FS_Subset
  <2>2. QED BY <2>1, SumTakenApart
<1> DEFINE Whole == IF T = {} THEN 0 ELSE f[Pick(T)] + SumOver(f, T \ {Pick(T)})
           g == [s \in SUBSET T |-> IF s = T THEN Whole ELSE SumOver(f, s)]
<1>6. ASSUME NEW s \in SUBSET T
      PROVE  g[s] = IF s = {} THEN 0 ELSE f[Pick(s)] + g[s \ {Pick(s)}]
  <2>1. CASE s = {}
    BY <1>5, <2>1
  <2>2. CASE s # {}
    <3>1. s \ {Pick(s)} \in SUBSET T /\ s \ {Pick(s)} # T
      BY <2>2, PickIsIn
    <3>2. g[s \ {Pick(s)}] = SumOver(f, s \ {Pick(s)})
      BY <3>1
    <3>3. QED BY <1>5, <2>2, <3>2
  <2>3. QED BY <2>1, <2>2
<1>7. IsSum(g, f, T)
  BY <1>6 DEF IsSum
<1>8. QED BY <1>3, <1>7

-----------------------------------------------------------------------------
(* What the other modules cite. *)

LEMMA SumOfNone ==
  ASSUME NEW D, NEW f \in [D -> Nat]
  PROVE  SumOver(f, {}) = 0
<1>1. \A T \in SUBSET {} : T = {}
  OBVIOUS
<1>2. \A T \in SUBSET {} : \E g : IsSum(g, f, T)
  BY <1>1, FS_EmptySet, SumExists
<1>3. QED BY <1>2, FS_EmptySet, SumTakenApart

LEMMA SumOfSome ==
  ASSUME NEW D, NEW f \in [D -> Nat], NEW S \in SUBSET D, IsFiniteSet(S), S # {}
  PROVE  SumOver(f, S) = f[Pick(S)] + SumOver(f, S \ {Pick(S)})
<1>1. \A T \in SUBSET S : \E g : IsSum(g, f, T)
  BY FS_Subset, SumExists
<1>2. QED BY <1>1, SumTakenApart

LEMMA SumType ==
  ASSUME NEW D, NEW f \in [D -> Nat], NEW S \in SUBSET D, IsFiniteSet(S)
  PROVE  SumOver(f, S) \in Nat
<1> DEFINE C == {T \in SUBSET S : SumOver(f, T) \notin Nat}
<1>1. SUFFICES ASSUME C # {} PROVE FALSE
  BY DEF C
<1>2. \A T \in C : IsFiniteSet(T)
  BY FS_Subset
<1>3. PICK T \in C : \A R \in C : R \subseteq T => R = T
  <2> HIDE DEF C
  <2> QED BY <1>1, <1>2, MinimalExists
<1>4. T # {} /\ IsFiniteSet(T)
  BY <1>2, SumOfNone
<1>5. SumOver(f, T) = f[Pick(T)] + SumOver(f, T \ {Pick(T)}) /\ Pick(T) \in T
  BY <1>4, SumOfSome, PickIsIn
<1>6. SumOver(f, T \ {Pick(T)}) \in Nat
  BY <1>3, <1>5
<1>7. QED BY <1>5, <1>6

\* The element that is added last may be any.
LEMMA SumWithout ==
  ASSUME NEW D, NEW f \in [D -> Nat], NEW S \in SUBSET D, IsFiniteSet(S), NEW x \in S
  PROVE  SumOver(f, S) = f[x] + SumOver(f, S \ {x})
<1> DEFINE C == {T \in SUBSET S : \E y \in T : SumOver(f, T) # f[y] + SumOver(f, T \ {y})}
<1>1. SUFFICES ASSUME C # {} PROVE FALSE
  BY DEF C
<1>2. \A T \in C : IsFiniteSet(T)
  BY FS_Subset
<1>3. PICK T \in C : \A R \in C : R \subseteq T => R = T
  <2> HIDE DEF C
  <2> QED BY <1>1, <1>2, MinimalExists
<1>4. PICK y \in T : SumOver(f, T) # f[y] + SumOver(f, T \ {y})
  BY <1>3
<1> DEFINE p == Pick(T)
           Rest == T \ {p, y}
<1>5. p \in T /\ SumOver(f, T) = f[p] + SumOver(f, T \ {p})
  BY <1>2, SumOfSome, PickIsIn
<1>6. p # y
  BY <1>4, <1>5
<1>7. SumOver(f, T \ {p}) = f[y] + SumOver(f, Rest)
  <2>1. T \ {p} \notin C /\ y \in T \ {p}
    BY <1>3, <1>5, <1>6
  <2>2. (T \ {p}) \ {y} = Rest
    OBVIOUS
  <2>3. QED BY <2>1, <2>2
<1>8. SumOver(f, T \ {y}) = f[p] + SumOver(f, Rest)
  <2>1. T \ {y} \notin C /\ p \in T \ {y}
    BY <1>3, <1>5, <1>6
  <2>2. (T \ {y}) \ {p} = Rest
    OBVIOUS
  <2>3. QED BY <2>1, <2>2
<1>9. f[p] \in Nat /\ f[y] \in Nat /\ SumOver(f, Rest) \in Nat
  BY <1>5, FS_Subset, SumType
<1>10. QED
  <2> HIDE DEF p, Rest
  <2> QED BY <1>4, <1>5, <1>7, <1>8, <1>9

LEMMA SumWith ==
  ASSUME NEW D, NEW f \in [D -> Nat], NEW S \in SUBSET D, IsFiniteSet(S), NEW x \in D \ S
  PROVE  SumOver(f, S \union {x}) = f[x] + SumOver(f, S)
<1>1. IsFiniteSet(S \union {x}) /\ (S \union {x}) \ {x} = S
  BY FS_AddElement
<1>2. QED BY <1>1, SumWithout

\* Elements that count nothing may be left out.
LEMMA SumOfThoseThatCount ==
  ASSUME NEW D, NEW f \in [D -> Nat], NEW S \in SUBSET D, IsFiniteSet(S),
         NEW T \in SUBSET S, \A x \in S \ T : f[x] = 0
  PROVE  SumOver(f, S) = SumOver(f, T)
<1> DEFINE C == {R \in SUBSET S : T \subseteq R /\ SumOver(f, R) # SumOver(f, T)}
<1>1. SUFFICES ASSUME C # {} PROVE FALSE
  BY DEF C
<1>2. \A R \in C : IsFiniteSet(R)
  BY FS_Subset
<1>3. PICK R \in C : \A Q \in C : Q \subseteq R => Q = R
  <2> HIDE DEF C
  <2> QED BY <1>1, <1>2, MinimalExists
<1>4. PICK x \in R : x \notin T
  <2>1. T \subseteq R /\ R # T
    BY <1>3
  <2>2. QED BY <2>1
<1>5. SumOver(f, R) = f[x] + SumOver(f, R \ {x}) /\ f[x] = 0
  BY <1>2, <1>4, SumWithout
<1>6. SumOver(f, R \ {x}) = SumOver(f, T)
  BY <1>3, <1>4
<1>7. SumOver(f, T) \in Nat
  BY FS_Subset, SumType
<1>8. SumOver(f, R) = SumOver(f, T)
  <2> HIDE DEF C
  <2> QED BY <1>5, <1>6, <1>7
<1>9. QED BY <1>8

-----------------------------------------------------------------------------
(* Coins, zones and alerts. *)

\* The coin at a position of the watch list is a watched coin.
LEMMA WatchedCoin ==
  ASSUME NEW i \in 1..Len(WatchCoins)
  PROVE  WatchCoins[i] \in Coins
BY DEF Coins

\* The zone after a sample is a zone (position_skew.py:21-30).
LEMMA NextZoneType ==
  ASSUME NEW zone \in SkewZone, NEW s
  PROVE  next_zone(zone, s) \in SkewZone
BY DEF next_zone, SkewZone

\* What a change of zone announces is the head of an alert.
LEMMA AlertHeadType ==
  ASSUME NEW old \in SkewZone, NEW new \in SkewZone
  PROVE  AlertHead(old, new) \in AlertHeads
BY DEF AlertHead, AlertHeads

-----------------------------------------------------------------------------
(* Type correctness. *)

LEMMA TypeOfMarket ==
  ASSUME TypeOK, Environment
  PROVE  TypeOK'
<1> USE ExposuresAssumption, BoundsAssumption DEF TypeOK, Times
<1>1. CASE Tick
  BY <1>1 DEF Tick, base, skew, locals, lists, reading, ghosts
<1>2. ASSUME NEW h \in Holdings, NEW value \in Exposures, Trade(h, value)
      PROVE  TypeOK'
  <2>1. position' \in [Holdings -> Exposures]
    BY <1>2 DEF Trade
  <2>2. flat' \subseteq Holdings /\ traded' \in BOOLEAN
    BY <1>2 DEF Trade, ghosts
  <2>3. QED BY <1>2, <2>1, <2>2 DEF Trade, base, skew, locals, lists, reading
<1>3. QED BY <1>1, <1>2 DEF Environment

LEMMA TypeOfDeltas ==
  ASSUME TypeOK, AskDeltas, failures < MaxConsecutiveFailures
  PROVE  TypeOK'
<1> PICK i \in 1..Len(WatchCoins) :
      \/ \E qualifying \in SUBSET Wallets : DeltasOk(i, qualifying)
      \/ DeltasFail(i)
      \/ FetchRaises(i)
  BY DEF AskDeltas
<1> DEFINE c == WatchCoins[i]
<1>1. c \in Coins /\ Len(WatchCoins) \in Nat
  BY WatchedCoin, WatchCoinsAssumption
<1> HIDE DEF c
<1>2. ASSUME NEW qualifying \in SUBSET Wallets, DeltasOk(i, qualifying)
      PROVE  TypeOK'
  <2>1. coinStatus' \in [Coins -> [state : {"STALE", "LIVE", "ERROR"}, at : Times \union {Never}]]
    BY <1>1, <1>2 DEF DeltasOk, TypeOK, c
  <2>2. listed' \subseteq Coins /\ addresses' \in [Coins -> SUBSET Wallets]
    BY <1>1, <1>2 DEF DeltasOk, TypeOK, c
  <2>3. next' \in 1..(Len(WatchCoins) + 1)
    BY <1>1, <1>2 DEF DeltasOk, AtCoin
  <2>4. QED BY <1>2, <2>1, <2>2, <2>3
            DEF DeltasOk, TypeOK, world, market, ghosts, base, skew, reading
<1>3. CASE DeltasFail(i)
  <2>1. coinStatus' \in [Coins -> [state : {"STALE", "LIVE", "ERROR"}, at : Times \union {Never}]]
    BY <1>3 DEF DeltasFail, MarkError, TypeOK
  <2>2. next' \in 1..(Len(WatchCoins) + 1)
    BY <1>1, <1>3 DEF DeltasFail, AtCoin
  <2>3. QED BY <1>3, <2>1, <2>2
            DEF DeltasFail, TypeOK, world, market, ghosts, base, skew, locals, lists, reading
<1>4. CASE FetchRaises(i)
  <2>1. failures' \in 0..MaxConsecutiveFailures
    BY <1>4, BoundsAssumption DEF FetchRaises, TypeOK
  <2>2. disabled' \in BOOLEAN
    BY <1>4 DEF FetchRaises, Trips
  <2>3. QED BY <1>4, <2>1, <2>2
            DEF FetchRaises, TypeOK, Stages, world, market, ghosts, skew, locals, lists, reading
<1>5. QED BY <1>2, <1>3, <1>4

LEMMA TypeOfWallets ==
  ASSUME TypeOK, AskWallets
  PROVE  TypeOK'
<1> PICK w \in Wallets : WalletRead(w) \/ WalletFails(w)
  BY DEF AskWallets
<1>1. CASE WalletRead(w)
  <2>1. CoinsOf(w) \subseteq Coins /\ \A c \in Coins : <<w, c>> \in Holdings
    BY DEF CoinsOf, Holdings
  <2>2. \A c \in Coins : position[<<w, c>>] \in Int
    BY <2>1, ExposuresAssumption DEF TypeOK
  <2>3. longUsd' \in [Coins -> Nat]
    BY <1>1, <2>2 DEF WalletRead, TypeOK
  <2>4. shortUsd' \in [Coins -> Nat]
    BY <1>1, <2>2 DEF WalletRead, TypeOK
  <2>5. observed' \subseteq Holdings /\ confirmed' \subseteq Holdings
    BY <1>1, <2>1 DEF WalletRead, TypeOK
  <2>6. toRead' \subseteq Wallets
    BY <1>1 DEF WalletRead, TypeOK
  <2>7. events' \subseteq [holding : Holdings, usd : Exposures]
    <3>1. \A c \in Coins : position[<<w, c>>] \in Exposures
      BY <2>1 DEF TypeOK
    <3>2. \A c \in Coins : [holding |-> <<w, c>>, usd |-> position[<<w, c>>]]
                            \in [holding : Holdings, usd : Exposures]
      BY <2>1, <3>1
    <3>3. \A e \in events' : e \in events \/ \E c \in Coins :
                             e = [holding |-> <<w, c>>, usd |-> position[<<w, c>>]]
      BY <1>1, <2>1 DEF WalletRead
    <3>4. events \subseteq [holding : Holdings, usd : Exposures]
      BY DEF TypeOK
    <3>5. QED BY <3>2, <3>3, <3>4
  <2>8. QED BY <1>1, <2>3, <2>4, <2>5, <2>6, <2>7
            DEF WalletRead, TypeOK, world, market, ghosts, base, skew, lists
<1>2. CASE WalletFails(w)
  <2>1. coinStatus' \in [Coins -> [state : {"STALE", "LIVE", "ERROR"}, at : Times \union {Never}]]
    BY <1>2 DEF WalletFails, MarkError, TypeOK
  <2>2. QED BY <1>2, <2>1
            DEF WalletFails, TypeOK, world, market, ghosts, base, skew, lists, reading
<1>3. QED BY <1>1, <1>2

LEMMA TypeOfSkew ==
  ASSUME TypeOK, NEW i \in 1..Len(WatchCoins), UpdateSkew(i)
  PROVE  TypeOK'
<1> DEFINE c == WatchCoins[i]
           new == next_zone(zones[c], compute_skew(longUsd[c], shortUsd[c]))
           sample == [coin |-> c, long_usd |-> longUsd[c], short_usd |-> shortUsd[c]]
           head == AlertHead(zones[c], new)
<1>1. c \in Coins /\ Len(WatchCoins) \in Nat
  BY WatchedCoin, WatchCoinsAssumption
<1>2. new \in SkewZone /\ head \in AlertHeads
  BY <1>1, NextZoneType, AlertHeadType DEF TypeOK
<1>3. sample \in Samples
  BY <1>1 DEF TypeOK, Samples
<1> HIDE DEF c, new, sample, head
<1>4. zones' \in [Coins -> SkewZone] /\ next' \in 1..(Len(WatchCoins) + 1)
  BY <1>1, <1>2 DEF UpdateSkew, AtCoin, TypeOK, c, new
<1>5. lastAlert' \in [Coins -> AlertHeads] /\ alertParity' \in [Coins -> {0, 1}]
  <2>1. lastAlert' \in [Coins -> AlertHeads]
    BY <1>1, <1>2 DEF UpdateSkew, TypeOK, c, new, head
  <2>2. alertParity' \in {alertParity, [alertParity EXCEPT ![c] = 1 - alertParity[c]]}
    BY DEF UpdateSkew, c
  <2>3. QED BY <1>1, <2>1, <2>2 DEF TypeOK
<1>6. pendingAlerts' \in Seq(Alerts)
  <2>1. [head |-> head, of |-> sample] \in Alerts
    BY <1>2, <1>3 DEF Alerts
  <2>2. pendingAlerts' \in {pendingAlerts, Append(pendingAlerts, [head |-> head, of |-> sample])}
    BY DEF UpdateSkew, c, new, head, sample
  <2>3. pendingAlerts \in Seq(Alerts)
    BY DEF TypeOK
  <2>4. Append(pendingAlerts, [head |-> head, of |-> sample]) \in Seq(Alerts)
    BY <2>1, <2>3, AppendProperties
  <2>5. QED BY <2>2, <2>3, <2>4
<1>7. pendingSnapshots' \in Seq(Snapshots) /\ lastSnapshotAt' \in [Coins -> Times \union {Never}]
  <2>1. [at |-> now, of |-> sample] \in Snapshots
    BY <1>3 DEF Snapshots, TypeOK
  <2>2. pendingSnapshots' \in {pendingSnapshots, Append(pendingSnapshots, [at |-> now, of |-> sample])}
    BY DEF UpdateSkew, c, sample
  <2>3. lastSnapshotAt' \in {lastSnapshotAt, [lastSnapshotAt EXCEPT ![c] = now]}
    BY DEF UpdateSkew, c
  <2>4. pendingSnapshots \in Seq(Snapshots) /\ now \in Times
        /\ lastSnapshotAt \in [Coins -> Times \union {Never}]
    BY DEF TypeOK
  <2>5. Append(pendingSnapshots, [at |-> now, of |-> sample]) \in Seq(Snapshots)
    BY <2>1, <2>4, AppendProperties
  <2>6. QED BY <1>1, <2>2, <2>3, <2>4, <2>5
<1>8. QED BY <1>4, <1>5, <1>6, <1>7
          DEF UpdateSkew, TypeOK, world, market, ghosts, base, locals, lists, reading

\* A poll is running only while the source is enabled, and every failure that is
\* on record is below the limit that disables it (base.py:48-68).
EnabledWhilePolling ==
  /\ disabled => lastError
  /\ pc \in {"deltas", "wallets", "skew"} => ~disabled
  /\ ~disabled => failures < MaxConsecutiveFailures

\* Between polls the locals of a fetch are as the next one finds them.
LocalsReset ==
  pc = "idle" => /\ listed = {} /\ toRead = {} /\ observed = {} /\ confirmed = {}
                 /\ events = {} /\ next = 1

TypeInv == TypeOK /\ EnabledWhilePolling

\* Every step keeps it.
LEMMA TypeInvStep ==
  ASSUME TypeInv, [Next]_vars
  PROVE  TypeInv'
<1>0. TypeOK /\ EnabledWhilePolling BY DEF TypeInv
<1>1. CASE Environment
  <2>1. UNCHANGED <<base, pc>>
    BY <1>1 DEF Environment, Tick, Trade
  <2>2. QED BY <1>0, <1>1, <2>1, TypeOfMarket DEF TypeInv, EnabledWhilePolling, base
<1>2. CASE SkipDisabled
  BY <1>0, <1>2 DEF TypeInv, TypeOK, EnabledWhilePolling, SkipDisabled, Stages,
     world, market, ghosts, base, skew, locals, lists, reading
<1>3. CASE StartFetch
  <2>1. flat' \subseteq Holdings BY <1>3 DEF StartFetch
  <2>2. QED BY <1>0, <1>3, <2>1 DEF TypeInv, TypeOK, EnabledWhilePolling, StartFetch,
               Stages, market, base, skew, lists, reading
<1>4. CASE AskDeltas
  <2>1. pc = "deltas" BY <1>4 DEF AskDeltas, DeltasOk, DeltasFail, FetchRaises, AtCoin
  <2>2. failures < MaxConsecutiveFailures BY <1>0, <2>1 DEF EnabledWhilePolling
  <2>3. TypeOK' BY <1>0, <1>4, <2>2, TypeOfDeltas
  <2>4. EnabledWhilePolling'
    <3>1. CASE UNCHANGED <<base, pc>>
      BY <1>0, <3>1 DEF EnabledWhilePolling, base
    <3>2. ASSUME NEW i \in 1..Len(WatchCoins), FetchRaises(i)
          PROVE  EnabledWhilePolling'
      <4>1. disabled' <=> failures + 1 >= MaxConsecutiveFailures
        BY <3>2 DEF FetchRaises, Trips
      <4>2. lastError' /\ pc' = "returned" /\ failures' = failures + 1
        BY <3>2 DEF FetchRaises
      <4>3. ~disabled' => failures' < MaxConsecutiveFailures
        BY <1>0, <4>1, <4>2, BoundsAssumption DEF TypeOK
      <4>4. QED BY <4>2, <4>3 DEF EnabledWhilePolling
    <3>3. QED BY <1>4, <3>1, <3>2 DEF AskDeltas, DeltasOk, DeltasFail
  <2>5. QED BY <2>3, <2>4 DEF TypeInv
<1>5. CASE StartWallets
  BY <1>0, <1>5 DEF TypeInv, TypeOK, EnabledWhilePolling, StartWallets, Stages,
     world, market, ghosts, base, skew, lists, reading
<1>6. CASE AskWallets
  <2>1. UNCHANGED <<base, pc>>
    BY <1>6 DEF AskWallets, WalletRead, WalletFails
  <2>2. QED BY <1>0, <1>6, <2>1, TypeOfWallets DEF TypeInv, EnabledWhilePolling, base
<1>7. CASE ReadPrices
  BY <1>0, <1>7, WatchCoinsAssumption DEF TypeInv, TypeOK, EnabledWhilePolling, ReadPrices,
     Stages, world, market, ghosts, base, skew, locals, lists, reading
<1>8. ASSUME NEW i \in 1..Len(WatchCoins), UpdateSkew(i) PROVE TypeInv'
  <2>1. UNCHANGED <<base, pc>>
    BY <1>8 DEF UpdateSkew
  <2>2. QED BY <1>0, <1>8, <2>1, TypeOfSkew DEF TypeInv, EnabledWhilePolling, base
<1>9. CASE FinishFetch
  <2>1. active' \in [Coins -> SUBSET Wallets]
    BY <1>0, <1>9 DEF FinishFetch, NowActive, TypeOK
  <2>2. lastSuccessAt' \in Times \union {Never} /\ failures' \in 0..MaxConsecutiveFailures
    BY <1>0, <1>9, BoundsAssumption DEF FinishFetch, TypeOK
  <2>3. TypeOK'
    BY <1>0, <1>9, <2>1, <2>2 DEF TypeOK, FinishFetch, Stages, world, market, ghosts,
       skew, locals, lists, reading
  <2>4. ~disabled' BY <1>0, <1>9 DEF EnabledWhilePolling, FinishFetch
  <2>5. failures' < MaxConsecutiveFailures /\ pc' = "returned"
    BY <1>9, BoundsAssumption DEF FinishFetch
  <2>6. QED BY <2>3, <2>4, <2>5 DEF TypeInv, EnabledWhilePolling
<1>10. CASE Consume
  <2>1. pendingAlerts' \in Seq(Alerts) /\ pendingSnapshots' \in Seq(Snapshots)
    BY <1>10 DEF Consume
  <2>2. longUsd' \in [Coins -> Nat] /\ shortUsd' \in [Coins -> Nat]
        /\ addresses' \in [Coins -> SUBSET Wallets]
    BY <1>10 DEF Consume, ResetLocals
  <2>3. next' \in 1..(Len(WatchCoins) + 1) /\ now' \in Times
    BY <1>10, WatchCoinsAssumption, BoundsAssumption DEF Consume, ResetLocals, Times
  <2>4. QED BY <1>0, <1>10, <2>1, <2>2, <2>3 DEF TypeInv, TypeOK, EnabledWhilePolling,
               Consume, ResetLocals, Stages, market, base
<1>11. CASE UNCHANGED vars
  BY <1>0, <1>11 DEF TypeInv, TypeOK, EnabledWhilePolling, vars,
     world, market, ghosts, base, skew, locals, lists, reading
<1>12. QED BY <1>1, <1>2, <1>3, <1>4, <1>5, <1>6, <1>7, <1>8, <1>9, <1>10, <1>11
           DEF Next, Fetch

\* A new adapter satisfies it at whatever time and in whatever market it starts.
LEMMA FreshAdapter ==
  position \in [Holdings -> Exposures] /\ clock \in Times /\ InitAdapter => TypeInv
<1> SUFFICES ASSUME position \in [Holdings -> Exposures], clock \in Times, InitAdapter
             PROVE  TypeInv
  OBVIOUS
<1> USE BoundsAssumption, WatchCoinsAssumption DEF InitAdapter
<1>1. lastAlert \in [Coins -> AlertHeads] /\ alertParity \in [Coins -> {0, 1}]
      /\ zones \in [Coins -> SkewZone]
  BY DEF Quiet, AlertHeads, SkewZone
<1>2. now \in Times /\ next \in 1..(Len(WatchCoins) + 1)
  BY DEF Times
<1>3. pendingAlerts \in Seq(Alerts) /\ pendingSnapshots \in Seq(Snapshots)
  OBVIOUS
<1>4. coinStatus \in [Coins -> [state : {"STALE", "LIVE", "ERROR"}, at : Times \union {Never}]]
      /\ lastSnapshotAt \in [Coins -> Times \union {Never}]
  OBVIOUS
<1>5. failures \in 0..MaxConsecutiveFailures
  OBVIOUS
<1>6. longUsd \in [Coins -> Nat] /\ shortUsd \in [Coins -> Nat]
      /\ active \in [Coins -> SUBSET Wallets] /\ addresses \in [Coins -> SUBSET Wallets]
  OBVIOUS
<1>7. TypeOK
  BY <1>1, <1>2, <1>3, <1>4, <1>5, <1>6 DEF TypeOK, Stages
<1>8. EnabledWhilePolling
  BY DEF EnabledWhilePolling
<1>9. QED BY <1>7, <1>8 DEF TypeInv

THEOREM TypeInvariant == Spec => []TypeInv
<1>1. Init => TypeInv
  BY FreshAdapter, BoundsAssumption DEF Init, Times
<1>2. TypeInv /\ [Next]_vars => TypeInv'
  BY TypeInvStep
<1>3. QED BY <1>1, <1>2, PTL DEF Spec

\* Every variable keeps its type.
THEOREM TypeCorrect == Spec => []TypeOK
<1>1. TypeInv => TypeOK BY DEF TypeInv
<1>2. QED BY <1>1, TypeInvariant, PTL

-----------------------------------------------------------------------------
(* A tracked wallet is dropped only when it really was flat. *)

\* Every holding that is flat now, and every holding that was read as nothing
\* while tracked, has been flat since the fetch began.
FlatInv ==
  Fetching => /\ \A h \in Holdings : position[h] = 0 => h \in flat
              /\ confirmed \ observed \subseteq flat

\* Only the end of a poll leads back between the polls.
LEMMA LocalsResetStep ==
  ASSUME LocalsReset, [Next]_vars
  PROVE  LocalsReset'
<1> SUFFICES ASSUME pc' = "idle" PROVE LocalsReset'
  BY DEF LocalsReset
<1>1. CASE Environment \/ UNCHANGED vars
  BY <1>1 DEF Environment, Tick, Trade, vars, locals, lists, reading, LocalsReset
<1>2. CASE Consume
  BY <1>2 DEF Consume, ResetLocals, LocalsReset
<1>3. ~Fetch
  BY DEF Fetch, SkipDisabled, StartFetch, AskDeltas, DeltasOk, DeltasFail, FetchRaises, AtCoin,
     StartWallets, AskWallets, WalletRead, WalletFails, ReadPrices, UpdateSkew, FinishFetch
<1>4. QED BY <1>1, <1>2, <1>3 DEF Next

LEMMA IdleLocals == Spec => []LocalsReset
<1>1. Init => LocalsReset
  BY DEF Init, InitAdapter, LocalsReset
<1>2. LocalsReset /\ [Next]_vars => LocalsReset'
  BY LocalsResetStep
<1>3. QED BY <1>1, <1>2, PTL DEF Spec

\* Every step keeps it, a trade in the middle of the fetch included.
LEMMA FlatStep ==
  ASSUME TypeInv, LocalsReset, FlatInv, [Next]_vars
  PROVE  FlatInv'
<1> USE DEF FlatInv, Fetching
<1>1. CASE Tick
  BY <1>1 DEF Tick, ghosts, locals, reading
<1>2. ASSUME NEW h \in Holdings, NEW value \in Exposures, Trade(h, value)
      PROVE  FlatInv'
  <2>1. SUFFICES ASSUME Fetching PROVE FlatInv'
    BY <1>2 DEF Trade
  <2>2. flat' = IF value = 0 THEN flat \union {h} ELSE flat
    BY <1>2, <2>1 DEF Trade
  <2>3. position' = [position EXCEPT ![h] = value] /\ position \in [Holdings -> Exposures]
    BY <1>2 DEF Trade, TypeInv, TypeOK
  <2>4. UNCHANGED <<confirmed, observed, pc>>
    BY <1>2 DEF Trade, locals, reading
  <2>5. QED BY <2>1, <2>2, <2>3, <2>4
<1>3. CASE StartFetch
  <2>1. confirmed' \ observed' = {}
    BY <1>3 DEF StartFetch, reading, LocalsReset
  <2>2. QED BY <1>3, <2>1 DEF StartFetch, market
<1>4. CASE AskDeltas
  BY <1>4 DEF AskDeltas, DeltasOk, DeltasFail, FetchRaises, AtCoin,
     world, market, ghosts, locals, reading
<1>5. ASSUME NEW w \in Wallets, WalletRead(w) PROVE FlatInv'
  <2>1. UNCHANGED <<position, flat, pc>> /\ Fetching
    BY <1>5 DEF WalletRead, world, market, ghosts
  <2>2. ASSUME NEW h \in confirmed', h \notin observed' PROVE h \in flat
    <3>1. CASE h \in confirmed
      BY <1>5, <2>1, <2>2, <3>1 DEF WalletRead
    <3>2. CASE h \notin confirmed
      <4>1. PICK c \in CoinsOf(w) : h = <<w, c>> /\ w \in active[c]
        BY <1>5, <3>2 DEF WalletRead
      <4>2. ~IsObserved(w, c)
        BY <1>5, <2>2, <4>1 DEF WalletRead
      <4>3. position[<<w, c>>] = 0 /\ <<w, c>> \in Holdings
        BY <4>1, <4>2 DEF IsObserved, CoinsOf, Holdings
      <4>4. QED BY <2>1, <4>1, <4>3
    <3>3. QED BY <3>1, <3>2
  <2>3. QED BY <2>1, <2>2
<1>6. ASSUME NEW w \in Wallets, WalletFails(w) PROVE FlatInv'
  BY <1>6 DEF WalletFails, world, market, ghosts, reading
<1>7. CASE StartWallets \/ ReadPrices
  BY <1>7 DEF StartWallets, ReadPrices, world, market, ghosts, locals, reading
<1>8. ASSUME NEW i \in 1..Len(WatchCoins), UpdateSkew(i) PROVE FlatInv'
  BY <1>8 DEF UpdateSkew, world, market, ghosts, locals, reading
<1>9. CASE SkipDisabled \/ FinishFetch \/ Consume
  BY <1>9 DEF SkipDisabled, FinishFetch, Consume
<1>10. CASE UNCHANGED vars
  BY <1>10 DEF vars, world, market, ghosts, locals, reading
<1>11. QED BY <1>1, <1>2, <1>3, <1>4, <1>5, <1>6, <1>7, <1>8, <1>9, <1>10
           DEF Next, Environment, Fetch, AskWallets

LEMMA FlatInvariant == Spec => []FlatInv
<1>1. Init => FlatInv
  BY DEF Init, InitAdapter, FlatInv, Fetching
<1>2. TypeInv /\ LocalsReset /\ FlatInv /\ [Next]_vars => FlatInv'
  BY FlatStep
<1>3. QED BY <1>1, <1>2, TypeInvariant, IdleLocals, PTL DEF Spec

\* Only the end of a fetch drops wallets, and only those read as nothing.
LEMMA OnlyFinishDrops ==
  ASSUME TypeOK, [Next]_vars, NEW c \in Coins, NEW w \in active[c] \ active'[c]
  PROVE  FinishFetch /\ <<w, c>> \in confirmed \ observed
<1>1. active' # active
  OBVIOUS
<1>2. FinishFetch
  BY <1>1 DEF Next, Environment, Tick, Trade, Fetch, SkipDisabled, StartFetch, AskDeltas,
     DeltasOk, DeltasFail, FetchRaises, StartWallets, AskWallets, WalletRead, WalletFails,
     ReadPrices, UpdateSkew, Consume, vars
<1>3. w \notin NowActive(c) /\ w \in Wallets
  BY <1>2 DEF FinishFetch, TypeOK
<1>4. QED BY <1>2, <1>3 DEF NowActive

\* A wallet stops being tracked only if its position was flat at some moment of
\* the poll that dropped it (hyperdash.py:185-189).
THEOREM DropsAreWarranted == Spec => DropOnlyWhenFlat
<1> DEFINE Warrant == \A c \in Coins : \A w \in active[c] \ active'[c] : <<w, c>> \in flat
<1>1. TypeInv /\ FlatInv /\ [Next]_vars => [Warrant]_vars
  <2> SUFFICES ASSUME TypeInv, FlatInv, [Next]_vars,
                      NEW c \in Coins, NEW w \in active[c] \ active'[c]
               PROVE  <<w, c>> \in flat
    OBVIOUS
  <2>1. FinishFetch /\ <<w, c>> \in confirmed \ observed
    BY OnlyFinishDrops DEF TypeInv
  <2>2. QED BY <2>1 DEF FlatInv, Fetching, FinishFetch
<1>2. QED BY <1>1, TypeInvariant, FlatInvariant, PTL DEF Spec, DropOnlyWhenFlat

-----------------------------------------------------------------------------
(* The alerts about a coin alternate. *)

\* A zone changes to or from neutral, never from one side to the other
\* (position_skew.py:21-30).
LEMMA ZoneStep ==
  ASSUME NEW zone \in SkewZone, NEW s, next_zone(zone, s) # zone
  PROVE  zone # "neutral" => next_zone(zone, s) = "neutral"
BY DEF next_zone, SkewZone

\* The zone of a coin is what its latest alert announced.
ZoneAnnounced ==
  \A c \in Coins : IF zones[c] = "neutral"
                   THEN lastAlert[c].direction = "exit"
                   ELSE lastAlert[c] = [zone |-> zones[c], direction |-> "enter"]

\* What one pass of _update_skew's loop does to the coin it is about.
LEMMA SkewStep ==
  ASSUME TypeOK, ZoneAnnounced, NEW i \in 1..Len(WatchCoins), UpdateSkew(i)
  PROVE  \E c \in Coins :
           /\ c = WatchCoins[i]
           /\ zones' = [zones EXCEPT ![c] = zones'[c]]
           /\ zones'[c] = next_zone(zones[c], compute_skew(longUsd[c], shortUsd[c]))
           /\ \/ UNCHANGED <<zones, lastAlert, alertParity>>
              \/ /\ zones[c] = "neutral" /\ zones'[c] \in SkewZone \ {"neutral"}
                 /\ alertParity' = [alertParity EXCEPT ![c] = 1 - alertParity[c]]
                 /\ lastAlert' = [lastAlert EXCEPT ![c] =
                                    [zone |-> zones'[c], direction |-> "enter"]]
              \/ /\ zones[c] # "neutral" /\ zones'[c] = "neutral"
                 /\ alertParity' = [alertParity EXCEPT ![c] = 1 - alertParity[c]]
                 /\ lastAlert' = [lastAlert EXCEPT ![c] =
                                    [zone |-> zones[c], direction |-> "exit"]]
<1> DEFINE c == WatchCoins[i]
           new == next_zone(zones[c], compute_skew(longUsd[c], shortUsd[c]))
<1>1. c \in Coins /\ zones \in [Coins -> SkewZone]
  BY WatchedCoin DEF TypeOK
<1>2. new \in SkewZone
  BY <1>1, NextZoneType
<1>3. new # zones[c] /\ zones[c] # "neutral" => new = "neutral"
  BY <1>1, ZoneStep
<1>4. zones' = [zones EXCEPT ![c] = new]
  BY DEF UpdateSkew
<1>5. new = zones[c] => UNCHANGED <<zones, lastAlert, alertParity>>
  BY <1>1, <1>4 DEF UpdateSkew
<1>6. new # zones[c] => /\ lastAlert' = [lastAlert EXCEPT ![c] = AlertHead(zones[c], new)]
                        /\ alertParity' = [alertParity EXCEPT ![c] = 1 - alertParity[c]]
  BY DEF UpdateSkew
<1> HIDE DEF c, new
<1>7. zones'[c] = new
  BY <1>1, <1>4
<1>8. QED BY <1>1, <1>2, <1>3, <1>4, <1>5, <1>6, <1>7 DEF AlertHead, c, new

\* Only _update_skew moves a zone, and it announces the move.
LEMMA ZoneAnnouncedStep ==
  ASSUME TypeInv, ZoneAnnounced, [Next]_vars
  PROVE  ZoneAnnounced'
<1>1. CASE UNCHANGED <<zones, lastAlert>>
  BY <1>1 DEF ZoneAnnounced
<1>2. ASSUME NEW i \in 1..Len(WatchCoins), UpdateSkew(i) PROVE ZoneAnnounced'
  <2>1. zones \in [Coins -> SkewZone] /\ lastAlert \in [Coins -> AlertHeads]
    BY DEF TypeInv, TypeOK
  <2>2. QED BY <1>2, <2>1, SkewStep DEF ZoneAnnounced, TypeInv
<1>3. QED BY <1>1, <1>2 DEF Next, Environment, Tick, Trade, Fetch, SkipDisabled, StartFetch,
   AskDeltas, DeltasOk, DeltasFail, FetchRaises, StartWallets, AskWallets, WalletRead,
   WalletFails, ReadPrices, FinishFetch, Consume, vars, skew

LEMMA ZoneAnnouncedInvariant == Spec => []ZoneAnnounced
<1>1. Init => ZoneAnnounced
  BY DEF Init, InitAdapter, ZoneAnnounced, Quiet
<1>2. TypeInv /\ ZoneAnnounced /\ [Next]_vars => ZoneAnnounced'
  BY ZoneAnnouncedStep
<1>3. QED BY <1>1, <1>2, TypeInvariant, PTL DEF Spec

\* Whatever the market does and whichever requests fail, the alerts about every
\* coin alternate: enter, then exit of the same zone, then enter
\* (position_skew.py:61-72).
THEOREM AlertsKeepPromise == Spec => AlertsAlternate
<1>1. Init => Promise!Init
  BY DEF Init, InitAdapter, Promise!Init, Promise!Quiet, Quiet
<1>2. TypeInv /\ ZoneAnnounced /\ [Next]_vars => [Promise!Next]_<<lastAlert, alertParity>>
  <2> SUFFICES ASSUME TypeInv, ZoneAnnounced, [Next]_vars, ~UNCHANGED <<lastAlert, alertParity>>
               PROVE  Promise!Next
    OBVIOUS
  <2>1. PICK i \in 1..Len(WatchCoins) : UpdateSkew(i)
    BY DEF Next, Environment, Tick, Trade, Fetch, SkipDisabled, StartFetch,
       AskDeltas, DeltasOk, DeltasFail, FetchRaises, StartWallets, AskWallets, WalletRead,
       WalletFails, ReadPrices, FinishFetch, Consume, vars, skew
  <2>2. PICK c \in Coins :
          \/ /\ zones[c] = "neutral" /\ zones'[c] \in SkewZone \ {"neutral"}
             /\ alertParity' = [alertParity EXCEPT ![c] = 1 - alertParity[c]]
             /\ lastAlert' = [lastAlert EXCEPT ![c] =
                                [zone |-> zones'[c], direction |-> "enter"]]
          \/ /\ zones[c] # "neutral"
             /\ alertParity' = [alertParity EXCEPT ![c] = 1 - alertParity[c]]
             /\ lastAlert' = [lastAlert EXCEPT ![c] =
                                [zone |-> zones[c], direction |-> "exit"]]
    BY <2>1, SkewStep DEF TypeInv
  <2>3. Promise!Exit(c) \/ \E zone \in SkewZone \ {"neutral"} : Promise!Enter(c, zone)
    <3>1. CASE zones[c] = "neutral"
      BY <2>2, <3>1 DEF ZoneAnnounced, Promise!Enter, Promise!Announce
    <3>2. CASE zones[c] # "neutral"
      <4>1. lastAlert[c] = [zone |-> zones[c], direction |-> "enter"]
        BY <3>2 DEF ZoneAnnounced
      <4>2. lastAlert[c].direction = "enter" /\ lastAlert[c].zone = zones[c]
        BY <4>1
      <4>3. QED BY <2>2, <3>2, <4>2 DEF Promise!Exit, Promise!Announce
    <3>3. QED BY <3>1, <3>2
  <2>4. QED BY <2>3 DEF Promise!Next, Promise!SkewZone, SkewZone
<1>3. QED BY <1>1, <1>2, TypeInvariant, ZoneAnnouncedInvariant, PTL
          DEF Spec, AlertsAlternate, Promise!Spec

-----------------------------------------------------------------------------
(* After a completed poll every zone agrees with the poll's sample. *)

\* The zone a sample leads to: never one whose side is below 70%, and the side
\* above 75% unless the opposite dominance had to be left first.
LEMMA ZoneSettles ==
  ASSUME NEW l \in Nat, NEW s \in Nat, NEW zone \in SkewZone,
         NEW new, new = next_zone(zone, compute_skew(l, s))
  PROVE  /\ new = "long_dominant"  => ~Below70(l, l + s)
         /\ new = "short_dominant" => ~Below70(s, l + s)
         /\ Above75(l, l + s) /\ new # "long_dominant"
              => new = "neutral" /\ zone = "short_dominant"
         /\ Above75(s, l + s) /\ new # "short_dominant"
              => new = "neutral" /\ zone = "long_dominant"
<1> DEFINE k == compute_skew(l, s)
<1>1. CASE l + s <= 0
  <2>1. l = 0 /\ s = 0
    BY <1>1
  <2>2. k = [long |-> 0, short |-> 0, whole |-> 1]
    BY <1>1 DEF compute_skew
  <2>3. new = "neutral"
    BY <2>2 DEF next_zone, Dominates, Faded, Own, SkewZone, DOMINANT_THRESHOLD, EXIT_THRESHOLD
  <2>4. QED BY <2>1, <2>3 DEF Above75
<1>2. CASE l + s > 0
  <2>1. k = [long |-> l, short |-> s, whole |-> l + s]
    BY <1>2 DEF compute_skew
  <2>2. k.long = l /\ k.short = s /\ k.whole = l + s
    BY <2>1
  <2>3. CASE zone = "neutral"
    BY <1>2, <2>2, <2>3 DEF next_zone, Dominates, Above75, Below70, DOMINANT_THRESHOLD
  <2>4. CASE zone = "long_dominant"
    BY <1>2, <2>2, <2>4 DEF next_zone, Faded, Own, Above75, Below70, EXIT_THRESHOLD
  <2>5. CASE zone = "short_dominant"
    BY <1>2, <2>2, <2>5 DEF next_zone, Faded, Own, Above75, Below70, EXIT_THRESHOLD
  <2>6. QED BY <2>3, <2>4, <2>5 DEF SkewZone
<1>3. QED BY <1>1, <1>2

\* The coins the running _update_skew has passed agree with the sample.
SampledAgree ==
  /\ pc = "skew" => \A j \in 1..Len(WatchCoins) : j < next => ZoneAgrees(WatchCoins[j])
  /\ ZonesFollowSamples

LEMMA SkewSettles ==
  ASSUME TypeOK, ZoneAnnounced, SampledAgree, NEW i \in 1..Len(WatchCoins), UpdateSkew(i)
  PROVE  SampledAgree'
<1>1. PICK c \in Coins :
        /\ c = WatchCoins[i]
        /\ zones' = [zones EXCEPT ![c] = zones'[c]]
        /\ zones'[c] = next_zone(zones[c], compute_skew(longUsd[c], shortUsd[c]))
        /\ \/ UNCHANGED <<zones, lastAlert>>
           \/ /\ zones[c] = "neutral" /\ zones'[c] \in SkewZone \ {"neutral"}
              /\ lastAlert' = [lastAlert EXCEPT ![c] =
                                 [zone |-> zones'[c], direction |-> "enter"]]
           \/ /\ zones[c] # "neutral" /\ zones'[c] = "neutral"
              /\ lastAlert' = [lastAlert EXCEPT ![c] =
                                 [zone |-> zones[c], direction |-> "exit"]]
  BY SkewStep
<1>2. /\ zones \in [Coins -> SkewZone] /\ lastAlert \in [Coins -> AlertHeads]
      /\ longUsd[c] \in Nat /\ shortUsd[c] \in Nat
  BY DEF TypeOK
<1>3. UNCHANGED <<longUsd, shortUsd>> /\ pc = "skew" /\ pc' = "skew" /\ next = i /\ next' = i + 1
  BY DEF UpdateSkew, AtCoin, locals, reading
<1>4. ZoneAgrees(c)'
  <2>1. /\ zones'[c] = "long_dominant"  => ~Below70(longUsd[c], longUsd[c] + shortUsd[c])
        /\ zones'[c] = "short_dominant" => ~Below70(shortUsd[c], longUsd[c] + shortUsd[c])
        /\ Above75(longUsd[c], longUsd[c] + shortUsd[c]) /\ zones'[c] # "long_dominant"
             => zones'[c] = "neutral" /\ zones[c] = "short_dominant"
        /\ Above75(shortUsd[c], longUsd[c] + shortUsd[c]) /\ zones'[c] # "short_dominant"
             => zones'[c] = "neutral" /\ zones[c] = "long_dominant"
    BY <1>1, <1>2, ZoneSettles
  <2>2. zones[c] # "neutral" /\ zones'[c] = "neutral"
          => lastAlert'[c] = [zone |-> zones[c], direction |-> "exit"]
    BY <1>1, <1>2
  <2>3. QED BY <1>3, <2>1, <2>2 DEF ZoneAgrees
<1>5. ASSUME NEW d \in Coins, d # c, ZoneAgrees(d) PROVE ZoneAgrees(d)'
  <2>1. zones'[d] = zones[d] /\ lastAlert'[d] = lastAlert[d]
    BY <1>1, <1>2, <1>5
  <2>2. QED BY <1>3, <1>5, <2>1 DEF ZoneAgrees
<1>6. ASSUME NEW j \in 1..Len(WatchCoins), j < next' PROVE ZoneAgrees(WatchCoins[j])'
  <2>1. CASE WatchCoins[j] = c
    BY <1>4, <2>1
  <2>2. CASE WatchCoins[j] # c
    <3>1. j < next /\ WatchCoins[j] \in Coins
      BY <1>1, <1>3, <1>6, <2>2, WatchedCoin, WatchCoinsAssumption
    <3>2. ZoneAgrees(WatchCoins[j])
      BY <1>3, <3>1 DEF SampledAgree
    <3>3. QED BY <1>5, <2>2, <3>1, <3>2
  <2>3. QED BY <2>1, <2>2
<1>7. ZonesFollowSamples'
  BY <1>3 DEF ZonesFollowSamples, Completed
<1>8. QED BY <1>6, <1>7 DEF SampledAgree

\* Only _update_skew moves a zone, and the sample it moves it by does not change.
LEMMA SampledAgreeStep ==
  ASSUME TypeInv, ZoneAnnounced, SampledAgree, [Next]_vars
  PROVE  SampledAgree'
<1>1. CASE Environment \/ UNCHANGED vars
  <2>1. UNCHANGED <<pc, next, zones, lastAlert, longUsd, shortUsd, lastError>>
    BY <1>1 DEF Environment, Tick, Trade, vars, base, skew, locals, reading
  <2>2. QED BY <2>1 DEF SampledAgree, ZonesFollowSamples, Completed, ZoneAgrees
<1>2. CASE StartFetch \/ AskDeltas \/ StartWallets \/ AskWallets \/ Consume
  <2>1. pc' # "skew" /\ ~Completed'
    BY <1>2 DEF StartFetch, AskDeltas, DeltasOk, DeltasFail, FetchRaises, AtCoin, StartWallets,
       AskWallets, WalletRead, WalletFails, Consume, Completed
  <2>2. QED BY <2>1 DEF SampledAgree, ZonesFollowSamples
<1>3. CASE SkipDisabled
  <2>1. pc' # "skew" /\ ~Completed'
    BY <1>3 DEF SkipDisabled, Completed, TypeInv, EnabledWhilePolling, base
  <2>2. QED BY <2>1 DEF SampledAgree, ZonesFollowSamples
<1>4. CASE ReadPrices
  <2>1. pc' = "skew" /\ next' = 1
    BY <1>4 DEF ReadPrices
  <2>2. QED BY <2>1 DEF SampledAgree, ZonesFollowSamples, Completed
<1>5. ASSUME NEW i \in 1..Len(WatchCoins), UpdateSkew(i) PROVE SampledAgree'
  BY <1>5, SkewSettles DEF TypeInv
<1>6. CASE FinishFetch
  <2>1. UNCHANGED <<zones, lastAlert, longUsd, shortUsd>> /\ pc = "skew" /\ pc' = "returned"
        /\ next > Len(WatchCoins)
    BY <1>6 DEF FinishFetch, skew, locals, reading
  <2>2. \A j \in 1..Len(WatchCoins) : ZoneAgrees(WatchCoins[j])
    BY <2>1, WatchCoinsAssumption DEF SampledAgree, TypeInv, TypeOK
  <2>3. \A c \in Coins : ZoneAgrees(c)
    BY <2>2 DEF Coins
  <2>4. \A c \in Coins : ZoneAgrees(c)'
    BY <2>1, <2>3 DEF ZoneAgrees
  <2>5. QED BY <2>1, <2>4 DEF SampledAgree, ZonesFollowSamples
<1>7. QED BY <1>1, <1>2, <1>3, <1>4, <1>5, <1>6 DEF Next, Fetch

LEMMA SampledAgreeInvariant == Spec => []SampledAgree
<1>1. Init => SampledAgree
  BY DEF Init, InitAdapter, SampledAgree, ZonesFollowSamples, Completed
<1>2. TypeInv /\ ZoneAnnounced /\ SampledAgree /\ [Next]_vars => SampledAgree'
  BY SampledAgreeStep
<1>3. QED BY <1>1, <1>2, TypeInvariant, ZoneAnnouncedInvariant, PTL DEF Spec

\* After a poll that completed, every coin's zone agrees with the sample of that
\* poll (position_skew.py:14-30, 61-72, hyperdash.py:207-212).
THEOREM ZonesFollow == Spec => []ZonesFollowSamples
<1>1. SampledAgree => ZonesFollowSamples BY DEF SampledAgree
<1>2. QED BY <1>1, SampledAgreeInvariant, PTL

-----------------------------------------------------------------------------
(* A coin shown LIVE was read completely. *)

Live(c) == coinStatus[c].state = "LIVE"

\* How far the running fetch has read a coin that is LIVE.
ReadSoFar ==
  /\ pc = "deltas" => \A j \in 1..Len(WatchCoins) :
                        j < next /\ Live(WatchCoins[j]) => WatchCoins[j] \in listed
  /\ pc \in {"wallets", "skew"} => \A c \in Coins : Live(c) =>
       c \in listed /\ \A w \in active[c] : <<w, c>> \in confirmed \/ w \in toRead
  /\ pc = "skew" => toRead = {}
  /\ LiveMeansRead

LEMMA ReadDeltas ==
  ASSUME TypeOK, ReadSoFar, AskDeltas
  PROVE  ReadSoFar'
<1> PICK i \in 1..Len(WatchCoins) :
      \/ \E qualifying \in SUBSET Wallets : DeltasOk(i, qualifying)
      \/ DeltasFail(i)
      \/ FetchRaises(i)
  BY DEF AskDeltas
<1>1. pc = "deltas" /\ next = i /\ WatchCoins[i] \in Coins /\ Len(WatchCoins) \in Nat
  BY WatchedCoin, WatchCoinsAssumption DEF DeltasOk, DeltasFail, FetchRaises, AtCoin
<1>2. ASSUME NEW j \in 1..Len(WatchCoins), j < next, Live(WatchCoins[j])
      PROVE  WatchCoins[j] \in listed
  BY <1>1, <1>2 DEF ReadSoFar
<1>3. CASE FetchRaises(i)
  BY <1>3 DEF FetchRaises, ReadSoFar, LiveMeansRead, Completed
<1>4. ASSUME NEW qualifying \in SUBSET Wallets, DeltasOk(i, qualifying) PROVE ReadSoFar'
  <2>1. pc' = "deltas" /\ next' = i + 1 /\ listed' = listed \union {WatchCoins[i]}
        /\ \A c \in Coins : c # WatchCoins[i] => coinStatus'[c] = coinStatus[c]
    BY <1>1, <1>4 DEF DeltasOk, TypeOK
  <2>2. ASSUME NEW j \in 1..Len(WatchCoins), j < next', Live(WatchCoins[j])'
        PROVE  WatchCoins[j] \in listed'
    <3>1. CASE WatchCoins[j] = WatchCoins[i]
      BY <2>1, <3>1
    <3>2. CASE WatchCoins[j] # WatchCoins[i]
      <4>1. j < next /\ Live(WatchCoins[j])
        BY <1>1, <2>1, <2>2, <3>2, WatchedCoin DEF Live
      <4>2. QED BY <1>2, <2>1, <4>1
    <3>3. QED BY <3>1, <3>2
  <2>3. QED BY <2>1, <2>2 DEF ReadSoFar, LiveMeansRead, Completed
<1>5. CASE DeltasFail(i)
  <2>1. pc' = "deltas" /\ next' = i + 1 /\ listed' = listed
    BY <1>1, <1>5 DEF DeltasFail, locals, lists
  <2>2. \A c \in Coins : coinStatus'[c] =
          IF c = WatchCoins[i] THEN [coinStatus[c] EXCEPT !.state = "ERROR"] ELSE coinStatus[c]
    BY <1>5 DEF DeltasFail, MarkError
  <2>3. ASSUME NEW j \in 1..Len(WatchCoins), j < next', Live(WatchCoins[j])'
        PROVE  WatchCoins[j] \in listed'
    <3>1. WatchCoins[j] # WatchCoins[i]
      BY <1>1, <2>2, <2>3 DEF Live, TypeOK
    <3>2. coinStatus'[WatchCoins[j]] = coinStatus[WatchCoins[j]]
      BY <2>2, <3>1, WatchedCoin
    <3>3. j < next /\ Live(WatchCoins[j])
      BY <1>1, <2>1, <2>3, <3>1, <3>2 DEF Live
    <3>4. QED BY <1>2, <2>1, <3>3
  <2>4. QED BY <2>1, <2>3 DEF ReadSoFar, LiveMeansRead, Completed
<1>6. QED BY <1>3, <1>4, <1>5

LEMMA ReadWallets ==
  ASSUME TypeOK, ReadSoFar, AskWallets
  PROVE  ReadSoFar'
<1> PICK w \in Wallets : WalletRead(w) \/ WalletFails(w)
  BY DEF AskWallets
<1>1. pc = "wallets" /\ pc' = "wallets" /\ UNCHANGED <<listed, active>>
      /\ toRead' = toRead \ {w}
  BY DEF WalletRead, WalletFails, lists
<1>2. ASSUME NEW c \in Coins, Live(c)' PROVE Live(c) /\ (WalletRead(w) \/ c \notin CoinsOf(w))
  <2>1. CASE WalletRead(w)
    BY <1>2, <2>1 DEF WalletRead, Live
  <2>2. CASE WalletFails(w)
    <3>1. coinStatus'[c] = IF c \in CoinsOf(w) THEN [coinStatus[c] EXCEPT !.state = "ERROR"]
                                               ELSE coinStatus[c]
      BY <2>2 DEF WalletFails, MarkError
    <3>2. QED BY <1>2, <3>1 DEF Live, TypeOK
  <2>3. QED BY <2>1, <2>2
<1>3. ASSUME NEW c \in Coins, Live(c)'
      PROVE  c \in listed' /\ \A v \in active'[c] : <<v, c>> \in confirmed' \/ v \in toRead'
  <2>1. c \in listed /\ \A v \in active[c] : <<v, c>> \in confirmed \/ v \in toRead
    BY <1>1, <1>2, <1>3 DEF ReadSoFar
  <2>2. confirmed \subseteq confirmed'
    BY DEF WalletRead, WalletFails, reading
  <2>3. w \in active[c] => c \in CoinsOf(w)
    BY <2>1 DEF CoinsOf, Candidates
  <2>4. w \in active[c] => <<w, c>> \in confirmed'
    BY <1>2, <1>3, <2>3 DEF WalletRead
  <2>5. QED BY <1>1, <2>1, <2>2, <2>4
<1>4. QED BY <1>1, <1>3 DEF ReadSoFar, LiveMeansRead, Completed

\* Every step reads on, or leaves what was read alone.
LEMMA ReadSoFarStep ==
  ASSUME TypeInv, LocalsReset, ReadSoFar, [Next]_vars
  PROVE  ReadSoFar'
<1>0. TypeOK /\ EnabledWhilePolling
  BY DEF TypeInv
<1>1. CASE Environment \/ UNCHANGED vars
  <2>1. UNCHANGED <<pc, next, listed, toRead, confirmed, observed, active, coinStatus, lastError>>
    BY <1>1 DEF Environment, Tick, Trade, vars, base, locals, lists, reading
  <2>2. QED BY <2>1 DEF ReadSoFar, LiveMeansRead, Completed, Live
<1>2. CASE StartFetch
  <2>1. pc' = "deltas" /\ next' = 1
    BY <1>2 DEF StartFetch, LocalsReset
  <2>2. QED BY <2>1 DEF ReadSoFar, LiveMeansRead, Completed
<1>3. CASE AskDeltas
  BY <1>0, <1>3, ReadDeltas
<1>4. CASE StartWallets
  <2>1. pc = "deltas" /\ pc' = "wallets" /\ next > Len(WatchCoins)
        /\ UNCHANGED <<listed, active, coinStatus, confirmed>>
        /\ toRead' = {w \in Wallets : CoinsOf(w) # {}}
    BY <1>4 DEF StartWallets, lists, reading
  <2>2. \A j \in 1..Len(WatchCoins) : Live(WatchCoins[j]) => WatchCoins[j] \in listed
    BY <1>0, <2>1, WatchCoinsAssumption DEF ReadSoFar, TypeOK
  <2>3. \A c \in Coins : Live(c) => c \in listed
    BY <2>2 DEF Coins
  <2>4. ASSUME NEW c \in Coins, c \in listed, NEW w \in active[c] PROVE w \in toRead'
    <3>1. c \in CoinsOf(w) /\ w \in Wallets
      BY <1>0, <2>4 DEF CoinsOf, Candidates, TypeOK
    <3>2. QED BY <2>1, <3>1
  <2>5. QED BY <2>1, <2>3, <2>4 DEF ReadSoFar, LiveMeansRead, Completed, Live
<1>5. CASE AskWallets
  BY <1>0, <1>5, ReadWallets
<1>6. CASE ReadPrices
  BY <1>6 DEF ReadPrices, locals, lists, reading, ReadSoFar, LiveMeansRead, Completed, Live
<1>7. ASSUME NEW i \in 1..Len(WatchCoins), UpdateSkew(i) PROVE ReadSoFar'
  <2>1. pc = "skew" /\ UNCHANGED <<pc, listed, toRead, confirmed, active, coinStatus>>
    BY <1>7 DEF UpdateSkew, AtCoin, locals, lists, reading
  <2>2. QED BY <2>1 DEF ReadSoFar, LiveMeansRead, Completed, Live
<1>8. CASE FinishFetch
  <2>1. pc = "skew" /\ pc' = "returned" /\ UNCHANGED <<coinStatus, observed>>
        /\ active' = [c \in Coins |-> NowActive(c)]
    BY <1>8 DEF FinishFetch, locals, reading
  <2>2. ASSUME NEW c \in Coins, Live(c)
        PROVE  NowActive(c) = {w \in Wallets : <<w, c>> \in observed}
    BY <2>1, <2>2 DEF NowActive, ReadSoFar
  <2>3. QED BY <2>1, <2>2 DEF ReadSoFar, LiveMeansRead, Live
<1>9. CASE SkipDisabled
  BY <1>0, <1>9 DEF SkipDisabled, EnabledWhilePolling, ReadSoFar, LiveMeansRead, Completed, base
<1>10. CASE Consume
  BY <1>10 DEF Consume, ReadSoFar, LiveMeansRead, Completed
<1>11. QED BY <1>1, <1>2, <1>3, <1>4, <1>5, <1>6, <1>7, <1>8, <1>9, <1>10 DEF Next, Fetch

LEMMA ReadSoFarInvariant == Spec => []ReadSoFar
<1>1. Init => ReadSoFar
  BY DEF Init, InitAdapter, ReadSoFar, LiveMeansRead, Completed
<1>2. TypeInv /\ LocalsReset /\ ReadSoFar /\ [Next]_vars => ReadSoFar'
  BY ReadSoFarStep
<1>3. QED BY <1>1, <1>2, TypeInvariant, IdleLocals, PTL DEF Spec

\* After a poll that completed, a coin is shown LIVE only if its tracked set is
\* what this poll observed: nobody is carried over from an earlier poll unread
\* (hyperdash.py:122-133, 165-171, 185-189).
THEOREM LiveRowsWereRead == Spec => []LiveMeansRead
<1>1. ReadSoFar => LiveMeansRead BY DEF ReadSoFar
<1>2. QED BY <1>1, ReadSoFarInvariant, PTL

-----------------------------------------------------------------------------
(* An alert about a coin that is LIVE is warranted by what the wallets hold. *)

\* What every wallet holds of c on either side.
Longs(c)  == [w \in Wallets |-> IF position[<<w, c>>] > 0 THEN position[<<w, c>>] ELSE 0]
Shorts(c) == [w \in Wallets |-> IF position[<<w, c>>] < 0 THEN -position[<<w, c>>] ELSE 0]

LEMMA SidesType ==
  ASSUME TypeOK, NEW c \in Coins
  PROVE  Longs(c) \in [Wallets -> Nat] /\ Shorts(c) \in [Wallets -> Nat]
<1>1. \A w \in Wallets : position[<<w, c>>] \in Int
  BY ExposuresAssumption DEF TypeOK, Holdings
<1>2. QED BY <1>1 DEF Longs, Shorts

\* The sums of the model are sums in the sense of SumOver.
LEMMA TrueSums ==
  ASSUME TypeOK, NEW c \in Coins, IsFiniteSet(Followed(c)), Followed(c) \subseteq Wallets
  PROVE  TrueLong(c) = SumOver(Longs(c), Followed(c)) /\ TrueShort(c) = SumOver(Shorts(c), Followed(c))
<1> DEFINE S == Followed(c)
           IsLong(g) == g = [s \in SUBSET S |-> IF s = {} THEN 0 ELSE
              (IF position[<<Pick(s), c>>] > 0 THEN position[<<Pick(s), c>>] ELSE 0) + g[s \ {Pick(s)}]]
           IsShort(g) == g = [s \in SUBSET S |-> IF s = {} THEN 0 ELSE
              (IF position[<<Pick(s), c>>] < 0 THEN -position[<<Pick(s), c>>] ELSE 0) + g[s \ {Pick(s)}]]
<1>1. Longs(c) \in [Wallets -> Nat] /\ Shorts(c) \in [Wallets -> Nat]
  BY SidesType
<1>2. TrueLong(c) = (CHOOSE g : IsLong(g))[S]
  BY DEF TrueLong, MapThenSumSet, MapThenFoldSet, Pick
<1>3. TrueShort(c) = (CHOOSE g : IsShort(g))[S]
  BY DEF TrueShort, MapThenSumSet, MapThenFoldSet, Pick
<1>4. \A s \in SUBSET S : s # {} => Pick(s) \in Wallets
  BY PickIsIn
<1>5. \A g : IsLong(g) <=> IsSum(g, Longs(c), S)
  BY <1>4 DEF IsSum, Longs
<1>6. \A g : IsShort(g) <=> IsSum(g, Shorts(c), S)
  BY <1>4 DEF IsSum, Shorts
<1> HIDE DEF IsLong, IsShort
<1>7. TrueLong(c) = SumOver(Longs(c), S)
  <2>1. PICK g : IsSum(g, Longs(c), S) /\ SumOver(Longs(c), S) = g[S]
    BY <1>1, SumExists, SumIsOne
  <2>2. IsLong(g)
    BY <1>5, <2>1
  <2>3. IsSum(CHOOSE h : IsLong(h), Longs(c), S)
    BY <1>5, <2>2
  <2>4. (CHOOSE h : IsLong(h))[S] = g[S]
    BY <2>1, <2>3, SumsAgree
  <2>5. QED BY <1>2, <2>1, <2>4
<1>8. TrueShort(c) = SumOver(Shorts(c), S)
  <2>1. PICK g : IsSum(g, Shorts(c), S) /\ SumOver(Shorts(c), S) = g[S]
    BY <1>1, SumExists, SumIsOne
  <2>2. IsShort(g)
    BY <1>6, <2>1
  <2>3. IsSum(CHOOSE h : IsShort(h), Shorts(c), S)
    BY <1>6, <2>2
  <2>4. (CHOOSE h : IsShort(h))[S] = g[S]
    BY <2>1, <2>3, SumsAgree
  <2>5. QED BY <1>3, <2>1, <2>4
<1>9. QED BY <1>7, <1>8

Seen(c) == {w \in Wallets : <<w, c>> \in observed}

\* While nobody trades, the sums of a fetch are what the wallets seen so far hold, and who
\* was read and not seen holds nothing.
SumsSoFar ==
  /\ \A c \in Coins : IsFiniteSet(active[c]) /\ IsFiniteSet(Seen(c))
  /\ pc = "idle" => ~traded
  /\ pc \in {"idle", "deltas"} =>
       observed = {} /\ confirmed = {} /\ \A c \in Coins : longUsd[c] = 0 /\ shortUsd[c] = 0
  /\ pc = "wallets" => \A w \in toRead, c \in Coins : <<w, c>> \notin observed
  /\ pc \in {"wallets", "skew"} /\ ~traded => \A c \in Coins :
       /\ longUsd[c] = SumOver(Longs(c), Seen(c))
       /\ shortUsd[c] = SumOver(Shorts(c), Seen(c))
       /\ \A w \in Wallets : <<w, c>> \in confirmed => w \in Seen(c) \/ position[<<w, c>>] = 0

LEMMA ReadAddsUp ==
  ASSUME TypeOK, SumsSoFar, NEW w \in Wallets, WalletRead(w)
  PROVE  SumsSoFar'
<1> USE DEF SumsSoFar
<1> DEFINE seen == {c \in CoinsOf(w) : IsObserved(w, c)}
<1>1. /\ pc = "wallets" /\ w \in toRead /\ toRead' = toRead \ {w}
      /\ observed' = observed \union {<<w, c>> : c \in seen}
      /\ confirmed' = confirmed \union {<<w, c>> : c \in {c \in CoinsOf(w) : w \in active[c]}}
      /\ UNCHANGED <<pc, active, position, traded>>
  BY DEF WalletRead, world, market, ghosts
<1>2. \A v \in Wallets, c \in Coins :
        /\ <<v, c>> \in observed' <=> <<v, c>> \in observed \/ (v = w /\ c \in seen)
        /\ <<v, c>> \in confirmed' <=> <<v, c>> \in confirmed \/ (v = w /\ c \in CoinsOf(w) /\ w \in active[c])
  BY <1>1
<1>3. ASSUME NEW c \in Coins
      PROVE  /\ w \notin Seen(c) /\ IsFiniteSet(Seen(c)')
             /\ Seen(c)' = IF c \in seen THEN Seen(c) \union {w} ELSE Seen(c)
  <2>1. w \notin Seen(c)
    BY <1>1 DEF Seen
  <2>2. Seen(c)' = IF c \in seen THEN Seen(c) \union {w} ELSE Seen(c)
    BY <1>2 DEF Seen
  <2>3. QED BY <2>1, <2>2, FS_AddElement
<1>4. ASSUME ~traded, NEW c \in Coins
      PROVE  /\ longUsd'[c] = SumOver(Longs(c), Seen(c))'
             /\ shortUsd'[c] = SumOver(Shorts(c), Seen(c))'
  <2>1. /\ Longs(c)' = Longs(c) /\ Shorts(c)' = Shorts(c)
        /\ Longs(c) \in [Wallets -> Nat] /\ Shorts(c) \in [Wallets -> Nat]
    BY <1>1, SidesType DEF Longs, Shorts
  <2>2. /\ longUsd'[c] = IF c \in seen /\ position[<<w, c>>] > 0
                         THEN longUsd[c] + position[<<w, c>>] ELSE longUsd[c]
        /\ shortUsd'[c] = IF c \in seen /\ position[<<w, c>>] < 0
                          THEN shortUsd[c] - position[<<w, c>>] ELSE shortUsd[c]
    BY DEF WalletRead
  <2>3. /\ longUsd[c] = SumOver(Longs(c), Seen(c)) /\ shortUsd[c] = SumOver(Shorts(c), Seen(c))
        /\ longUsd[c] \in Nat /\ shortUsd[c] \in Nat
        /\ position[<<w, c>>] \in Int
    BY <1>1, <1>4, ExposuresAssumption DEF TypeOK, Holdings
  <2>4. CASE c \notin seen
    BY <1>3, <2>1, <2>2, <2>3, <2>4
  <2>5. CASE c \in seen
    <3>1. /\ SumOver(Longs(c), Seen(c) \union {w}) = Longs(c)[w] + SumOver(Longs(c), Seen(c))
          /\ SumOver(Shorts(c), Seen(c) \union {w}) = Shorts(c)[w] + SumOver(Shorts(c), Seen(c))
      <4>1. Seen(c) \in SUBSET Wallets /\ IsFiniteSet(Seen(c)) /\ w \in Wallets \ Seen(c)
        BY <1>3 DEF Seen
      <4>2. QED BY <2>1, <4>1, SumWith
    <3>2. /\ Longs(c)[w] = IF position[<<w, c>>] > 0 THEN position[<<w, c>>] ELSE 0
          /\ Shorts(c)[w] = IF position[<<w, c>>] < 0 THEN -position[<<w, c>>] ELSE 0
      BY DEF Longs, Shorts
    <3>3. Seen(c)' = Seen(c) \union {w}
      BY <1>3, <2>5
    <3> HIDE DEF seen
    <3>4. QED BY <2>1, <2>2, <2>3, <2>5, <3>1, <3>2, <3>3
  <2>6. QED BY <2>4, <2>5
<1>5. ASSUME ~traded, NEW c \in Coins, NEW v \in Wallets, <<v, c>> \in confirmed'
      PROVE  v \in Seen(c)' \/ position[<<v, c>>] = 0
  <2>1. CASE <<v, c>> \in confirmed
    BY <1>1, <1>3, <1>5, <2>1
  <2>2. CASE v = w /\ c \in CoinsOf(w) /\ w \in active[c]
    BY <1>3, <2>2 DEF IsObserved
  <2>3. QED BY <1>2, <1>5, <2>1, <2>2
<1>6. \A v \in toRead', c \in Coins : <<v, c>> \notin observed'
  BY <1>1, <1>2 DEF TypeOK
<1>7. QED
  <2> HIDE DEF seen
  <2> QED BY <1>1, <1>3, <1>4, <1>5, <1>6


LEMMA SumsSoFarStep ==
  ASSUME TypeInv, LocalsReset, SumsSoFar, [Next]_vars
  PROVE  SumsSoFar'
<1>0. TypeOK
  BY DEF TypeInv
<1> USE DEF SumsSoFar
<1>1. CASE Tick \/ UNCHANGED vars
  <2>1. UNCHANGED <<pc, active, observed, confirmed, toRead, longUsd, shortUsd, position, traded>>
    BY <1>1 DEF Tick, vars, world, market, ghosts, locals, reading
  <2>2. QED BY <2>1 DEF Seen, Longs, Shorts
<1>2. ASSUME NEW h \in Holdings, NEW value \in Exposures, Trade(h, value) PROVE SumsSoFar'
  <2>1. /\ UNCHANGED <<pc, active, observed, confirmed, toRead, longUsd, shortUsd>>
        /\ IF Fetching THEN traded' = TRUE ELSE traded' = traded
    BY <1>2 DEF Trade, ghosts, locals, reading
  <2>2. \A c \in Coins : Seen(c)' = Seen(c)
    BY <2>1 DEF Seen
  <2>3. QED BY <2>1, <2>2 DEF Fetching
<1>3. CASE StartFetch
  <2>1. pc = "idle" /\ pc' = "deltas" /\ UNCHANGED <<active, observed, confirmed, longUsd, shortUsd>>
    BY <1>3 DEF StartFetch, reading
  <2>2. QED BY <2>1 DEF Seen
<1>4. CASE AskDeltas
  <2>1. pc = "deltas" /\ pc' \in {"deltas", "returned"}
        /\ UNCHANGED <<active, observed, confirmed, longUsd, shortUsd>>
    BY <1>4 DEF AskDeltas, DeltasOk, DeltasFail, FetchRaises, AtCoin, locals, reading
  <2>2. QED BY <2>1 DEF Seen
<1>5. CASE StartWallets
  <2>1. pc = "deltas" /\ pc' = "wallets"
        /\ UNCHANGED <<active, observed, confirmed, longUsd, shortUsd, position>>
    BY <1>5 DEF StartWallets, world, market, reading
  <2>2. /\ observed = {} /\ confirmed = {}
        /\ \A c \in Coins : longUsd[c] = 0 /\ shortUsd[c] = 0
    BY <2>1
  <2>3. ASSUME NEW c \in Coins
        PROVE  /\ Seen(c)' = {} /\ IsFiniteSet(Seen(c)')
               /\ SumOver(Longs(c), {}) = 0 /\ SumOver(Shorts(c), {}) = 0
               /\ Longs(c)' = Longs(c) /\ Shorts(c)' = Shorts(c)
    BY <1>0, <2>1, <2>2, FS_EmptySet, SidesType, SumOfNone DEF Seen, Longs, Shorts
  <2>4. QED BY <2>1, <2>2, <2>3
<1>6. CASE AskWallets
  <2>1. CASE \E w \in Wallets : WalletRead(w)
    BY <1>0, <2>1, ReadAddsUp
  <2>2. CASE \E w \in Wallets : WalletFails(w)
    <3>1. /\ UNCHANGED <<pc, active, observed, confirmed, longUsd, shortUsd, position, traded>>
          /\ toRead' \subseteq toRead
      BY <2>2 DEF WalletFails, world, market, ghosts, reading
    <3>2. QED BY <3>1 DEF Seen, Longs, Shorts
  <2>3. QED BY <1>6, <2>1, <2>2 DEF AskWallets
<1>7. CASE ReadPrices \/ \E i \in 1..Len(WatchCoins) : UpdateSkew(i)
  <2>1. /\ UNCHANGED <<active, observed, confirmed, longUsd, shortUsd, position, traded>>
        /\ pc \in {"wallets", "skew"} /\ pc' = "skew"
    BY <1>7 DEF ReadPrices, UpdateSkew, AtCoin, world, market, ghosts, locals, reading
  <2>2. QED BY <2>1 DEF Seen, Longs, Shorts
<1>8. CASE FinishFetch
  <2>1. /\ UNCHANGED <<observed, traded>> /\ pc' = "returned"
        /\ \A c \in Coins : active'[c] = NowActive(c)
    BY <1>8 DEF FinishFetch, locals, reading, world, ghosts
  <2>2. ASSUME NEW c \in Coins PROVE IsFiniteSet(active'[c])
    <3>1. NowActive(c) \subseteq active[c] \union Seen(c)
      BY DEF NowActive, Seen
    <3>2. QED BY <2>1, <3>1, FS_Union, FS_Subset
  <2>3. QED BY <2>1, <2>2 DEF Seen
<1>9. CASE SkipDisabled
  <2>1. UNCHANGED <<active, observed>> /\ pc' = "returned"
    BY <1>9 DEF SkipDisabled, locals, reading
  <2>2. QED BY <2>1 DEF Seen
<1>10. CASE Consume
  <2>1. /\ pc' = "idle" /\ active' = active /\ observed' = {} /\ confirmed' = {} /\ ~traded'
        /\ \A c \in Coins : longUsd'[c] = 0 /\ shortUsd'[c] = 0
    BY <1>10 DEF Consume, ResetLocals
  <2>2. \A c \in Coins : Seen(c)' = {}
    BY <2>1 DEF Seen
  <2>3. QED BY <2>1, <2>2, FS_EmptySet
<1>11. QED BY <1>1, <1>2, <1>3, <1>4, <1>5, <1>6, <1>7, <1>8, <1>9, <1>10
           DEF Next, Environment, Fetch

LEMMA SumsInvariant == Spec => []SumsSoFar
<1>1. Init => SumsSoFar
  <2> SUFFICES ASSUME InitAdapter PROVE SumsSoFar BY DEF Init
  <2>1. \A c \in Coins : Seen(c) = {} /\ active[c] = {}
    BY DEF InitAdapter, Seen
  <2>2. QED BY <2>1, FS_EmptySet DEF InitAdapter, SumsSoFar
<1>2. TypeInv /\ LocalsReset /\ SumsSoFar /\ [Next]_vars => SumsSoFar'
  BY SumsSoFarStep
<1>3. QED BY <1>1, <1>2, TypeInvariant, IdleLocals, PTL DEF Spec

\* The sums of a coin that is LIVE are what everyone followed for it holds, read and
\* tracked wallets alike.
LEMMA LiveSumsAreTrue ==
  ASSUME TypeOK, ReadSoFar, SumsSoFar, pc = "skew", ~traded,
         NEW c \in Coins, coinStatus[c].state = "LIVE"
  PROVE  longUsd[c] = TrueLong(c) /\ shortUsd[c] = TrueShort(c)
<1>1. Followed(c) = active[c] \union Seen(c) /\ Followed(c) \subseteq Wallets
  BY DEF Followed, Seen, TypeOK
<1>2. IsFiniteSet(Followed(c))
  <2>1. IsFiniteSet(active[c]) /\ IsFiniteSet(Seen(c))
    BY DEF SumsSoFar
  <2>2. QED BY <1>1, <2>1, FS_Union
<1>3. TrueLong(c) = SumOver(Longs(c), Followed(c)) /\ TrueShort(c) = SumOver(Shorts(c), Followed(c))
  BY <1>1, <1>2, TrueSums
<1>4. ASSUME NEW w \in Followed(c) \ Seen(c)
      PROVE  Longs(c)[w] = 0 /\ Shorts(c)[w] = 0
  <2>1. w \in active[c] /\ w \in Wallets
    BY <1>1
  <2>2. <<w, c>> \in confirmed
    BY <2>1 DEF ReadSoFar, Live
  <2>3. position[<<w, c>>] = 0
    BY <1>4, <2>1, <2>2 DEF SumsSoFar
  <2>4. QED BY <2>1, <2>3 DEF Longs, Shorts
<1>5. Seen(c) \in SUBSET Followed(c) /\ Followed(c) \in SUBSET Wallets
  BY <1>1
<1>6. /\ SumOver(Longs(c), Followed(c)) = SumOver(Longs(c), Seen(c))
      /\ SumOver(Shorts(c), Followed(c)) = SumOver(Shorts(c), Seen(c))
  BY <1>2, <1>4, <1>5, SidesType, SumOfThoseThatCount
<1>7. QED BY <1>3, <1>6 DEF SumsSoFar

\* A move of the zone is warranted by the sample it is made for.
LEMMA MoveIsWarranted ==
  ASSUME NEW l \in Nat, NEW s \in Nat, NEW zone \in SkewZone,
         NEW new, new = next_zone(zone, compute_skew(l, s)), new # zone
  PROVE  LET side == IF AlertHead(zone, new).zone = "long_dominant" THEN l ELSE s
         IN IF AlertHead(zone, new).direction = "enter" THEN Above75(side, l + s)
                                                         ELSE Below70(side, l + s)
<1> DEFINE k == compute_skew(l, s)
<1>1. CASE l + s <= 0
  <2>1. k = [long |-> 0, short |-> 0, whole |-> 1] /\ l + s = 0
    BY <1>1 DEF compute_skew
  <2>2. new = "neutral"
    BY <2>1 DEF next_zone, Dominates, Faded, Own, SkewZone, DOMINANT_THRESHOLD, EXIT_THRESHOLD
  <2>3. QED BY <2>1, <2>2 DEF AlertHead, Below70
<1>2. CASE l + s > 0
  <2>1. k.long = l /\ k.short = s /\ k.whole = l + s
    BY <1>2 DEF compute_skew
  <2>2. CASE zone = "neutral"
    BY <1>2, <2>1, <2>2 DEF next_zone, AlertHead, Dominates, Above75, DOMINANT_THRESHOLD
  <2>3. CASE zone = "long_dominant"
    BY <1>2, <2>1, <2>3 DEF next_zone, AlertHead, Faded, Own, Below70, EXIT_THRESHOLD
  <2>4. CASE zone = "short_dominant"
    BY <1>2, <2>1, <2>4 DEF next_zone, AlertHead, Faded, Own, Below70, EXIT_THRESHOLD
  <2>5. QED BY <2>2, <2>3, <2>4 DEF SkewZone
<1>3. QED BY <1>1, <1>2

\* What a LIVE coin's alert says of the market is so, for any number of wallets and
\* coins, unless the market moved while it was being read.
THEOREM LiveAlertsAreTrue == Spec => LiveAlertsAreWarranted
<1>1. TypeOK /\ ReadSoFar /\ SumsSoFar /\ [Next]_vars =>
        [\A c \in Coins : alertParity'[c] # alertParity[c] /\ coinStatus[c].state = "LIVE" /\ ~traded
                            => Warranted(lastAlert'[c], c)]_vars
  <2> SUFFICES ASSUME TypeOK, ReadSoFar, SumsSoFar, Next, NEW c \in Coins,
                      alertParity'[c] # alertParity[c], coinStatus[c].state = "LIVE", ~traded
               PROVE  Warranted(lastAlert'[c], c)
    BY DEF vars
  <2>1. PICK i \in 1..Len(WatchCoins) : UpdateSkew(i)
    BY DEF Next, Environment, Tick, Trade, Fetch, SkipDisabled, StartFetch, AskDeltas, DeltasOk,
       DeltasFail, FetchRaises, StartWallets, AskWallets, WalletRead, WalletFails, ReadPrices,
       FinishFetch, Consume, skew
  <2> DEFINE new == next_zone(zones[c], compute_skew(longUsd[c], shortUsd[c]))
  <2>2. /\ pc = "skew" /\ c = WatchCoins[i] /\ new # zones[c]
        /\ lastAlert'[c] = AlertHead(zones[c], new)
    BY <2>1 DEF UpdateSkew, AtCoin, TypeOK
  <2>3. longUsd[c] = TrueLong(c) /\ shortUsd[c] = TrueShort(c)
    BY <2>2, LiveSumsAreTrue
  <2>4. longUsd[c] \in Nat /\ shortUsd[c] \in Nat /\ zones[c] \in SkewZone
    BY DEF TypeOK
  <2>5. LET side == IF AlertHead(zones[c], new).zone = "long_dominant" THEN longUsd[c] ELSE shortUsd[c]
            whole == longUsd[c] + shortUsd[c]
        IN IF AlertHead(zones[c], new).direction = "enter" THEN Above75(side, whole)
                                                           ELSE Below70(side, whole)
    <3> HIDE DEF new
    <3>1. new = next_zone(zones[c], compute_skew(longUsd[c], shortUsd[c]))
      BY DEF new
    <3>2. QED BY <2>2, <2>4, <3>1, MoveIsWarranted
  <2> HIDE DEF new
  <2>6. QED BY <2>2, <2>3, <2>5 DEF Warranted
<1>2. TypeInv => TypeOK
  BY DEF TypeInv
<1>3. QED BY <1>1, <1>2, TypeInvariant, ReadSoFarInvariant, SumsInvariant, PTL
          DEF Spec, LiveAlertsAreWarranted
=============================================================================
