-------------------------- MODULE TechnicalProofs ---------------------------
(***************************************************************************)
(* What holds of Technical for any symbols, any number of processes that     *)
(* poll into the same table, any readings and any number of candles.       *)
(***************************************************************************)
EXTENDS Technical, WellFoundedInduction, TLAPS

Of(s) == {r \in technical_snapshots : r.symbol = s}

\* A nonempty set of numbers up to n has a greatest one: the one with the least left to n.
LEMMA GreatestExists ==
  ASSUME NEW n \in Nat, NEW S \in SUBSET (0..n), S # {}
  PROVE  \E m \in S : \A k \in S : k <= m
<1> DEFINE Left == {n - k : k \in S}
<1>1. Left \subseteq Nat /\ Left # {}
  <2>1. \A k \in S : k \in 0..n /\ n - k \in Nat
    OBVIOUS
  <2>2. QED BY <2>1
<1>2. PICK least \in Left : \A k \in Left : ~(<<k, least>> \in OpToRel(<, Nat))
  <2> HIDE DEF Left
  <2> QED BY <1>1, NatLessThanWellFounded, WFMin
<1>3. \A k \in Left : ~(k < least)
  BY <1>1, <1>2 DEF OpToRel
<1>4. PICK m \in S : least = n - m
  OBVIOUS
<1>5. \A k \in S : ~(n - k < n - m)
  BY <1>3, <1>4
<1>6. QED BY <1>5

\* A nonempty set of rows has one of the latest candle.
LEMMA LatestExists ==
  ASSUME NEW R \in SUBSET Rows, R # {}
  PROVE  \E r \in R : \A q \in R : q.candle <= r.candle
<1> DEFINE Candles == {r.candle : r \in R}
<1>1. LastCandle \in Nat /\ Candles \in SUBSET (0..LastCandle) /\ Candles # {}
  BY CandleAssumption DEF Rows
<1>2. \E m \in Candles : \A k \in Candles : k <= m
  <2> HIDE DEF Candles
  <2> QED BY <1>1, GreatestExists
<1>3. QED BY <1>2

\* What latest_snapshot returns.
LEMMA LatestIsLatest ==
  ASSUME technical_snapshots \subseteq Rows, NEW s, Of(s) # {}
  PROVE  /\ latest_snapshot(s) \in Of(s)
         /\ \A q \in Of(s) : q.candle <= latest_snapshot(s).candle
<1>1. \E r \in Of(s) : \A q \in Of(s) : q.candle <= r.candle
  BY LatestExists DEF Of
<1>2. latest_snapshot(s) = CHOOSE r \in Of(s) : \A q \in Of(s) : q.candle <= r.candle
  BY DEF latest_snapshot, Of
<1>3. QED BY <1>1, <1>2

-----------------------------------------------------------------------------
\* The type of the table's rows, and the key that INSERT OR IGNORE keeps.
THEOREM TechnicalTypes == TechnicalSpec => []TechnicalTypeOK
<1> USE DEF Waiting, Dead
<1>1. TechnicalInit => TechnicalTypeOK
  <2> SUFFICES ASSUME TechnicalInit PROVE TechnicalTypeOK OBVIOUS
  <2>1. candle \in 1..LastCandle
    BY CandleAssumption DEF TechnicalInit
  <2>2. QED BY <2>1 DEF TechnicalInit, TechnicalTypeOK, Loop
<1>2. TechnicalTypeOK /\ [TechnicalNext]_techVars => TechnicalTypeOK'
  <2> SUFFICES ASSUME TechnicalTypeOK, [TechnicalNext]_techVars PROVE TechnicalTypeOK' OBVIOUS
  <2> USE DEF TechnicalTypeOK
  <2>1. CASE CandleCloses
    <3>1. candle' \in 1..LastCandle /\ candle' = candle + 1
      BY <2>1, CandleAssumption DEF CandleCloses
    <3>2. ASSUME NEW s \in Symbols
          PROVE  closing'[s] \in Seq(Readings) /\ Len(closing'[s]) = candle' - 1
      <4>1. closing'[s] = Append(closing[s], reading[s]) /\ reading[s] \in Readings
        BY <2>1 DEF CandleCloses
      <4>2. closing[s] \in Seq(Readings) /\ Len(closing[s]) = candle - 1
        OBVIOUS
      <4>3. closing'[s] \in Seq(Readings) /\ Len(closing'[s]) = Len(closing[s]) + 1
        BY <4>1, <4>2
      <4>4. QED BY <3>1, <4>2, <4>3
    <3>3. QED BY <2>1, <3>1, <3>2 DEF CandleCloses
  <2>2. CASE \E s \in Symbols : PriceMoves(s)
    BY <2>2 DEF PriceMoves
  <2>3. ASSUME NEW p \in Pollers, NEW s \in Symbols, KlinesAnswered(p, s) PROVE TechnicalTypeOK'
    <3>1. Row(s) \in Rows
      BY DEF Row, Rows
    <3>2. QED BY <2>3, <3>1 DEF KlinesAnswered, Loop
  <2>4. ASSUME NEW p \in Pollers, NEW s \in Symbols, KlinesFail(p, s) PROVE TechnicalTypeOK'
    BY <2>4 DEF KlinesFail, Loop
  <2>5. ASSUME NEW p \in Pollers, NEW s \in Symbols, TechnicalStorageRaises(p, s)
        PROVE  TechnicalTypeOK'
    BY <2>5 DEF TechnicalStorageRaises, Loop
  <2>6. ASSUME NEW p \in Pollers, NEW s \in Symbols, InsertSnapshot(p, s) PROVE TechnicalTypeOK'
    <3> DEFINE r == poll[p][s].row
    <3>1. poll[p][s] \in Loop /\ poll[p][s].at = "answered"
      BY <2>6 DEF InsertSnapshot
    <3>2. r \in Rows
      BY <3>1 DEF Loop
    <3>3. technical_snapshots' = InsertOrIgnore(technical_snapshots, r)
      BY <2>6 DEF InsertSnapshot
    <3> HIDE DEF r
    <3>4. technical_snapshots' \subseteq Rows
      BY <3>2, <3>3 DEF InsertOrIgnore
    <3>5. \A a, b \in technical_snapshots' : SameKey(a, b) => a = b
      BY <3>3 DEF InsertOrIgnore, SameKey
    <3>6. poll' \in [Pollers -> [Symbols -> Loop]]
      BY <2>6 DEF InsertSnapshot, Loop
    <3>7. QED BY <2>6, <3>4, <3>5, <3>6 DEF InsertSnapshot
  <2>7. CASE \E p \in Pollers : RestartPoller(p)
    BY <2>7 DEF RestartPoller, Loop
  <2>8. CASE UNCHANGED techVars
    BY <2>8 DEF techVars
  <2>9. QED BY <2>1, <2>2, <2>3, <2>4, <2>5, <2>6, <2>7, <2>8
            DEF TechnicalNext, Market, Polls
<1>3. QED BY <1>1, <1>2, PTL DEF TechnicalSpec

-----------------------------------------------------------------------------
\* An answer on its way, and a row, are of a candle that has opened.
NotAhead ==
  /\ \A p \in Pollers, s \in Symbols :
       poll[p][s].at = "answered" => poll[p][s].row.candle <= candle /\ poll[p][s].row.symbol = s
  /\ \A r \in technical_snapshots : r.candle <= candle

LEMMA RowsAreNotAhead == TechnicalSpec => []NotAhead
<1>1. TechnicalInit => NotAhead
  BY DEF TechnicalInit, NotAhead, Waiting
<1>2. TechnicalTypeOK /\ NotAhead /\ [TechnicalNext]_techVars => NotAhead'
  <2> SUFFICES ASSUME TechnicalTypeOK, NotAhead, [TechnicalNext]_techVars PROVE NotAhead' OBVIOUS
  <2> USE DEF NotAhead
  <2>1. CASE CandleCloses
    <3>1. candle' = candle + 1 /\ candle \in Int
      BY <2>1 DEF CandleCloses, TechnicalTypeOK
    <3>2. \A r \in Rows : r.candle \in Int
      BY DEF Rows
    <3>3. \A r \in technical_snapshots : r.candle <= candle'
      BY <3>1, <3>2 DEF TechnicalTypeOK
    <3>4. ASSUME NEW p \in Pollers, NEW s \in Symbols, poll[p][s].at = "answered"
          PROVE  poll[p][s].row.candle <= candle'
      <4>1. poll[p][s].row \in Rows
        BY <3>4 DEF TechnicalTypeOK, Loop, Waiting, Dead
      <4>2. QED BY <3>1, <3>2, <3>4, <4>1
    <3>5. QED BY <2>1, <3>3, <3>4 DEF CandleCloses
  <2>2. CASE \E s \in Symbols : PriceMoves(s)
    BY <2>2 DEF PriceMoves
  <2>3. ASSUME NEW p \in Pollers, NEW s \in Symbols, KlinesAnswered(p, s) PROVE NotAhead'
    <3>1. Row(s).candle <= candle /\ Row(s).symbol = s
      BY DEF Row, TechnicalTypeOK
    <3>2. QED BY <2>3, <3>1 DEF KlinesAnswered, TechnicalTypeOK
  <2>4. ASSUME NEW p \in Pollers, NEW s \in Symbols,
               KlinesFail(p, s) \/ TechnicalStorageRaises(p, s)
        PROVE  NotAhead'
    <3>1. \A q \in Pollers, t \in Symbols :
            poll'[q][t].at = "answered" => poll'[q][t] = poll[q][t]
      BY <2>4 DEF KlinesFail, TechnicalStorageRaises, TechnicalTypeOK, Waiting, Dead
    <3>2. QED BY <2>4, <3>1 DEF KlinesFail, TechnicalStorageRaises
  <2>5. ASSUME NEW p \in Pollers, NEW s \in Symbols, InsertSnapshot(p, s) PROVE NotAhead'
    <3>1. technical_snapshots' \subseteq technical_snapshots \union {poll[p][s].row}
      BY <2>5 DEF InsertSnapshot, InsertOrIgnore
    <3>2. poll[p][s].row.candle <= candle /\ candle' = candle
      BY <2>5 DEF InsertSnapshot
    <3>3. \A q \in Pollers, t \in Symbols :
            poll'[q][t].at = "answered" => poll'[q][t] = poll[q][t]
      BY <2>5 DEF InsertSnapshot, TechnicalTypeOK, Waiting
    <3>4. QED BY <3>1, <3>2, <3>3
  <2>6. CASE \E p \in Pollers : RestartPoller(p)
    <3>1. \A q \in Pollers, t \in Symbols :
            poll'[q][t].at = "answered" => poll'[q][t] = poll[q][t]
      BY <2>6 DEF RestartPoller, TechnicalTypeOK, Waiting
    <3>2. QED BY <2>6, <3>1 DEF RestartPoller
  <2>7. CASE UNCHANGED techVars
    BY <2>7 DEF techVars
  <2>8. QED BY <2>1, <2>2, <2>3, <2>4, <2>5, <2>6, <2>7
            DEF TechnicalNext, Market, Polls
<1>3. QED BY <1>1, <1>2, TechnicalTypes, PTL DEF TechnicalSpec

\* Rows are only added: nothing a reader saw is taken back or rewritten.
LEMMA RowsStay == [TechnicalNext]_techVars => technical_snapshots \subseteq technical_snapshots'
BY DEF TechnicalNext, Market, Polls, CandleCloses, PriceMoves, KlinesAnswered, KlinesFail,
       TechnicalStorageRaises, InsertSnapshot, InsertOrIgnore, RestartPoller, techVars

\* One step gives no reader of the table an older candle than before it.
LEMMA LatestGrows ==
  ASSUME TechnicalTypeOK, TechnicalTypeOK', [TechnicalNext]_techVars,
         NEW s \in Symbols, Of(s) # {}
  PROVE  /\ latest_snapshot(s) \in Of(s) /\ latest_snapshot(s)' \in Of(s)'
         /\ latest_snapshot(s).candle <= latest_snapshot(s)'.candle
<1>1. Of(s) # {} /\ Of(s) \subseteq Of(s)'
  BY RowsStay DEF Of
<1>2. /\ latest_snapshot(s) \in Of(s)
      /\ \A q \in Of(s) : q.candle <= latest_snapshot(s).candle
  BY <1>1, LatestIsLatest DEF TechnicalTypeOK
<1>3. /\ latest_snapshot(s)' \in Of(s)'
      /\ \A q \in Of(s)' : q.candle <= latest_snapshot(s)'.candle
  <2>1. Of(s)' # {} /\ technical_snapshots' \subseteq Rows'
    BY <1>1 DEF TechnicalTypeOK
  <2>2. \E r \in Of(s)' : \A q \in Of(s)' : q.candle <= r.candle
    BY <2>1, LatestExists DEF Of, Rows
  <2>3. latest_snapshot(s)' = CHOOSE r \in Of(s)' : \A q \in Of(s)' : q.candle <= r.candle
    BY <2>1 DEF latest_snapshot, Of
  <2>4. QED BY <2>2, <2>3
<1>4. QED BY <1>1, <1>2, <1>3

\* No reader of the table is given an older candle than a reader before it, nor one
\* that has not opened, whatever the processes that poll into it do.
THEOREM ReadersGoForward == TechnicalSpec => LatestNeverGoesBack
<1>1. TechnicalTypeOK /\ TechnicalTypeOK' /\ NotAhead /\ NotAhead' /\ [TechnicalNext]_techVars
        => [\A s \in Symbols :
              latest_snapshot(s) # None =>
                latest_snapshot(s)'.candle \in latest_snapshot(s).candle..candle]_techVars
  <2> SUFFICES ASSUME TechnicalTypeOK, TechnicalTypeOK', NotAhead, NotAhead',
                      [TechnicalNext]_techVars, techVars' # techVars,
                      NEW s \in Symbols, latest_snapshot(s) # None
               PROVE  latest_snapshot(s)'.candle \in latest_snapshot(s).candle..candle
    OBVIOUS
  <2>1. Of(s) # {}
    BY DEF latest_snapshot, Of
  <2>2. /\ latest_snapshot(s) \in Of(s) /\ latest_snapshot(s)' \in Of(s)'
        /\ latest_snapshot(s).candle <= latest_snapshot(s)'.candle
    BY <2>1, LatestGrows
  <2>3. latest_snapshot(s)'.candle <= candle
    <3>1. CASE CandleCloses \/ \E t \in Symbols : PriceMoves(t)
      <4>1. technical_snapshots' = technical_snapshots
        BY <3>1 DEF CandleCloses, PriceMoves
      <4>2. QED BY <2>2, <4>1 DEF NotAhead, Of
    <3>2. CASE candle' = candle
      BY <2>2, <3>2 DEF NotAhead, Of
    <3>3. QED BY <3>1, <3>2
          DEF TechnicalNext, Market, Polls, KlinesAnswered, KlinesFail,
              TechnicalStorageRaises, InsertSnapshot, RestartPoller, techVars
  <2>4. QED
    <3>1. \A r \in Rows : r.candle \in Int
      BY DEF Rows
    <3>2. latest_snapshot(s).candle \in Int /\ latest_snapshot(s)'.candle \in Int /\ candle \in Int
      BY <2>2, <3>1 DEF TechnicalTypeOK, Of, Rows
    <3>3. QED BY <2>2, <2>3, <3>2
<1>2. QED BY <1>1, TechnicalTypes, RowsAreNotAhead, PTL DEF TechnicalSpec, LatestNeverGoesBack
=============================================================================
