----------------------------- MODULE Technical ------------------------------
(***************************************************************************)
(* The technical indicators (technical/): poll loops, one per process and   *)
(* symbol, that ask Binance for the latest candles, compute the indicators  *)
(* and insert a row under the newest candle's open time.  "technical run"    *)
(* and "dashboard" both run these loops over data/technical.db, so there    *)
(* may be several processes.                                                *)
(*                                                                          *)
(* What the indicators of a candle compute to is a reading.  It moves while *)
(* the candle is open and is final when it closes.                          *)
(***************************************************************************)
EXTENDS Settings, Sequences

CONSTANTS
  Pollers,      \* the processes that run run_technical_forever
  Readings,     \* what the indicators can compute to
  LastCandle    \* bound: the market stops in this candle

ASSUME CandleAssumption == LastCandle \in Nat \ {0}

VARIABLES
  candle,               \* open_time of the open candle, counted from 1
  reading,              \* reading[s]: the open candle's indicators as of now
  closing,              \* closing[s]: the final readings of the closed candles, a sequence
  poll,                 \* poll[p][s]: a loop's state, and the answer on its way to it
  technical_snapshots   \* the table

techVars == <<candle, reading, closing, poll, technical_snapshots>>

Waiting == [at |-> "waiting"]
Dead    == [at |-> "dead"]

Row(s) == [symbol |-> s, candle |-> candle, reading |-> reading[s]]
Rows   == [symbol : Symbols, candle : 1..LastCandle, reading : Readings]

Loop == {Waiting, Dead} \union [at : {"answered"}, row : Rows]

TechnicalInit ==
  /\ candle = 1
  /\ reading \in [Symbols -> Readings]
  /\ closing = [s \in Symbols |-> <<>>]
  /\ poll = [p \in Pollers |-> [s \in Symbols |-> Waiting]]
  /\ technical_snapshots = {}

-----------------------------------------------------------------------------
PriceMoves(s) ==
  /\ \E r \in Readings \ {reading[s]} : reading' = [reading EXCEPT ![s] = r]
  /\ UNCHANGED <<candle, closing, poll, technical_snapshots>>

CandleCloses ==
  /\ candle < LastCandle
  /\ candle' = candle + 1
  /\ closing' = [s \in Symbols |-> Append(closing[s], reading[s])]
  /\ UNCHANGED <<reading, poll, technical_snapshots>>

-----------------------------------------------------------------------------
\* Binance answers: the newest candle of the answer is the open one.
KlinesAnswered(p, s) ==
  /\ poll[p][s] = Waiting
  /\ poll' = [poll EXCEPT ![p][s] = [at |-> "answered", row |-> Row(s)]]
  /\ UNCHANGED <<candle, reading, closing, technical_snapshots>>

\* The answer is lost, late or malformed; the loop logs it and waits for its next turn.
KlinesFail(p, s) ==
  /\ poll[p][s].at = "answered"
  /\ poll' = [poll EXCEPT ![p][s] = Waiting]
  /\ UNCHANGED <<candle, reading, closing, technical_snapshots>>

SameKey(r, q) == r.symbol = q.symbol /\ r.candle = q.candle

\* Mutant: INSERT OR REPLACE.
InsertOrReplace(rows, r) == {q \in rows : ~SameKey(q, r)} \union {r}

\* Mutant: the table has no unique key.
InsertAlways(rows, r) == rows \union {r}

InsertOrIgnore(rows, r) == IF \E q \in rows : SameKey(q, r) THEN rows ELSE rows \union {r}

InsertSnapshot(p, s) ==
  /\ poll[p][s].at = "answered"
  /\ technical_snapshots' = InsertOrIgnore(technical_snapshots, poll[p][s].row)
  /\ poll' = [poll EXCEPT ![p][s] = Waiting]
  /\ UNCHANGED <<candle, reading, closing>>

\* insert_snapshot raises, outside the try block of poll_once.
TechnicalStorageRaises(p, s) ==
  /\ poll[p][s].at = "answered"
  /\ poll' = [poll EXCEPT ![p][s] = Dead]
  /\ UNCHANGED <<candle, reading, closing, technical_snapshots>>

\* A process is stopped or ends for its dead loop, and is started again.
RestartPoller(p) ==
  /\ poll' = [poll EXCEPT ![p] = [s \in Symbols |-> Waiting]]
  /\ poll' # poll
  /\ UNCHANGED <<candle, reading, closing, technical_snapshots>>

\* Mutant: ORDER BY timestamp without DESC.
earliest_snapshot(s) ==
  LET rows == {r \in technical_snapshots : r.symbol = s}
  IN IF rows = {} THEN None ELSE CHOOSE r \in rows : \A q \in rows : r.candle <= q.candle

latest_snapshot(s) ==
  LET rows == {r \in technical_snapshots : r.symbol = s}
  IN IF rows = {} THEN None ELSE CHOOSE r \in rows : \A q \in rows : q.candle <= r.candle

-----------------------------------------------------------------------------
Market == CandleCloses \/ \E s \in Symbols : PriceMoves(s)

Polls ==
  \/ \E p \in Pollers : RestartPoller(p)
  \/ \E p \in Pollers, s \in Symbols :
       \/ KlinesAnswered(p, s) \/ KlinesFail(p, s)
       \/ InsertSnapshot(p, s) \/ TechnicalStorageRaises(p, s)

TechnicalNext == Market \/ Polls

TechnicalSpec == TechnicalInit /\ [][TechnicalNext]_techVars

-----------------------------------------------------------------------------
\* The types, with the table's UNIQUE(symbol, timeframe, timestamp).
TechnicalTypeOK ==
  /\ candle \in 1..LastCandle
  /\ reading \in [Symbols -> Readings]
  /\ \A s \in Symbols : closing[s] \in Seq(Readings) /\ Len(closing[s]) = candle - 1
  /\ poll \in [Pollers -> [Symbols -> Loop]]
  /\ technical_snapshots \subseteq Rows
  /\ \A r, q \in technical_snapshots : SameKey(r, q) => r = q

\* A row speaks of no candle that has not opened yet, and whoever reads the latest
\* row never gets an older candle than a reader before, whatever answers arrive late
\* at one process while another went on (technical/storage.py:81-95).
LatestNeverGoesBack ==
  [][\A s \in Symbols :
       latest_snapshot(s) # None =>
         latest_snapshot(s)'.candle \in latest_snapshot(s).candle..candle]_techVars

\* docs/superpowers/specs/2026-08-22-technical-indicators-design.md:150-151: a row is
\* computed from a closed candle, so the row of a candle that has closed holds its
\* final reading.
RowsAreFinal ==
  \A r \in technical_snapshots :
    r.candle < candle => r.reading = closing[r.symbol][r.candle]
=============================================================================
