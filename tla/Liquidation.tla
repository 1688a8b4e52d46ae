---------------------------- MODULE Liquidation -----------------------------
(***************************************************************************)
(* The liquidation heatmaps (liquidation/): "liquidation run" is one process *)
(* with one poll loop per symbol over data/liquidation.db.  A snapshot is   *)
(* stamped by the process that inserts it, between two awaits, so that the   *)
(* stamps of a symbol only count its rows.                                  *)
(***************************************************************************)
EXTENDS Settings, FiniteSets, Sequences

CONSTANTS
  Answers,       \* what Coinglass can answer: a current_price and buckets, each a
                 \* <<price, leverage_value_usd>>; None for what is missing
  MaxHeatmaps    \* bound: rows per symbol

ASSUME HeatmapAssumption == MaxHeatmaps \in Nat

VARIABLES
  liquidation_loop,        \* liquidation_loop[s]: running or dead
  liquidation_snapshots    \* the table

liquidationVars == <<liquidation_loop, liquidation_snapshots>>

LoopStates == {"running", "dead"}

RowsOf(s) == {r \in liquidation_snapshots : r.symbol = s}

LiquidationInit ==
  /\ liquidation_loop = [s \in Symbols |-> "running"]
  /\ liquidation_snapshots = {}

-----------------------------------------------------------------------------
\* The buckets that have a price and a value: the others are passed over.
Parsed(rows) == SelectSeq(rows, LAMBDA row : row[1] # None /\ row[2] # None)

\* What an answer is worth: a heatmap, or None.
compute_snapshot(answer) ==
  IF answer.current_price = None \/ answer.buckets = None THEN None
  ELSE IF Parsed(answer.buckets) = <<>> THEN None
  ELSE [answer EXCEPT !.buckets = Parsed(answer.buckets)]

Heatmaps == {compute_snapshot(a) : a \in Answers} \ {None}

\* Coinglass answers and the row is inserted.  A failed request, an answer worth
\* nothing, and one with a bucket that is no object or a value that is no number, which
\* raises and is logged, insert nothing and leave the loop waiting.
InsertHeatmap(s) ==
  /\ liquidation_loop[s] = "running" /\ Cardinality(RowsOf(s)) < MaxHeatmaps
  /\ \E answer \in Answers :
       LET heatmap == compute_snapshot(answer)
       IN /\ heatmap # None
          /\ liquidation_snapshots' = liquidation_snapshots \union
               {[symbol |-> s, at |-> Cardinality(RowsOf(s)) + 1, heatmap |-> heatmap]}
  /\ UNCHANGED liquidation_loop

\* insert_snapshot raises, outside the try block of poll_once.
HeatmapStorageRaises(s) ==
  /\ liquidation_loop[s] = "running"
  /\ liquidation_loop' = [liquidation_loop EXCEPT ![s] = "dead"]
  /\ UNCHANGED liquidation_snapshots

\* gather passes the exception of a loop on to asyncio.run, which ends the process;
\* it is started again.
RestartLiquidation ==
  /\ liquidation_loop' = [s \in Symbols |-> "running"]
  /\ liquidation_loop' # liquidation_loop
  /\ UNCHANGED liquidation_snapshots

latest_heatmap(s) ==
  IF RowsOf(s) = {} THEN None
  ELSE CHOOSE r \in RowsOf(s) : \A q \in RowsOf(s) : q.at <= r.at

LiquidationNext ==
  \/ \E s \in Symbols : InsertHeatmap(s) \/ HeatmapStorageRaises(s)
  \/ RestartLiquidation

=============================================================================
