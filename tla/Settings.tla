------------------------------ MODULE Settings ------------------------------
(***************************************************************************)
(* The parameters the signal modules share (ingestion/config.py).          *)
(***************************************************************************)
EXTENDS Integers

CONSTANTS
  Symbols,        \* exchange_watch_symbols
  ProximityPct,   \* percent: liquidation_proximity_pct
  None            \* a row, a value or a score that is missing

ASSUME ProximityAssumption == ProximityPct \in Nat
=============================================================================
