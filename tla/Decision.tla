------------------------------ MODULE Decision ------------------------------
(***************************************************************************)
(* The decision engine (decision/) on top of the two tables it reads.        *)
(* "decision run" is one process with one poll loop per symbol: a poll reads *)
(* the latest row of both tables, computes the scores, asks the model and    *)
(* stores what it answers.  The tables are written by other processes at any *)
(* time, also while the model is being asked.                               *)
(*                                                                          *)
(* The two reads are of different databases, written by different           *)
(* processes, so that reading them in one step loses no behaviour.          *)
(***************************************************************************)
EXTENDS Technical, Liquidation, SignalScores

CONSTANT MaxDecisions   \* bound: stored decisions per symbol

ASSUME DecisionAssumption == MaxDecisions \in Nat

VARIABLES
  decide,      \* decide[s]: a loop's state, and what the model is being asked
  decisions    \* decisions[s]: the table's rows of s in the order of their timestamps

vars == <<candle, reading, closing, poll, technical_snapshots,
          liquidation_loop, liquidation_snapshots, decide, decisions>>

decisionVars == <<decide, decisions>>

Init ==
  /\ TechnicalInit /\ LiquidationInit
  /\ decide = [s \in Symbols |-> Waiting]
  /\ decisions = [s \in Symbols |-> <<>>]

-----------------------------------------------------------------------------
TechnicalScore(row) == IF row = None THEN None ELSE compute_technical_score(row.reading)

LiquidationScore(row) == IF row = None THEN None ELSE compute_liquidation_score(row.heatmap)

\* The newest rows of s at this moment, 0 for none.
Newest(s) ==
  [candle    |-> IF latest_snapshot(s) = None THEN 0 ELSE latest_snapshot(s).candle,
   heatmapAt |-> IF latest_heatmap(s) = None THEN 0 ELSE latest_heatmap(s).at]

\* The scores of a decision.  The rows they come from are history: the decisions table
\* does not hold them.
Scores(s) ==
  LET t == TechnicalScore(latest_snapshot(s))
      l == LiquidationScore(latest_heatmap(s))
  IN [technical |-> t, liquidation |-> l, weighted |-> weighted_score(t, l), from |-> Newest(s)]

PriceIsZero(s) == latest_heatmap(s) # None /\ ScoreRaises(latest_heatmap(s).heatmap)

\* compute_decision up to the await of the model.
AskModel(s) ==
  /\ decide[s] = Waiting /\ ~PriceIsZero(s)
  /\ Len(decisions[s]) < MaxDecisions
  /\ decide' = [decide EXCEPT ![s] = [at |-> "asking", scores |-> Scores(s)]]
  /\ UNCHANGED decisions

\* The division by the current price raises; the poll is logged and given up.
ScoringFails(s) ==
  /\ decide[s] = Waiting /\ PriceIsZero(s)
  /\ UNCHANGED decisionVars

\* Mutant: the next poll asks with the scores of this one.
ModelDecidesOn(s) ==
  /\ decide[s].at = "asking"
  /\ decisions' = [decisions EXCEPT ![s] = Append(@, [scores |-> decide[s].scores, stored |-> Newest(s)])]
  /\ UNCHANGED decide

\* The model calls the tool with values the table can hold; that they follow the
\* tool's schema is not looked at.  What the tables hold by now is history.
ModelDecides(s) ==
  /\ decide[s].at = "asking"
  /\ decisions' = [decisions EXCEPT ![s] = Append(@, [scores |-> decide[s].scores, stored |-> Newest(s)])]
  /\ decide' = [decide EXCEPT ![s] = Waiting]

\* The request fails, the answer has no tool call or lacks a field, or a field is
\* null, which INSERT OR IGNORE passes over: nothing is stored.
ModelFails(s) ==
  /\ decide[s].at = "asking"
  /\ decide' = [decide EXCEPT ![s] = Waiting]
  /\ UNCHANGED decisions

\* insert_decision raises, outside the try block of poll_once: the database does, or
\* a field is a list or an object, which sqlite3 refuses to bind.
InsertDecisionRaises(s) ==
  /\ decide[s].at = "asking"
  /\ decide' = [decide EXCEPT ![s] = Dead]
  /\ UNCHANGED decisions

\* The process is stopped, or ends for its dead loop, and is started again.
RestartDecision ==
  /\ decide' = [s \in Symbols |-> Waiting]
  /\ decide' # decide
  /\ UNCHANGED decisions

-----------------------------------------------------------------------------
DecisionStep ==
  \/ RestartDecision
  \/ \E s \in Symbols :
       \/ AskModel(s) \/ ScoringFails(s)
       \/ ModelDecides(s) \/ ModelFails(s) \/ InsertDecisionRaises(s)

Next ==
  \/ DecisionStep /\ UNCHANGED techVars /\ UNCHANGED liquidationVars
  \/ TechnicalNext /\ UNCHANGED liquidationVars /\ UNCHANGED decisionVars
  \/ LiquidationNext /\ UNCHANGED techVars /\ UNCHANGED decisionVars

Spec == Init /\ [][Next]_vars

-----------------------------------------------------------------------------
Heats == [symbol : Symbols, at : 1..MaxHeatmaps, heatmap : Heatmaps]

\* None stands for a row that is missing.
ASSUME NoneAssumption == None \notin Rows \union Heats

\* The types of all three parts, with the key of the technical table.
TypeOK ==
  /\ TechnicalTypeOK
  /\ liquidation_loop \in [Symbols -> LoopStates]
  /\ liquidation_snapshots \subseteq Heats
  /\ \A s \in Symbols : decide[s].at \in {"waiting", "asking", "dead"}
  /\ \A s \in Symbols : Len(decisions[s]) <= MaxDecisions

\* A decision knows what was known when the one before was stored: it rests on rows at
\* least as new as the newest either table held at that moment, not only as new as those
\* the earlier one was made from, whatever process wrote them and however long the model
\* took (decision/service.py:69-97, scheduler.py:51-66).
InputsKeepUp ==
  \A s \in Symbols : \A i, j \in DOMAIN decisions[s] :
    i < j => LET then == decisions[s][i].stored
                 used == decisions[s][j].scores.from
             IN then.candle <= used.candle /\ then.heatmapAt <= used.heatmapAt

\* A stored decision can be recomputed: the rows it was made from are still in the
\* tables and give the scores it was stored with.
DecisionsAreReproducible ==
  \A s \in Symbols : \A i \in DOMAIN decisions[s] :
    LET d == decisions[s][i].scores
    IN /\ d.from.candle # 0 =>
            \E r \in technical_snapshots :
              r.symbol = s /\ r.candle = d.from.candle /\ TechnicalScore(r) = d.technical
       /\ d.from.heatmapAt # 0 =>
            \E r \in RowsOf(s) : r.at = d.from.heatmapAt /\ LiquidationScore(r) = d.liquidation
       /\ d.weighted = weighted_score(d.technical, d.liquidation)
=============================================================================
