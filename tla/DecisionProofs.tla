--------------------------- MODULE DecisionProofs ---------------------------
(***************************************************************************)
(* What holds of Decision for any symbols, any number of processes that      *)
(* poll indicators, any readings, any answers of Coinglass, any number of     *)
(* candles, heatmaps and decisions, and whatever the scores compute to.      *)
(***************************************************************************)
EXTENDS Decision, TechnicalProofs, FiniteSetTheorems

-----------------------------------------------------------------------------
\* What the decision engine does to the tables it reads.

\* A step of the composition is one of the technical part or leaves it alone.
LEMMA TechnicalSteps == [Next]_vars => [TechnicalNext]_techVars
BY DEF Next, vars, techVars

LEMMA TechnicalPart == Spec => TechnicalSpec
<1>1. Init => TechnicalInit
  BY DEF Init
<1>2. QED BY <1>1, TechnicalSteps, PTL DEF Spec, TechnicalSpec

\* The technical part promises readers the same in the composition: neither the decision
\* engine nor the heatmaps take a row from the table.
THEOREM DecisionsGoForward == Spec => LatestNeverGoesBack
BY TechnicalPart, ReadersGoForward, PTL

\* Heatmap rows are only added.
LEMMA HeatmapsStay == [Next]_vars => liquidation_snapshots \subseteq liquidation_snapshots'
BY DEF Next, LiquidationNext, InsertHeatmap, HeatmapStorageRaises, RestartLiquidation,
       liquidationVars, vars

\* What latest_heatmap returns.
LEMMA HeatmapIsLatest ==
  ASSUME NEW s \in Symbols, liquidation_snapshots \subseteq Heats, RowsOf(s) # {}
  PROVE  /\ latest_heatmap(s) \in RowsOf(s)
         /\ \A q \in RowsOf(s) : q.at <= latest_heatmap(s).at
<1> DEFINE Stamps == {r.at : r \in RowsOf(s)}
<1>1. Stamps \in SUBSET (0..MaxHeatmaps) /\ Stamps # {} /\ MaxHeatmaps \in Nat
  BY HeatmapAssumption DEF RowsOf, Heats
<1>2. \E m \in Stamps : \A k \in Stamps : k <= m
  <2> HIDE DEF Stamps
  <2> QED BY <1>1, GreatestExists
<1>3. \E r \in RowsOf(s) : \A q \in RowsOf(s) : q.at <= r.at
  BY <1>2
<1>4. latest_heatmap(s) = CHOOSE r \in RowsOf(s) : \A q \in RowsOf(s) : q.at <= r.at
  BY DEF latest_heatmap
<1>5. QED BY <1>3, <1>4

\* What a decision reads of the tables: None only where a table has no row of the symbol.
Newests == [candle : 0..LastCandle, heatmapAt : 0..MaxHeatmaps]

LEMMA WhatIsRead ==
  ASSUME technical_snapshots \subseteq Rows, liquidation_snapshots \subseteq Heats,
         NEW s \in Symbols
  PROVE  /\ latest_snapshot(s) = None <=> Of(s) = {}
         /\ latest_heatmap(s) = None <=> RowsOf(s) = {}
         /\ latest_snapshot(s) # None =>
              /\ latest_snapshot(s) \in Of(s)
              /\ Newest(s).candle = latest_snapshot(s).candle
         /\ latest_heatmap(s) # None =>
              /\ latest_heatmap(s) \in RowsOf(s)
              /\ Newest(s).heatmapAt = latest_heatmap(s).at
         /\ Of(s) = {} => Newest(s).candle = 0
         /\ RowsOf(s) = {} => Newest(s).heatmapAt = 0
         /\ Newest(s) \in Newests
<1>1. latest_snapshot(s) = None <=> Of(s) = {}
  <2>1. CASE Of(s) = {}
    BY <2>1 DEF latest_snapshot, Of
  <2>2. CASE Of(s) # {}
    <3>1. latest_snapshot(s) \in Of(s)
      BY <2>2, LatestIsLatest
    <3>2. latest_snapshot(s) \in Rows
      BY <3>1 DEF Of
    <3>3. QED BY <2>2, <3>2, NoneAssumption
  <2>3. QED BY <2>1, <2>2
<1>2. latest_heatmap(s) = None <=> RowsOf(s) = {}
  <2>1. CASE RowsOf(s) = {}
    BY <2>1 DEF latest_heatmap
  <2>2. CASE RowsOf(s) # {}
    <3>1. latest_heatmap(s) \in RowsOf(s)
      BY <2>2, HeatmapIsLatest
    <3>2. latest_heatmap(s) \in Heats
      BY <3>1 DEF RowsOf
    <3>3. QED BY <2>2, <3>2, NoneAssumption
  <2>3. QED BY <2>1, <2>2
<1>3. latest_snapshot(s) # None => latest_snapshot(s) \in Of(s)
  BY <1>1, LatestIsLatest
<1>4. latest_heatmap(s) # None => latest_heatmap(s) \in RowsOf(s)
  BY <1>2, HeatmapIsLatest
<1>5. /\ Newest(s).candle = IF latest_snapshot(s) = None THEN 0 ELSE latest_snapshot(s).candle
      /\ Newest(s).heatmapAt = IF latest_heatmap(s) = None THEN 0 ELSE latest_heatmap(s).at
  BY DEF Newest
<1>6. Newest(s) \in Newests
  <2>1. (IF latest_snapshot(s) = None THEN 0 ELSE latest_snapshot(s).candle) \in 0..LastCandle
    BY <1>3, CandleAssumption DEF Of, Rows
  <2>2. (IF latest_heatmap(s) = None THEN 0 ELSE latest_heatmap(s).at) \in 0..MaxHeatmaps
    BY <1>4, HeatmapAssumption DEF RowsOf, Heats
  <2>3. QED BY <2>1, <2>2 DEF Newest, Newests
<1>7. QED BY <1>1, <1>2, <1>3, <1>4, <1>5, <1>6

-----------------------------------------------------------------------------
\* The types.  A heatmap is stamped with the number of rows of its symbol, so that a
\* stamp is a stamp only while these are finitely many.
HeatmapTypes ==
  /\ liquidation_loop \in [Symbols -> LoopStates]
  /\ liquidation_snapshots \subseteq Heats
  /\ \A s \in Symbols : IsFiniteSet(RowsOf(s))

LEMMA HeatmapTypesStep == HeatmapTypes /\ [Next]_vars => HeatmapTypes'
<1> SUFFICES ASSUME HeatmapTypes, [Next]_vars PROVE HeatmapTypes' OBVIOUS
<1> USE DEF HeatmapTypes
<1>1. ASSUME NEW s \in Symbols, InsertHeatmap(s) PROVE HeatmapTypes'
  <2> DEFINE n == Cardinality(RowsOf(s))
  <2>1. n \in Nat /\ n < MaxHeatmaps /\ liquidation_loop' = liquidation_loop
    BY <1>1, FS_CardinalityType DEF InsertHeatmap
  <2>2. PICK answer \in Answers :
          /\ compute_snapshot(answer) # None
          /\ liquidation_snapshots' = liquidation_snapshots \union
               {[symbol |-> s, at |-> n + 1, heatmap |-> compute_snapshot(answer)]}
    BY <1>1 DEF InsertHeatmap
  <2> DEFINE row == [symbol |-> s, at |-> n + 1, heatmap |-> compute_snapshot(answer)]
  <2>3. row \in Heats /\ row.symbol = s
    <3>1. n + 1 \in 1..MaxHeatmaps
      BY <2>1, HeatmapAssumption
    <3>2. compute_snapshot(answer) \in Heatmaps
      BY <2>2 DEF Heatmaps
    <3>3. QED BY <3>1, <3>2 DEF Heats
  <2>4. ASSUME NEW t \in Symbols PROVE IsFiniteSet(RowsOf(t)')
    <3> HIDE DEF row
    <3>1. RowsOf(t)' = RowsOf(t) \/ RowsOf(t)' = RowsOf(t) \union {row}
      BY <2>2, <2>3 DEF RowsOf, row
    <3>2. QED BY <3>1, FS_AddElement
  <2>5. QED BY <2>1, <2>2, <2>3, <2>4
<1>2. CASE \E s \in Symbols : HeatmapStorageRaises(s)
  BY <1>2 DEF HeatmapStorageRaises, LoopStates, RowsOf
<1>3. CASE RestartLiquidation
  BY <1>3 DEF RestartLiquidation, LoopStates, RowsOf
<1>4. CASE UNCHANGED liquidationVars
  BY <1>4 DEF liquidationVars, RowsOf
<1>5. QED BY <1>1, <1>2, <1>3, <1>4 DEF Next, LiquidationNext, liquidationVars, vars

\* What the model is asked about: scores of rows, or of none, and the weight of the two.
Assessments ==
  {[technical |-> TechnicalScore(t), liquidation |-> LiquidationScore(l),
    weighted |-> weighted_score(TechnicalScore(t), LiquidationScore(l)), from |-> n] :
   t \in Rows \union {None}, l \in Heats \union {None}, n \in Newests}

Deciding == {Waiting, Dead} \union [at : {"asking"}, scores : Assessments]

Decided == [scores : Assessments, stored : Newests]

DecisionTypes ==
  /\ decide \in [Symbols -> Deciding]
  /\ decisions \in [Symbols -> Seq(Decided)]
  /\ \A s \in Symbols :
       /\ Len(decisions[s]) <= MaxDecisions
       /\ decide[s].at = "asking" => Len(decisions[s]) < MaxDecisions

LEMMA AskedIsAssessed ==
  ASSUME technical_snapshots \subseteq Rows, liquidation_snapshots \subseteq Heats,
         NEW s \in Symbols
  PROVE  Scores(s) \in Assessments
<1>1. latest_snapshot(s) \in Rows \union {None} /\ latest_heatmap(s) \in Heats \union {None}
  BY WhatIsRead DEF Of, RowsOf
<1>2. Newest(s) \in Newests
  BY WhatIsRead
<1>3. QED BY <1>1, <1>2 DEF Scores, Assessments

\* What ModelDecides stores.
LEMMA DecisionStored ==
  ASSUME DecisionTypes, technical_snapshots \subseteq Rows, liquidation_snapshots \subseteq Heats,
         NEW s \in Symbols, ModelDecides(s)
  PROVE  /\ decide[s].scores \in Assessments /\ Newest(s) \in Newests
         /\ decisions[s] \in Seq(Decided)
         /\ decisions'[s] = Append(decisions[s], [scores |-> decide[s].scores, stored |-> Newest(s)])
         /\ decide'[s] = Waiting
         /\ \A t \in Symbols \ {s} : decisions'[t] = decisions[t] /\ decide'[t] = decide[t]
<1>1. decide[s] \in Deciding /\ decide[s].at = "asking"
  BY DEF DecisionTypes, ModelDecides
<1>2. decide[s].scores \in Assessments
  BY <1>1 DEF Deciding, Waiting, Dead
<1>3. Newest(s) \in Newests
  BY WhatIsRead
<1>4. QED BY <1>2, <1>3 DEF DecisionTypes, ModelDecides

LEMMA DecisionTypesStep ==
  DecisionTypes /\ technical_snapshots \subseteq Rows /\ liquidation_snapshots \subseteq Heats
    /\ [Next]_vars => DecisionTypes'
<1> SUFFICES ASSUME DecisionTypes, technical_snapshots \subseteq Rows,
                    liquidation_snapshots \subseteq Heats, [Next]_vars
             PROVE  DecisionTypes'
  OBVIOUS
<1>1. ASSUME NEW s \in Symbols, AskModel(s) PROVE DecisionTypes'
  <2>1. [at |-> "asking", scores |-> Scores(s)] \in Deciding
    BY AskedIsAssessed DEF Deciding
  <2>2. QED BY <1>1, <2>1 DEF AskModel, DecisionTypes
<1>2. ASSUME NEW s \in Symbols, ModelDecides(s) PROVE DecisionTypes'
  <2> DEFINE d == [scores |-> decide[s].scores, stored |-> Newest(s)]
  <2>1. d \in Decided /\ decisions[s] \in Seq(Decided) /\ decisions'[s] = Append(decisions[s], d)
    BY <1>2, DecisionStored DEF Decided
  <2>2. Len(decisions[s]) < MaxDecisions /\ MaxDecisions \in Nat
    BY <1>2, DecisionAssumption DEF DecisionTypes, ModelDecides
  <2> HIDE DEF d
  <2>3. decisions'[s] \in Seq(Decided) /\ Len(decisions'[s]) <= MaxDecisions
    BY <2>1, <2>2
  <2>4. decisions' \in [Symbols -> Seq(Decided)]
    BY <1>2, <2>3 DEF DecisionTypes, ModelDecides
  <2>5. decide' \in [Symbols -> Deciding] /\ decide'[s].at # "asking"
    BY <1>2 DEF DecisionTypes, ModelDecides, Deciding, Waiting
  <2>6. \A t \in Symbols \ {s} : decisions'[t] = decisions[t] /\ decide'[t] = decide[t]
    BY <1>2, DecisionStored
  <2>7. QED BY <2>3, <2>4, <2>5, <2>6 DEF DecisionTypes
<1>3. ASSUME NEW s \in Symbols, ScoringFails(s) \/ ModelFails(s) \/ InsertDecisionRaises(s)
      PROVE  DecisionTypes'
  BY <1>3 DEF ScoringFails, ModelFails, InsertDecisionRaises, decisionVars, DecisionTypes,
              Deciding, Waiting, Dead
<1>4. CASE RestartDecision
  BY <1>4 DEF RestartDecision, DecisionTypes, Deciding, Waiting
<1>5. CASE UNCHANGED decisionVars
  BY <1>5 DEF decisionVars, DecisionTypes
<1>6. QED BY <1>1, <1>2, <1>3, <1>4, <1>5 DEF Next, DecisionStep, decisionVars, vars

\* Everything the decision engine and the tables it reads are made of.
AllTypes == TechnicalTypeOK /\ HeatmapTypes /\ DecisionTypes

LEMMA TypesOfAll == Spec => []AllTypes
<1>1. Init => HeatmapTypes
  <2> SUFFICES ASSUME LiquidationInit PROVE HeatmapTypes BY DEF Init
  <2>1. \A s : RowsOf(s) = {}
    BY DEF LiquidationInit, RowsOf
  <2>2. QED BY <2>1, FS_EmptySet DEF LiquidationInit, HeatmapTypes, LoopStates
<1>2. Init => DecisionTypes
  <2> SUFFICES ASSUME Init PROVE DecisionTypes OBVIOUS
  <2>1. decide \in [Symbols -> Deciding] /\ \A s \in Symbols : decide[s].at # "asking"
    BY DEF Init, Deciding, Waiting
  <2>2. decisions \in [Symbols -> Seq(Decided)] /\ \A s \in Symbols : Len(decisions[s]) = 0
    BY DEF Init
  <2>3. QED BY <2>1, <2>2, DecisionAssumption DEF DecisionTypes
<1>3. TechnicalTypeOK /\ HeatmapTypes /\ DecisionTypes /\ [Next]_vars => HeatmapTypes' /\ DecisionTypes'
  BY HeatmapTypesStep, DecisionTypesStep DEF TechnicalTypeOK, HeatmapTypes
<1>4. Spec => []TechnicalTypeOK
  BY TechnicalPart, TechnicalTypes, PTL
<1>5. QED BY <1>1, <1>2, <1>3, <1>4, PTL DEF Spec, AllTypes

\* Type correctness of the whole, with the key of the technical table.
THEOREM DecisionTypeCorrect == Spec => []TypeOK
<1>1. AllTypes => TypeOK
  BY DEF AllTypes, HeatmapTypes, DecisionTypes, TypeOK, Deciding, Waiting, Dead
<1>2. QED BY <1>1, TypesOfAll, PTL

-----------------------------------------------------------------------------
\* What is read never gets older.
AtMost(m, n) == m.candle <= n.candle /\ m.heatmapAt <= n.heatmapAt

ReadIsNewest(s) ==
  /\ Newest(s) \in Newests
  /\ Of(s) = {} => Newest(s).candle = 0
  /\ Of(s) # {} => Newest(s).candle = latest_snapshot(s).candle
  /\ RowsOf(s) = {} => Newest(s).heatmapAt = 0
  /\ RowsOf(s) # {} =>
       /\ \E r \in RowsOf(s) : r.at = Newest(s).heatmapAt
       /\ \A r \in RowsOf(s) : r.at <= Newest(s).heatmapAt

ReadsAreNewest == \A s \in Symbols : ReadIsNewest(s)

LEMMA NewestIsRead == AllTypes => ReadsAreNewest
BY WhatIsRead, HeatmapIsLatest
   DEF AllTypes, TechnicalTypeOK, HeatmapTypes, ReadIsNewest, ReadsAreNewest

LEMMA NewestGrows ==
  ASSUME AllTypes, AllTypes', ReadsAreNewest, ReadsAreNewest', [Next]_vars, NEW s \in Symbols
  PROVE  AtMost(Newest(s), Newest(s)')
<1>0. ReadIsNewest(s) /\ ReadIsNewest(s)'
  BY DEF ReadsAreNewest
<1>1. /\ Newest(s).candle \in Nat /\ Newest(s)'.candle \in Nat
      /\ Newest(s).heatmapAt \in Nat /\ Newest(s)'.heatmapAt \in Nat
  BY <1>0, CandleAssumption, HeatmapAssumption DEF ReadIsNewest, Newests
<1>2. Newest(s).candle <= Newest(s)'.candle
  <2>1. CASE Of(s) = {}
    BY <1>1, <2>1, <1>0 DEF ReadIsNewest
  <2>2. CASE Of(s) # {}
    <3>1. Of(s)' # {}
      BY <2>2, TechnicalSteps, RowsStay DEF Of
    <3>2. latest_snapshot(s).candle <= latest_snapshot(s)'.candle
      BY <2>2, TechnicalSteps, LatestGrows DEF AllTypes
    <3>3. QED BY <2>2, <3>1, <3>2, <1>0 DEF ReadIsNewest
  <2>3. QED BY <2>1, <2>2
<1>3. Newest(s).heatmapAt <= Newest(s)'.heatmapAt
  <2>1. RowsOf(s) \subseteq RowsOf(s)'
    BY HeatmapsStay DEF RowsOf
  <2>2. CASE RowsOf(s) = {}
    BY <1>1, <2>2, <1>0 DEF ReadIsNewest
  <2>3. CASE RowsOf(s) # {}
    BY <2>1, <2>3, <1>0 DEF ReadIsNewest
  <2>4. QED BY <2>2, <2>3
<1>4. QED BY <1>2, <1>3 DEF AtMost

\* The inductive form of InputsKeepUp: a row of the decisions also bounds what is being
\* asked and what would be read now.
KeepsUp(s) ==
  \A i \in DOMAIN decisions[s] :
    /\ AtMost(decisions[s][i].stored, Newest(s))
    /\ decide[s].at = "asking" => AtMost(decisions[s][i].stored, decide[s].scores.from)
    /\ \A j \in DOMAIN decisions[s] :
         i < j => AtMost(decisions[s][i].stored, decisions[s][j].scores.from)

KeepingUp == \A s \in Symbols : KeepsUp(s)

LEMMA KeepingUpStep ==
  AllTypes /\ AllTypes' /\ ReadsAreNewest /\ ReadsAreNewest' /\ KeepingUp /\ [Next]_vars
    => KeepingUp'
<1> SUFFICES ASSUME AllTypes, AllTypes', ReadsAreNewest, ReadsAreNewest', KeepingUp,
                    [Next]_vars, NEW s \in Symbols
             PROVE  KeepsUp(s)'
  BY DEF KeepingUp
<1> DEFINE old == decisions[s]
<1>1. KeepsUp(s) /\ old \in Seq(Decided)
  BY DEF KeepingUp, AllTypes, DecisionTypes
<1>2. ASSUME NEW i \in DOMAIN old PROVE AtMost(old[i].stored, Newest(s)')
  <2>1. AtMost(old[i].stored, Newest(s)) /\ AtMost(Newest(s), Newest(s)')
    BY <1>1, NewestGrows DEF KeepsUp
  <2>2. old[i].stored \in Newests
    <3> HIDE DEF old
    <3>1. old[i] \in Decided
      BY <1>1
    <3>2. QED BY <3>1 DEF Decided
  <2>3. Newest(s) \in Newests /\ Newest(s)' \in Newests
    BY DEF ReadsAreNewest, ReadIsNewest, Newests
  <2> HIDE DEF old
  <2>4. QED BY <2>1, <2>2, <2>3, CandleAssumption, HeatmapAssumption DEF AtMost, Newests
<1>3. CASE /\ decisions'[s] = old
           /\ decide'[s] = decide[s] \/ decide'[s].at # "asking"
  BY <1>1, <1>2, <1>3 DEF KeepsUp
<1>4. CASE AskModel(s)
  <2>1. decisions'[s] = old /\ decide'[s].scores.from = Newest(s)
    BY <1>4 DEF AskModel, AllTypes, DecisionTypes, Scores
  <2>2. QED BY <1>1, <1>2, <2>1 DEF KeepsUp
<1>5. CASE ModelDecides(s)
  <2> DEFINE new == [scores |-> decide[s].scores, stored |-> Newest(s)]
  <2>1. /\ decisions'[s] = Append(old, new) /\ decide'[s].at # "asking"
        /\ decide[s].at = "asking"
    <3>1. DecisionTypes /\ technical_snapshots \subseteq Rows /\ liquidation_snapshots \subseteq Heats
      BY DEF AllTypes, TechnicalTypeOK, HeatmapTypes
    <3>2. decisions'[s] = Append(old, new) /\ decide'[s] = Waiting
      BY <1>5, <3>1, DecisionStored
    <3>3. decide[s].at = "asking" /\ Waiting.at # "asking"
      BY <1>5 DEF ModelDecides, Waiting
    <3>4. QED BY <3>2, <3>3
  <2>2. /\ DOMAIN decisions'[s] = DOMAIN old \union {Len(old) + 1}
        /\ \A i \in DOMAIN old : decisions'[s][i] = old[i] /\ i <= Len(old) /\ i \in Nat
        /\ decisions'[s][Len(old) + 1] = new
        /\ Len(old) \in Nat
    <3> HIDE DEF old, new
    <3> QED BY <1>1, <2>1
  <2>3. AtMost(Newest(s), Newest(s)')
    BY NewestGrows
  <2>4. \A i \in DOMAIN old : AtMost(old[i].stored, decide[s].scores.from)
    BY <1>1, <2>1 DEF KeepsUp
  <2>5. ASSUME NEW i \in DOMAIN decisions'[s], NEW j \in DOMAIN decisions'[s], i < j
        PROVE  AtMost(decisions'[s][i].stored, decisions'[s][j].scores.from)
    <3>1. i \in DOMAIN old
      BY <2>2, <2>5
    <3>2. CASE j \in DOMAIN old
      BY <1>1, <2>2, <2>5, <3>1, <3>2 DEF KeepsUp
    <3>3. CASE j = Len(old) + 1
      BY <2>2, <2>4, <3>1, <3>3
    <3>4. QED BY <2>2, <3>2, <3>3
  <2>6. ASSUME NEW i \in DOMAIN decisions'[s]
        PROVE  AtMost(decisions'[s][i].stored, Newest(s)')
    BY <1>2, <2>2, <2>3
  <2>7. QED BY <2>1, <2>5, <2>6 DEF KeepsUp
<1>6. ASSUME NEW t \in Symbols \ {s}, AskModel(t) \/ ModelDecides(t)
      PROVE  decisions'[s] = old /\ decide'[s] = decide[s]
  BY <1>6 DEF AskModel, ModelDecides, AllTypes, DecisionTypes
<1>7. ASSUME NEW t \in Symbols, ScoringFails(t) \/ ModelFails(t) \/ InsertDecisionRaises(t)
      PROVE  decisions'[s] = old /\ (decide'[s] = decide[s] \/ decide'[s].at # "asking")
  BY <1>7 DEF ScoringFails, ModelFails, InsertDecisionRaises, decisionVars, AllTypes,
              DecisionTypes, Waiting, Dead
<1>8. CASE RestartDecision
  BY <1>3, <1>8 DEF RestartDecision, Waiting
<1>9. CASE UNCHANGED decisionVars
  BY <1>3, <1>9 DEF decisionVars
<1>10. QED BY <1>3, <1>4, <1>5, <1>6, <1>7, <1>8, <1>9
           DEF Next, DecisionStep, decisionVars, vars


\* No decision knows less than what was known when an earlier one was stored.
THEOREM DecisionsKeepUp == Spec => []InputsKeepUp
<1>1. Init => KeepingUp
  BY DEF Init, KeepingUp, KeepsUp
<1>2. Spec => []ReadsAreNewest
  BY TypesOfAll, NewestIsRead, PTL
<1>3. KeepingUp => InputsKeepUp
  BY DEF KeepingUp, KeepsUp, InputsKeepUp, AtMost
<1>4. QED BY <1>1, <1>2, <1>3, TypesOfAll, KeepingUpStep, PTL DEF Spec

-----------------------------------------------------------------------------
\* The rows that an assessment d of s was made from are among the rows T and L, and give
\* its scores.
RestsOn(T, L, s, d) ==
  /\ d.from.candle # 0 =>
       \E r \in T : r.symbol = s /\ r.candle = d.from.candle /\ TechnicalScore(r) = d.technical
  /\ d.from.heatmapAt # 0 =>
       \E r \in L : r.symbol = s /\ r.at = d.from.heatmapAt /\ LiquidationScore(r) = d.liquidation
  /\ d.weighted = weighted_score(d.technical, d.liquidation)

\* The inductive form of DecisionsAreReproducible: what is being asked rests on the
\* tables too, while they go on.
Grounded ==
  \A s \in Symbols :
    /\ decide[s].at = "asking" =>
         RestsOn(technical_snapshots, liquidation_snapshots, s, decide[s].scores)
    /\ \A i \in DOMAIN decisions[s] :
         RestsOn(technical_snapshots, liquidation_snapshots, s, decisions[s][i].scores)

\* What rests on the tables goes on resting on them, for rows only come.
LEMMA GroundStays ==
  ASSUME NEW s, NEW d, RestsOn(technical_snapshots, liquidation_snapshots, s, d), [Next]_vars
  PROVE  RestsOn(technical_snapshots', liquidation_snapshots', s, d)
BY TechnicalSteps, RowsStay, HeatmapsStay DEF RestsOn

\* The rows AskModel reads are the ground of what it asks.
LEMMA AskedRests ==
  ASSUME AllTypes, NEW s \in Symbols
  PROVE  RestsOn(technical_snapshots, liquidation_snapshots, s, Scores(s))
<1>1. technical_snapshots \subseteq Rows /\ liquidation_snapshots \subseteq Heats
  BY DEF AllTypes, TechnicalTypeOK, HeatmapTypes
<1>2. /\ Scores(s).from = Newest(s)
      /\ Scores(s).technical = TechnicalScore(latest_snapshot(s))
      /\ Scores(s).liquidation = LiquidationScore(latest_heatmap(s))
      /\ Scores(s).weighted = weighted_score(Scores(s).technical, Scores(s).liquidation)
  BY DEF Scores
<1>3. Newest(s).candle # 0 =>
        latest_snapshot(s) \in Of(s) /\ Newest(s).candle = latest_snapshot(s).candle
  BY <1>1, WhatIsRead
<1>4. Newest(s).heatmapAt # 0 =>
        latest_heatmap(s) \in RowsOf(s) /\ Newest(s).heatmapAt = latest_heatmap(s).at
  BY <1>1, WhatIsRead
<1>5. QED BY <1>2, <1>3, <1>4 DEF RestsOn, Of, RowsOf

LEMMA GroundedStep == AllTypes /\ Grounded /\ [Next]_vars => Grounded'
<1> DEFINE OnNew(s, d) == RestsOn(technical_snapshots', liquidation_snapshots', s, d)
<1> SUFFICES ASSUME AllTypes, Grounded, [Next]_vars, NEW s \in Symbols
             PROVE  /\ decide'[s].at = "asking" => OnNew(s, decide'[s].scores)
                    /\ \A i \in DOMAIN decisions'[s] : OnNew(s, decisions'[s][i].scores)
  BY DEF Grounded
<1> DEFINE old == decisions[s]
<1>1. /\ decide[s].at = "asking" => OnNew(s, decide[s].scores)
      /\ \A i \in DOMAIN old : OnNew(s, old[i].scores)
      /\ old \in Seq(Decided)
  BY GroundStays DEF Grounded, AllTypes, DecisionTypes
<1>2. CASE /\ decisions'[s] = old
           /\ decide'[s] = decide[s] \/ decide'[s].at # "asking"
  BY <1>1, <1>2
<1>3. CASE AskModel(s)
  <2>1. decisions'[s] = old /\ decide'[s].scores = Scores(s)
    BY <1>3 DEF AskModel, AllTypes, DecisionTypes
  <2>2. OnNew(s, Scores(s))
    BY AskedRests, GroundStays
  <2>3. QED BY <1>1, <2>1, <2>2
<1>4. CASE ModelDecides(s)
  <2> DEFINE new == [scores |-> decide[s].scores, stored |-> Newest(s)]
  <2>1. DecisionTypes /\ technical_snapshots \subseteq Rows /\ liquidation_snapshots \subseteq Heats
    BY DEF AllTypes, TechnicalTypeOK, HeatmapTypes
  <2>2. decisions'[s] = Append(old, new) /\ decide'[s] = Waiting
    BY <1>4, <2>1, DecisionStored
  <2>3. decide[s].at = "asking" /\ Waiting.at # "asking"
    BY <1>4 DEF ModelDecides, Waiting
  <2>4. \A i \in DOMAIN decisions'[s] :
          (i \in DOMAIN old /\ decisions'[s][i] = old[i]) \/ decisions'[s][i] = new
    <3> HIDE DEF old, new
    <3> QED BY <1>1, <2>2
  <2>5. new.scores = decide[s].scores
    OBVIOUS
  <2> HIDE DEF old, new, OnNew
  <2>6. QED BY <1>1, <2>2, <2>3, <2>4, <2>5
<1>5. ASSUME NEW t \in Symbols \ {s}, AskModel(t) \/ ModelDecides(t)
      PROVE  decisions'[s] = old /\ decide'[s] = decide[s]
  BY <1>5 DEF AskModel, ModelDecides, AllTypes, DecisionTypes
<1>6. ASSUME NEW t \in Symbols, ScoringFails(t) \/ ModelFails(t) \/ InsertDecisionRaises(t)
      PROVE  decisions'[s] = old /\ (decide'[s] = decide[s] \/ decide'[s].at # "asking")
  BY <1>6 DEF ScoringFails, ModelFails, InsertDecisionRaises, decisionVars, AllTypes,
              DecisionTypes, Waiting, Dead
<1>7. CASE RestartDecision
  BY <1>2, <1>7 DEF RestartDecision, Waiting
<1>8. CASE UNCHANGED decisionVars
  BY <1>2, <1>8 DEF decisionVars
<1>9. QED
  <2> HIDE DEF OnNew
  <2> QED BY <1>2, <1>3, <1>4, <1>5, <1>6, <1>7, <1>8 DEF Next, DecisionStep, decisionVars, vars

\* Whatever is stored can be computed again from the rows that the tables hold.
THEOREM DecisionsStayReproducible == Spec => []DecisionsAreReproducible
<1>1. Init => Grounded
  <2> SUFFICES ASSUME Init, NEW s \in Symbols
               PROVE  decide[s].at # "asking" /\ DOMAIN decisions[s] = {}
    BY DEF Grounded
  <2>1. decide[s] = Waiting /\ decisions[s] = <<>>
    BY DEF Init
  <2>2. QED BY <2>1 DEF Waiting
<1>2. Grounded => DecisionsAreReproducible
  BY DEF Grounded, RestsOn, DecisionsAreReproducible, RowsOf
<1>3. QED BY <1>1, <1>2, TypesOfAll, GroundedStep, PTL DEF Spec
=============================================================================
