--------------------------- MODULE LifespanProofs ---------------------------
(***************************************************************************)
(* What holds of Lifespan for any number of adapters and symbols.          *)
(***************************************************************************)
EXTENDS Lifespan, TLAPS

Died(w)   == \E l \in LoopsOf(w) : loop[l] = "dead"
Polls(w)  == \E l \in LoopsOf(w) : loop[l] = "running"
Over      == {"cancelled", "done"}
Stopping  == {"cancelling"} \union Over

\* What the state of a worker says of its loops: once it is being cancelled, or
\* over, either none of them polls or one of them died; and a connection is closed
\* only after the worker was awaited.
WorkerInv ==
  /\ worker \in [Workers -> {"running", "raising", "failed"} \union Stopping]
  /\ loop \in [Loops -> {"running", "cancelling", "ended", "dead"}]
  /\ \A w \in Workers :
       /\ worker[w] = "raising" => Died(w)
       /\ worker[w] \in Stopping => ~Polls(w) \/ Died(w)
  /\ phase = "awaiting_technical" => worker["ingestion"] \in Over
  /\ \A w \in Workers : w \notin open => worker[w] \in Over

LEMMA LoopOf == ASSUME NEW w \in Workers PROVE LoopsOf(w) \subseteq Loops
BY DEF LoopsOf, Loops

\* A loop that has died stays dead, and a loop that polls no longer never does.
LEMMA LoopsOnlyStop ==
  ASSUME WorkerInv, [Next]_vars, NEW w \in Workers
  PROVE  /\ Died(w) => Died(w)'
         /\ ~Polls(w) => ~Polls(w)'
<1>1. ASSUME NEW l \in Loops
      PROVE  /\ loop[l] = "dead" => loop'[l] = "dead"
             /\ loop[l] # "running" => loop'[l] # "running"
  <2>1. CASE \E v \in Workers, k \in Loops : StorageRaises(v, k)
    BY <2>1 DEF StorageRaises, WorkerInv
  <2>2. CASE Shutdown
    BY <2>2 DEF Shutdown, CancelReaches, WorkerInv
  <2>3. CASE \E k \in Loops : LoopEnds(k)
    BY <2>3 DEF LoopEnds, WorkerInv
  <2>4. CASE Exit
    BY <2>4 DEF Exit, WorkerInv
  <2>5. CASE UNCHANGED loop
    BY <2>5
  <2>6. QED BY <2>1, <2>2, <2>3, <2>4, <2>5
            DEF Next, Stops, WorkerFails, WorkerEnds, AwaitIngestion, AwaitTechnical, vars
<1>2. QED BY <1>1, LoopOf DEF Died, Polls

LEMMA WorkerInvariant == Spec => []WorkerInv
<1>1. Init => WorkerInv
  BY DEF Init, WorkerInv, Over, Stopping, Polls, Died, Workers, Connections, LoopsOf
<1>2. WorkerInv /\ [Next]_vars => WorkerInv'
  <2> SUFFICES ASSUME WorkerInv, [Next]_vars PROVE WorkerInv' OBVIOUS
  <2>1. /\ loop' \in [Loops -> {"running", "cancelling", "ended", "dead"}]
        /\ worker' \in [Workers -> {"running", "raising", "failed"} \union Stopping]
    BY DEF WorkerInv, Next, Stops, StorageRaises, Shutdown, WorkerFails, WorkerEnds, LoopEnds,
           AwaitIngestion, AwaitTechnical, Exit, vars, Over, Stopping
  <2>2. ASSUME NEW w \in Workers
        PROVE  /\ worker'[w] = "raising" => Died(w)'
               /\ worker'[w] \in Stopping => ~Polls(w)' \/ Died(w)'
    <3>1. CASE \E v \in Workers, l \in Loops : StorageRaises(v, l)
      <4>1. worker'[w] \in Stopping => worker[w] \in Stopping
        BY <3>1 DEF StorageRaises, WorkerInv, Over, Stopping
      <4>2. worker'[w] = "raising" => worker[w] = "raising" \/ Died(w)'
        BY <3>1, LoopOf DEF StorageRaises, WorkerInv, Died
      <4>3. QED BY <4>1, <4>2, LoopsOnlyStop DEF WorkerInv
    <3>2. CASE Shutdown
      <4>1. worker[w] = "running" => ~Polls(w)'
        BY <3>2, LoopOf DEF Shutdown, CancelReaches, WorkerInv, Polls
      <4>2. worker'[w] # "raising"
        BY <3>2 DEF Shutdown, WorkerInv, Over, Stopping
      <4>3. worker'[w] \in Stopping => worker[w] \in {"running", "raising"} \union Stopping
        BY <3>2 DEF Shutdown, WorkerInv, Over, Stopping
      <4>4. QED BY <4>1, <4>2, <4>3, LoopsOnlyStop DEF WorkerInv
    <3>3. CASE \E v \in Workers : WorkerFails(v)
      <4>1. worker'[w] = worker[w] \/ worker'[w] = "failed"
        BY <3>3 DEF WorkerFails, WorkerInv
      <4>2. CASE worker'[w] = worker[w]
        BY <4>2, LoopsOnlyStop DEF WorkerInv
      <4>3. CASE worker'[w] = "failed"
        BY <4>3 DEF Over, Stopping
      <4>4. QED BY <4>1, <4>2, <4>3
    <3>4. CASE \E v \in Workers : WorkerEnds(v)
      <4>1. worker'[w] = worker[w] \/ (worker'[w] = "cancelled" /\ worker[w] = "cancelling")
        BY <3>4 DEF WorkerEnds, WorkerInv
      <4>2. QED BY <4>1, LoopsOnlyStop DEF WorkerInv, Over, Stopping
    <3>5. CASE UNCHANGED worker
      BY <3>5, LoopsOnlyStop DEF WorkerInv
    <3>6. QED BY <3>1, <3>2, <3>3, <3>4, <3>5
              DEF Next, Stops, LoopEnds, AwaitIngestion, AwaitTechnical, Exit, vars
  <2>3. \A w \in Workers : worker[w] \in Over => worker'[w] \in Over
    BY DEF StorageRaises, Over, Stopping, WorkerInv, Next, Stops, Shutdown, WorkerFails, WorkerEnds,
           LoopEnds, AwaitIngestion, AwaitTechnical, Exit, vars
  <2>4. phase' = "awaiting_technical" => worker'["ingestion"] \in Over
    <3>1. CASE AwaitIngestion
      BY <3>1 DEF AwaitIngestion, Over
    <3>2. CASE ~AwaitIngestion
      <4>1. phase' = "awaiting_technical" => phase = "awaiting_technical"
        BY <3>2 DEF Next, Stops, StorageRaises, Shutdown, WorkerFails, WorkerEnds, LoopEnds,
                    AwaitTechnical, Exit, vars
      <4>2. QED BY <2>3, <4>1 DEF WorkerInv, Workers
    <3>3. QED BY <3>1, <3>2
  <2>5. \A w \in Workers : w \notin open' => worker'[w] \in Over
    <3>1. CASE AwaitTechnical
      BY <2>3, <3>1 DEF AwaitTechnical, WorkerInv, Over, Workers
    <3>2. CASE UNCHANGED open
      BY <2>3, <3>2 DEF WorkerInv
    <3>3. QED BY <3>1, <3>2 DEF Next, Stops, StorageRaises, Shutdown, WorkerFails, WorkerEnds,
                 LoopEnds, AwaitIngestion, Exit, vars
  <2>6. QED BY <2>1, <2>2, <2>4, <2>5 DEF WorkerInv
<1>3. QED BY <1>1, <1>2, PTL DEF Spec

\* For any number of adapters and symbols, a connection is closed under a loop that
\* goes on polling only if a loop of the same worker died (web.py:88-96).
THEOREM ConnectionsOutliveLoops == Spec => []NoneOutlivesItsConnection
<1>1. WorkerInv => NoneOutlivesItsConnection
  BY DEF WorkerInv, NoneOutlivesItsConnection, Died, Polls, Stopping
<1>2. QED BY <1>1, WorkerInvariant, PTL

\* The handler reaches its end with every connection closed, or leaves it with a
\* worker that failed.
ClosingInv ==
  /\ phase = "closed" => open = {}
  /\ phase = "raised" => \E w \in Workers : worker[w] = "failed"
  /\ phase = "exited" => open = {} \/ \E w \in Workers : worker[w] = "failed"

\* For any number of adapters and symbols, a process that leaves a connection open at
\* its exit had a worker that failed (web.py:90-98).
THEOREM ConnectionsAreClosed == Spec => []ClosedUnlessFailed
<1>1. Init => ClosingInv
  BY DEF Init, ClosingInv
<1>2. WorkerInv /\ ClosingInv /\ [Next]_vars => ClosingInv'
  <2> SUFFICES ASSUME WorkerInv, ClosingInv, [Next]_vars PROVE ClosingInv' OBVIOUS
  <2>1. \A w \in Workers : worker[w] = "failed" => worker'[w] = "failed"
    BY DEF WorkerInv, Next, Stops, StorageRaises, Shutdown, WorkerFails, WorkerEnds, LoopEnds,
           AwaitIngestion, AwaitTechnical, Exit, vars
  <2>2. CASE AwaitIngestion
    BY <2>2 DEF AwaitIngestion, ClosingInv, Workers
  <2>3. CASE AwaitTechnical
    BY <2>3 DEF AwaitTechnical, ClosingInv, Workers
  <2>4. CASE Exit
    BY <2>4 DEF Exit, ClosingInv
  <2>5. CASE Shutdown
    BY <2>5 DEF Shutdown, ClosingInv
  <2>6. CASE UNCHANGED <<phase, open>>
    BY <2>1, <2>6 DEF ClosingInv
  <2>7. QED BY <2>2, <2>3, <2>4, <2>5, <2>6
            DEF Next, Stops, StorageRaises, WorkerFails, WorkerEnds, LoopEnds, vars
<1>3. ClosingInv => ClosedUnlessFailed
  BY DEF ClosingInv, ClosedUnlessFailed
<1>4. QED BY <1>1, <1>2, <1>3, WorkerInvariant, PTL DEF Spec
=============================================================================
