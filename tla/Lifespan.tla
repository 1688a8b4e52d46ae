------------------------------ MODULE Lifespan ------------------------------
(***************************************************************************)
(* The background workers of the web application (dashboard/web.py): two   *)
(* tasks in background_tasks, each awaiting asyncio.gather over the loops   *)
(* it runs, started by the lifespan handler and cancelled, awaited and      *)
(* cleaned up after by its finally block.                                   *)
(*                                                                          *)
(* A loop lets an exception of its storage through.  gather passes the      *)
(* first such exception on to the task that awaits it and leaves the other  *)
(* loops running; the task learns of it one turn of the event loop later.   *)
(***************************************************************************)
EXTENDS FiniteSets

CONSTANTS
  AdapterLoops,   \* the loops of run_ingestion_forever, one per configured adapter
  SymbolLoops     \* the loops of run_technical_forever, one per symbol

ASSUME LoopsAssumption == AdapterLoops \intersect SymbolLoops = {}

Workers == {"ingestion", "technical"}
Loops   == AdapterLoops \union SymbolLoops
LoopsOf(w)  == IF w = "ingestion" THEN AdapterLoops ELSE SymbolLoops
Connections == Workers \union {"service"}

VARIABLES
  phase,    \* where the lifespan handler is
  worker,   \* worker[w]: the state of the task
  loop,     \* loop[l]: the state of the loop's own task, made by gather
  open      \* the SQLite connections that are open

vars == <<phase, worker, loop, open>>

Init ==
  /\ phase = "serving"
  /\ worker = [w \in Workers |-> IF LoopsOf(w) = {} THEN "done" ELSE "running"]
  /\ loop = [l \in Loops |-> "running"]
  /\ open = Connections

-----------------------------------------------------------------------------
\* insert_events, insert_skew_snapshots or insert_snapshot raises.  Only the first
\* exception reaches the worker; gather reports the others to nobody.
StorageRaises(w, l) ==
  /\ l \in LoopsOf(w) /\ loop[l] = "running"
  /\ loop' = [loop EXCEPT ![l] = "dead"]
  /\ worker' = [worker EXCEPT ![w] = IF @ = "running" THEN "raising" ELSE @]
  /\ UNCHANGED <<phase, open>>

\* The turn of the event loop in which the task gets gather's exception.
WorkerFails(w) ==
  /\ worker[w] = "raising"
  /\ worker' = [worker EXCEPT ![w] = "failed"]
  /\ UNCHANGED <<phase, loop, open>>

\* Mutant: only the tasks are cancelled, not the loops they gather.
CancelTasksOnly(w, l) == FALSE

\* Mutant: the worker awaits its loops one after the other, so that its
\* cancellation reaches the one it is at.
CancelAwaitedOnly(w, l) ==
  /\ worker[w] = "running" /\ loop[l] = "running"
  /\ l = CHOOSE k \in LoopsOf(w) : TRUE

\* task.cancel() reaches the loops through gather's future, unless that future
\* is done already.
CancelReaches(w, l) == l \in LoopsOf(w) /\ worker[w] = "running" /\ loop[l] = "running"

\* The finally block up to its first await.  A task whose gather is done but which
\* has not run since is cancelled on the spot, and its exception is lost.
Shutdown ==
  /\ phase = "serving"
  /\ phase' = "awaiting_ingestion"
  /\ worker' = [w \in Workers |-> CASE worker[w] = "running" -> "cancelling"
                                    [] worker[w] = "raising" -> "cancelled"
                                    [] OTHER -> worker[w]]
  /\ loop' = [l \in Loops |-> IF \E w \in Workers : CancelReaches(w, l)
                              THEN "cancelling" ELSE loop[l]]
  /\ UNCHANGED open

\* CancelledError passes every handler of a loop: they catch Exception only.
LoopEnds(l) ==
  /\ loop[l] = "cancelling"
  /\ loop' = [loop EXCEPT ![l] = "ended"]
  /\ UNCHANGED <<phase, worker, open>>

\* gather is done with the first loop whose cancellation is complete: the others
\* may still be leaving their own await.
GatherDone(w) == \E l \in LoopsOf(w) : loop[l] = "ended"

WorkerEnds(w) ==
  /\ worker[w] = "cancelling" /\ GatherDone(w)
  /\ worker' = [worker EXCEPT ![w] = "cancelled"]
  /\ UNCHANGED <<phase, loop, open>>

\* Mutant: CancelledError is not suppressed, so the await of a cancelled task raises.
AwaitUnsuppressed ==
  /\ phase = "awaiting_ingestion"
  /\ \/ worker["ingestion"] = "done" /\ phase' = "awaiting_technical"
     \/ worker["ingestion"] \in {"cancelled", "failed"} /\ phase' = "raised"
  /\ UNCHANGED <<worker, loop, open>>

\* "await task" under suppress(CancelledError): any other exception leaves the
\* finally block.
AwaitIngestion ==
  /\ phase = "awaiting_ingestion"
  /\ \/ worker["ingestion"] \in {"cancelled", "done"} /\ phase' = "awaiting_technical"
     \/ worker["ingestion"] = "failed" /\ phase' = "raised"
  /\ UNCHANGED <<worker, loop, open>>

AwaitTechnical ==
  /\ phase = "awaiting_technical"
  /\ \/ worker["technical"] \in {"cancelled", "done"} /\ phase' = "closed" /\ open' = {}
     \/ worker["technical"] = "failed" /\ phase' = "raised" /\ UNCHANGED open
  /\ UNCHANGED <<worker, loop>>

\* uvicorn returns, and asyncio.run cancels what is left before the process ends.
Exit ==
  /\ phase \in {"closed", "raised"}
  /\ phase' = "exited"
  /\ loop' = [l \in Loops |-> IF loop[l] = "dead" THEN "dead" ELSE "ended"]
  /\ UNCHANGED <<worker, open>>

-----------------------------------------------------------------------------
Stops ==
  \/ \E w \in Workers : WorkerFails(w) \/ WorkerEnds(w)
  \/ \E l \in Loops : LoopEnds(l)
  \/ AwaitIngestion \/ AwaitTechnical \/ Exit

Next ==
  \/ \E w \in Workers, l \in Loops : StorageRaises(w, l)
  \/ Shutdown
  \/ Stops

Spec == Init /\ [][Next]_vars

\* The event loop runs what is ready.  Nobody has to ask for the shutdown.
FairSpec == Spec /\ WF_vars(Stops)

-----------------------------------------------------------------------------
\* Unless one of its loops died, a worker's connection is not closed under a loop
\* that goes on polling (web.py:88-96); one that is being cancelled uses it no more.
NoneOutlivesItsConnection ==
  \A w \in Workers :
    w \notin open /\ (\E l \in LoopsOf(w) : loop[l] = "running")
      => \E l \in LoopsOf(w) : loop[l] = "dead"

\* docs/superpowers/specs/2026-08-29-terminal-dashboard-design.md:29, as far as it goes:
\* a process leaves a connection open only if one of its two workers had failed before
\* its turn to be awaited came; a cancellation, however it falls, closes them all
\* (web.py:90-98).
ClosedUnlessFailed ==
  phase = "exited" /\ open # {} => \E w \in Workers : worker[w] = "failed"

\* A shutdown that was asked for ends, whatever died before it.
ShutdownEnds == phase \notin {"serving", "exited"} ~> phase = "exited"

\* docs/superpowers/specs/2026-08-30-web-dashboard-docker-telegram-design.md:33-35:
\* the background loops are cancelled on shutdown: none is running when the
\* lifespan handler has ended.
LoopsAreCancelled == phase \in {"closed", "raised"} => \A l \in Loops : loop[l] # "running"
=============================================================================
