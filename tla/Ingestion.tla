------------------------------ MODULE Ingestion ------------------------------
(***************************************************************************)
(* The whale ingestion service: poll_once and run_adapter_loop             *)
(* (ingestion/scheduler.py) around the Hyperdash source, the tables of     *)
(* whale.db (ingestion/storage.py), the alert sink, and the process that   *)
(* runs them, which may be stopped at any step and started again.          *)
(***************************************************************************)
EXTENDS HyperdashAdapter

CONSTANTS
  Retention,     \* age at which snapshots are pruned (30 days), in clock ticks
  MaxRestarts    \* bound on the number of restarts

ASSUME IngestionAssumption == Retention \in Nat \ {0} /\ MaxRestarts \in Nat

VARIABLES
  alive,         \* the task of run_adapter_loop has not died of an exception
  toNotify,      \* the alerts poll_once consumed and has not handed over yet
  whaleEvents,   \* table whale_events: which position was recorded, its value, and when
  skewSnapshots, \* table coin_skew_snapshots, by its unique key
  restarts,
  \* history
  lastAttempt,   \* the latest alert about c handed to notify, in any lifetime
  attemptParity  \* flips with every such alert

tables     == <<whaleEvents, skewSnapshots>>
reader     == <<lastAttempt, attemptParity>>
ingestVars == <<vars, alive, toNotify, tables, restarts, reader>>

(***************************************************************************)
(* Storage.  Rows are sets, so a row that is there already is ignored as   *)
(* INSERT OR IGNORE does.                                                  *)
(***************************************************************************)
\* Mutant: the key of a row lacks its timestamp, so that a wallet is recorded once.
WithEventsOnce ==
  whaleEvents \union {[holding |-> e.holding, usd |-> e.usd, at |-> now] :
                       e \in {e \in events : \A r \in whaleEvents : r.holding # e.holding}}

WithEvents ==
  whaleEvents \union {[holding |-> e.holding, usd |-> e.usd, at |-> now] : e \in events}

\* Mutants: rows are kept one tick too long; rows are pruned one tick too early.
KeptLonger(rows, newest)  == {r \in rows : newest - r.at <= Retention + 1}
KeptShorter(rows, newest) == {r \in rows : newest - r.at < Retention}

Kept(rows, newest) == {r \in rows : newest - r.at <= Retention}

\* insert_skew_snapshots: insert, then prune by the batch's own latest timestamp.
WithSnapshots(batch) ==
  LET fresh == {[coin |-> batch[i].of.coin, at |-> batch[i].at] : i \in DOMAIN batch}
  IN IF batch = <<>> THEN skewSnapshots
     ELSE Kept(skewSnapshots \union fresh, Max({r.at : r \in fresh}))

(***************************************************************************)
(* poll_once.  safe_fetch is the adapter's Fetch; the rest of poll_once    *)
(* runs without an await up to the first notify.                           *)
(***************************************************************************)
SafeFetch ==
  /\ alive /\ toNotify = <<>>
  /\ Fetch
  /\ UNCHANGED <<alive, toNotify, tables, restarts, reader>>

Persist ==
  /\ alive
  /\ Consume
  /\ whaleEvents' = WithEvents
  /\ skewSnapshots' = WithSnapshots(pendingSnapshots)
  /\ toNotify' = pendingAlerts
  /\ UNCHANGED <<alive, restarts, reader>>

\* sqlite3 raises (locked, full, read-only): nothing catches it and the task ends.
\* Events are committed before snapshots are taken off the adapter and inserted.
StorageFails ==
  /\ alive /\ pc = "returned"
  /\ alive' = FALSE
  /\ \/ events # {} /\ UNCHANGED <<whaleEvents, pendingSnapshots>>
     \/ pendingSnapshots # <<>> /\ whaleEvents' = WithEvents /\ pendingSnapshots' = <<>>
  /\ UNCHANGED <<world, base, coinStatus, active, zones, lastSnapshotAt, pendingAlerts, lastAlert,
                 alertParity, pc, next, locals, toNotify, skewSnapshots, restarts, reader>>

HandOver(alert) ==
  /\ lastAttempt' = [lastAttempt EXCEPT ![alert.of.coin] = alert.head]
  /\ attemptParity' = [attemptParity EXCEPT ![alert.of.coin] = 1 - @]

\* Mutant: the loop over the alerts is left after the first one.
NotifyFirst ==
  /\ alive /\ toNotify # <<>>
  /\ toNotify' = <<>>
  /\ HandOver(Head(toNotify))
  /\ UNCHANGED <<vars, alive, tables, restarts>>

\* Delivered or not, an alert is handed over once: the sink swallows HTTP errors
\* and poll_once every other exception.
Notify ==
  /\ alive /\ toNotify # <<>>
  /\ toNotify' = Tail(toNotify)
  /\ HandOver(Head(toNotify))
  /\ UNCHANGED <<vars, alive, tables, restarts>>

\* Mutant: the zones survive a restart, as if they were stored at every update.
ZonesSurvive == UNCHANGED zones

\* A new SkewTracker has no zones.
ZonesAreForgotten == zones' = [c \in Coins |-> "neutral"]

\* The process ends, at any await or by a crash anywhere, and starts anew with
\* what the database kept.
Restart ==
  /\ restarts < MaxRestarts
  /\ restarts' = restarts + 1
  /\ alive' = TRUE /\ toNotify' = <<>>
  /\ failures' = 0 /\ disabled' = FALSE /\ lastError' = FALSE /\ lastSuccessAt' = Never
  /\ coinStatus' = [c \in Coins |-> [state |-> "STALE", at |-> Never]]
  /\ active' = [c \in Coins |-> {}]
  /\ ZonesAreForgotten
  /\ lastSnapshotAt' = [c \in Coins |-> Never]
  /\ pendingAlerts' = <<>> /\ pendingSnapshots' = <<>>
  /\ lastAlert' = [c \in Coins |-> Quiet] /\ alertParity' = [c \in Coins |-> 0]
  /\ pc' = "idle" /\ ResetLocals
  /\ UNCHANGED <<market, tables, reader>>

-----------------------------------------------------------------------------
IngestInit ==
  /\ Init
  /\ alive = TRUE /\ toNotify = <<>> /\ restarts = 0
  /\ whaleEvents = {} /\ skewSnapshots = {}
  /\ lastAttempt = [c \in Coins |-> Quiet] /\ attemptParity = [c \in Coins |-> 0]

Market == Environment /\ UNCHANGED <<alive, toNotify, tables, restarts, reader>>

PollLoop == SafeFetch \/ Persist \/ Notify

\* What happens in one lifetime of the process.
Lives == Market \/ PollLoop \/ StorageFails

IngestNext == Lives \/ Restart

IngestSpec == IngestInit /\ [][IngestNext]_ingestVars

\* One lifetime.  Requests and deliveries time out and the loop's own wait is bounded,
\* so a live loop takes its next step.  Nothing is assumed of the market or of the storage.
FairLifetimeSpec == IngestInit /\ [][Lives]_ingestVars /\ WF_ingestVars(PollLoop)

-----------------------------------------------------------------------------
\* The type of every variable.
IngestTypeOK ==
  /\ TypeOK
  /\ alive \in BOOLEAN /\ restarts \in 0..MaxRestarts
  /\ toNotify \in Seq(Alerts)
  /\ whaleEvents \subseteq [holding : Holdings, usd : Exposures, at : Times]
  /\ skewSnapshots \subseteq [coin : Coins, at : Times]
  /\ lastAttempt \in [Coins -> AlertHeads] /\ attemptParity \in [Coins -> {0, 1}]

\* Between polls, what was handed to the sink is what the tracker announced: no
\* alert was dropped, and none overtook another (scheduler.py:21-26).
Announced ==
  alive /\ pc = "idle" /\ toNotify = <<>> =>
    lastAttempt = lastAlert /\ attemptParity = alertParity

\* Over one lifetime of the process the reader of the sink sees, for every coin,
\* enter and exit alternate (scheduler.py:21-26, position_skew.py:61-72).  A new
\* process has forgotten the zones and announces a standing dominance again.
Reader == INSTANCE DominanceAlerts WITH last <- lastAttempt, parity <- attemptParity
ReaderSeesAlternation == Reader!Spec

\* Over one lifetime of the process the snapshots of a coin are an interval apart
\* (hyperdash.py:213-225, storage.py:168-187), whatever failed in between.  The
\* first poll of a new process takes one at once.
SnapshotsAreSpaced ==
  \A r, s \in skewSnapshots :
    r.coin = s.coin /\ r.at < s.at => s.at - r.at >= SnapshotInterval

\* No two snapshots in the table are further apart than the retention.
HistoryIsBounded == \A r, s \in skewSnapshots : s.at - r.at <= Retention

\* A snapshot is deleted only when it is older than the retention.
PruneOnlyExpired ==
  [][\A r \in skewSnapshots \ skewSnapshots' : clock - r.at > Retention]_ingestVars

\* While the loop lives, every wallet that is tracked for a coin has a recorded
\* event there: nobody gets tracked below the minimum (hyperdash.py:155-164,
\* scheduler.py:16-17).
TrackedWasRecorded ==
  alive /\ pc = "idle" =>
    \A c \in Coins : \A w \in active[c] : \E r \in whaleEvents : r.holding = <<w, c>>

\* docs/superpowers/specs/2026-08-30-whale-position-skew-alerts-design.md:63-65: a
\* dominance met at the first poll is announced at once.  So however often the process
\* was killed, and with whatever alerts queued, between polls a coin that counts as
\* dominant was announced so, and nothing was said about it since (position_skew.py:59,
\* scheduler.py:16-26).
NoDominanceIsSilent ==
  alive /\ pc = "idle" /\ toNotify = <<>> =>
    \A c \in Coins : zones[c] # "neutral" =>
      lastAttempt[c] = [zone |-> zones[c], direction |-> "enter"]

\* What the tracker announces reaches the sink, unless storage stops the loop.
AnnouncementsArrive ==
  \A c \in Coins : lastAlert[c] # lastAttempt[c] ~> lastAlert[c] = lastAttempt[c] \/ ~alive

\* What the reader was told last about c fits what its tracked wallets hold now.
ReaderIsRight(c) ==
  LET long  == TrueLong(c)
      short == TrueShort(c)
      told(z) == lastAttempt[c] = [zone |-> z, direction |-> "enter"]
  IN /\ Above75(long, long + short) => told("long_dominant")
     /\ Above75(short, long + short) => told("short_dominant")
     /\ told("long_dominant") => ~Below70(long, long + short)
     /\ told("short_dominant") => ~Below70(short, long + short)

\* Whatever failed, moved or was half read before: once nobody trades and the polls of
\* a coin succeed, the last thing said about the coin becomes true and stays so
\* (position_skew.py:21-30, 55-72, hyperdash.py:106-116, 213-225, scheduler.py:21-26).
\* A change of side takes two updates, and an alert is never repeated.
ReaderLearnsTheTruth ==
  \A c \in Coins :
    (/\ <>[][UNCHANGED position]_ingestVars
     /\ <>[](alive /\ ~lastError /\ coinStatus[c].state = "LIVE"))
    => <>[]ReaderIsRight(c)
=============================================================================
