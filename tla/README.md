# hello-coin: a TLA+ model of the program

hello-coin watches large Hyperliquid positions ("whales"), technical indicators and a
liquidation heatmap, alerts on Telegram when one side of a coin dominates, shows everything on a
web dashboard, and asks a language model for trade decisions.  This directory specifies the parts
whose correctness depends on order, failure and time, checks them with TLC, and proves every
safety property the runs check, of the parts that keep state and of the scores and indicators, with
TLAPS.

Paths below are relative to `src/hello_coin/` unless they start with `docs/` or `README.md`.

## 1. The system

Everything runs on one asyncio event loop per process; code between two `await`s is atomic with
respect to the other tasks of the process.  Processes share SQLite files only.

| Component | State it keeps | Operations | Interacts with |
|---|---|---|---|
| Skew tracking (`ingestion/position_skew.py`) | the zone of every coin | `compute_skew`, `next_zone`, `SkewTracker.update` | called by the adapter once per watch-list entry and poll |
| Adapter base (`ingestion/adapters/base.py`) | failure count, disabled flag, last error, last success | `safe_fetch`, the consume hooks | called by the scheduler, read by the dashboard |
| Hyperdash adapter (`ingestion/adapters/hyperdash.py`) | a status row and a set of tracked wallets per coin, the snapshot throttle, queued alerts and snapshots | `fetch`, `_update_skew`, `consume_*` | Hyperdash (which wallets moved), Hyperliquid (what they hold) |
| Ingestion scheduler (`ingestion/scheduler.py`) | none of its own | `poll_once`, `run_adapter_loop`, `run_forever` | adapter, storage, notifier |
| Whale storage (`ingestion/storage.py`) | tables `whale_events`, `coin_skew_snapshots` | two inserts (deduplicating, one of them pruning), four reads | scheduler, dashboard |
| Notifications (`ingestion/notifications.py`) | none | `notify` | Telegram |
| Registry, settings, models | none | construction, parsing | everything |
| Technical indicators (`technical/`) | table `technical_snapshots` | klines request, indicators, one poll loop per symbol | Binance; read by dashboard and decision engine |
| Liquidation heatmap (`liquidation/`) | table `liquidation_snapshots` | heatmap request, score, nearest clusters, one poll loop per symbol | Coinglass; read by the decision engine |
| Decision engine (`decision/`) | table `decisions` | scores, weighted score, model call, one poll loop per symbol | both tables, Anthropic |
| Dashboard (`dashboard/service.py`, `models.py`, `formatting.py`) | none | `load_snapshot` | storages and the adapter's live status |
| Web application (`dashboard/web.py`) | the background tasks and the storages' connections | lifespan start and stop, two pages | all of the above |
| Command line (`cli.py`) | none | wiring | all of the above |

What makes them hard, and what makes them correct:

* **Adapter.** A poll is one request per coin, then one per wallet, with the market moving in
  between; any request can fail and two kinds of failure leave the poll by different ways.  Correct:
  a wallet is forgotten only when it really was flat; what is announced follows the sample; a row
  that says LIVE was really read; one coin's failure stays that coin's.
* **Skew tracking.** Hysteresis, and a change of side that takes two updates.  Correct: enter and
  exit alternate for every coin, an exit names what was entered, and after every poll the zone
  agrees with the sample.
* **Scheduler and storage.** Alerts are queued in memory and handed over one await at a time; a
  storage exception ends the loop between two commits; a restart forgets everything not in the
  tables.  Correct: nothing announced is lost or reordered while the loop lives; the tables keep
  their spacing and retention.
* **Technical, liquidation, decision.** Independent loops over shared tables; rows that are
  ignored because their key exists; inputs of any age; indicators that begin at different candles.
* **Dashboard.** A page can be asked for at any await of a poll and after a restart; it puts
  together rows of several polls, states the adapter keeps and two ages.  Correct: nothing stale
  passes for current, and what says LIVE is complete and agrees with the alerts.
* **Web application.** Workers that die, are cancelled at any await, and connections closed after
  them.

The full list of hazards, each at its line, is in `PROJECT.json` under `hazards`.

## 2. The modules

| Module | Models | Uses |
|---|---|---|
| `PositionSkew` | `position_skew.py`: shares, thresholds, zones, the head of an alert | |
| `DominanceAlerts` | nothing of the code: the promise to the reader of the alerts | `PositionSkew` |
| `HyperdashAdapter` | `adapters/base.py`, `adapters/hyperdash.py`, the tracker's memory, the market | `PositionSkew`, refines `DominanceAlerts` |
| `Ingestion` | `scheduler.py`, `storage.py`, `notifications.py`, the life of the process | `HyperdashAdapter`, refines `DominanceAlerts` |
| `Dashboard` | `dashboard/service.py`, `formatting.py`, the read of `storage.py` they make, the wait of `run_adapter_loop` | `Ingestion` |
| `Lifespan` | the lifespan handler of `dashboard/web.py`, its two tasks and the loops they gather | |
| `Settings` | the parameters the signal modules share | |
| `SignalScores` | `technical_score.py`, `liquidation/score.py`, the weighting of `decision/service.py`, the market bias: pure functions | `Settings` |
| `Indicators` | `technical/indicators.py`: pure functions | `SignalScores` for its fractions |
| `Technical` | `technical/`: the poll loops and the table | `Settings` |
| `Liquidation` | `liquidation/`: the poll loops, parsing, the table | `Settings` |
| `Decision` | `decision/`: what a decision is made from, when, and whether it is stored | `Technical`, `Liquidation`, `SignalScores` |
| `HyperdashAdapterProofs`, `LifespanProofs`, `TechnicalProofs` | the theorems about the three | their modules, TLAPS |
| `IngestionProofs`, `DashboardProofs`, `DecisionProofs` | the theorems about the compositions | their modules; each also the proofs about the module its own extends |
| `SignalScoresProofs` | the theorems about the scores | `MCSignalScores`, TLAPS |
| `IndicatorsProofs` | the theorems about the indicators | `SignalScoresProofs` |
| `MCHyperdashAdapter`, `MCIngestion`, `MCDashboard`, `MCLifespan`, `MCDecision` | instances for TLC | |
| `MCSignalScores` | a machine that builds inputs of the scores and indicators, and their properties | `SignalScores`, `Indicators` |

### HyperdashAdapter

The variables are the attributes of the two classes under their own names (`failures` is
`_consecutive_failures`, `active` is `_active_wallets_by_coin`, ...), the locals of the running
`fetch`, and `position` and `clock`, which belong to the world.  `pc` says where the poll is:
`idle`, `deltas` (the loop over the coins), `wallets` (the loop over `coins_by_address`), `skew`
(`_update_skew` and the tracked sets), `returned` (`poll_once` has the result).

Each await ends an action.  `DeltasOk`, `DeltasFail` and `FetchRaises` are the three ways a delta
request of one coin can end: answered, failed in a way the handler names, or answered with a row
that is not an object, which leaves `fetch` by an exception no handler inside it names.
`WalletRead` and `WalletFails` are one clearinghouse request.  The order in which `WalletRead`
takes the wallets is free, as that of a Python set is.  `UpdateSkew` is one pass of the loop in
`_update_skew`; `FinishFetch` is the update of the tracked sets with the success branch of
`safe_fetch`.  Nothing else can run between those passes; they are separate actions because a watch
list may name a coin twice, and the second pass sees what the first did.  `Trade` and `Tick` may
come between any two steps.

What is abstracted: prices, sizes, wording, URLs.  Dollars are integers and a position is its
signed dollar value.  A share is compared with 70% and 75% by cross-multiplication where the code
divides doubles; the two differ only for a share within one rounding of a threshold.  The totals of
`_update_skew` are kept as running sums (`longUsd`, `shortUsd`) while `observed` grows.

What is assumed: clearinghouse answers are well formed or fail as a whole (an entry without a size
reads as flat in the code, see the hazards); the wall clock does not go back; the adapter is
configured (`build_adapters` leaves it out otherwise).

`flat`, `traded`, `lastAlert` and `alertParity` are history: no action of the code reads them.  The
parity flips with every alert, so that announcing the same thing twice is a change of state and not
a stutter, and the refinement of `DominanceAlerts` notices it.

### Ingestion

`Persist` is the stretch of `poll_once` that has no await: insert the events, take and insert the
snapshots, take the alerts.  `StorageFails` is an exception in either insert, with what was already
committed.  `Notify` hands one alert over; whether Telegram takes it makes no difference to the
program.  `Restart` may come at any step: it is the cancellation of the task by the lifespan's
shutdown, a crash, or the restart after a dead loop, followed by a start from the tables.
The wait of `run_adapter_loop` between two polls is the absence of a step.

### Dashboard

`load_snapshot` has no await, so a page shows one state of the adapter and of the tables; the model
has no action for it, and what it shows are operators over the state: `Panel` (the rows of the
freshness window), `coin_status`, `source_status` and `coin_skew` (the shares).  A property of them
that holds in every state holds of every page, whenever it is asked for, in the middle of a poll and
after a restart too.

`DashNext` is `IngestNext` with the length of the wait (`Serves`, and `Restarts` for a restart): a
poll begins `PollInterval` after the one before it ended, and the first poll of a process at once,
at a later instant than any earlier process polled. That wait matters here, and not in `Ingestion`:
with it two polls never fall in one instant, so a row's timestamp tells its poll, as the
microseconds of the code's timestamps do.
`Freshness` is twice the interval; the code's ceiling of 300 s is above that for every interval the
repository uses.  `endedAt` belongs to the wait; `answeredAt`, `moved` and `trades` are history.

### Lifespan

A loop lets an exception of its storage through.  `asyncio.gather` passes the first one on to the
task that awaits it and leaves the sibling loops running; the task itself learns of it one turn of
the event loop later (`StorageRaises`, `WorkerFails`).  `Shutdown` is the finally block up to its
first await: `cancel()` reaches every loop through gather's future, unless that future is done
already.  It is done, too, as soon as the first loop's cancellation is complete (`GatherDone`), when
the others may still be leaving their await.  A cancel that falls between a loop's death and the
turn of its task replaces the exception by a cancellation.  A task that has failed raises from the
await in the finally block, and the handler ends in phase `raised`, its connections open.

### SignalScores, Technical, Liquidation, Decision

`SignalScores` computes with fractions where the code computes with doubles.  A bucket the loop of
`compute_liquidation_score` passes over adds zero to both sides of `Weighted`.  Its operators are
functions of their arguments only; `MCSignalScores` reaches every input its constants allow by
filling in one indicator, one bucket or one candle at a time, and states what must hold of all of
them.

`Indicators` computes with fractions too, in lowest terms after every step of an average; of the Bollinger bands it
computes the variance, not its root.  The periods are arguments, as in the code; the constants of
`technical/service.py` are constants of `MCSignalScores`.

`Technical` has several processes, since `technical run` and `dashboard` both poll into
`data/technical.db`.  What the indicators of a candle compute to is a `reading`, a choice that moves
while the candle is open and is final when it closes; an answer carries the open candle, as the last
one of a Binance answer is.  An answer may be inserted long after it was made, by one process while
another went on.  `InsertOrIgnore` keeps the first row of a key.

`compute_snapshot` of `Liquidation` is the parsing of a heatmap: buckets that lack a field are
passed over, and an answer without a usable one is worth nothing.

`Liquidation` and `Decision` run as one process each, so a process's own timestamps order its rows.
`AskModel` is a poll up to the await of the model: it reads the latest row of both tables, whatever
its age, and computes the scores.  Both reads are in one step; they are of different databases
written by different processes, so reading them one after the other could be reordered to this.
While the model is asked, anything else may happen.  `ModelDecides`, `ModelFails` and
`InsertDecisionRaises` are the ways that ends.  `from` and `stored` of a decision are history: the
rows its scores came from, and the newest rows the tables held when it was stored.

### What the deployment has to keep

Two assumptions are about how the program is started.  The code does not enforce them.

* *One process writes `data/whale.db`.*  `run`, `ingest run` and `dashboard` share that default
  (`cli.py:26`), and each has its own throttle, tracked set and zones.  `Ingestion` and `Dashboard`
  have one live process, with any number of others before it.  `SnapshotsAreSpaced`, and the
  properties that compare a page with the adapter of its process (`LivePanelIsComplete`,
  `PanelAgreesWithZone`, `NothingStaleIsLive`, `LiveCoinsHaveFreshSource`, `TrackedWasRecorded`), are
  promises about that.  `technical run` and `dashboard` are run side by side by design, so
  `Technical` has several processes.
* *One loop per symbol.*  `EXCHANGE_WATCH_SYMBOLS` is split and not deduplicated
  (`ingestion/config.py:37-46`), and a symbol named twice gets two loops.  `Liquidation` and
  `Decision` have one; with two, a decision made first can be stored last, and `InputsKeepUp` would
  not hold.  The loops of `Technical` may be any number, since a second one of a symbol is to the table
  a second process.

### Configurations

| Run | Checks | Instance |
|---|---|---|
| `adapter_band` | type; zones agree with samples; a wallet is dropped only when flat; alerts warranted under a LIVE row; alternation | one coin listed twice, two wallets, exposures -5, -2, 0, 5, 6 with minimum 3, one tick |
| `adapter_two_coins` | a LIVE row was read completely; alerts warranted | two coins, two wallets, long or flat |
| `adapter_spurious_alert` | README.md's claim about every alert: **violated** | as `adapter_band`, fewer exposures |
| `adapter_malformed_row` | the isolation the dashboard design promises: **violated** | two coins |
| `adapter_refused` | the disabling the ingestion design promises: **violated** | |
| `ingest_lifetime` | type; what is announced is handed over, in order and eventually; alternation for the reader; once the market stands still and polls succeed, what the reader was told last comes true and stays so; snapshots an interval apart | one coin listed twice, one wallet with exposures -5, 0 and 2 and minimum 3, two ticks, interval 2, storage failures, no restart |
| `ingest_restarts` | retention is kept; only expired rows go; tracked wallets were recorded; a dominance was announced; a panel that says LIVE is fresh, complete and agrees with the zone | two wallets long, short, below the minimum or flat, three ticks, interval 1, retention 1, one trade, one restart, storage failures |
| `lifespan_shutdown` | a connection is closed under a polling loop only if a sibling died; one is left open only if a worker failed; a shutdown ends | one adapter, three symbols |
| `lifespan_orphan_loops` | "cancelled on shutdown" of the web design: **violated** | as above |
| `scores_inputs` | bounds, mirror symmetry, missing signals, proximity, monotonicity, the named clusters; of the indicators mirror symmetry, steady trends, averages within their values, gaps | prices 7 to 13 around 10, proximity 20%, up to three buckets; up to five candles, periods 2 and 3 |
| `decision_inputs` | type and unique key; readers never go back; a decision rests on rows as new as those stored before its predecessor; it can be recomputed | two processes, two candles, two readings, four answers of Coinglass (one of price 0, two worth nothing), two heatmap rows, two decisions |
| `technical_open_candle` | "latest closed candle" of the indicator design: **violated** | one process |

Why these bounds.  The exposures of `adapter_band` are chosen around the thresholds: 6 against 2
is exactly 75%, 5 against 2 lies inside the 70-75% band, 5 against 5 is below both, 2 is under the
minimum and counts only while tracked.  Two wallets are what it takes for one to be read and the
other missed, two coins for one to fail and the other not; a coin listed twice is the only way to
two updates, and two alerts, in one poll.  `MaxConsecutiveFailures` is 2, so that one failure does
not disable and the next does.  Failures, alerts and polls are not counted by any bound: the runs
explore every sequence of polls.  The clock matters only to the throttle and the retention, so
runs about neither keep it still or let it tick once; those about them give it room for an interval
to pass, for a poll one tick short of it, and for a row to expire.  Wallets are interchangeable in
the adapter runs without liveness, which use symmetry.

Three symbols are what it takes for one loop to have died, one to be cancelled and one to be left
behind; the two workers differ only in their number of loops.

In `ingest_lifetime` the exposures are a short, nothing, and a long that only counts while its wallet
is tracked.  The coin can change sides either way, at once or over a flat position, and a failed
request or reading can end a dominance that is then announced again.  One wallet has no 70-75% band;
how polls pass through that is `adapter_band`'s part.

Around 10 with a proximity of 20%, the prices 8 and 12 are on its edge, 7 and 13 beyond it, 10 at
distance zero; three buckets allow one to be left out of the two largest. Five closes between 8 and
12 with periods 2 and 3 are enough for every average to be seeded and moved at least twice, and for
a histogram after the first; one of the candles may reach beyond its close. The code's periods (20,
14, 12, 26, 9, 20, 14) would need as many candles; the `.cfg` scales them down, and the theorems are
about any.

In `ingest_restarts` exposures of 5, 2, 0 and -5 with minimum 3 let two wallets make a coin dominant
on either side, balanced, or tracked below the minimum.  Three ticks with an interval of one are a
poll at each of four instants, enough for the window of two intervals to pass after the last answer;
the single trade is what it takes for two rows of one wallet to differ, and for everything a restart
forgot to have changed by its first poll.

Two processes are needed for one's answer to be late, a second
candle for it to be of an older one, two heatmaps for a decision to get an older one than the tables
held before.

`CHECK_DEADLOCK FALSE` stands in the configurations of `Lifespan`, where the process ends, of
`MCSignalScores`, where an input is complete after finitely many steps, and in `ingest_restarts`,
where the loop waits for a clock that stops at its bound.  In `adapter_*`, `ingest_lifetime` and
`decision_inputs` a state without a step would be a deadlock, and there is none.

### Fairness

`FairSpec` assumes weak fairness of the fetch and of what `poll_once` does after it,
`FairLifetimeSpec` of the poll loop, over one lifetime of the process. The code justifies it:
requests have timeouts (15 s for both feeds, 10 s for Telegram), the loop's own wait is bounded (60
s), and every loop of a fetch is over a finite list built before it begins. Nothing is assumed of
the market, of which answer a request gets, or of storage and restarts.  `ReaderLearnsTheTruth` names
what it needs of them itself: that from some moment on nobody trades, the loop lives and every poll
leaves the row of the coin LIVE.  What came before is free, so the memory the adapter and the tracker
take into that calm can be of any failed or half-read poll.

`FairSpec` of `Lifespan` assumes weak fairness of the event loop's own steps: a task that was
cancelled or whose awaited future is done gets its turn.  Nobody has to ask for a shutdown and no
storage has to fail.

## 3. What the runs show

What holds: see the table.  What does not, each with the line that says otherwise in
`PROJECT.json` under `findings`:

1. A failed request takes a coin's tracked wallets out of the sums, and an exit, or the other
   side's dominance, is announced although nobody traded (`adapters/hyperdash.py:135`, `165`).
   `LiveAlertsAreWarranted` is the part of the claim that holds: an alert is right when the coin's
   row still says LIVE and the market stood still during the poll.
2. A delta row that is not an object ends the whole poll; the coins after it are not asked and
   their rows keep what they had, STALE in a first poll and LIVE in a later one (`hyperdash.py:118`,
   `128`).
3. A source that refuses every request is never disabled, because the per-coin handler turns the
   poll into a success (`hyperdash.py:128`, `base.py:65`).
4. A loop that dies takes its siblings out of the reach of the shutdown: gather's future is done
   with its exception, even before the task learns of it, and `cancel()` stops there.  They poll on
   after the lifespan handler has ended (`technical/scheduler.py:39`, `dashboard/web.py:89`).
5. A row of technical indicators is computed from the candle that is still open, and never
   corrected (`technical/service.py:21`, `technical/storage.py:47`).

Some behaviours the models show have no run of their own:

* A restart announces a standing dominance again and takes a snapshot at once.  The state behind
  both is kept in memory by design; `ReaderSeesAlternation` and `SnapshotsAreSpaced` are therefore
  checked over one lifetime of the process.
* A restart shows LIVE at once when there are rows of the process before in the window, with the
  time of the page as its last success (`dashboard/service.py:99`).  `NothingStaleIsLive` is the
  bound on it: those rows are no older than the window.
* A dominance that ends while the process is down, or whose exit was queued when it ended, is never
  announced as ended: the new process begins with every coin neutral.  `NoDominanceIsSilent` is the
  other half, which holds: no dominance is ever in force unannounced.
* The number of a panel is not always what triggers a notification, as `dashboard/formatting.py:68-69`
  has it.  A panel adds up all rows of its window, so that a wallet counts once per poll in it, and
  with what it held then, a closed position included; and it leaves out tracked wallets whose
  position fell below the minimum, which the alert counts.  `PanelAgreesWithZone` says when the two
  agree: all rows are of the latest poll and every tracked wallet is among them.
* A source says LIVE while every coin says ERROR, for the reason of finding 3.
* A market that does not move has an RSI of 100 (`technical/indicators.py:30-31`), which scores as
  a full sell signal.
* A bucket with a price that is no number loses the whole heatmap
  (`liquidation/service.py:16`, against its docstring at `:11`); buckets without a value are passed
  over, and if those were all of one side, the score is a full signal of the other.
* When a worker failed before the shutdown, its connections and those after it stay open
  (`dashboard/web.py:92`; `ClosedUnlessFailed` has it that nothing else leaves one open), where `docs/superpowers/specs/2026-08-29-terminal-dashboard-design.md:29`
  wants every one closed.
* One symbol's storage error ends the liquidation, technical or decision process
  (`liquidation/scheduler.py:20` and its siblings).
* A decision uses the latest rows however old they are, although the prompt words a missing score
  as "nothing usable this cycle" (`decision/service.py:16-17`, `69`).
* A tool answer with a list or an object in a field ends the decision loop
  (`decision/scheduler.py:36`).
* A stored price of zero fails every decision of its symbol until a newer row arrives
  (`ScoringFails`).

## 4. What is proved

`HyperdashAdapterProofs` proves, for any set of wallets, any watch list (repetitions included), any
exposures and any bounds allowed by `WatchCoinsAssumption`, `ExposuresAssumption` and
`BoundsAssumption`:

| Theorem | States | Strengthening it needs |
|---|---|---|
| `TypeInvariant`, `TypeCorrect` | `TypeOK` | that a source still polled has fewer failures than the limit: `failures` alone is not bounded by an induction step |
| `DropsAreWarranted` | `DropOnlyWhenFlat` | whatever is flat now, or was read as nothing while tracked, is in `flat`: the drop happens many steps after the reading |
| `AlertsKeepPromise` | `AlertsAlternate`, the refinement of `DominanceAlerts` | the latest alert and the zone say the same |
| `ZonesFollow` | `ZonesFollowSamples` | the agreement of each coin the loop has passed; a second pass for a repeated coin keeps it, since its sample is unchanged |
| `LiveRowsWereRead` | `LiveMeansRead` | for a coin LIVE so far: every tracked wallet still to be read, or read |
| `LiveAlertsAreTrue` | `LiveAlertsAreWarranted` | `SumsSoFar`: while nobody trades, the running sums are sums of what the wallets seen hold, and who was read and not seen holds nothing |

`IngestionProofs`, in addition for any retention and any number of restarts
(`IngestionAssumption`), with queues of any length:

| Theorem | States | Strengthening it needs |
|---|---|---|
| `IngestTypeCorrect` | `IngestTypeOK` | `OneQueue`: alerts wait with the adapter during a poll and with `poll_once` after it, never with both |
| `TrackedWasAnEvent` | `TrackedWasRecorded` | `TrackedIsOnRecord`: a tracked wallet has a row, or an event waiting to become one, and so has everyone the running poll observed |
| `HistoryStaysBounded`, `OnlyExpiredIsPruned` | `HistoryIsBounded`, `PruneOnlyExpired` | `SnapshotTimes`: a batch has one time, no later than the clock and no earlier than any row; the pruning by that time is then the pruning by the clock at worst late |
| `DominanceIsAnnounced` | `NoDominanceIsSilent` | `NothingIsLost`: the last unsaid alert about a coin is its latest one, or there is none and the coin is neutral or the sink heard it |
| `SnapshotsKeepTheirDistance` | `SnapshotsAreSpaced` | `TakenIsSpaced`: the same distance with the snapshots still queued, none later than what the throttle remembers |
| `AnnouncedIsHandedOver`, `ReaderSeesThePromise` | `Announced`, `ReaderSeesAlternation` | `ReaderCatchesUp`: for each coin the queue is a path from what the reader heard last to what the tracker said last, each step one `DominanceAlerts` allows |

The first five hold under `IngestSpec`, with restarts; the last three are about one lifetime and are
proved from the steps of `FairLifetimeSpec` (its fairness is not used).  A step the service shares
with the adapter is a step of the adapter (`StepsOfTheAdapter`), so its theorems carry over; what is
left are `StorageFails` and `Restart`, the two the adapter does not know.

`DashboardProofs`, in addition for any poll interval and any number of trades
(`DashboardAssumption`):

| Theorem | States | Strengthening it needs |
|---|---|---|
| `StaleIsNotLive`, `NoLiveCoinUnderStaleSource` | `NothingStaleIsLive`, `LiveCoinsHaveFreshSource` | `RowsWereAnswered`: rows and the adapter's last success go back to fetches that completed, and events survive a fetch only if it did |
| `LivePanelShowsAll` | `LivePanelIsComplete` | `PollIsComplete` through a fetch, `TableIsComplete` after it: whoever was observed with the minimum has an event, then a row, that is true unless somebody traded |
| `PanelShowsItsZone` | `PanelAgreesWithZone` | `TableFitsZones`: the zone of a LIVE coin agrees with the rows of its time, if they name everyone tracked |

The last is the longest argument.  The zone was computed from running sums, the panel adds up rows,
and the two were never compared by the code.  `EventsAddUp` says that the sums of a poll are those
of its rows wherever everyone seen has an event (a row is written only for the minimum).
`PollIsDated` says that a poll is later than every row stored before it, so that the rows of its
time are its own: this is where the wait between two polls is needed.  `SampledAgree`, from the
proofs about the adapter, says that the zone fits those sums.  A failed read, a failure of storage
or a restart only has to be shown to keep what was so.

`DecisionProofs`, for any symbols, processes and readings and any number of candles, heatmaps and
decisions (`CandleAssumption`, `HeatmapAssumption`, `DecisionAssumption`, and `NoneAssumption`: the
absence of a row is not a row):

| Theorem | States | Strengthening it needs |
|---|---|---|
| `DecisionTypeCorrect` | `TypeOK` of the three parts | none but the types of what is being asked |
| `DecisionsGoForward` | `LatestNeverGoesBack` | none: every step is a step or a stutter of `Technical` |
| `DecisionsKeepUp` | `InputsKeepUp` | `KeepingUp`: what was newest when a decision was stored is at most what is newest now, and what is being asked lies between |
| `DecisionsStayReproducible` | `DecisionsAreReproducible` | `Grounded`: what is being asked rests on rows of the tables too, while rows only come |

`LifespanProofs`, for any number of adapters and symbols (`LoopsAssumption`: no loop is both):

| Theorem | States | Strengthening it needs |
|---|---|---|
| `ConnectionsOutliveLoops` | `NoneOutlivesItsConnection` | `WorkerInv`: a worker that is being cancelled, or over, has no polling loop or a dead one, and a connection is closed only after its worker is over |
| `ConnectionsAreClosed` | `ClosedUnlessFailed` | `ClosingInv`: the handler is raised only with a failed worker, a failure is never undone, and a handler that closed left nothing open |

`TechnicalProofs`, for any symbols, processes and readings and any number of candles
(`CandleAssumption`):

| Theorem | States | Strengthening it needs |
|---|---|---|
| `TechnicalTypes` | `TechnicalTypeOK`, the table's unique key included | none |
| `ReadersGoForward` | `LatestNeverGoesBack` | `NotAhead`: answers on their way and rows are of candles that have opened |

`ReadersGoForward` also needs that a nonempty set of rows has a latest one, whatever its size: the
candles left before the last are naturals, and `<` on them is well founded.

`HyperdashAdapterProofs` begins with what `MapThenSumSet` computes, which adds up a set in whatever
order `CHOOSE` picks its elements.  The induction theorems of the library take an operator as a parameter and cannot be
instantiated here; each lemma supposes a counterexample instead, takes a smallest one
(`MinimalExists`, from the well-foundedness of `<`), and finds a smaller.  What the other proofs
cite are `SumOfNone`, `SumType`, `SumWith` (one element more) and `SumOfThoseThatCount` (terms of
zero may be left out).

`SignalScoresProofs` is about every input `MCSignalScores` can build, and its constants set no bound
to them: any integer prices, indicator values and bands, any heatmap around any price, any number of
buckets, any fraction for the other score (`InputsAssumption`) and any proximity
(`ProximityAssumption`; `MissingAssumption`: a missing value is neither a number nor a score).  That
the machine builds nothing else is `InputsInvariant`:

| Theorem | States | Lemmas it rests on |
|---|---|---|
| `ScoresStayBounded` | `ScoresAreBounded` | `TechnicalIsScore`: a sum of n signals within [-1, 1] is within [-n, n]; `LiquidationIsScore`: the difference of two sums that are not negative is bounded by their sum |
| `WeightedStaysBetween` | `WeightedLiesBetween` | `WeightedBetween`, for any two fractions |
| `MissingStaysOut` | `MissingIsNotNeutral` | `SumOfSame`: n signals that are the same number sum to n times it |
| `BullsAndBearsAlike` | `MirrorNegates` | `SignalsNegated`, `SumNegated`: each signal changes its sign, hence their sum; `SidesChange`: the sides of a mirrored heatmap change places |
| `CloserPulls` | `CloserPullsHarder` | `ScoreGrows`: the score grows with the sum of the shorts; `SumGrows`: which grows with each bucket's part |
| `NearBucketsDecide` | `OnlyNearBucketsCount` | `SumOfAnyOrder`: a sum of fractions is the same in any order and without the terms that are zero, by taking one term out of both sides at a time (`SumOfWithout`) |
| `NamedAreLargest` | `LargestClustersAreNamed` | `LargestArePicked`: the rank of a bucket, one more than the number before it, tells the buckets of a side apart, so that the `CHOOSE` of `Largest` picks each of the first ranks once |

The sums are over sequences of any length, taken apart by `SumIsLast`; `NoLeastCounterexample` is the
induction on their length.

`IndicatorsProofs` is about the candles the machine can build: any number of them, with any integer
closes and any reach beyond them (`InputsAssumption`), and about any periods the indicators are
defined for (`PeriodsAssumption`; RSI takes two or more, since with one its average forgets what came
before).  What it needs of the candles, that a high and a low lie around their close, is
`CandlesInvariant`:

| Theorem | States | Lemmas it rests on |
|---|---|---|
| `AtrCovers` | `AtrCoversTravel` | `RangeCovers`: the true range of a candle is at least the way from the last close, gaps included; `WilderOrdered`: an average keeps the order of what it averages |
| `AveragesWithin` | `AveragesStayWithin` | `AveragesBetween`, `MeanBetween`: an average has the bounds of its values; `VarianceOf`: a sum of squares is zero only if each is |
| `IndicatorsReflected` | `IndicatorsMirror` | `EmaReflected`, `MacdReflected`, `RsiReflected`, `BandsReflected`, `TrueRangeReflected`, one for each indicator; for RSI also `WilderHasSign`: an average of numbers that are not negative is zero only while all of them were, which is when the price never fell |
| `NoMomentumInSteadyTrend` | `SteadyTrendHasNoMomentum` | `SeedOfSteady`, `EmaLags`: an average of a steady trend lags half its period less one behind, from its seed on; `MacdOfSteady`: the two lags differ by a constant, whose average is itself |

They have two parts in common.  One is that a fraction in lowest terms is the number it was before:
`GcdUnfolds` shows that the recursive function `gcd` obeys its equation, by induction on the second
argument, `GcdDivides` that it divides both, and `AtReduced` that reducing keeps the number.  After
that a fraction is only spoken of by `At(x, v, s)`: x is the number v / s.  The other is
`SmoothedLinear`: if p * x + q * y <= c for every pair of two sequences, then for every pair of their
moving averages too, whatever the period and the share, since a mean and a step towards a value
keep it.  With one of p and q zero this is a bound, with p = -q an order, and with both signs of
p = q a reflection.

Each proof has the same layout: the strengthening, one lemma or step per action, one step below it
per conjunct the action can disturb, and PTL at the end.  Every invariant about a fetch also needs
to know that the locals have their starting values outside it (`LocalsReset`).

Model-checked only:

* Liveness, which needs `ENABLED`: `AnnouncementsArrive`, `ReaderLearnsTheTruth`, `ShutdownEnds`.
* The five violated claims, which are counterexamples already.

## 5. Not modelled

* Wording and formatting (`dashboard/formatting.py` but for the totals and shares, the prompt of the
  decision engine, the text of an alert), templates, HTTP details, the command line's parsing and
  its one-shot test commands: no state and no order to get wrong.
* The average entry price of a panel and the chart of the skew history: reads of what `Ingestion`
  stores, shown as they are.
* Registry, settings and models: construction; their results are the constants.
* What the model answers: an action, a confidence and a text that nothing in the program uses.
* Delivery by Telegram: the properties end at the hand-over.
* Malformed clearinghouse entries, which read as flat positions, and a wall clock that steps back:
  both are listed under `hazards` with a note.  With either, `DropOnlyWhenFlat` and the spacing of
  the snapshots are promises about the feed and the clock, not about this code.

## 6. Plan

A composition of `Lifespan` with `Ingestion`, so that a shutdown falls between the steps of a poll
as a cancellation and not only as `Restart`, and its refinement of both.
