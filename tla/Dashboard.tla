------------------------------ MODULE Dashboard ------------------------------
(***************************************************************************)
(* The pages of the web dashboard over a running ingestion service:         *)
(* DashboardService.load_snapshot (dashboard/service.py), the reads of      *)
(* whale.db it makes (ingestion/storage.py) and the totals of a coin's      *)
(* panel (dashboard/formatting.py).                                         *)
(*                                                                          *)
(* load_snapshot runs without an await, so a page shows one state of the    *)
(* tables and of the adapter, whenever it is asked for: a page is an        *)
(* operator over the state.  Its clock is the service's, whose loop waits   *)
(* an interval between two polls.                                           *)
(***************************************************************************)
EXTENDS Ingestion

CONSTANTS
  PollInterval,   \* Adapter.poll_interval_seconds, in clock ticks
  MaxTrades       \* bound: the market trades so often

ASSUME DashboardAssumption == PollInterval \in Nat \ {0} /\ MaxTrades \in Nat

VARIABLES
  endedAt,      \* when the latest poll ended or was cut short
  \* history
  answeredAt,   \* when a fetch last completed, in any lifetime
  moved,        \* a position changed since the latest fetch began
  trades        \* how often the market traded

history  == <<answeredAt, moved, trades>>
dashVars == <<ingestVars, endedAt, history>>

-----------------------------------------------------------------------------
(***************************************************************************)
(* The wait of run_adapter_loop.  The first poll of a process comes without *)
(* one, at a later instant than any poll of the process before.             *)
(***************************************************************************)
Busy == pc # "idle" \/ toNotify # <<>>

FirstPoll == failures = 0 /\ lastSuccessAt = Never

Rested == clock > endedAt /\ (FirstPoll \/ clock - endedAt >= PollInterval)

Waits ==
  /\ ~Busy /\ Busy' => Rested
  /\ endedAt' = IF Busy /\ ~Busy' THEN clock ELSE endedAt

Observes ==
  /\ answeredAt' = IF pc = "skew" /\ pc' = "returned" THEN clock ELSE answeredAt
  /\ moved' = IF position' # position THEN TRUE
              ELSE IF pc = "idle" /\ pc' = "deltas" THEN FALSE ELSE moved
  /\ trades' = IF position' # position THEN trades + 1 ELSE trades
  /\ trades' <= MaxTrades

DashInit ==
  /\ IngestInit
  /\ endedAt = Never /\ answeredAt = Never
  /\ moved = FALSE /\ trades = 0

Serves == Lives /\ Waits /\ Observes

Restarts == Restart /\ Waits /\ Observes

DashNext == Serves \/ Restarts

DashSpec == DashInit /\ [][DashNext]_dashVars

-----------------------------------------------------------------------------
\* The freshness window: twice the poll interval (the ceiling of 300 s lies above it).
Freshness == 2 * PollInterval

recent_events(c, since) == {r \in whaleEvents : r.holding[2] = c /\ r.at >= since}

\* The rows of a coin's panel.
Panel(c) == recent_events(c, clock - Freshness)

\* Mutant: the status the adapter keeps is shown as it is.
CoinStatusAsKept(c) == coinStatus[c].state

coin_status(c) ==
  IF coinStatus[c].state = "ERROR" THEN "ERROR"
  ELSE IF Panel(c) # {} THEN "LIVE" ELSE "STALE"

\* Mutant: a source is given up after one interval.
SourceStatusImpatient ==
  IF disabled \/ lastError THEN "ERROR"
  ELSE IF lastSuccessAt = Never \/ clock - lastSuccessAt >= PollInterval THEN "STALE"
  ELSE "LIVE"

source_status ==
  IF disabled \/ lastError THEN "ERROR"
  ELSE IF lastSuccessAt = Never \/ clock - lastSuccessAt > 2 * PollInterval THEN "STALE"
  ELSE "LIVE"

\* Mutant: the rows of both sides are added up.
SideTotalOfAll(rows, sign) == MapThenSumSet(LAMBDA r : Abs(r.usd), rows)

\* What the rows of one side add up to.
SideTotal(rows, sign) ==
  MapThenSumSet(LAMBDA r : Abs(r.usd), {r \in rows : r.usd * sign > 0})

\* The totals coin_skew hands to compute_skew.
coin_skew(c) == compute_skew(SideTotal(Panel(c), 1), SideTotal(Panel(c), -1))

-----------------------------------------------------------------------------
\* The latest poll of this process completed and its alerts are handed over.
Settled == alive /\ ~Busy /\ ~lastError /\ lastSuccessAt # Never

\* A panel that says LIVE between two polls leaves out no tracked wallet: if nobody
\* traded since the poll began, everyone holding the minimum is on it, with what he
\* holds now (service.py:66-77, storage.py:138-148, hyperdash.py:155-189).
LivePanelIsComplete ==
  Settled /\ ~moved =>
    \A c \in Coins : coin_status(c) = "LIVE" =>
      \A w \in active[c] : IsLarge(w, c) =>
        \E r \in Panel(c) : r.holding = <<w, c>> /\ r.usd = position[<<w, c>>]

\* formatting.py:68-69, as far as it goes: when the rows of a LIVE panel all come from
\* the latest poll and every tracked wallet is among them, the shares it shows are
\* those the zone of the coin was decided by.
PanelAgreesWithZone ==
  \A c \in Coins :
    LET s == coin_skew(c) IN
    (/\ Settled /\ coin_status(c) = "LIVE"
     /\ \A r \in Panel(c) : r.at = coinStatus[c].at
     /\ \A w \in active[c] : \E r \in Panel(c) : r.holding = <<w, c>>)
    => /\ zones[c] = "long_dominant" => ~Below70(s.long, s.whole)
       /\ zones[c] = "short_dominant" => ~Below70(s.short, s.whole)
       /\ zones[c] = "neutral" /\ Above75(s.long, s.whole)
            => lastAlert[c] = [zone |-> "short_dominant", direction |-> "exit"]
       /\ zones[c] = "neutral" /\ Above75(s.short, s.whole)
            => lastAlert[c] = [zone |-> "long_dominant", direction |-> "exit"]

\* docs/superpowers/specs/2026-08-29-hyperdash-per-coin-dashboard-design.md:104: stale
\* positions are not presented as current.  When no fetch completed within the window,
\* no panel and no source says LIVE, whether the loop died, the source is disabled, the
\* process was restarted or a poll is under way (service.py:87-138).
NothingStaleIsLive ==
  answeredAt = Never \/ clock - answeredAt > Freshness =>
    source_status # "LIVE" /\ \A c \in Coins : coin_status(c) # "LIVE"

\* Once a process has completed a poll, it shows no coin LIVE under a STALE source: the
\* window of the rows and the age of the source, measured from the start and from the
\* end of a poll, do not drift apart (service.py:59-62, 125-132).
LiveCoinsHaveFreshSource ==
  lastSuccessAt # Never /\ source_status = "STALE" => \A c \in Coins : coin_status(c) # "LIVE"
=============================================================================
