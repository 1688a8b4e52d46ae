-------------------------- MODULE HyperdashAdapter --------------------------
(***************************************************************************)
(* The Hyperdash whale source: Adapter.safe_fetch (adapters/base.py) around *)
(* HyperdashAdapter.fetch (adapters/hyperdash.py), driven by a poll loop    *)
(* and reading a market that keeps trading meanwhile.                       *)
(*                                                                          *)
(* Every await of the code is a boundary between two actions, so a position *)
(* may change between the request that discovers a wallet and the one that  *)
(* reads it, and between two wallets' readings.                             *)
(***************************************************************************)
EXTENDS PositionSkew, Sequences, FiniteSets, FiniteSetsExt

CONSTANTS
  WatchCoins,              \* hyperdash_watch_coins, upper-cased; may repeat a coin
  Wallets,
  Exposures,               \* signed dollar values a position can have; 0 is flat
  MinPositionUsd,          \* hyperdash_min_position_usd
  MaxConsecutiveFailures,  \* Adapter.max_consecutive_failures
  SnapshotInterval,        \* SNAPSHOT_INTERVAL_SECONDS, in clock ticks
  MaxClock                 \* bound: the clock stops there

Coins == {WatchCoins[i] : i \in 1..Len(WatchCoins)}

ASSUME WatchCoinsAssumption == WatchCoins \in Seq(Coins)
ASSUME ExposuresAssumption == Exposures \subseteq Int /\ 0 \in Exposures
ASSUME BoundsAssumption ==
  /\ MinPositionUsd \in Nat \ {0}
  /\ MaxConsecutiveFailures \in Nat \ {0}
  /\ SnapshotInterval \in Nat \ {0}
  /\ MaxClock \in Nat

Never == -1                \* a timestamp that is None
Times == 0..MaxClock
Holdings == Wallets \X Coins

VARIABLES
  \* the market
  position,          \* position[<<w, c>>]: what the clearinghouse would answer now
  clock,
  \* Adapter
  failures,          \* _consecutive_failures
  disabled,          \* _disabled
  lastError,         \* _last_error is not None
  lastSuccessAt,     \* _last_success_at
  \* HyperdashAdapter
  coinStatus,        \* coin_statuses[c]: state and last_success_at
  active,            \* _active_wallets_by_coin
  zones,             \* _skew_tracker._zones
  lastSnapshotAt,    \* _last_skew_snapshot_at
  pendingAlerts,     \* _pending_skew_alerts
  pendingSnapshots,  \* _pending_skew_snapshots
  \* locals of the running fetch
  pc,                \* where poll_once is
  next,              \* index into WatchCoins of the loop that is running
  now,
  listed,            \* the keys of addresses_by_coin
  addresses,         \* addresses_by_coin
  toRead,            \* the keys of coins_by_address still to be visited
  observed,          \* the keys of observed; their amounts are in the sums below
  confirmed,
  events,            \* the returned events: a holding and its signed value
  longUsd, shortUsd, \* the sums _update_skew takes over observed, kept as it grows
  \* history, read by no action
  flat,              \* holdings that were flat at some instant since the fetch began
  traded,            \* a position changed since the fetch began
  lastAlert,         \* lastAlert[c]: the head of the latest alert about c
  alertParity        \* flips with every alert about c

market  == <<position, clock>>
ghosts  == <<flat, traded>>
world   == <<market, ghosts>>
base    == <<failures, disabled, lastError, lastSuccessAt>>
skew    == <<zones, lastSnapshotAt, pendingAlerts, pendingSnapshots, lastAlert, alertParity>>
lists   == <<listed, addresses>>
reading == <<observed, confirmed, events, longUsd, shortUsd>>
locals  == <<now, lists, toRead, reading>>
vars    == <<world, base, coinStatus, active, skew, pc, next, locals>>

Abs(x) == IF x < 0 THEN -x ELSE x

Fetching == pc \in {"deltas", "wallets", "skew"}

(***************************************************************************)
(* The market and the clock.                                               *)
(***************************************************************************)
Tick ==
  /\ clock < MaxClock
  /\ clock' = clock + 1
  /\ UNCHANGED <<position, base, coinStatus, active, skew, pc, next, locals, ghosts>>

Trade(h, value) ==
  /\ value # position[h]
  /\ position' = [position EXCEPT ![h] = value]
  /\ IF Fetching
     THEN traded' = TRUE /\ flat' = IF value = 0 THEN flat \union {h} ELSE flat
     ELSE UNCHANGED ghosts
  /\ UNCHANGED <<clock, base, coinStatus, active, skew, pc, next, locals>>

(***************************************************************************)
(* Entering safe_fetch.  The locals are as ResetLocals left them.          *)
(***************************************************************************)
SkipDisabled ==
  /\ pc = "idle" /\ disabled
  /\ pc' = "returned"
  /\ UNCHANGED <<world, base, coinStatus, active, skew, next, locals>>

StartFetch ==
  /\ pc = "idle" /\ ~disabled
  /\ pc' = "deltas" /\ now' = clock
  /\ flat' = {h \in Holdings : position[h] = 0}
  /\ UNCHANGED <<market, base, coinStatus, active, skew, next, lists, toRead, reading, traded>>

(***************************************************************************)
(* One GraphQL request per watch coin.  Which wallets the feed lists, and  *)
(* which of them moved by hyperdash_min_delta_usd, is up to the feed.      *)
(***************************************************************************)
AtCoin(stage, i) == pc = stage /\ next = i /\ i <= Len(WatchCoins)

DeltasOk(i, qualifying) ==
  /\ AtCoin("deltas", i)
  /\ next' = i + 1
  /\ listed' = listed \union {WatchCoins[i]}
  /\ addresses' = [addresses EXCEPT ![WatchCoins[i]] = qualifying]
  /\ coinStatus' = [coinStatus EXCEPT ![WatchCoins[i]] = [state |-> "LIVE", at |-> now]]
  /\ UNCHANGED <<world, base, active, skew, pc, now, toRead, reading>>

\* Mutant: a wallet's error does not overwrite the row its coin got this poll.
MarkErrorUnlessLive(status, cs) ==
  [c \in Coins |-> IF c \in cs /\ status[c].state # "LIVE"
                   THEN [status[c] EXCEPT !.state = "ERROR"] ELSE status[c]]

MarkError(status, cs) ==
  [c \in Coins |-> IF c \in cs THEN [status[c] EXCEPT !.state = "ERROR"] ELSE status[c]]

DeltasFail(i) ==
  /\ AtCoin("deltas", i)
  /\ next' = i + 1
  /\ coinStatus' = MarkError(coinStatus, {WatchCoins[i]})
  /\ UNCHANGED <<world, base, active, skew, pc, locals>>

\* Mutant: one failure too many is tolerated.
TripsLate(n) == n > MaxConsecutiveFailures

Trips(n) == n >= MaxConsecutiveFailures

\* A delta row that is not an object: row.get raises AttributeError, which the
\* per-coin handler does not catch, and the whole fetch ends in safe_fetch's.
FetchRaises(i) ==
  /\ AtCoin("deltas", i)
  /\ pc' = "returned"
  /\ failures' = failures + 1
  /\ disabled' = Trips(failures + 1)
  /\ lastError' = TRUE
  /\ UNCHANGED <<world, lastSuccessAt, coinStatus, active, skew, next, locals>>

(***************************************************************************)
(* One clearinghouse request per wallet that qualifies now or is tracked.  *)
(***************************************************************************)
\* Mutant: tracked wallets that no longer qualify are not read again.
CandidatesListedOnly(c) == addresses[c]

Candidates(c) == IF c \in listed THEN addresses[c] \union active[c] ELSE {}
CoinsOf(w)    == {c \in Coins : w \in Candidates(c)}

StartWallets ==
  /\ pc = "deltas" /\ next > Len(WatchCoins)
  /\ pc' = "wallets"
  /\ toRead' = {w \in Wallets : CoinsOf(w) # {}}
  /\ UNCHANGED <<world, base, coinStatus, active, skew, next, now, lists, reading>>

IsLarge(w, c) == Abs(position[<<w, c>>]) >= MinPositionUsd

\* Mutant: the minimum applies to tracked wallets too.
IsObservedLarge(w, c) == position[<<w, c>>] # 0 /\ IsLarge(w, c)

\* Mutant: the minimum applies to nobody.
IsObservedAny(w, c) == position[<<w, c>>] # 0

\* A small position still counts while its wallet is tracked.
IsObserved(w, c) == position[<<w, c>>] # 0 /\ (w \in active[c] \/ IsLarge(w, c))

WalletRead(w) ==
  LET seen == {c \in CoinsOf(w) : IsObserved(w, c)} IN
  /\ pc = "wallets" /\ w \in toRead
  /\ toRead' = toRead \ {w}
  /\ confirmed' = confirmed \union {<<w, c>> : c \in {c \in CoinsOf(w) : w \in active[c]}}
  /\ observed' = observed \union {<<w, c>> : c \in seen}
  /\ events' = events \union {[holding |-> <<w, c>>, usd |-> position[<<w, c>>]] :
                                c \in {c \in seen : IsLarge(w, c)}}
  /\ longUsd' = [c \in Coins |->
       IF c \in seen /\ position[<<w, c>>] > 0 THEN longUsd[c] + position[<<w, c>>] ELSE longUsd[c]]
  /\ shortUsd' = [c \in Coins |->
       IF c \in seen /\ position[<<w, c>>] < 0 THEN shortUsd[c] - position[<<w, c>>] ELSE shortUsd[c]]
  /\ UNCHANGED <<world, base, coinStatus, active, skew, pc, next, now, lists>>

WalletFails(w) ==
  /\ pc = "wallets" /\ w \in toRead
  /\ toRead' = toRead \ {w}
  /\ coinStatus' = MarkError(coinStatus, CoinsOf(w))
  /\ UNCHANGED <<world, base, active, skew, pc, next, now, lists, reading>>

\* allMids: its answer only decorates the snapshots with a price, and its
\* failure is swallowed, so both outcomes are this one step.
ReadPrices ==
  /\ pc = "wallets" /\ toRead = {}
  /\ pc' = "skew" /\ next' = 1
  /\ UNCHANGED <<world, base, coinStatus, active, skew, locals>>

(***************************************************************************)
(* _update_skew, one pass of its loop per step, then the tracked set.      *)
(***************************************************************************)
\* Mutant: a snapshot may come one tick early.
SnapshotDueEarly(c) ==
  lastSnapshotAt[c] = Never \/ now - lastSnapshotAt[c] >= SnapshotInterval - 1

SnapshotDue(c) ==
  lastSnapshotAt[c] = Never \/ now - lastSnapshotAt[c] >= SnapshotInterval

UpdateSkew(i) ==
  LET c   == WatchCoins[i]
      new == next_zone(zones[c], compute_skew(longUsd[c], shortUsd[c]))
      sample == [coin |-> c, long_usd |-> longUsd[c], short_usd |-> shortUsd[c]]
  IN
  /\ AtCoin("skew", i)
  /\ next' = i + 1
  /\ zones' = [zones EXCEPT ![c] = new]
  /\ IF new = zones[c]
     THEN UNCHANGED <<pendingAlerts, lastAlert, alertParity>>
     ELSE LET head == AlertHead(zones[c], new) IN
          /\ pendingAlerts' = Append(pendingAlerts, [head |-> head, of |-> sample])
          /\ lastAlert' = [lastAlert EXCEPT ![c] = head]
          /\ alertParity' = [alertParity EXCEPT ![c] = 1 - @]
  /\ IF SnapshotDue(c)
     THEN /\ pendingSnapshots' = Append(pendingSnapshots, [at |-> now, of |-> sample])
          /\ lastSnapshotAt' = [lastSnapshotAt EXCEPT ![c] = now]
     ELSE UNCHANGED <<pendingSnapshots, lastSnapshotAt>>
  /\ UNCHANGED <<world, base, coinStatus, active, pc, locals>>

\* Mutant: whoever was not observed is forgotten, read or not.
NowActiveSeenOnly(c) == {w \in Wallets : <<w, c>> \in observed}

\* A tracked wallet is forgotten only when its reading succeeded and showed nothing.
NowActive(c) ==
  {w \in active[c] : <<w, c>> \notin confirmed} \union {w \in Wallets : <<w, c>> \in observed}

FinishFetch ==
  /\ pc = "skew" /\ next > Len(WatchCoins)
  /\ pc' = "returned"
  /\ active' = [c \in Coins |-> NowActive(c)]
  /\ failures' = 0 /\ lastError' = FALSE /\ lastSuccessAt' = clock
  /\ UNCHANGED <<world, disabled, coinStatus, skew, next, locals>>

(***************************************************************************)
(* poll_once takes what the adapter has queued.  The locals of the fetch   *)
(* are gone; they get the values the next fetch starts with.               *)
(***************************************************************************)
ResetLocals ==
  /\ next' = 1 /\ now' = 0
  /\ listed' = {} /\ addresses' = [c \in Coins |-> {}] /\ toRead' = {}
  /\ observed' = {} /\ confirmed' = {} /\ events' = {}
  /\ longUsd' = [c \in Coins |-> 0] /\ shortUsd' = [c \in Coins |-> 0]
  /\ flat' = {} /\ traded' = FALSE

Consume ==
  /\ pc = "returned"
  /\ pc' = "idle"
  /\ pendingAlerts' = <<>> /\ pendingSnapshots' = <<>>
  /\ ResetLocals
  /\ UNCHANGED <<market, base, coinStatus, active, zones, lastSnapshotAt, lastAlert,
                 alertParity>>

-----------------------------------------------------------------------------
InitAdapter ==
  /\ failures = 0 /\ disabled = FALSE /\ lastError = FALSE /\ lastSuccessAt = Never
  /\ coinStatus = [c \in Coins |-> [state |-> "STALE", at |-> Never]]
  /\ active = [c \in Coins |-> {}]
  /\ zones = [c \in Coins |-> "neutral"]
  /\ lastSnapshotAt = [c \in Coins |-> Never]
  /\ pendingAlerts = <<>> /\ pendingSnapshots = <<>>
  /\ lastAlert = [c \in Coins |-> Quiet] /\ alertParity = [c \in Coins |-> 0]
  /\ pc = "idle" /\ next = 1 /\ now = 0
  /\ listed = {} /\ addresses = [c \in Coins |-> {}] /\ toRead = {}
  /\ observed = {} /\ confirmed = {} /\ events = {}
  /\ longUsd = [c \in Coins |-> 0] /\ shortUsd = [c \in Coins |-> 0]
  /\ flat = {} /\ traded = FALSE

Init ==
  /\ position \in [Holdings -> Exposures]
  /\ clock = 0
  /\ InitAdapter

Environment == Tick \/ \E h \in Holdings, value \in Exposures : Trade(h, value)

AskDeltas == \E i \in 1..Len(WatchCoins) :
  \/ \E qualifying \in SUBSET Wallets : DeltasOk(i, qualifying)
  \/ DeltasFail(i)
  \/ FetchRaises(i)

AskWallets == \E w \in Wallets : WalletRead(w) \/ WalletFails(w)

Fetch ==
  \/ SkipDisabled
  \/ StartFetch
  \/ AskDeltas
  \/ StartWallets
  \/ AskWallets
  \/ ReadPrices
  \/ \E i \in 1..Len(WatchCoins) : UpdateSkew(i)
  \/ FinishFetch

Next == Environment \/ Fetch \/ Consume

Spec == Init /\ [][Next]_vars

\* Every request has a timeout, so a fetch that runs takes its next step, and
\* poll_once goes on after it.  Nothing is assumed of the market.
FairSpec == Spec /\ WF_vars(Fetch \/ Consume)

-----------------------------------------------------------------------------
Stages == {"idle", "deltas", "wallets", "skew", "returned"}

Samples == [coin : Coins, long_usd : Nat, short_usd : Nat]
Alerts  == [head : AlertHeads, of : Samples]
Snapshots == [at : Times, of : Samples]

\* The type of every variable.
TypeOK ==
  /\ position \in [Holdings -> Exposures] /\ clock \in Times
  /\ failures \in 0..MaxConsecutiveFailures
  /\ disabled \in BOOLEAN /\ lastError \in BOOLEAN
  /\ lastSuccessAt \in Times \union {Never}
  /\ coinStatus \in [Coins -> [state : {"STALE", "LIVE", "ERROR"}, at : Times \union {Never}]]
  /\ active \in [Coins -> SUBSET Wallets]
  /\ zones \in [Coins -> SkewZone]
  /\ lastSnapshotAt \in [Coins -> Times \union {Never}]
  /\ pendingAlerts \in Seq(Alerts) /\ pendingSnapshots \in Seq(Snapshots)
  /\ lastAlert \in [Coins -> AlertHeads] /\ alertParity \in [Coins -> {0, 1}]
  /\ pc \in Stages /\ next \in 1..(Len(WatchCoins) + 1) /\ now \in Times
  /\ listed \subseteq Coins /\ addresses \in [Coins -> SUBSET Wallets]
  /\ toRead \subseteq Wallets
  /\ observed \subseteq Holdings /\ confirmed \subseteq Holdings
  /\ events \subseteq [holding : Holdings, usd : Exposures]
  /\ longUsd \in [Coins -> Nat] /\ shortUsd \in [Coins -> Nat]
  /\ flat \subseteq Holdings /\ traded \in BOOLEAN

\* However requests fail and positions move during a poll, a wallet stops being
\* tracked for a coin only if its position in that coin really was flat at some
\* moment of that poll (hyperdash.py:185-189).
DropOnlyWhenFlat ==
  [][\A c \in Coins : \A w \in active[c] \ active'[c] : <<w, c>> \in flat]_vars

\* What the wallets followed for a coin hold at this moment.
Followed(c)  == active[c] \union {w \in Wallets : <<w, c>> \in observed}
TrueLong(c)  == MapThenSumSet(LAMBDA w : IF position[<<w, c>>] > 0 THEN position[<<w, c>>] ELSE 0, Followed(c))
TrueShort(c) == MapThenSumSet(LAMBDA w : IF position[<<w, c>>] < 0 THEN -position[<<w, c>>] ELSE 0, Followed(c))

Above75(side, whole) == 4 * side > 3 * whole
Below70(side, whole) == 10 * side < 7 * whole \/ whole = 0

Warranted(head, c) ==
  LET side  == IF head.zone = "long_dominant" THEN TrueLong(c) ELSE TrueShort(c)
      whole == TrueLong(c) + TrueShort(c)
  IN IF head.direction = "enter" THEN Above75(side, whole) ELSE Below70(side, whole)

\* An alert about a coin whose status row is LIVE, in a poll during which nobody
\* traded, is warranted by the positions the followed wallets really hold: above
\* 75% when dominance is announced, below 70% when its end is (hyperdash.py:192-212).
LiveAlertsAreWarranted ==
  [][\A c \in Coins : alertParity'[c] # alertParity[c] /\ coinStatus[c].state = "LIVE" /\ ~traded
                       => Warranted(lastAlert'[c], c)]_vars

\* README.md:82-85 says it of every alert: it fires when the tracked whales' value
\* crosses above 75% and again when it drops back below 70%.
AlertsAreWarranted ==
  [][\A c \in Coins : alertParity'[c] # alertParity[c] /\ ~traded
                       => Warranted(lastAlert'[c], c)]_vars

\* The zone of a coin whose sample has been taken agrees with that sample: it is
\* left below 70%, and a side above 75% is dominant unless this very sample ended
\* the opposite dominance (position_skew.py:21-30, 61-72).
ZoneAgrees(c) ==
  LET whole == longUsd[c] + shortUsd[c] IN
  /\ zones[c] = "long_dominant"  => ~Below70(longUsd[c], whole)
  /\ zones[c] = "short_dominant" => ~Below70(shortUsd[c], whole)
  /\ Above75(longUsd[c], whole) /\ zones[c] # "long_dominant"
       => lastAlert[c] = [zone |-> "short_dominant", direction |-> "exit"]
  /\ Above75(shortUsd[c], whole) /\ zones[c] # "short_dominant"
       => lastAlert[c] = [zone |-> "long_dominant", direction |-> "exit"]

Completed == pc = "returned" /\ ~lastError

\* After a poll that completed, every coin's zone agrees with the poll's sample.
ZonesFollowSamples == Completed => \A c \in Coins : ZoneAgrees(c)

\* After a poll that completed, the tracked set of a coin shown LIVE is exactly the
\* set of wallets the poll saw holding it: none is carried over unread
\* (hyperdash.py:122-133, 165-171, 185-189).
LiveMeansRead ==
  Completed => \A c \in Coins : coinStatus[c].state = "LIVE" =>
                 active[c] = {w \in Wallets : <<w, c>> \in observed}

\* The alerts of every coin alternate as DominanceAlerts promises.
Promise == INSTANCE DominanceAlerts WITH last <- lastAlert, parity <- alertParity
AlertsAlternate == Promise!Spec

\* docs/superpowers/specs/2026-08-29-hyperdash-per-coin-dashboard-design.md:46-48:
\* a malformed response of one coin must not keep the others from being served,
\* that is, after a poll every coin's row is either fresh or an error of its own.
FailuresAreIsolated ==
  pc = "returned" /\ ~disabled =>
    \A c \in Coins : coinStatus[c].state = "ERROR" \/ coinStatus[c].at = now

\* docs/superpowers/specs/2026-08-22-whale-data-ingestion-design.md:155: a source
\* that is refused again and again is disabled after a few failures.
RefusedForeverIsDisabled == [](listed = {}) => <>disabled
=============================================================================
