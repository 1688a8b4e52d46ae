--------------------------- MODULE IngestionProofs ---------------------------
(***************************************************************************)
(* What holds of Ingestion for every watch list, every set of wallets and  *)
(* exposures and every bound, whenever storage fails and however often the *)
(* process is restarted; and what holds over one lifetime of it.           *)
(***************************************************************************)
EXTENDS Ingestion, HyperdashAdapterProofs

-----------------------------------------------------------------------------
(* The strengthenings. *)

\* Alerts wait in one place at a time: with the adapter while a poll runs, then
\* with poll_once.  Snapshots wait with the adapter, until the poll is over.
OneQueue ==
  /\ pc # "idle" => toNotify = <<>>
  /\ pc = "idle" => pendingAlerts = <<>> /\ pendingSnapshots = <<>>

\* The alerts announced and not yet handed over.
Unsaid == IF pc = "idle" THEN toNotify ELSE pendingAlerts

\* The types, and what the adapter and its caller agree on.
IngestInv == IngestTypeOK /\ EnabledWhilePolling /\ LocalsReset /\ OneQueue

\* A holding that has a row, or will have one when this poll is stored.
Recorded(h) == (\E r \in whaleEvents : r.holding = h) \/ (\E e \in events : e.holding = h)

\* Whoever is tracked, or was observed by the running poll, is on record.
TrackedIsOnRecord ==
  /\ \A c \in Coins : \A w \in active[c] : Recorded(<<w, c>>)
  /\ \A h \in observed : Recorded(h)

\* The last one of the unsaid alerts about a coin is its latest alert; when there is
\* none, the coin is neutral or its latest alert was the last one handed over.
NothingIsLost ==
  \A c \in Coins :
    \/ /\ \A i \in 1..Len(Unsaid) : Unsaid[i].of.coin # c
       /\ zones[c] = "neutral" \/ lastAttempt[c] = lastAlert[c]
    \/ \E i \in 1..Len(Unsaid) :
         /\ Unsaid[i].of.coin = c /\ Unsaid[i].head = lastAlert[c]
         /\ \A j \in 1..Len(Unsaid) : i < j => Unsaid[j].of.coin # c

\* The running poll has its time, and snapshots wait for no later poll.
Stamped == Fetching \/ pendingSnapshots # <<>>

SnapshotTimes ==
  /\ \A r \in skewSnapshots : r.at <= clock
  /\ \A i \in 1..Len(pendingSnapshots) : pendingSnapshots[i].at = now
  /\ Stamped => now <= clock /\ \A r \in skewSnapshots : r.at <= now

\* The times at which this process took a snapshot of c that it still knows of.
Taken(c) ==
  {t \in Times : \/ \E r \in skewSnapshots : r.coin = c /\ r.at = t
                 \/ \E i \in 1..Len(pendingSnapshots) :
                      pendingSnapshots[i].of.coin = c /\ pendingSnapshots[i].at = t}

TakenIsSpaced ==
  \A c \in Coins :
    /\ \A t \in Taken(c) : t <= lastSnapshotAt[c]
    /\ \A t, u \in Taken(c) : t < u => u - t >= SnapshotInterval

\* An alert that may come after another one about the same coin.
Follows(old, new) ==
  \/ old.direction = "exit" /\ new.direction = "enter" /\ new.zone \in SkewZone \ {"neutral"}
  \/ old.direction = "enter" /\ new = [zone |-> old.zone, direction |-> "exit"]

States == [head : AlertHeads, parity : {0, 1}]

\* What the reader heard last about c, and what the tracker said last.
Heard(c) == [head |-> lastAttempt[c], parity |-> attemptParity[c]]
Said(c)  == [head |-> lastAlert[c], parity |-> alertParity[c]]

\* The alerts of a queue, in their order, lead a reader from one state to another;
\* state[i] is what he knows after i of them.
Leads(state, queue, c, old, new) ==
  /\ state[0] = old /\ state[Len(queue)] = new
  /\ \A i \in 1..Len(queue) :
       IF queue[i].of.coin = c
       THEN /\ Follows(state[i - 1].head, queue[i].head)
            /\ state[i] = [head |-> queue[i].head, parity |-> 1 - state[i - 1].parity]
       ELSE state[i] = state[i - 1]

ReaderCatchesUp ==
  \A c \in Coins :
    \E state \in [0..Len(Unsaid) -> States] : Leads(state, Unsaid, c, Heard(c), Said(c))

-----------------------------------------------------------------------------
(* Type correctness. *)

\* Only a failure of storage and a restart are steps the adapter does not know.
LEMMA StepsOfTheAdapter ==
  ASSUME [IngestNext]_ingestVars
  PROVE  [Next]_vars \/ StorageFails \/ Restart
BY DEF IngestNext, Lives, Market, PollLoop, SafeFetch, Persist, Notify, Next, ingestVars

\* A failure of storage ends the loop where it is: no more than the snapshots of the
\* poll are gone, and its events may be stored.
LEMMA WhatStorageFailureLeaves ==
  ASSUME StorageFails
  PROVE  /\ UNCHANGED <<world, base, coinStatus, active, zones, lastSnapshotAt, pendingAlerts,
                        lastAlert, alertParity, pc, next, locals, toNotify, skewSnapshots,
                        restarts, reader>>
         /\ whaleEvents' \in {whaleEvents, WithEvents}
         /\ pendingSnapshots' \in {pendingSnapshots, <<>>}
         /\ pc = "returned" /\ alive' = FALSE
BY DEF StorageFails

\* A restart leaves a new adapter.
LEMMA RestartIsFresh == Restart => InitAdapter' /\ UNCHANGED <<market, tables, reader>>
BY DEF Restart, InitAdapter, ZonesAreForgotten, ResetLocals

LEMMA AdapterTypeStep ==
  ASSUME TypeInv, [IngestNext]_ingestVars
  PROVE  TypeInv'
<1>1. CASE [Next]_vars
  BY <1>1, TypeInvStep
<1>2. CASE StorageFails
  <2>1. pendingSnapshots' \in Seq(Snapshots)
    <3>1. <<>> \in Seq(Snapshots) /\ pendingSnapshots \in Seq(Snapshots)
      BY DEF TypeInv, TypeOK
    <3>2. pendingSnapshots' \in {pendingSnapshots, <<>>}
      BY <1>2, WhatStorageFailureLeaves
    <3>3. QED BY <3>1, <3>2
  <2>2. UNCHANGED <<world, base, coinStatus, active, zones, lastSnapshotAt, pendingAlerts,
                    lastAlert, alertParity, pc, next, locals>>
    BY <1>2, WhatStorageFailureLeaves
  <2>3. QED BY <2>1, <2>2 DEF TypeInv, TypeOK, EnabledWhilePolling, world, market, ghosts,
               base, locals, lists, reading
<1>3. CASE Restart
  <2>1. (position \in [Holdings -> Exposures])' /\ (clock \in Times)' /\ InitAdapter'
    BY <1>3, RestartIsFresh DEF TypeInv, TypeOK, market
  <2>2. (position \in [Holdings -> Exposures])' /\ (clock \in Times)' /\ InitAdapter' => TypeInv'
    BY FreshAdapter, PTL
  <2>3. QED BY <2>1, <2>2
<1>4. QED BY <1>1, <1>2, <1>3, StepsOfTheAdapter

LEMMA BetweenPollsStep ==
  ASSUME LocalsReset, OneQueue, [IngestNext]_ingestVars
  PROVE  LocalsReset' /\ OneQueue'
<1>1. LocalsReset'
  <2>1. CASE [Next]_vars
    BY <2>1, LocalsResetStep
  <2>2. CASE StorageFails
    BY <2>2, WhatStorageFailureLeaves DEF LocalsReset, locals, lists, reading
  <2>3. CASE Restart
    BY <2>3 DEF Restart, ResetLocals, LocalsReset
  <2>4. QED BY <2>1, <2>2, <2>3, StepsOfTheAdapter
<1>2. OneQueue'
  <2> USE DEF OneQueue
  <2>1. CASE Market
    BY <2>1 DEF Market, Environment, Tick, Trade, skew
  <2>2. CASE SafeFetch
    <3>1. pc' # "idle"
      BY <2>2 DEF SafeFetch, Fetch, SkipDisabled, StartFetch, AskDeltas, DeltasOk, DeltasFail,
         FetchRaises, AtCoin, StartWallets, AskWallets, WalletRead, WalletFails, ReadPrices,
         UpdateSkew, FinishFetch
    <3>2. QED BY <2>2, <3>1 DEF SafeFetch
  <2>3. CASE Persist
    BY <2>3 DEF Persist, Consume
  <2>4. CASE Notify
    BY <2>4 DEF Notify, vars, skew
  <2>5. CASE StorageFails
    BY <2>5, WhatStorageFailureLeaves
  <2>6. CASE Restart
    BY <2>6 DEF Restart
  <2>7. CASE UNCHANGED ingestVars
    BY <2>7 DEF ingestVars, vars, skew
  <2>8. QED BY <2>1, <2>2, <2>3, <2>4, <2>5, <2>6, <2>7 DEF IngestNext, Lives, PollLoop
<1>3. QED BY <1>1, <1>2

\* The rows a poll adds are rows of the two tables.
LEMMA TypeOfTables ==
  ASSUME IngestTypeOK
  PROVE  /\ WithEvents \subseteq [holding : Holdings, usd : Exposures, at : Times]
         /\ WithSnapshots(pendingSnapshots) \subseteq [coin : Coins, at : Times]
<1>1. ASSUME NEW e \in events
      PROVE  [holding |-> e.holding, usd |-> e.usd, at |-> now]
               \in [holding : Holdings, usd : Exposures, at : Times]
  BY DEF IngestTypeOK, TypeOK
<1>2. \A i \in 1..Len(pendingSnapshots) :
        [coin |-> pendingSnapshots[i].of.coin, at |-> pendingSnapshots[i].at] \in [coin : Coins, at : Times]
  <2>1. \A i \in 1..Len(pendingSnapshots) : pendingSnapshots[i] \in Snapshots
    BY ElementOfSeq DEF IngestTypeOK, TypeOK
  <2>2. QED BY <2>1 DEF Snapshots, Samples
<1>3. DOMAIN pendingSnapshots = 1..Len(pendingSnapshots)
  BY DEF IngestTypeOK, TypeOK
<1>4. QED BY <1>1, <1>2, <1>3 DEF WithEvents, WithSnapshots, Kept, IngestTypeOK

LEMMA IngestInvStep ==
  ASSUME IngestInv, [IngestNext]_ingestVars
  PROVE  IngestInv'
<1>1. TypeInv' /\ LocalsReset' /\ OneQueue'
  BY AdapterTypeStep, BetweenPollsStep DEF IngestInv, IngestTypeOK, TypeInv
<1>2. IngestTypeOK'
  <2>0. TypeOK' /\ IngestTypeOK
    BY <1>1 DEF TypeInv, IngestInv
  <2>1. CASE Persist
    <3>1. whaleEvents' \subseteq [holding : Holdings, usd : Exposures, at : Times]'
          /\ skewSnapshots' \subseteq [coin : Coins, at : Times]'
      BY <2>0, <2>1, TypeOfTables DEF Persist
    <3>2. toNotify' \in Seq(Alerts)'
      BY <2>0, <2>1 DEF Persist, IngestTypeOK, TypeOK
    <3>3. QED BY <2>0, <2>1, <3>1, <3>2 DEF Persist, IngestTypeOK, reader
  <2>2. CASE Notify
    <3> DEFINE alert == Head(toNotify)
    <3>1. toNotify' \in Seq(Alerts) /\ alert \in Alerts
      BY <2>0, <2>2 DEF Notify, IngestTypeOK
    <3>2. alert.head \in AlertHeads /\ alert.of.coin \in Coins
      BY <3>1 DEF Alerts, Samples
    <3>3. lastAttempt' \in [Coins -> AlertHeads] /\ attemptParity' \in [Coins -> {0, 1}]
      <4>1. lastAttempt' = [lastAttempt EXCEPT ![alert.of.coin] = alert.head]
            /\ attemptParity' = [attemptParity EXCEPT ![alert.of.coin] = 1 - attemptParity[alert.of.coin]]
        BY <2>2 DEF Notify, HandOver
      <4> HIDE DEF alert
      <4>2. QED BY <2>0, <3>2, <4>1 DEF IngestTypeOK
    <3>4. QED BY <2>0, <2>2, <3>1, <3>3 DEF Notify, IngestTypeOK, tables
  <2>3. CASE StorageFails
    BY <2>0, <2>3, TypeOfTables DEF StorageFails, IngestTypeOK, reader
  <2>4. CASE Restart
    <3>1. restarts' \in 0..MaxRestarts
      BY <2>0, <2>4, IngestionAssumption DEF Restart, IngestTypeOK
    <3>2. toNotify' \in Seq(Alerts) /\ alive' \in BOOLEAN /\ UNCHANGED <<tables, reader>>
      BY <2>4 DEF Restart
    <3>3. QED BY <2>0, <3>1, <3>2 DEF IngestTypeOK, tables, reader
  <2>5. CASE Market \/ SafeFetch
    BY <2>0, <2>5 DEF Market, SafeFetch, IngestTypeOK, tables, reader
  <2>6. CASE UNCHANGED ingestVars
    BY <2>0, <2>6 DEF ingestVars, IngestTypeOK, tables, reader
  <2>7. QED BY <2>1, <2>2, <2>3, <2>4, <2>5, <2>6 DEF IngestNext, Lives, PollLoop
<1>3. QED BY <1>1, <1>2 DEF IngestInv, TypeInv

LEMMA IngestInvariant == IngestSpec => []IngestInv
<1>1. IngestInit => IngestInv
  <2> SUFFICES ASSUME IngestInit PROVE IngestInv OBVIOUS
  <2>1. TypeInv
    BY FreshAdapter, BoundsAssumption DEF IngestInit, Init, Times
  <2>2. LocalsReset /\ OneQueue
    BY DEF IngestInit, Init, InitAdapter, LocalsReset, OneQueue
  <2>3. IngestTypeOK
    BY <2>1, IngestionAssumption DEF IngestInit, IngestTypeOK, TypeInv, Quiet, AlertHeads, SkewZone
  <2>4. QED BY <2>1, <2>2, <2>3 DEF IngestInv, TypeInv
<1>2. IngestInv /\ [IngestNext]_ingestVars => IngestInv'
  BY IngestInvStep
<1>3. QED BY <1>1, <1>2, PTL DEF IngestSpec

\* Every variable keeps its type, the rows of both tables included, whenever storage
\* fails and whenever the process is restarted.
THEOREM IngestTypeCorrect == IngestSpec => []IngestTypeOK
<1>1. IngestInv => IngestTypeOK BY DEF IngestInv
<1>2. QED BY <1>1, IngestInvariant, PTL

-----------------------------------------------------------------------------
(* Whoever is tracked has a recorded event. *)

\* Reading wallets: who is observed without being tracked is large, and gets an event.
LEMMA ObservedIsOnRecord ==
  ASSUME TypeOK, TrackedIsOnRecord, NEW w \in Wallets, WalletRead(w), whaleEvents' = whaleEvents
  PROVE  TrackedIsOnRecord'
<1>1. events \subseteq events' /\ active' = active
  BY DEF WalletRead
<1>2. \A h : Recorded(h) => Recorded(h)'
  BY <1>1 DEF Recorded
<1>3. ASSUME NEW h \in observed', h \notin observed PROVE Recorded(h)'
  <2>1. PICK c \in CoinsOf(w) : h = <<w, c>> /\ IsObserved(w, c)
    BY <1>3 DEF WalletRead
  <2>2. CASE w \in active[c]
    BY <1>2, <2>1, <2>2 DEF TrackedIsOnRecord, CoinsOf
  <2>3. CASE IsLarge(w, c)
    <3> DEFINE e == [holding |-> <<w, c>>, usd |-> position[<<w, c>>]]
    <3>1. e \in events'
      BY <2>1, <2>3 DEF WalletRead
    <3>2. e.holding = h
      BY <2>1
    <3>3. QED BY <3>1, <3>2 DEF Recorded
  <2>4. QED BY <2>1, <2>2, <2>3 DEF IsObserved
<1>4. QED BY <1>1, <1>2, <1>3 DEF TrackedIsOnRecord

\* What is observed or tracked after any other step was so before, and what is on record
\* stays there.
LEMMA OnRecordStep ==
  ASSUME IngestInv, TrackedIsOnRecord, [IngestNext]_ingestVars
  PROVE  TrackedIsOnRecord'
<1>0. TypeOK
  BY DEF IngestInv, IngestTypeOK
<1>1. CASE Market \/ Notify \/ UNCHANGED ingestVars
  <2>1. UNCHANGED <<active, observed, events, whaleEvents>>
    BY <1>1 DEF Market, Environment, Tick, Trade, Notify, ingestVars, vars, tables, locals, reading
  <2>2. QED BY <2>1 DEF TrackedIsOnRecord, Recorded
<1>2. CASE SafeFetch
  <2>1. whaleEvents' = whaleEvents
    BY <1>2 DEF SafeFetch, tables
  <2>2. CASE AskWallets
    <3>1. PICK w \in Wallets : WalletRead(w) \/ WalletFails(w)
      BY <2>2 DEF AskWallets
    <3>2. CASE WalletRead(w)
      BY <1>0, <2>1, <3>2, ObservedIsOnRecord
    <3>3. CASE WalletFails(w)
      BY <2>1, <3>3 DEF WalletFails, reading, TrackedIsOnRecord, Recorded
    <3>4. QED BY <3>1, <3>2, <3>3
  <2>3. CASE FinishFetch
    <3>1. UNCHANGED <<observed, events>> /\ active' = [c \in Coins |-> NowActive(c)]
      BY <2>3 DEF FinishFetch, locals, reading
    <3>2. \A c \in Coins : \A w \in NowActive(c) : w \in active[c] \/ <<w, c>> \in observed
      BY DEF NowActive
    <3>3. QED BY <2>1, <3>1, <3>2 DEF TrackedIsOnRecord, Recorded
  <2>4. CASE ~AskWallets /\ ~FinishFetch
    <3>1. UNCHANGED <<active, observed, events>>
      BY <1>2, <2>4 DEF SafeFetch, Fetch, SkipDisabled, StartFetch, AskDeltas, DeltasOk, DeltasFail,
         FetchRaises, StartWallets, ReadPrices, UpdateSkew, locals, reading
    <3>2. QED BY <2>1, <3>1 DEF TrackedIsOnRecord, Recorded
  <2>5. QED BY <2>2, <2>3, <2>4
<1>3. CASE Persist
  <2>1. active' = active /\ observed' = {}
    BY <1>3 DEF Persist, Consume, ResetLocals
  <2>2. ASSUME NEW h, Recorded(h) PROVE Recorded(h)'
    <3>1. whaleEvents' = WithEvents
      BY <1>3 DEF Persist
    <3>2. CASE \E r \in whaleEvents : r.holding = h
      BY <3>1, <3>2 DEF WithEvents, Recorded
    <3>3. ASSUME NEW e \in events, e.holding = h PROVE Recorded(h)'
      <4> DEFINE r == [holding |-> e.holding, usd |-> e.usd, at |-> now]
      <4>1. r \in whaleEvents' /\ r.holding = h
        BY <3>1, <3>3 DEF WithEvents
      <4>2. QED BY <4>1 DEF Recorded
    <3>4. QED BY <2>2, <3>2, <3>3 DEF Recorded
  <2>3. QED BY <2>1, <2>2 DEF TrackedIsOnRecord
<1>4. CASE StorageFails
  <2>1. UNCHANGED <<active, observed, events>> /\ whaleEvents \subseteq whaleEvents'
    BY <1>4, WhatStorageFailureLeaves DEF WithEvents, locals, reading
  <2>2. QED BY <2>1 DEF TrackedIsOnRecord, Recorded
<1>5. CASE Restart
  BY <1>5 DEF Restart, ResetLocals, TrackedIsOnRecord
<1>6. QED BY <1>1, <1>2, <1>3, <1>4, <1>5 DEF IngestNext, Lives, PollLoop

\* Between polls every wallet that is tracked for a coin has a row there, whatever
\* failed and whenever the process was restarted: nobody is tracked whose position was
\* never found to be at the minimum (hyperdash.py:155-164, scheduler.py:16-17).
THEOREM TrackedWasAnEvent == IngestSpec => []TrackedWasRecorded
<1>1. IngestInit => TrackedIsOnRecord
  BY DEF IngestInit, Init, InitAdapter, TrackedIsOnRecord
<1>2. IngestInv /\ TrackedIsOnRecord /\ [IngestNext]_ingestVars => TrackedIsOnRecord'
  BY OnRecordStep
<1>3. IngestInv /\ TrackedIsOnRecord => TrackedWasRecorded
  BY DEF IngestInv, LocalsReset, TrackedIsOnRecord, Recorded, TrackedWasRecorded
<1>4. QED BY <1>1, <1>2, <1>3, IngestInvariant, PTL DEF IngestSpec

-----------------------------------------------------------------------------
(* The table of snapshots: what is pruned, and how far back it reaches. *)

\* The latest of the times of a batch that has one time only.
LEMMA MaxOfOne == ASSUME NEW n \in Int PROVE Max({n}) = n
<1>1. \E x \in {n} : \A y \in {n} : x >= y
  OBVIOUS
<1>2. Max({n}) \in {n}
  BY <1>1 DEF Max
<1>3. QED BY <1>2

\* Inserting the snapshots of a poll prunes by the time of that poll: what is left is no
\* older than the retention, and what is gone is.
LEMMA BatchIsPrunedByItsTime ==
  ASSUME IngestInv, SnapshotTimes, pendingSnapshots # <<>>,
         NEW rows, rows = WithSnapshots(pendingSnapshots)
  PROVE  /\ \A r \in rows : r.at <= now /\ now - r.at <= Retention
         /\ \A r \in skewSnapshots \ rows : now - r.at > Retention
         /\ \A r \in rows \ skewSnapshots : \E i \in 1..Len(pendingSnapshots) :
              r = [coin |-> pendingSnapshots[i].of.coin, at |-> pendingSnapshots[i].at]
<1> DEFINE fresh == {[coin |-> pendingSnapshots[i].of.coin, at |-> pendingSnapshots[i].at] :
                       i \in DOMAIN pendingSnapshots}
<1>1. /\ now \in Int /\ Retention \in Nat /\ \A r \in skewSnapshots : r.at \in Int
      /\ pendingSnapshots \in Seq(Snapshots)
  BY IngestionAssumption DEF IngestInv, IngestTypeOK, TypeOK, Times
<1>2. DOMAIN pendingSnapshots = 1..Len(pendingSnapshots) /\ Len(pendingSnapshots) \in Nat \ {0}
  BY <1>1, EmptySeq, LenProperties
<1>3. \A r \in fresh : r.at = now
  BY <1>2 DEF SnapshotTimes
<1>4. {r.at : r \in fresh} = {now}
  <2>1. 1 \in DOMAIN pendingSnapshots
    BY <1>2
  <2>2. fresh # {}
    BY <2>1
  <2> HIDE DEF fresh
  <2>3. QED BY <1>3, <2>2
<1>5. Max({r.at : r \in fresh}) = now
  BY <1>1, <1>4, MaxOfOne
<1>6. rows = Kept(skewSnapshots \union fresh, now)
  BY <1>5 DEF WithSnapshots
<1>7. \A r \in fresh : \E i \in 1..Len(pendingSnapshots) :
        r = [coin |-> pendingSnapshots[i].of.coin, at |-> pendingSnapshots[i].at]
  BY <1>2
<1> HIDE DEF fresh
<1>8. \A r \in skewSnapshots : r.at <= now
  BY DEF SnapshotTimes, Stamped
<1>9. QED BY <1>1, <1>3, <1>6, <1>7, <1>8 DEF Kept

LEMMA SnapshotTimesStep ==
  ASSUME IngestInv, SnapshotTimes, [IngestNext]_ingestVars
  PROVE  SnapshotTimes'
<1>0. /\ clock \in Int /\ now \in Int /\ \A r \in skewSnapshots : r.at \in Int
      /\ pendingSnapshots \in Seq(Snapshots)
  BY DEF IngestInv, IngestTypeOK, TypeOK, Times
<1> USE DEF Stamped, Fetching
<1>1. CASE Market \/ Notify \/ UNCHANGED ingestVars
  <2>1. /\ UNCHANGED <<pc, pendingSnapshots, now, skewSnapshots>>
        /\ clock' = clock \/ clock' = clock + 1
    BY <1>1 DEF Market, Environment, Tick, Trade, Notify, ingestVars, vars, world, market, tables,
       skew, locals
  <2>2. QED BY <1>0, <2>1 DEF SnapshotTimes
<1>2. CASE SafeFetch
  <2>1. UNCHANGED <<clock, skewSnapshots>> /\ Fetch
    BY <1>2 DEF SafeFetch, tables, Fetch, SkipDisabled, StartFetch, AskDeltas, DeltasOk, DeltasFail,
       FetchRaises, StartWallets, AskWallets, WalletRead, WalletFails, ReadPrices, UpdateSkew,
       FinishFetch, world, market
  <2>2. CASE StartFetch
    <3>1. now' = clock /\ pendingSnapshots' = <<>>
      BY <2>2 DEF StartFetch, IngestInv, OneQueue, skew
    <3>2. QED BY <1>0, <2>1, <3>1 DEF SnapshotTimes
  <2>3. CASE SkipDisabled
    <3>1. pc' = "returned" /\ pendingSnapshots' = <<>>
      BY <2>3 DEF SkipDisabled, IngestInv, OneQueue, skew
    <3>2. QED BY <2>1, <3>1 DEF SnapshotTimes
  <2>4. ASSUME NEW i \in 1..Len(WatchCoins), UpdateSkew(i) PROVE SnapshotTimes'
    <3>1. pc = "skew" /\ pc' = "skew" /\ now' = now
      BY <2>4 DEF UpdateSkew, AtCoin, locals
    <3>2. PICK x : pendingSnapshots' \in {pendingSnapshots, Append(pendingSnapshots, x)}
                   /\ x.at = now
      <4> DEFINE x == [at |-> now,
                       of |-> [coin |-> WatchCoins[i], long_usd |-> longUsd[WatchCoins[i]],
                               short_usd |-> shortUsd[WatchCoins[i]]]]
      <4>1. pendingSnapshots' \in {pendingSnapshots, Append(pendingSnapshots, x)} /\ x.at = now
        BY <2>4 DEF UpdateSkew
      <4> HIDE DEF x
      <4>2. QED BY <4>1
    <3>3. \A j \in 1..Len(pendingSnapshots') : pendingSnapshots'[j].at = now
      BY <1>0, <3>2, AppendProperties DEF SnapshotTimes
    <3>4. QED BY <2>1, <3>1, <3>3 DEF SnapshotTimes
  <2>5. CASE AskDeltas \/ StartWallets \/ AskWallets \/ ReadPrices \/ FinishFetch
    <3>1. UNCHANGED <<pendingSnapshots, now>> /\ Fetching
      BY <2>5 DEF AskDeltas, DeltasOk, DeltasFail, FetchRaises, AtCoin, StartWallets, AskWallets,
         WalletRead, WalletFails, ReadPrices, FinishFetch, skew, locals
    <3>2. QED BY <2>1, <3>1 DEF SnapshotTimes
  <2>6. QED BY <2>1, <2>2, <2>3, <2>4, <2>5 DEF Fetch
<1>3. CASE Persist
  <2>1. /\ pc' = "idle" /\ pendingSnapshots' = <<>> /\ clock' = clock
        /\ skewSnapshots' = WithSnapshots(pendingSnapshots)
    BY <1>3 DEF Persist, Consume, market
  <2>2. CASE pendingSnapshots = <<>>
    BY <2>1, <2>2 DEF WithSnapshots, SnapshotTimes
  <2>3. CASE pendingSnapshots # <<>>
    <3>1. now <= clock
      BY <2>3 DEF SnapshotTimes
    <3>2. \A r \in skewSnapshots' : r.at <= now
      BY <2>1, <2>3, BatchIsPrunedByItsTime
    <3>3. \A r \in skewSnapshots' : r.at \in Int
      BY IngestInvStep DEF IngestInv, IngestTypeOK, Times
    <3>4. QED BY <1>0, <2>1, <3>1, <3>2, <3>3 DEF SnapshotTimes
  <2>4. QED BY <2>2, <2>3
<1>4. CASE StorageFails
  <2>1. /\ UNCHANGED <<clock, now, skewSnapshots>> /\ ~Fetching'
        /\ pendingSnapshots' = pendingSnapshots \/ pendingSnapshots' = <<>>
    BY <1>4, WhatStorageFailureLeaves DEF world, market, locals
  <2>2. QED BY <2>1 DEF SnapshotTimes
<1>5. CASE Restart
  BY <1>5 DEF Restart, market, tables, SnapshotTimes
<1>6. QED BY <1>1, <1>2, <1>3, <1>4, <1>5 DEF IngestNext, Lives, PollLoop

LEMMA SnapshotTimesInvariant == IngestSpec => []SnapshotTimes
<1>1. IngestInit => SnapshotTimes
  BY DEF IngestInit, Init, InitAdapter, SnapshotTimes, Stamped, Fetching
<1>2. IngestInv /\ SnapshotTimes /\ [IngestNext]_ingestVars => SnapshotTimes'
  BY SnapshotTimesStep
<1>3. QED BY <1>1, <1>2, IngestInvariant, PTL DEF IngestSpec

\* Only the insertion of a poll's snapshots changes the table.
LEMMA OnlyPersistPrunes ==
  ASSUME [IngestNext]_ingestVars, skewSnapshots' # skewSnapshots
  PROVE  Persist /\ skewSnapshots' = WithSnapshots(pendingSnapshots) /\ pendingSnapshots # <<>>
<1>1. Persist
  BY WhatStorageFailureLeaves
     DEF IngestNext, Lives, Market, PollLoop, SafeFetch, Notify, Restart, ingestVars, tables
<1>2. QED BY <1>1 DEF Persist, WithSnapshots

\* No two snapshots in the table are further apart than the retention, whatever the
\* intervals between the polls and the restarts were (storage.py:168-187).
THEOREM HistoryStaysBounded == IngestSpec => []HistoryIsBounded
<1>1. IngestInit => HistoryIsBounded
  BY DEF IngestInit, HistoryIsBounded
<1>2. IngestInv /\ SnapshotTimes /\ HistoryIsBounded /\ [IngestNext]_ingestVars => HistoryIsBounded'
  <2> SUFFICES ASSUME IngestInv, SnapshotTimes, HistoryIsBounded, [IngestNext]_ingestVars
               PROVE  HistoryIsBounded'
    OBVIOUS
  <2>1. CASE skewSnapshots' = skewSnapshots
    BY <2>1 DEF HistoryIsBounded
  <2>2. CASE skewSnapshots' # skewSnapshots
    <3>1. \A r \in skewSnapshots' : r.at <= now /\ now - r.at <= Retention
      BY <2>2, OnlyPersistPrunes, BatchIsPrunedByItsTime
    <3>2. now \in Int /\ Retention \in Int /\ \A r \in skewSnapshots' : r.at \in Int
      BY IngestInvStep, IngestionAssumption DEF IngestInv, IngestTypeOK, TypeOK, Times
    <3>3. QED BY <3>1, <3>2 DEF HistoryIsBounded
  <2>3. QED BY <2>1, <2>2
<1>3. QED BY <1>1, <1>2, IngestInvariant, SnapshotTimesInvariant, PTL DEF IngestSpec

\* A snapshot disappears from the table only when it is older than the retention
\* (storage.py:168-187).
THEOREM OnlyExpiredIsPruned == IngestSpec => PruneOnlyExpired
<1> DEFINE Expired == \A r \in skewSnapshots \ skewSnapshots' : clock - r.at > Retention
<1>1. IngestInv /\ SnapshotTimes /\ [IngestNext]_ingestVars => [Expired]_ingestVars
  <2> SUFFICES ASSUME IngestInv, SnapshotTimes, [IngestNext]_ingestVars,
                      NEW r \in skewSnapshots \ skewSnapshots'
               PROVE  clock - r.at > Retention
    OBVIOUS
  <2>1. now - r.at > Retention /\ pendingSnapshots # <<>>
    BY OnlyPersistPrunes, BatchIsPrunedByItsTime
  <2>2. now <= clock
    BY <2>1 DEF SnapshotTimes, Stamped
  <2>3. now \in Int /\ clock \in Int /\ r.at \in Int /\ Retention \in Int
    BY IngestionAssumption DEF IngestInv, IngestTypeOK, TypeOK, Times
  <2>4. QED BY <2>1, <2>2, <2>3
<1>2. QED BY <1>1, IngestInvariant, SnapshotTimesInvariant, PTL DEF IngestSpec, PruneOnlyExpired

-----------------------------------------------------------------------------
(* Alerts on their way from the tracker to the sink. *)

LEMMA ZoneAnnouncedKept ==
  ASSUME TypeInv, ZoneAnnounced, [IngestNext]_ingestVars
  PROVE  ZoneAnnounced'
<1>1. CASE [Next]_vars
  BY <1>1, ZoneAnnouncedStep
<1>2. CASE StorageFails
  BY <1>2, WhatStorageFailureLeaves DEF ZoneAnnounced
<1>3. CASE Restart
  BY <1>3 DEF Restart, ZonesAreForgotten, ZoneAnnounced, Quiet
<1>4. QED BY <1>1, <1>2, <1>3, StepsOfTheAdapter

\* An alert is added to the queue and becomes the latest one about its coin.
Announces(a) ==
  /\ Unsaid' = Append(Unsaid, a)
  /\ lastAlert' = [lastAlert EXCEPT ![a.of.coin] = a.head]
  /\ alertParity' = [alertParity EXCEPT ![a.of.coin] = 1 - alertParity[a.of.coin]]
  /\ Follows(lastAlert[a.of.coin], a.head)
  /\ \A c \in Coins : c # a.of.coin => zones'[c] = zones[c]
  /\ UNCHANGED reader

\* The alert at the head of the queue is handed over.
HandsOver(a) ==
  /\ Unsaid # <<>> /\ a = Head(Unsaid) /\ Unsaid' = Tail(Unsaid)
  /\ lastAttempt' = [lastAttempt EXCEPT ![a.of.coin] = a.head]
  /\ attemptParity' = [attemptParity EXCEPT ![a.of.coin] = 1 - attemptParity[a.of.coin]]
  /\ UNCHANGED <<zones, lastAlert, alertParity>>

Says == <<Unsaid, zones, lastAlert, alertParity, reader>>

\* The pass of _update_skew for one coin announces what it changes, and nothing else.
LEMMA SkewAnnounces ==
  ASSUME TypeOK, ZoneAnnounced, NEW i \in 1..Len(WatchCoins), UpdateSkew(i), UNCHANGED reader
  PROVE  UNCHANGED Says \/ \E a \in Alerts : Announces(a)
<1> DEFINE c == WatchCoins[i]
           new == next_zone(zones[c], compute_skew(longUsd[c], shortUsd[c]))
           sample == [coin |-> c, long_usd |-> longUsd[c], short_usd |-> shortUsd[c]]
           a == [head |-> AlertHead(zones[c], new), of |-> sample]
<1>1. /\ c \in Coins /\ zones \in [Coins -> SkewZone]
      /\ longUsd[c] \in Nat /\ shortUsd[c] \in Nat
  BY WatchedCoin DEF TypeOK
<1>2. new \in SkewZone /\ (new # zones[c] /\ zones[c] # "neutral" => new = "neutral")
  BY <1>1, NextZoneType, ZoneStep
<1>3. a \in Alerts /\ a.of.coin = c /\ a.head = AlertHead(zones[c], new)
  BY <1>1, <1>2, AlertHeadType DEF Alerts, Samples
<1>4. pc = "skew" /\ pc' = "skew" /\ Unsaid = pendingAlerts /\ Unsaid' = pendingAlerts'
  BY DEF UpdateSkew, AtCoin, Unsaid
<1>5. zones' = [zones EXCEPT ![c] = new]
  BY DEF UpdateSkew
<1>6. CASE new = zones[c]
  <2>1. UNCHANGED <<pendingAlerts, lastAlert, alertParity>>
    BY <1>6 DEF UpdateSkew
  <2>2. zones' = zones
    BY <1>1, <1>5, <1>6
  <2>3. QED BY <1>4, <2>1, <2>2 DEF Says
<1>7. CASE new # zones[c]
  <2>1. /\ pendingAlerts' = Append(pendingAlerts, a)
        /\ lastAlert' = [lastAlert EXCEPT ![c] = a.head]
        /\ alertParity' = [alertParity EXCEPT ![c] = 1 - alertParity[c]]
    BY <1>7 DEF UpdateSkew
  <2>2. \A d \in Coins : d # c => zones'[d] = zones[d]
    BY <1>1, <1>5
  <2>3. Follows(lastAlert[c], a.head)
    <3>1. CASE zones[c] = "neutral"
      <4>1. a.head = [zone |-> new, direction |-> "enter"] /\ lastAlert[c].direction = "exit"
        BY <1>1, <1>3, <1>7, <3>1 DEF AlertHead, ZoneAnnounced
      <4>2. QED BY <1>2, <1>7, <3>1, <4>1 DEF Follows
    <3>2. CASE zones[c] # "neutral"
      <4>1. a.head = [zone |-> zones[c], direction |-> "exit"]
            /\ lastAlert[c] = [zone |-> zones[c], direction |-> "enter"]
        BY <1>1, <1>2, <1>3, <1>7, <3>2 DEF AlertHead, ZoneAnnounced
      <4>2. QED BY <4>1 DEF Follows
    <3>3. QED BY <3>1, <3>2
  <2> HIDE DEF c, new, a
  <2>4. Announces(a)
    BY <1>3, <1>4, <2>1, <2>2, <2>3 DEF Announces
  <2>5. QED BY <1>3, <2>4
<1>8. QED BY <1>6, <1>7

\* Within one lifetime a step leaves the queue and what was said alone, or adds one
\* alert at the end, or hands over the first one.  Where the queue is may change.
LEMMA WhatMovesAlerts ==
  ASSUME IngestInv, ZoneAnnounced, [Lives]_ingestVars
  PROVE  UNCHANGED Says \/ \E a \in Alerts : Announces(a) \/ HandsOver(a)
<1>0. TypeOK /\ OneQueue /\ toNotify \in Seq(Alerts)
  BY DEF IngestInv, IngestTypeOK
<1>1. CASE Market \/ UNCHANGED ingestVars
  <2>1. UNCHANGED <<pc, toNotify, pendingAlerts, zones, lastAlert, alertParity, reader>>
    BY <1>1 DEF Market, Environment, Tick, Trade, skew, ingestVars, vars
  <2>2. QED BY <2>1 DEF Says, Unsaid
<1>2. CASE SafeFetch
  <2>0. toNotify = <<>> /\ toNotify' = <<>> /\ UNCHANGED reader /\ Fetch
    BY <1>2 DEF SafeFetch
  <2>1. ASSUME NEW i \in 1..Len(WatchCoins), UpdateSkew(i)
        PROVE  UNCHANGED Says \/ \E a \in Alerts : Announces(a)
    BY <1>0, <2>0, <2>1, SkewAnnounces
  <2>2. CASE \A i \in 1..Len(WatchCoins) : ~UpdateSkew(i)
    <3>1. UNCHANGED <<pendingAlerts, zones, lastAlert, alertParity>> /\ pc' # "idle"
      BY <2>0, <2>2 DEF Fetch, SkipDisabled, StartFetch, AskDeltas, DeltasOk, DeltasFail,
         FetchRaises, AtCoin, StartWallets, AskWallets, WalletRead, WalletFails, ReadPrices,
         FinishFetch, skew
    <3>2. QED BY <1>0, <2>0, <3>1 DEF Says, Unsaid, OneQueue
  <2>3. QED BY <2>1, <2>2
<1>3. CASE Persist
  <2>1. /\ pc = "returned" /\ pc' = "idle" /\ toNotify' = pendingAlerts
        /\ UNCHANGED <<zones, lastAlert, alertParity, reader>>
    BY <1>3 DEF Persist, Consume
  <2>2. QED BY <2>1 DEF Says, Unsaid
<1>4. CASE Notify
  <2>1. pc = "idle" /\ pc' = pc /\ UNCHANGED <<zones, lastAlert, alertParity>>
    BY <1>0, <1>4 DEF Notify, OneQueue, vars, skew
  <2>2. Head(toNotify) \in Alerts
    BY <1>0, <1>4 DEF Notify
  <2>3. HandsOver(Head(toNotify))
    BY <1>4, <2>1 DEF Notify, HandOver, HandsOver, Unsaid
  <2>4. QED BY <2>2, <2>3
<1>5. CASE StorageFails
  BY <1>5, WhatStorageFailureLeaves DEF Says, Unsaid
<1>6. QED BY <1>1, <1>2, <1>3, <1>4, <1>5 DEF Lives, PollLoop

\* The queue is a sequence of alerts about watched coins.
LEMMA UnsaidType == IngestInv => Unsaid \in Seq(Alerts)
BY DEF IngestInv, IngestTypeOK, TypeOK, Unsaid

LEMMA NothingIsLostStep ==
  ASSUME IngestInv, ZoneAnnounced, NothingIsLost, [IngestNext]_ingestVars
  PROVE  NothingIsLost'
<1>0. /\ Unsaid \in Seq(Alerts) /\ zones \in [Coins -> SkewZone]
      /\ lastAlert \in [Coins -> AlertHeads] /\ lastAttempt \in [Coins -> AlertHeads]
      /\ \A a \in Alerts : a.of.coin \in Coins /\ a.head \in AlertHeads
  BY UnsaidType DEF IngestInv, IngestTypeOK, TypeOK, Alerts, Samples
<1>1. CASE UNCHANGED Says
  BY <1>1 DEF Says, reader, NothingIsLost
<1>2. ASSUME NEW a \in Alerts, Announces(a) PROVE NothingIsLost'
  <2>1. /\ Unsaid' = Append(Unsaid, a) /\ lastAttempt' = lastAttempt
        /\ lastAlert' = [lastAlert EXCEPT ![a.of.coin] = a.head]
        /\ \A c \in Coins : c # a.of.coin => zones'[c] = zones[c]
    BY <1>2 DEF Announces, reader
  <2>2. /\ Len(Unsaid') = Len(Unsaid) + 1 /\ Len(Unsaid) \in Nat
        /\ Unsaid'[Len(Unsaid) + 1] = a
        /\ \A i \in 1..Len(Unsaid) : Unsaid'[i] = Unsaid[i]
    BY <1>0, <2>1, AppendProperties
  <2> SUFFICES ASSUME NEW c \in Coins
               PROVE  \/ /\ \A i \in 1..Len(Unsaid') : Unsaid'[i].of.coin # c
                         /\ zones'[c] = "neutral" \/ lastAttempt'[c] = lastAlert'[c]
                      \/ \E i \in 1..Len(Unsaid') :
                           /\ Unsaid'[i].of.coin = c /\ Unsaid'[i].head = lastAlert'[c]
                           /\ \A j \in 1..Len(Unsaid') : i < j => Unsaid'[j].of.coin # c
    BY DEF NothingIsLost
  <2>3. CASE c = a.of.coin
    <3> DEFINE k == Len(Unsaid) + 1
    <3>1. k \in 1..Len(Unsaid') /\ \A j \in 1..Len(Unsaid') : ~(k < j)
      BY <2>2
    <3>2. Unsaid'[k].of.coin = c /\ Unsaid'[k].head = lastAlert'[c]
      BY <1>0, <2>1, <2>2, <2>3
    <3> HIDE DEF k
    <3>3. QED BY <3>1, <3>2
  <2>4. CASE c # a.of.coin
    <3>1. lastAlert'[c] = lastAlert[c] /\ zones'[c] = zones[c]
      BY <1>0, <2>1, <2>4
    <3>2. CASE \A i \in 1..Len(Unsaid) : Unsaid[i].of.coin # c
      <4>1. zones[c] = "neutral" \/ lastAttempt[c] = lastAlert[c]
        BY <3>2 DEF NothingIsLost
      <4>2. \A i \in 1..Len(Unsaid') : Unsaid'[i].of.coin # c
        BY <2>2, <2>4, <3>2
      <4>3. QED BY <2>1, <3>1, <4>1, <4>2
    <3>3. ASSUME NEW i \in 1..Len(Unsaid),
                 Unsaid[i].of.coin = c, Unsaid[i].head = lastAlert[c],
                 \A j \in 1..Len(Unsaid) : i < j => Unsaid[j].of.coin # c
          PROVE  \E k \in 1..Len(Unsaid') :
                   /\ Unsaid'[k].of.coin = c /\ Unsaid'[k].head = lastAlert'[c]
                   /\ \A j \in 1..Len(Unsaid') : k < j => Unsaid'[j].of.coin # c
      <4>1. i \in 1..Len(Unsaid') /\ Unsaid'[i] = Unsaid[i]
        BY <2>2
      <4>2. \A j \in 1..Len(Unsaid') : i < j => Unsaid'[j].of.coin # c
        BY <2>2, <2>4, <3>3
      <4>3. QED BY <3>1, <3>3, <4>1, <4>2
    <3>4. QED BY <3>2, <3>3 DEF NothingIsLost
  <2>5. QED BY <2>3, <2>4
<1>3. ASSUME NEW a \in Alerts, HandsOver(a) PROVE NothingIsLost'
  <2>1. /\ Unsaid # <<>> /\ a = Head(Unsaid) /\ Unsaid' = Tail(Unsaid)
        /\ lastAttempt' = [lastAttempt EXCEPT ![a.of.coin] = a.head]
        /\ UNCHANGED <<zones, lastAlert>>
    BY <1>3 DEF HandsOver
  <2>2. /\ Len(Unsaid) \in Nat /\ Len(Unsaid') = Len(Unsaid) - 1 /\ a = Unsaid[1]
        /\ \A i \in 1..Len(Unsaid') : Unsaid'[i] = Unsaid[i + 1]
    BY <1>0, <2>1, HeadTailProperties, EmptySeq
  <2> SUFFICES ASSUME NEW c \in Coins
               PROVE  \/ /\ \A i \in 1..Len(Unsaid') : Unsaid'[i].of.coin # c
                         /\ zones[c] = "neutral" \/ lastAttempt'[c] = lastAlert[c]
                      \/ \E i \in 1..Len(Unsaid') :
                           /\ Unsaid'[i].of.coin = c /\ Unsaid'[i].head = lastAlert[c]
                           /\ \A j \in 1..Len(Unsaid') : i < j => Unsaid'[j].of.coin # c
    BY <2>1 DEF NothingIsLost
  <2>3. CASE \A i \in 1..Len(Unsaid) : Unsaid[i].of.coin # c
    <3>1. zones[c] = "neutral" \/ lastAttempt[c] = lastAlert[c]
      BY <2>3 DEF NothingIsLost
    <3>2. 1 \in 1..Len(Unsaid)
      BY <1>0, <2>1, EmptySeq, LenProperties
    <3>3. lastAttempt'[c] = lastAttempt[c]
      BY <1>0, <2>1, <2>2, <2>3, <3>2
    <3>4. \A i \in 1..Len(Unsaid') : Unsaid'[i].of.coin # c
      BY <2>2, <2>3
    <3>5. QED BY <3>1, <3>3, <3>4
  <2>4. ASSUME NEW i \in 1..Len(Unsaid),
               Unsaid[i].of.coin = c, Unsaid[i].head = lastAlert[c],
               \A j \in 1..Len(Unsaid) : i < j => Unsaid[j].of.coin # c
        PROVE  \/ /\ \A k \in 1..Len(Unsaid') : Unsaid'[k].of.coin # c
                  /\ lastAttempt'[c] = lastAlert[c]
               \/ \E k \in 1..Len(Unsaid') :
                    /\ Unsaid'[k].of.coin = c /\ Unsaid'[k].head = lastAlert[c]
                    /\ \A j \in 1..Len(Unsaid') : k < j => Unsaid'[j].of.coin # c
    <3>1. CASE i = 1
      <4>1. lastAttempt'[c] = lastAlert[c]
        BY <1>0, <2>1, <2>2, <2>4, <3>1
      <4>2. \A k \in 1..Len(Unsaid') : Unsaid'[k].of.coin # c
        BY <2>2, <2>4, <3>1
      <4>3. QED BY <4>1, <4>2
    <3>2. CASE i # 1
      <4>1. i - 1 \in 1..Len(Unsaid') /\ Unsaid'[i - 1] = Unsaid[i]
        BY <2>2, <3>2
      <4>2. \A j \in 1..Len(Unsaid') : i - 1 < j => Unsaid'[j].of.coin # c
        BY <2>2, <2>4
      <4>3. QED BY <2>4, <4>1, <4>2
    <3>3. QED BY <3>1, <3>2
  <2>5. QED BY <2>3, <2>4 DEF NothingIsLost
<1>4. CASE Restart
  <2>1. Unsaid' = <<>> /\ \A c \in Coins : zones'[c] = "neutral"
    BY <1>4 DEF Restart, ZonesAreForgotten, Unsaid
  <2>2. QED BY <2>1 DEF NothingIsLost
<1>5. QED BY <1>1, <1>2, <1>3, <1>4, WhatMovesAlerts DEF IngestNext

\* However often the process was killed, and with whatever alerts queued: between polls
\* a coin that counts as dominant was announced so, and nothing was said about it since
\* (position_skew.py:59, scheduler.py:16-26).
THEOREM DominanceIsAnnounced == IngestSpec => []NoDominanceIsSilent
<1>1. IngestInit => ZoneAnnounced /\ NothingIsLost
  BY DEF IngestInit, Init, InitAdapter, ZoneAnnounced, Quiet, NothingIsLost, Unsaid
<1>2. IngestInv /\ ZoneAnnounced /\ NothingIsLost /\ [IngestNext]_ingestVars
        => ZoneAnnounced' /\ NothingIsLost'
  BY ZoneAnnouncedKept, NothingIsLostStep DEF IngestInv, IngestTypeOK, TypeInv
<1>3. IngestInv /\ ZoneAnnounced /\ NothingIsLost => NoDominanceIsSilent
  <2> SUFFICES ASSUME ZoneAnnounced, NothingIsLost, pc = "idle", toNotify = <<>>,
                      NEW c \in Coins, zones[c] # "neutral"
               PROVE  lastAttempt[c] = [zone |-> zones[c], direction |-> "enter"]
    BY DEF NoDominanceIsSilent
  <2>1. Len(Unsaid) = 0
    BY DEF Unsaid
  <2>2. lastAttempt[c] = lastAlert[c]
    BY <2>1 DEF NothingIsLost
  <2>3. QED BY <2>2 DEF ZoneAnnounced
<1>4. QED BY <1>1, <1>2, <1>3, IngestInvariant, PTL DEF IngestSpec

-----------------------------------------------------------------------------
(* One lifetime of the process: the snapshots. *)

LEMMA LifetimeInvariant ==
  FairLifetimeSpec => IngestInit /\ [][Lives]_ingestVars /\ [](IngestInv /\ ZoneAnnounced)
<1>1. [Lives]_ingestVars => [IngestNext]_ingestVars
  BY DEF IngestNext
<1>2. IngestInit => ZoneAnnounced
  BY DEF IngestInit, Init, InitAdapter, ZoneAnnounced, Quiet
<1>3. IngestInv /\ ZoneAnnounced /\ [IngestNext]_ingestVars => ZoneAnnounced'
  BY ZoneAnnouncedKept DEF IngestInv, IngestTypeOK, TypeInv
<1>4. QED BY <1>1, <1>2, <1>3, IngestInvariant, PTL DEF FairLifetimeSpec, IngestSpec

\* The running poll takes a snapshot of its coin, when one is due.
LEMMA SnapshotTaken ==
  ASSUME TypeOK, TakenIsSpaced, NEW i \in 1..Len(WatchCoins), UpdateSkew(i),
         skewSnapshots' = skewSnapshots
  PROVE  TakenIsSpaced'
<1> DEFINE c == WatchCoins[i]
           x == [at |-> now, of |-> [coin |-> c, long_usd |-> longUsd[c], short_usd |-> shortUsd[c]]]
<1>1. /\ c \in Coins /\ now \in Times /\ Times \subseteq Int /\ SnapshotInterval \in Nat \ {0}
      /\ pendingSnapshots \in Seq(Snapshots) /\ lastSnapshotAt \in [Coins -> Times \union {Never}]
  BY WatchedCoin, BoundsAssumption DEF TypeOK, Times
<1>2. CASE ~SnapshotDue(c)
  <2>1. UNCHANGED <<pendingSnapshots, lastSnapshotAt, skewSnapshots>>
    BY <1>2 DEF UpdateSkew
  <2>2. QED BY <2>1 DEF TakenIsSpaced, Taken
<1>3. CASE SnapshotDue(c)
  <2>1. /\ pendingSnapshots' = Append(pendingSnapshots, x)
        /\ lastSnapshotAt' = [lastSnapshotAt EXCEPT ![c] = now]
        /\ x.at = now /\ x.of.coin = c
    BY <1>3 DEF UpdateSkew
  <2> HIDE DEF x
  <2>2. /\ Len(pendingSnapshots') = Len(pendingSnapshots) + 1 /\ Len(pendingSnapshots) \in Nat
        /\ pendingSnapshots'[Len(pendingSnapshots) + 1] = x
        /\ \A j \in 1..Len(pendingSnapshots) : pendingSnapshots'[j] = pendingSnapshots[j]
    BY <1>1, <2>1, AppendProperties
  <2>3. Taken(c)' \subseteq Taken(c) \union {now} /\ Taken(c) \subseteq Times
    BY <2>1, <2>2 DEF Taken
  <2>4. \A d \in Coins : d # c => Taken(d)' \subseteq Taken(d)
    BY <2>1, <2>2 DEF Taken
  <2>5. \A t \in Taken(c) : t <= lastSnapshotAt[c] /\ now - t >= SnapshotInterval
    <3> SUFFICES ASSUME NEW t \in Taken(c)
                 PROVE  t <= lastSnapshotAt[c] /\ now - t >= SnapshotInterval
      OBVIOUS
    <3>1. t <= lastSnapshotAt[c] /\ t \in 0..MaxClock
      BY <1>1, <2>3 DEF TakenIsSpaced, Times
    <3>2. lastSnapshotAt[c] # Never /\ lastSnapshotAt[c] \in 0..MaxClock
      BY <1>1, <3>1, BoundsAssumption DEF Never, Times
    <3>3. now - lastSnapshotAt[c] >= SnapshotInterval
      BY <1>3, <3>2 DEF SnapshotDue
    <3>4. now \in Int /\ SnapshotInterval \in Int
      BY <1>1
    <3>5. QED BY <3>1, <3>2, <3>3, <3>4
  <2>6. lastSnapshotAt'[c] = now /\ \A d \in Coins : d # c => lastSnapshotAt'[d] = lastSnapshotAt[d]
    BY <1>1, <2>1
  <2>7. ASSUME NEW d \in Coins, d # c
        PROVE  /\ \A t \in Taken(d)' : t <= lastSnapshotAt'[d]
               /\ \A t, u \in Taken(d)' : t < u => u - t >= SnapshotInterval
    BY <2>4, <2>6, <2>7 DEF TakenIsSpaced
  <2>8. /\ \A t \in Taken(c)' : t <= lastSnapshotAt'[c]
        /\ \A t, u \in Taken(c)' : t < u => u - t >= SnapshotInterval
    <3>1. now \in Int /\ SnapshotInterval \in Nat \ {0} /\ \A t \in Taken(c) : t \in Int
      BY <1>1, <2>3
    <3>2. \A t, u \in Taken(c) : t < u => u - t >= SnapshotInterval
      BY <1>1 DEF TakenIsSpaced
    <3>3. \A t \in Taken(c)' : t = now \/ t \in Taken(c)
      BY <2>3
    <3>4. QED BY <2>5, <2>6, <3>1, <3>2, <3>3
  <2>9. QED BY <2>7, <2>8 DEF TakenIsSpaced
<1>4. QED BY <1>2, <1>3

LEMMA TakenIsSpacedStep ==
  ASSUME IngestInv, TakenIsSpaced, [Lives]_ingestVars
  PROVE  TakenIsSpaced'
<1>0. TypeOK
  BY DEF IngestInv, IngestTypeOK
<1>1. ASSUME lastSnapshotAt' = lastSnapshotAt, \A c \in Coins : Taken(c)' \subseteq Taken(c)
      PROVE  TakenIsSpaced'
  BY <1>1 DEF TakenIsSpaced
<1>2. CASE Market \/ Notify \/ UNCHANGED ingestVars
  <2>1. UNCHANGED <<skewSnapshots, pendingSnapshots, lastSnapshotAt>>
    BY <1>2 DEF Market, Environment, Tick, Trade, Notify, ingestVars, vars, tables, skew
  <2>2. QED BY <1>1, <2>1 DEF Taken
<1>3. CASE SafeFetch
  <2>1. skewSnapshots' = skewSnapshots /\ Fetch
    BY <1>3 DEF SafeFetch, tables
  <2>2. ASSUME NEW i \in 1..Len(WatchCoins), UpdateSkew(i) PROVE TakenIsSpaced'
    BY <1>0, <2>1, <2>2, SnapshotTaken
  <2>3. CASE \A i \in 1..Len(WatchCoins) : ~UpdateSkew(i)
    <3>1. UNCHANGED <<pendingSnapshots, lastSnapshotAt>>
      BY <2>1, <2>3 DEF Fetch, SkipDisabled, StartFetch, AskDeltas, DeltasOk, DeltasFail,
         FetchRaises, StartWallets, AskWallets, WalletRead, WalletFails, ReadPrices, FinishFetch, skew
    <3>2. QED BY <1>1, <2>1, <3>1 DEF Taken
  <2>4. QED BY <2>2, <2>3
<1>4. CASE Persist
  <2>1. /\ pendingSnapshots' = <<>> /\ lastSnapshotAt' = lastSnapshotAt
        /\ skewSnapshots' = WithSnapshots(pendingSnapshots)
    BY <1>4 DEF Persist, Consume
  <2>2. DOMAIN pendingSnapshots = 1..Len(pendingSnapshots)
    BY <1>0 DEF TypeOK
  <2>3. \A r \in skewSnapshots' : r \in skewSnapshots \/ \E i \in 1..Len(pendingSnapshots) :
          r = [coin |-> pendingSnapshots[i].of.coin, at |-> pendingSnapshots[i].at]
    BY <2>1, <2>2 DEF WithSnapshots, Kept
  <2>4. \A c \in Coins : Taken(c)' \subseteq Taken(c)
    BY <2>1, <2>3 DEF Taken
  <2>5. QED BY <1>1, <2>1, <2>4
<1>5. CASE StorageFails
  <2>1. UNCHANGED <<skewSnapshots, lastSnapshotAt>>
        /\ pendingSnapshots' \in {pendingSnapshots, <<>>}
    BY <1>5, WhatStorageFailureLeaves
  <2>2. QED BY <1>1, <2>1 DEF Taken
<1>6. QED BY <1>2, <1>3, <1>4, <1>5 DEF Lives, PollLoop

\* In one lifetime of the process the snapshots of a coin are an interval apart,
\* whatever failed in between (hyperdash.py:213-225).
THEOREM SnapshotsKeepTheirDistance == FairLifetimeSpec => []SnapshotsAreSpaced
<1>1. IngestInit => TakenIsSpaced
  BY DEF IngestInit, Init, InitAdapter, TakenIsSpaced, Taken
<1>2. IngestInv /\ TakenIsSpaced /\ [Lives]_ingestVars => TakenIsSpaced'
  BY TakenIsSpacedStep
<1>3. IngestInv /\ TakenIsSpaced => SnapshotsAreSpaced
  <2> SUFFICES ASSUME IngestInv, TakenIsSpaced, NEW r \in skewSnapshots, NEW s \in skewSnapshots,
                      r.coin = s.coin, r.at < s.at
               PROVE  s.at - r.at >= SnapshotInterval
    BY DEF SnapshotsAreSpaced
  <2>1. r.coin \in Coins /\ r.at \in Times /\ s.at \in Times
    BY DEF IngestInv, IngestTypeOK
  <2>2. r.at \in Taken(r.coin) /\ s.at \in Taken(r.coin)
    BY <2>1 DEF Taken
  <2>3. QED BY <2>1, <2>2 DEF TakenIsSpaced
<1>4. QED BY <1>1, <1>2, <1>3, LifetimeInvariant, PTL

-----------------------------------------------------------------------------
(* One lifetime of the process: the reader of the sink. *)

LEMMA ReaderCatchesUpStep ==
  ASSUME IngestInv, ZoneAnnounced, ReaderCatchesUp, [Lives]_ingestVars
  PROVE  ReaderCatchesUp'
<1>0. /\ Unsaid \in Seq(Alerts)
      /\ lastAlert \in [Coins -> AlertHeads] /\ alertParity \in [Coins -> {0, 1}]
      /\ lastAttempt \in [Coins -> AlertHeads] /\ attemptParity \in [Coins -> {0, 1}]
      /\ \A a \in Alerts : a.of.coin \in Coins /\ a.head \in AlertHeads
  BY UnsaidType DEF IngestInv, IngestTypeOK, TypeOK, Alerts, Samples
<1>1. CASE UNCHANGED Says
  BY <1>1 DEF Says, reader, ReaderCatchesUp, Heard, Said
<1> SUFFICES ASSUME ~UNCHANGED Says, NEW c \in Coins
             PROVE  \E state \in [0..Len(Unsaid') -> States] : Leads(state, Unsaid', c, Heard(c)', Said(c)')
  BY <1>1 DEF ReaderCatchesUp
<1> PICK state \in [0..Len(Unsaid) -> States] : Leads(state, Unsaid, c, Heard(c), Said(c))
  BY DEF ReaderCatchesUp
<1>2. ASSUME NEW a \in Alerts, Announces(a)
      PROVE  \E after \in [0..Len(Unsaid') -> States] : Leads(after, Unsaid', c, Heard(c)', Said(c)')
  <2> DEFINE final == [head |-> lastAlert'[c], parity |-> alertParity'[c]]
             after == [i \in 0..Len(Unsaid') |-> IF i <= Len(Unsaid) THEN state[i] ELSE final]
  <2>1. /\ Unsaid' = Append(Unsaid, a) /\ UNCHANGED <<lastAttempt, attemptParity>>
        /\ lastAlert' = [lastAlert EXCEPT ![a.of.coin] = a.head]
        /\ alertParity' = [alertParity EXCEPT ![a.of.coin] = 1 - alertParity[a.of.coin]]
        /\ Follows(lastAlert[a.of.coin], a.head)
    BY <1>2 DEF Announces, reader
  <2>2. /\ Len(Unsaid') = Len(Unsaid) + 1 /\ Len(Unsaid) \in Nat
        /\ Unsaid'[Len(Unsaid) + 1] = a
        /\ \A i \in 1..Len(Unsaid) : Unsaid'[i] = Unsaid[i]
    BY <1>0, <2>1, AppendProperties
  <2>3. final \in States
    BY <1>0, <2>1 DEF States
  <2>4. state[Len(Unsaid)] = Said(c) /\ state[0] = Heard(c)
    BY DEF Leads
  <2>5. IF a.of.coin = c
        THEN /\ Follows(state[Len(Unsaid)].head, a.head)
             /\ final = [head |-> a.head, parity |-> 1 - state[Len(Unsaid)].parity]
        ELSE final = state[Len(Unsaid)]
    BY <1>0, <2>1, <2>4 DEF Said
  <2> HIDE DEF final
  <2>6. after \in [0..Len(Unsaid') -> States]
    BY <2>2, <2>3
  <2>7. /\ after[Len(Unsaid')] = final /\ after[0] = state[0]
        /\ \A i \in 0..Len(Unsaid) : after[i] = state[i]
    BY <2>2
  <2> HIDE DEF after
  <2>8. ASSUME NEW i \in 1..Len(Unsaid')
        PROVE  IF Unsaid'[i].of.coin = c
               THEN /\ Follows(after[i - 1].head, Unsaid'[i].head)
                    /\ after[i] = [head |-> Unsaid'[i].head, parity |-> 1 - after[i - 1].parity]
               ELSE after[i] = after[i - 1]
    <3>1. CASE i = Len(Unsaid) + 1
      BY <2>2, <2>5, <2>7, <3>1
    <3>2. CASE i \in 1..Len(Unsaid)
      <4>1. after[i] = state[i] /\ after[i - 1] = state[i - 1] /\ Unsaid'[i] = Unsaid[i]
        BY <2>2, <2>7, <3>2
      <4>2. QED BY <3>2, <4>1 DEF Leads
    <3>3. QED BY <2>2, <3>1, <3>2
  <2>9. Leads(after, Unsaid', c, Heard(c)', Said(c)')
    BY <2>1, <2>4, <2>7, <2>8 DEF Leads, Heard, Said, final
  <2>10. QED BY <2>6, <2>9
<1>3. ASSUME NEW a \in Alerts, HandsOver(a)
      PROVE  \E after \in [0..Len(Unsaid') -> States] : Leads(after, Unsaid', c, Heard(c)', Said(c)')
  <2> DEFINE after == [i \in 0..Len(Unsaid') |-> state[i + 1]]
  <2>1. /\ Unsaid # <<>> /\ a = Head(Unsaid) /\ Unsaid' = Tail(Unsaid)
        /\ lastAttempt' = [lastAttempt EXCEPT ![a.of.coin] = a.head]
        /\ attemptParity' = [attemptParity EXCEPT ![a.of.coin] = 1 - attemptParity[a.of.coin]]
        /\ UNCHANGED <<lastAlert, alertParity>>
    BY <1>3 DEF HandsOver
  <2>2. /\ Len(Unsaid) \in Nat /\ Len(Unsaid') = Len(Unsaid) - 1 /\ a = Unsaid[1]
        /\ Len(Unsaid') \in Nat
        /\ \A i \in 1..Len(Unsaid') : Unsaid'[i] = Unsaid[i + 1]
    BY <1>0, <2>1, HeadTailProperties, EmptySeq, LenProperties
  <2>3. after \in [0..Len(Unsaid') -> States] /\ \A i \in 0..Len(Unsaid') : after[i] = state[i + 1]
    BY <2>2
  <2> HIDE DEF after
  <2>4. state[0] = Heard(c) /\ state[Len(Unsaid)] = Said(c)
    BY DEF Leads
  <2>5. IF a.of.coin = c
        THEN state[1] = [head |-> a.head, parity |-> 1 - state[0].parity]
        ELSE state[1] = state[0]
    <3>1. 1 \in 1..Len(Unsaid) /\ 1 - 1 = 0
      BY <2>2
    <3>2. QED BY <2>2, <3>1 DEF Leads
  <2>6. after[0] = Heard(c)'
    <3>1. after[0] = state[1]
      BY <2>2, <2>3
    <3>2. QED BY <1>0, <2>1, <2>4, <2>5, <3>1 DEF Heard
  <2>7. after[Len(Unsaid')] = Said(c)'
    BY <2>1, <2>2, <2>3, <2>4 DEF Said
  <2>8. ASSUME NEW i \in 1..Len(Unsaid')
        PROVE  IF Unsaid'[i].of.coin = c
               THEN /\ Follows(after[i - 1].head, Unsaid'[i].head)
                    /\ after[i] = [head |-> Unsaid'[i].head, parity |-> 1 - after[i - 1].parity]
               ELSE after[i] = after[i - 1]
    <3>1. /\ after[i] = state[i + 1] /\ after[i - 1] = state[i] /\ Unsaid'[i] = Unsaid[i + 1]
          /\ i + 1 \in 1..Len(Unsaid) /\ (i + 1) - 1 = i
      BY <2>2, <2>3
    <3>2. QED BY <3>1 DEF Leads
  <2>9. Leads(after, Unsaid', c, Heard(c)', Said(c)')
    BY <2>6, <2>7, <2>8 DEF Leads
  <2>10. QED BY <2>3, <2>9
<1>4. QED BY <1>2, <1>3, WhatMovesAlerts

LEMMA ReaderCatchesUpInvariant == FairLifetimeSpec => []ReaderCatchesUp
<1>1. IngestInit => ReaderCatchesUp
  <2> SUFFICES ASSUME IngestInit, NEW c \in Coins
               PROVE  \E state \in [0..Len(Unsaid) -> States] : Leads(state, Unsaid, c, Heard(c), Said(c))
    BY DEF ReaderCatchesUp
  <2> DEFINE state == [i \in {0} |-> [head |-> Quiet, parity |-> 0]]
  <2>1. Len(Unsaid) = 0 /\ 0..0 = {0}
    BY DEF IngestInit, Init, InitAdapter, Unsaid
  <2>2. state \in [0..Len(Unsaid) -> States]
    BY <2>1 DEF States, Quiet, AlertHeads, SkewZone
  <2>3. Leads(state, Unsaid, c, Heard(c), Said(c))
    BY <2>1 DEF Leads, Heard, Said, IngestInit, Init, InitAdapter
  <2>4. QED BY <2>2, <2>3
<1>2. IngestInv /\ ZoneAnnounced /\ ReaderCatchesUp /\ [Lives]_ingestVars => ReaderCatchesUp'
  BY ReaderCatchesUpStep
<1>3. QED BY <1>1, <1>2, LifetimeInvariant, PTL

\* In one lifetime of the process, between polls, what was handed to the sink is what
\* the tracker announced: no alert was dropped (scheduler.py:21-26).
THEOREM AnnouncedIsHandedOver == FairLifetimeSpec => []Announced
<1>1. IngestInv /\ ReaderCatchesUp => Announced
  <2> SUFFICES ASSUME IngestInv, ReaderCatchesUp, pc = "idle", toNotify = <<>>
               PROVE  lastAttempt = lastAlert /\ attemptParity = alertParity
    BY DEF Announced
  <2>1. Len(Unsaid) = 0
    BY DEF Unsaid
  <2>2. \A c \in Coins : lastAttempt[c] = lastAlert[c] /\ attemptParity[c] = alertParity[c]
    <3> TAKE c \in Coins
    <3>1. PICK state : state[0] = Heard(c) /\ state[0] = Said(c)
      BY <2>1 DEF ReaderCatchesUp, Leads
    <3>2. QED BY <3>1 DEF Heard, Said
  <2>3. QED BY <2>2 DEF IngestInv, IngestTypeOK, TypeOK
<1>2. QED BY <1>1, LifetimeInvariant, ReaderCatchesUpInvariant, PTL

\* In one lifetime of the process the reader of the sink sees, for every coin, enter and
\* exit alternate: the queue between the tracker and the sink implements the promise
\* the tracker keeps (scheduler.py:21-26, position_skew.py:61-72).
THEOREM ReaderSeesThePromise == FairLifetimeSpec => ReaderSeesAlternation
<1>1. IngestInit => Reader!Init
  BY DEF IngestInit, Reader!Init, Reader!Quiet, Quiet
<1>2. IngestInv /\ ZoneAnnounced /\ ReaderCatchesUp /\ [Lives]_ingestVars
        => [Reader!Next]_<<lastAttempt, attemptParity>>
  <2> SUFFICES ASSUME IngestInv, ZoneAnnounced, ReaderCatchesUp, [Lives]_ingestVars,
                      ~UNCHANGED <<lastAttempt, attemptParity>>
               PROVE  Reader!Next
    OBVIOUS
  <2>1. PICK a \in Alerts : HandsOver(a)
    BY WhatMovesAlerts DEF Announces, Says, reader
  <2> DEFINE c == a.of.coin
  <2>2. c \in Coins /\ Unsaid \in Seq(Alerts) /\ Unsaid # <<>> /\ a = Unsaid[1]
    BY <2>1, UnsaidType, HeadTailProperties DEF HandsOver, Alerts, Samples
  <2>3. Follows(lastAttempt[c], a.head)
    <3>1. PICK state \in [0..Len(Unsaid) -> States] : Leads(state, Unsaid, c, Heard(c), Said(c))
      BY <2>2 DEF ReaderCatchesUp
    <3>2. 1 \in 1..Len(Unsaid) /\ 1 - 1 = 0
      BY <2>2, EmptySeq, LenProperties
    <3>3. Follows(state[0].head, a.head)
      BY <2>2, <3>1, <3>2 DEF Leads
    <3>4. state[0].head = lastAttempt[c]
      BY <3>1 DEF Leads, Heard
    <3>5. QED BY <3>3, <3>4
  <2>4. /\ lastAttempt' = [lastAttempt EXCEPT ![c] = a.head]
        /\ attemptParity' = [attemptParity EXCEPT ![c] = 1 - attemptParity[c]]
        /\ a.head = [zone |-> a.head.zone, direction |-> a.head.direction]
    BY <2>1 DEF HandsOver, Alerts, AlertHeads
  <2> HIDE DEF c
  <2>5. Reader!Exit(c) \/ \E zone \in SkewZone \ {"neutral"} : Reader!Enter(c, zone)
    <3>1. CASE lastAttempt[c].direction = "enter"
      BY <2>3, <2>4, <3>1 DEF Follows, Reader!Exit, Reader!Announce
    <3>2. CASE lastAttempt[c].direction = "exit"
      BY <2>3, <2>4, <3>2 DEF Follows, Reader!Enter, Reader!Announce
    <3>3. QED BY <2>3, <3>1, <3>2 DEF Follows
  <2>6. QED BY <2>2, <2>5 DEF Reader!Next, Reader!SkewZone, SkewZone
<1>3. QED BY <1>1, <1>2, LifetimeInvariant, ReaderCatchesUpInvariant, PTL
          DEF ReaderSeesAlternation, Reader!Spec
=============================================================================
