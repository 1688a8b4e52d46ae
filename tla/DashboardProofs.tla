--------------------------- MODULE DashboardProofs ---------------------------
(***************************************************************************)
(* What the pages of the dashboard show, for every watch list, every set   *)
(* of wallets and exposures, every poll interval and every bound.          *)
(***************************************************************************)
EXTENDS Dashboard, IngestionProofs

-----------------------------------------------------------------------------
(* The strengthenings. *)

\* Rows, and the time of the adapter's success, go back to fetches that completed;
\* events wait to be stored only when their fetch did.
RowsWereAnswered ==
  /\ answeredAt \in Times \union {Never} /\ answeredAt <= clock
  /\ lastSuccessAt \in {Never, answeredAt}
  /\ \A r \in whaleEvents : r.at <= answeredAt
  /\ pc \in {"idle", "deltas"} => events = {}
  /\ pc = "returned" /\ events # {} => now <= answeredAt

\* A fetch that runs, or has completed and is not stored yet.
Underway == Fetching \/ Completed

\* The poll knows a status for every coin, no row is later than the poll, and whoever it
\* observed with the minimum has an event that is still true unless somebody traded.
PollIsComplete ==
  /\ pc = "deltas" => /\ observed = {}
                      /\ \A j \in 1..Len(WatchCoins) :
                           j < next => coinStatus[WatchCoins[j]].state # "STALE"
  /\ pc \in {"wallets", "skew"} \/ Completed => \A c \in Coins : coinStatus[c].state # "STALE"
  /\ Underway => \A r \in whaleEvents : r.at <= now
  /\ Underway /\ ~moved => \A c \in Coins : \A w \in Wallets :
       <<w, c>> \in observed /\ IsLarge(w, c) =>
         \E e \in events : e.holding = <<w, c>> /\ e.usd = position[<<w, c>>]

\* Everyone tracked for c who holds the minimum has a row of time t with what he holds.
RowsSince(c, t) ==
  /\ \A r \in whaleEvents : r.at <= t
  /\ \A w \in active[c] : IsLarge(w, c) =>
       \E r \in whaleEvents : r.holding = <<w, c>> /\ r.usd = position[<<w, c>>] /\ r.at = t

\* After a poll that completed, the rows of a coin without an error are of that poll.
TableIsComplete ==
  pc = "idle" /\ ~lastError /\ lastSuccessAt # Never /\ ~moved =>
    \A c \in Coins : coinStatus[c].state # "ERROR" => \E t \in Times : RowsSince(c, t)

-----------------------------------------------------------------------------
(* What is LIVE comes from a fetch that completed within the window. *)

\* The service under the pages is an ingestion service.
LEMMA ServiceInvariant ==
  DashSpec => IngestSpec /\ [](IngestInv /\ SnapshotTimes)
<1>1. DashInit => IngestInit
  BY DEF DashInit
<1>2. [DashNext]_dashVars => [IngestNext]_ingestVars
  BY DEF DashNext, Serves, Restarts, IngestNext, dashVars
<1>3. QED BY <1>1, <1>2, IngestInvariant, SnapshotTimesInvariant, PTL DEF DashSpec, IngestSpec

\* A step of the service is observed; a stutter of all is one of the history, too.
LEMMA StepsAreObserved ==
  ASSUME [DashNext]_dashVars
  PROVE  (Observes /\ IngestNext) \/ UNCHANGED <<ingestVars, endedAt, history>>
BY DEF DashNext, Serves, Restarts, IngestNext, dashVars

\* The rows of the running poll have its time.
LEMMA NewRows ==
  ASSUME NEW r \in WithEvents
  PROVE  r \in whaleEvents \/ (events # {} /\ r.at = now)
BY DEF WithEvents

\* Only its end makes a fetch an answer.
LEMMA RowsWereAnsweredStep ==
  ASSUME IngestInv, SnapshotTimes, RowsWereAnswered, [DashNext]_dashVars
  PROVE  RowsWereAnswered'
<1>0. /\ TypeOK /\ IngestTypeOK /\ OneQueue /\ LocalsReset
      /\ clock \in Int /\ now \in Times /\ Times \subseteq Int /\ Never \in Int
      /\ \A r \in whaleEvents : r.at \in Times
  <2>1. IngestTypeOK /\ OneQueue /\ LocalsReset
    BY DEF IngestInv
  <2>2. TypeOK /\ \A r \in whaleEvents : r.at \in Times
    BY <2>1 DEF IngestTypeOK
  <2>3. clock \in Times /\ now \in Times
    BY <2>2 DEF TypeOK
  <2>4. Times \subseteq Int /\ Never \in Int
    BY DEF Times, Never
  <2>5. QED BY <2>1, <2>2, <2>3, <2>4
<1>1. CASE UNCHANGED <<ingestVars, endedAt, history>>
  BY <1>1 DEF ingestVars, vars, history, world, market, base, locals, reading, tables, RowsWereAnswered
<1> SUFFICES ASSUME Observes, IngestNext PROVE RowsWereAnswered'
  BY <1>1, StepsAreObserved
<1>2. answeredAt' = IF pc = "skew" /\ pc' = "returned" THEN clock ELSE answeredAt
  BY DEF Observes
<1>3. CASE Market
  <2>1. /\ UNCHANGED <<pc, lastSuccessAt, whaleEvents, events, now>>
        /\ clock' = clock \/ clock' = clock + 1
    BY <1>3 DEF Market, Environment, Tick, Trade, base, locals, reading, tables
  <2>2. QED BY <1>0, <1>2, <2>1 DEF RowsWereAnswered
<1>4. CASE SafeFetch
  <2>1. UNCHANGED <<clock, whaleEvents>> /\ Fetch
    BY <1>4 DEF SafeFetch, tables, Fetch, SkipDisabled, StartFetch, AskDeltas, DeltasOk, DeltasFail,
       FetchRaises, StartWallets, AskWallets, WalletRead, WalletFails, ReadPrices, UpdateSkew,
       FinishFetch, world, market
  <2>2. CASE FinishFetch
    <3>1. /\ answeredAt' = clock /\ lastSuccessAt' = clock /\ pc' = "returned" /\ now' = now
      BY <1>2, <2>2 DEF FinishFetch, locals
    <3>2. now <= clock
      BY <2>2 DEF FinishFetch, SnapshotTimes, Stamped, Fetching
    <3>3. \A r \in whaleEvents : r.at <= clock
      <4>1. answeredAt \in Int /\ \A r \in whaleEvents : r.at \in Int
        BY <1>0 DEF RowsWereAnswered
      <4>2. QED BY <1>0, <4>1 DEF RowsWereAnswered
    <3>4. QED BY <1>0, <2>1, <3>1, <3>2, <3>3 DEF RowsWereAnswered, TypeOK
  <2>3. CASE SkipDisabled \/ FetchRaises(next)
    <3>1. UNCHANGED <<lastSuccessAt, events, answeredAt>> /\ pc \in {"idle", "deltas"}
      BY <1>2, <2>3 DEF SkipDisabled, FetchRaises, AtCoin, base, locals, reading
    <3>2. events' = {}
      BY <3>1 DEF RowsWereAnswered
    <3>3. QED BY <1>0, <2>1, <3>1, <3>2 DEF RowsWereAnswered
  <2>4. CASE StartFetch
    <3>1. UNCHANGED <<lastSuccessAt, events, answeredAt>> /\ pc = "idle" /\ pc' = "deltas"
      BY <1>2, <2>4 DEF StartFetch, base, reading
    <3>2. QED BY <2>1, <3>1 DEF RowsWereAnswered
  <2>5. ASSUME ~FinishFetch, ~SkipDisabled, ~StartFetch, ~FetchRaises(next)
        PROVE  RowsWereAnswered'
    <3>1. /\ lastSuccessAt' = lastSuccessAt /\ pc' \notin {"idle", "returned"}
          /\ pc' = "deltas" => pc = "deltas" /\ events' = events
      BY <2>1, <2>5 DEF Fetch, AskDeltas, DeltasOk, DeltasFail, FetchRaises, AtCoin, StartWallets,
         AskWallets, WalletRead, WalletFails, ReadPrices, UpdateSkew, base, locals, reading
    <3>2. QED BY <1>2, <2>1, <3>1 DEF RowsWereAnswered
  <2>6. QED BY <2>2, <2>3, <2>4, <2>5
<1>5. CASE Persist
  <2>1. /\ pc = "returned" /\ pc' = "idle" /\ events' = {} /\ answeredAt' = answeredAt
        /\ UNCHANGED <<clock, lastSuccessAt>> /\ whaleEvents' = WithEvents
    BY <1>2, <1>5 DEF Persist, Consume, ResetLocals, market, base
  <2>2. \A r \in whaleEvents' : r.at <= answeredAt
    BY <2>1, NewRows DEF RowsWereAnswered
  <2>3. QED BY <2>1, <2>2 DEF RowsWereAnswered
<1>6. CASE Notify
  BY <1>2, <1>6 DEF Notify, vars, world, market, base, locals, reading, tables, RowsWereAnswered
<1>7. CASE StorageFails
  <2>1. /\ pc = "returned" /\ UNCHANGED <<pc, events, now, clock, lastSuccessAt, answeredAt>>
        /\ whaleEvents' \in {whaleEvents, WithEvents}
    BY <1>2, <1>7, WhatStorageFailureLeaves DEF world, market, base, locals, reading
  <2>2. \A r \in whaleEvents' : r.at <= answeredAt
    BY <2>1, NewRows DEF RowsWereAnswered
  <2>3. QED BY <2>1, <2>2 DEF RowsWereAnswered
<1>8. CASE Restart
  <2>1. /\ pc' = "idle" /\ events' = {} /\ answeredAt' = answeredAt /\ lastSuccessAt' = Never
        /\ UNCHANGED <<clock, whaleEvents>>
    BY <1>2, <1>8 DEF Restart, ResetLocals, market, tables
  <2>2. QED BY <2>1 DEF RowsWereAnswered
<1>9. QED BY <1>3, <1>4, <1>5, <1>6, <1>7, <1>8 DEF IngestNext, Lives, PollLoop

LEMMA RowsWereAnsweredInvariant == DashSpec => []RowsWereAnswered
<1>1. DashInit => RowsWereAnswered
  BY DEF DashInit, IngestInit, Init, InitAdapter, RowsWereAnswered, Never
<1>2. IngestInv /\ SnapshotTimes /\ RowsWereAnswered /\ [DashNext]_dashVars => RowsWereAnswered'
  BY RowsWereAnsweredStep
<1>3. QED BY <1>1, <1>2, ServiceInvariant, PTL DEF DashSpec

\* A panel that is LIVE has a row within the window.
LEMMA LiveHasRecentRow ==
  ASSUME NEW c \in Coins, coin_status(c) = "LIVE"
  PROVE  \E r \in whaleEvents : r \in Panel(c) /\ r.at >= clock - Freshness
BY DEF coin_status, Panel, recent_events

\* When no fetch completed within the window, no panel and no source says LIVE, whether
\* the loop died, the source is disabled, the process was restarted or a poll is under
\* way (service.py:87-138).
THEOREM StaleIsNotLive == DashSpec => []NothingStaleIsLive
<1>1. IngestInv /\ RowsWereAnswered => NothingStaleIsLive
  <2> SUFFICES ASSUME IngestInv, RowsWereAnswered,
                      answeredAt = Never \/ clock - answeredAt > Freshness
               PROVE  source_status # "LIVE" /\ \A c \in Coins : coin_status(c) # "LIVE"
    BY DEF NothingStaleIsLive
  <2>0. /\ clock \in Int /\ answeredAt \in Int /\ Freshness \in Int
        /\ \A r \in whaleEvents : r.at \in Nat
    BY DashboardAssumption
       DEF IngestInv, IngestTypeOK, TypeOK, Times, RowsWereAnswered, Never, Freshness
  <2>1. source_status # "LIVE"
    BY <2>0, DashboardAssumption DEF RowsWereAnswered, source_status, Freshness
  <2>2. ASSUME NEW c \in Coins, coin_status(c) = "LIVE" PROVE FALSE
    <3>1. PICK r \in whaleEvents : r.at >= clock - Freshness
      BY <2>2, LiveHasRecentRow
    <3>2. r.at <= answeredAt /\ r.at \in Nat
      BY <2>0 DEF RowsWereAnswered
    <3>3. QED BY <2>0, <3>1, <3>2 DEF Never
  <2>3. QED BY <2>1, <2>2
<1>2. QED BY <1>1, ServiceInvariant, RowsWereAnsweredInvariant, PTL

\* Once a process has completed a poll, it shows no coin LIVE under a STALE source: the
\* window of the rows and the age of the source do not drift apart (service.py:59-62,
\* 125-132).
THEOREM NoLiveCoinUnderStaleSource == DashSpec => []LiveCoinsHaveFreshSource
<1>1. IngestInv /\ RowsWereAnswered => LiveCoinsHaveFreshSource
  <2> SUFFICES ASSUME IngestInv, RowsWereAnswered, lastSuccessAt # Never, source_status = "STALE",
                      NEW c \in Coins, coin_status(c) = "LIVE"
               PROVE  FALSE
    BY DEF LiveCoinsHaveFreshSource
  <2>1. PICK r \in whaleEvents : r.at >= clock - Freshness
    BY LiveHasRecentRow
  <2>2. lastSuccessAt = answeredAt /\ r.at <= answeredAt
    BY DEF RowsWereAnswered
  <2>3. clock - lastSuccessAt > Freshness
    BY DEF source_status, Freshness
  <2>4. clock \in Int /\ answeredAt \in Int /\ Freshness \in Int /\ r.at \in Int
    BY DashboardAssumption
       DEF IngestInv, IngestTypeOK, TypeOK, Times, RowsWereAnswered, Never, Freshness
  <2>5. QED BY <2>1, <2>2, <2>3, <2>4
<1>2. QED BY <1>1, ServiceInvariant, RowsWereAnsweredInvariant, PTL

-----------------------------------------------------------------------------
(* A LIVE panel leaves out no tracked wallet. *)

\* Where a process is restarted or loses its storage, the adapter's reading stays what it was.
LEMMA ReadSoFarKept ==
  ASSUME IngestInv, ReadSoFar, [IngestNext]_ingestVars
  PROVE  ReadSoFar'
<1>1. CASE [Next]_vars
  BY <1>1, ReadSoFarStep DEF IngestInv, IngestTypeOK, TypeInv
<1>2. CASE StorageFails
  <2>1. UNCHANGED <<pc, next, listed, toRead, confirmed, observed, active, coinStatus, lastError>>
    BY <1>2, WhatStorageFailureLeaves DEF base, locals, lists, reading
  <2>2. QED BY <2>1 DEF ReadSoFar, LiveMeansRead, Completed, Live
<1>3. CASE Restart
  BY <1>3 DEF Restart, ReadSoFar, LiveMeansRead, Completed
<1>4. QED BY <1>1, <1>2, <1>3, StepsOfTheAdapter

\* The requests for the deltas give every coin they pass a status, LIVE or ERROR.
LEMMA DeltasGiveStatus ==
  ASSUME TypeOK, PollIsComplete, AskDeltas, whaleEvents' = whaleEvents
  PROVE  PollIsComplete'
<1> PICK i \in 1..Len(WatchCoins) :
      \/ \E qualifying \in SUBSET Wallets : DeltasOk(i, qualifying)
      \/ DeltasFail(i)
      \/ FetchRaises(i)
  BY DEF AskDeltas
<1>1. pc = "deltas" /\ next = i /\ WatchCoins[i] \in Coins
      /\ \A j \in 1..Len(WatchCoins) : WatchCoins[j] \in Coins
  BY WatchedCoin DEF DeltasOk, DeltasFail, FetchRaises, AtCoin
<1>2. CASE FetchRaises(i)
  BY <1>2 DEF FetchRaises, PollIsComplete, Underway, Fetching, Completed
<1>3. ASSUME NEW qualifying \in SUBSET Wallets, DeltasOk(i, qualifying) \/ DeltasFail(i)
      PROVE  PollIsComplete'
  <2>1. pc' = "deltas" /\ next' = i + 1 /\ now' = now /\ observed' = observed
    BY <1>1, <1>3 DEF DeltasOk, DeltasFail, locals, reading
  <2>2. coinStatus'[WatchCoins[i]].state \in {"LIVE", "ERROR"}
    BY <1>1, <1>3 DEF DeltasOk, DeltasFail, MarkError, TypeOK
  <2>3. \A c \in Coins : c # WatchCoins[i] => coinStatus'[c] = coinStatus[c]
    BY <1>1, <1>3 DEF DeltasOk, DeltasFail, MarkError, TypeOK
  <2>4. ASSUME NEW j \in 1..Len(WatchCoins), j < next'
        PROVE  coinStatus'[WatchCoins[j]].state # "STALE"
    <3>1. CASE WatchCoins[j] = WatchCoins[i]
      BY <2>2, <3>1
    <3>2. CASE WatchCoins[j] # WatchCoins[i]
      <4>1. j < next
        BY <1>1, <2>1, <2>4, <3>2, WatchCoinsAssumption
      <4>2. QED BY <1>1, <2>3, <3>2, <4>1 DEF PollIsComplete
    <3>3. QED BY <3>1, <3>2
  <2>5. observed' = {} /\ \A r \in whaleEvents' : r.at <= now'
    BY <1>1, <2>1 DEF PollIsComplete, Underway, Fetching
  <2>6. QED BY <2>1, <2>4, <2>5 DEF PollIsComplete, Completed
<1>4. QED BY <1>2, <1>3

\* Whoever is read and found to hold the minimum gets an event with what he holds.
LEMMA WalletsGiveEvents ==
  ASSUME TypeOK, PollIsComplete, AskWallets, UNCHANGED <<whaleEvents, moved>>
  PROVE  PollIsComplete'
<1> PICK w \in Wallets : WalletRead(w) \/ WalletFails(w)
  BY DEF AskWallets
<1>1. /\ pc = "wallets" /\ pc' = "wallets" /\ UNCHANGED <<now, position>>
      /\ \A r \in whaleEvents : r.at <= now
      /\ \A c \in Coins : coinStatus[c].state # "STALE"
  BY DEF WalletRead, WalletFails, world, market, PollIsComplete, Underway, Fetching
<1>2. \A c \in Coins : coinStatus'[c].state # "STALE"
  BY <1>1 DEF WalletRead, WalletFails, MarkError, TypeOK
<1>3. ASSUME ~moved, NEW c \in Coins, NEW v \in Wallets, <<v, c>> \in observed', IsLarge(v, c)
      PROVE  \E e \in events' : e.holding = <<v, c>> /\ e.usd = position[<<v, c>>]
  <2>1. CASE <<v, c>> \in observed
    <3>1. \E e \in events : e.holding = <<v, c>> /\ e.usd = position[<<v, c>>]
      BY <1>1, <1>3, <2>1 DEF PollIsComplete, Underway, Fetching
    <3>2. events \subseteq events'
      BY DEF WalletRead, WalletFails, reading
    <3>3. QED BY <3>1, <3>2
  <2>2. CASE <<v, c>> \notin observed
    <3> DEFINE e == [holding |-> <<v, c>>, usd |-> position[<<v, c>>]]
    <3>1. WalletRead(w)
      BY <1>3, <2>2 DEF WalletFails, reading
    <3>2. v = w /\ c \in CoinsOf(w) /\ IsObserved(w, c)
      BY <1>3, <2>2, <3>1 DEF WalletRead
    <3>3. e \in events'
      BY <1>3, <3>1, <3>2 DEF WalletRead
    <3>4. e.holding = <<v, c>> /\ e.usd = position[<<v, c>>]
      OBVIOUS
    <3>5. QED BY <3>3, <3>4
  <2>3. QED BY <2>1, <2>2
<1>4. QED BY <1>1, <1>2, <1>3 DEF PollIsComplete, Underway, Fetching, Completed, IsLarge

LEMMA PollIsCompleteStep ==
  ASSUME IngestInv, RowsWereAnswered, PollIsComplete, [DashNext]_dashVars
  PROVE  PollIsComplete'
<1>0. /\ TypeOK /\ OneQueue /\ LocalsReset /\ EnabledWhilePolling
      /\ now \in Int /\ clock \in Int /\ answeredAt \in Int /\ \A r \in whaleEvents : r.at \in Int
  BY DEF IngestInv, IngestTypeOK, TypeOK, Times, RowsWereAnswered, Never
<1> USE DEF Underway, Fetching, Completed
<1>1. CASE UNCHANGED <<pc, next, now, observed, events, coinStatus, lastError, whaleEvents, position, moved>>
  BY <1>1 DEF PollIsComplete, IsLarge
<1>2. CASE UNCHANGED <<ingestVars, endedAt, history>>
  BY <1>1, <1>2 DEF ingestVars, vars, history, world, market, base, locals, reading, tables
<1> SUFFICES ASSUME Observes, IngestNext PROVE PollIsComplete'
  BY <1>2, StepsAreObserved
<1>3. /\ position' # position => moved'
      /\ position' = position /\ ~(pc = "idle" /\ pc' = "deltas") => moved' = moved
  BY DEF Observes
<1>4. CASE Market
  <2>1. UNCHANGED <<pc, next, now, observed, events, coinStatus, lastError, whaleEvents>>
    BY <1>4 DEF Market, Environment, Tick, Trade, base, locals, reading, tables
  <2>2. CASE position' = position
    BY <1>1, <1>3, <2>1, <2>2
  <2>3. CASE position' # position
    BY <1>3, <2>1, <2>3 DEF PollIsComplete
  <2>4. QED BY <2>2, <2>3
<1>5. CASE SafeFetch
  <2>1. UNCHANGED <<position, whaleEvents>> /\ Fetch
    BY <1>5 DEF SafeFetch, tables, Fetch, SkipDisabled, StartFetch, AskDeltas, DeltasOk, DeltasFail,
       FetchRaises, StartWallets, AskWallets, WalletRead, WalletFails, ReadPrices, UpdateSkew,
       FinishFetch, world, market
  <2>2. CASE SkipDisabled
    BY <1>0, <2>2 DEF SkipDisabled, EnabledWhilePolling, base, PollIsComplete
  <2>3. CASE StartFetch
    <3>1. pc = "idle" /\ pc' = "deltas" /\ next' = 1 /\ observed' = {} /\ now' = clock
      BY <1>0, <2>3 DEF StartFetch, LocalsReset, reading
    <3>2. \A r \in whaleEvents : r.at <= clock
      BY <1>0 DEF RowsWereAnswered
    <3>3. QED BY <2>1, <3>1, <3>2 DEF PollIsComplete
  <2>4. CASE AskDeltas
    BY <1>0, <2>1, <2>4, DeltasGiveStatus
  <2>5. CASE StartWallets
    <3>1. /\ pc = "deltas" /\ pc' = "wallets" /\ next > Len(WatchCoins)
          /\ UNCHANGED <<coinStatus, now, observed>>
      BY <2>5 DEF StartWallets, reading
    <3>2. \A j \in 1..Len(WatchCoins) : coinStatus[WatchCoins[j]].state # "STALE"
      BY <1>0, <3>1, WatchCoinsAssumption DEF PollIsComplete, TypeOK
    <3>3. \A c \in Coins : coinStatus[c].state # "STALE"
      BY <3>2 DEF Coins
    <3>4. QED BY <2>1, <3>1, <3>3 DEF PollIsComplete
  <2>6. CASE AskWallets
    <3>1. moved' = moved
      BY <1>3, <2>1, <2>6 DEF AskWallets, WalletRead, WalletFails
    <3>2. QED BY <1>0, <2>1, <2>6, <3>1, WalletsGiveEvents
  <2>7. CASE ReadPrices \/ \E i \in 1..Len(WatchCoins) : UpdateSkew(i)
    <3>1. /\ pc \in {"wallets", "skew"} /\ pc' = "skew"
          /\ UNCHANGED <<now, observed, events, coinStatus>>
      BY <2>7 DEF ReadPrices, UpdateSkew, AtCoin, locals, reading
    <3>2. moved' = moved
      BY <1>3, <2>1, <3>1
    <3>3. QED BY <2>1, <3>1, <3>2 DEF PollIsComplete, IsLarge
  <2>8. CASE FinishFetch
    <3>1. /\ pc = "skew" /\ pc' = "returned"
          /\ UNCHANGED <<now, observed, events, coinStatus>>
      BY <2>8 DEF FinishFetch, locals, reading
    <3>2. moved' = moved
      BY <1>3, <2>1, <3>1
    <3>3. QED BY <2>1, <3>1, <3>2 DEF PollIsComplete, IsLarge
  <2>9. QED BY <2>1, <2>2, <2>3, <2>4, <2>5, <2>6, <2>7, <2>8 DEF Fetch
<1>6. CASE Persist \/ Restart
  BY <1>6 DEF Persist, Consume, Restart, PollIsComplete
<1>7. CASE Notify
  <2>1. UNCHANGED <<pc, next, now, observed, events, coinStatus, lastError, whaleEvents, position>>
    BY <1>7 DEF Notify, vars, world, market, base, locals, reading, tables
  <2>2. QED BY <1>1, <1>3, <2>1
<1>8. CASE StorageFails
  <2>1. /\ pc = "returned" /\ UNCHANGED <<pc, next, now, observed, events, coinStatus, lastError, position>>
        /\ whaleEvents' \in {whaleEvents, WithEvents}
    BY <1>8, WhatStorageFailureLeaves DEF world, market, base, locals, reading
  <2>2. moved' = moved
    BY <1>3, <2>1
  <2>3. ASSUME Completed, NEW r \in whaleEvents' PROVE r.at <= now
    BY <1>0, <2>1, <2>3, NewRows DEF PollIsComplete
  <2>4. QED BY <2>1, <2>2, <2>3 DEF PollIsComplete, IsLarge
<1>9. QED BY <1>4, <1>5, <1>6, <1>7, <1>8 DEF IngestNext, Lives, PollLoop

\* Storing a poll that completed puts its events into the table.
LEMMA PersistCompletes ==
  ASSUME IngestInv, ReadSoFar, PollIsComplete, Persist, ~lastError, ~moved, position' = position,
         NEW c \in Coins, coinStatus[c].state # "ERROR"
  PROVE  \E t \in Times : RowsSince(c, t)'
<1>1. /\ pc = "returned" /\ active' = active /\ whaleEvents' = WithEvents /\ Completed /\ Underway
      /\ TypeOK
  BY DEF Persist, Consume, Completed, Underway, IngestInv, IngestTypeOK
<1>2. Live(c) /\ active[c] = {w \in Wallets : <<w, c>> \in observed}
  <2>1. coinStatus[c].state \in {"STALE", "LIVE", "ERROR"} /\ coinStatus[c].state # "STALE"
    BY <1>1 DEF TypeOK, PollIsComplete
  <2>2. Live(c)
    BY <2>1 DEF Live
  <2>3. QED BY <1>1, <2>2 DEF ReadSoFar, LiveMeansRead, Live
<1> SUFFICES ASSUME NEW t, t = now PROVE RowsSince(c, t)'
  BY <1>1 DEF TypeOK
<1>3. \A r \in whaleEvents' : r.at <= t
  BY <1>1, NewRows DEF PollIsComplete, IngestInv, IngestTypeOK, TypeOK, Times
<1>4. ASSUME NEW w \in active[c], IsLarge(w, c)
      PROVE  \E r \in whaleEvents' : r.holding = <<w, c>> /\ r.usd = position[<<w, c>>] /\ r.at = t
  <2>1. PICK e \in events : e.holding = <<w, c>> /\ e.usd = position[<<w, c>>]
    BY <1>1, <1>2, <1>4 DEF PollIsComplete
  <2> DEFINE r == [holding |-> e.holding, usd |-> e.usd, at |-> now]
  <2>2. r \in whaleEvents'
    BY <1>1 DEF WithEvents
  <2>3. r.holding = <<w, c>> /\ r.usd = position[<<w, c>>] /\ r.at = t
    BY <2>1
  <2>4. QED BY <2>2, <2>3
<1>5. QED BY <1>1, <1>3, <1>4 DEF RowsSince, IsLarge

LEMMA TableIsCompleteStep ==
  ASSUME IngestInv, ReadSoFar, PollIsComplete, TableIsComplete, [DashNext]_dashVars
  PROVE  TableIsComplete'
<1>1. ASSUME UNCHANGED <<pc, lastError, lastSuccessAt, moved, coinStatus, whaleEvents, active, position>>
      PROVE  TableIsComplete'
  BY <1>1 DEF TableIsComplete, RowsSince, IsLarge
<1>2. CASE UNCHANGED <<ingestVars, endedAt, history>>
  BY <1>1, <1>2 DEF ingestVars, vars, history, world, market, base, tables
<1> SUFFICES ASSUME Observes, IngestNext, pc' = "idle", ~lastError', ~moved' PROVE TableIsComplete'
  BY <1>2, StepsAreObserved DEF TableIsComplete
<1>3. position' = position /\ moved' = moved
  BY DEF Observes
<1>4. CASE Market \/ Notify
  <2>1. UNCHANGED <<pc, lastError, lastSuccessAt, coinStatus, whaleEvents, active>>
    BY <1>4 DEF Market, Environment, Tick, Trade, Notify, vars, base, tables
  <2>2. QED BY <1>1, <1>3, <2>1
<1>5. ~SafeFetch
  BY DEF SafeFetch, Fetch, SkipDisabled, StartFetch, AskDeltas, DeltasOk, DeltasFail, FetchRaises,
     AtCoin, StartWallets, AskWallets, WalletRead, WalletFails, ReadPrices, UpdateSkew, FinishFetch
<1>6. CASE Persist
  <2>1. UNCHANGED <<lastError, coinStatus>>
    BY <1>6 DEF Persist, Consume, base
  <2>2. ASSUME NEW c \in Coins, coinStatus'[c].state # "ERROR"
        PROVE  \E t \in Times : RowsSince(c, t)'
    BY <1>3, <1>6, <2>1, <2>2, PersistCompletes
  <2>3. Times' = Times
    BY DEF Times
  <2>4. QED BY <2>2, <2>3 DEF TableIsComplete
<1>7. ~StorageFails
  BY WhatStorageFailureLeaves
<1>8. CASE Restart
  BY <1>8 DEF Restart, TableIsComplete
<1>9. QED BY <1>4, <1>5, <1>6, <1>7, <1>8 DEF IngestNext, Lives, PollLoop

LEMMA TableIsCompleteInvariant == DashSpec => []TableIsComplete
<1>1. DashInit => ReadSoFar /\ PollIsComplete /\ TableIsComplete
  BY DEF DashInit, IngestInit, Init, InitAdapter, ReadSoFar, LiveMeansRead, PollIsComplete, Underway,
     Fetching, Completed, TableIsComplete
<1>2. IngestInv /\ ReadSoFar /\ [DashNext]_dashVars => ReadSoFar'
  <2>1. [DashNext]_dashVars => [IngestNext]_ingestVars
    BY DEF DashNext, Serves, Restarts, IngestNext, dashVars
  <2>2. QED BY <2>1, ReadSoFarKept
<1>3. IngestInv /\ RowsWereAnswered /\ PollIsComplete /\ [DashNext]_dashVars => PollIsComplete'
  BY PollIsCompleteStep
<1>4. IngestInv /\ ReadSoFar /\ PollIsComplete /\ TableIsComplete /\ [DashNext]_dashVars
        => TableIsComplete'
  BY TableIsCompleteStep
<1>5. QED BY <1>1, <1>2, <1>3, <1>4, ServiceInvariant, RowsWereAnsweredInvariant, PTL DEF DashSpec

\* A panel that says LIVE between two polls leaves out no tracked wallet: if nobody
\* traded since the poll began, everyone holding the minimum is on it, with what he
\* holds now (service.py:66-77, storage.py:138-148, hyperdash.py:155-189).
THEOREM LivePanelShowsAll == DashSpec => []LivePanelIsComplete
<1>1. IngestInv /\ TableIsComplete => LivePanelIsComplete
  <2> SUFFICES ASSUME IngestInv, TableIsComplete, Settled, ~moved,
                      NEW c \in Coins, coin_status(c) = "LIVE", NEW w \in active[c], IsLarge(w, c)
               PROVE  \E r \in Panel(c) : r.holding = <<w, c>> /\ r.usd = position[<<w, c>>]
    BY DEF LivePanelIsComplete
  <2>1. PICK t \in Times : RowsSince(c, t)
    BY DEF TableIsComplete, Settled, Busy, coin_status
  <2>2. PICK r \in whaleEvents : r.holding = <<w, c>> /\ r.usd = position[<<w, c>>] /\ r.at = t
    BY <2>1 DEF RowsSince
  <2>3. t >= clock - Freshness
    <3>1. PICK q \in whaleEvents : q.at >= clock - Freshness
      BY LiveHasRecentRow
    <3>2. q.at <= t
      BY <2>1 DEF RowsSince
    <3>3. q.at \in Int /\ t \in Int /\ clock \in Int /\ Freshness \in Int
      BY DashboardAssumption DEF IngestInv, IngestTypeOK, TypeOK, Times, Freshness
    <3>4. QED BY <3>1, <3>2, <3>3
  <2>4. r \in Panel(c)
    BY <2>2, <2>3 DEF Panel, recent_events
  <2>5. QED BY <2>2, <2>4
<1>2. QED BY <1>1, ServiceInvariant, TableIsCompleteInvariant, PTL

-----------------------------------------------------------------------------
(* The shares of a LIVE panel are those its zone was decided by. *)

AllRows == [holding : Holdings, usd : Exposures, at : Times]
Amount  == [r \in AllRows |-> Abs(r.usd)]

LongRows(rows)  == {r \in rows : r.usd > 0}
ShortRows(rows) == {r \in rows : r.usd < 0}

\* The rows of c that the running poll will store.
RowsToCome(c) ==
  {[holding |-> e.holding, usd |-> e.usd, at |-> now] : e \in {e \in events : e.holding[2] = c}}

EveryoneSeenHasEvent(c) == \A w \in Seen(c) : \E e \in events : e.holding = <<w, c>>

\* Where everyone seen holds the minimum, the sums of a poll are those of its rows.
EventsAddUp ==
  /\ IsFiniteSet(events)
  /\ pc = "wallets" => \A e \in events : e.holding[1] \notin toRead
  /\ pc \in {"wallets", "skew"} \/ Completed => \A c \in Coins : EveryoneSeenHasEvent(c) =>
       /\ longUsd[c] = SumOver(Amount, LongRows(RowsToCome(c)))
       /\ shortUsd[c] = SumOver(Amount, ShortRows(RowsToCome(c)))

\* A poll is later than every row stored before it, and the LIVE coins have its time.
PollIsDated ==
  /\ endedAt \in Times \union {Never}
  /\ ~Busy => \A r \in whaleEvents : r.at <= endedAt
  /\ alive /\ Underway => \A r \in whaleEvents : r.at < now
  /\ pc = "deltas" => \A j \in 1..Len(WatchCoins) :
       j < next /\ Live(WatchCoins[j]) => coinStatus[WatchCoins[j]].at = now
  /\ pc \in {"wallets", "skew"} \/ Completed => \A c \in Coins : Live(c) => coinStatus[c].at = now

RowsAt(c, t) == {r \in whaleEvents : r.holding[2] = c /\ r.at = t}

\* The zone of c agrees with the sums l and s.
ZoneFits(c, l, s) ==
  /\ zones[c] = "long_dominant"  => ~Below70(l, l + s)
  /\ zones[c] = "short_dominant" => ~Below70(s, l + s)
  /\ Above75(l, l + s) /\ zones[c] # "long_dominant"
       => lastAlert[c] = [zone |-> "short_dominant", direction |-> "exit"]
  /\ Above75(s, l + s) /\ zones[c] # "short_dominant"
       => lastAlert[c] = [zone |-> "long_dominant", direction |-> "exit"]

ZoneFitsRows(c, rows) ==
  /\ IsFiniteSet(rows)
  /\ (\A w \in active[c] : \E r \in rows : r.holding = <<w, c>>) =>
       ZoneFits(c, SumOver(Amount, LongRows(rows)), SumOver(Amount, ShortRows(rows)))

\* After a poll that completed, the zone of a LIVE coin agrees with the rows of its time,
\* if everyone tracked for it is among them.
TableFitsZones ==
  alive /\ pc = "idle" /\ ~lastError /\ lastSuccessAt # Never =>
    \A c \in Coins : /\ coinStatus[c].state # "STALE"
                     /\ Live(c) => ZoneFitsRows(c, RowsAt(c, coinStatus[c].at))

LEMMA AmountType == Amount \in [AllRows -> Nat]
<1>1. \A r \in AllRows : r.usd \in Int
  BY ExposuresAssumption DEF AllRows
<1>2. \A r \in AllRows : Abs(r.usd) \in Nat
  BY <1>1 DEF Abs
<1>3. QED BY <1>2 DEF Amount

\* The totals of a panel are sums in the sense of SumOver.
LEMMA TotalsOfRows ==
  ASSUME NEW rows \in SUBSET AllRows, IsFiniteSet(rows)
  PROVE  /\ SideTotal(rows, 1) = SumOver(Amount, LongRows(rows))
         /\ SideTotal(rows, -1) = SumOver(Amount, ShortRows(rows))
<1> DEFINE Total(S) == MapThenSumSet(LAMBDA r : Abs(r.usd), S)
<1>0. \A r \in AllRows : r.usd \in Int
  BY ExposuresAssumption DEF AllRows
<1>1. LongRows(rows) = {r \in rows : r.usd * 1 > 0} /\ ShortRows(rows) = {r \in rows : r.usd * (-1) > 0}
  BY <1>0 DEF LongRows, ShortRows
<1>2. ASSUME NEW S \in SUBSET rows
      PROVE  Total(S) = SumOver(Amount, S)
  <2> DEFINE IsTotal(g) == g = [s \in SUBSET S |-> IF s = {} THEN 0 ELSE
               Abs(Pick(s).usd) + g[s \ {Pick(s)}]]
  <2>1. Total(S) = (CHOOSE g : IsTotal(g))[S]
    BY DEF MapThenSumSet, MapThenFoldSet, Pick
  <2>2. \A s \in SUBSET S : s # {} => Pick(s) \in AllRows
    BY PickIsIn
  <2>3. \A g : IsTotal(g) <=> IsSum(g, Amount, S)
    BY <2>2 DEF IsSum, Amount
  <2> HIDE DEF IsTotal, Total
  <2>4. S \in SUBSET AllRows /\ IsFiniteSet(S)
    BY FS_Subset
  <2>5. PICK g : IsSum(g, Amount, S) /\ SumOver(Amount, S) = g[S]
    BY <2>4, AmountType, SumExists, SumIsOne
  <2>6. IsSum(CHOOSE h : IsTotal(h), Amount, S)
    BY <2>3, <2>5
  <2>7. (CHOOSE h : IsTotal(h))[S] = g[S]
    BY <2>4, <2>5, <2>6, SumsAgree
  <2>8. QED BY <2>1, <2>5, <2>7
<1>3. LongRows(rows) \in SUBSET rows /\ ShortRows(rows) \in SUBSET rows
  BY DEF LongRows, ShortRows
<1>4. /\ SideTotal(rows, 1) = Total(LongRows(rows))
      /\ SideTotal(rows, -1) = Total(ShortRows(rows))
  BY <1>1 DEF SideTotal
<1> HIDE DEF Total
<1>5. QED BY <1>2, <1>3, <1>4

\* A restart or a loss of storage changes neither the sums nor the zones of a poll.
LEMMA SumsSoFarKept ==
  ASSUME IngestInv, SumsSoFar, [IngestNext]_ingestVars
  PROVE  SumsSoFar'
<1>1. CASE [Next]_vars
  BY <1>1, SumsSoFarStep DEF IngestInv, IngestTypeOK, TypeInv
<1>2. CASE StorageFails
  <2>1. UNCHANGED <<pc, active, observed, confirmed, toRead, longUsd, shortUsd, position, traded>>
    BY <1>2, WhatStorageFailureLeaves DEF world, market, ghosts, locals, reading
  <2>2. QED BY <2>1 DEF SumsSoFar, Seen, Longs, Shorts
<1>3. CASE Restart
  <2>1. /\ pc' = "idle" /\ observed' = {} /\ confirmed' = {} /\ ~traded'
        /\ \A c \in Coins : active'[c] = {} /\ longUsd'[c] = 0 /\ shortUsd'[c] = 0
    BY <1>3 DEF Restart, ResetLocals
  <2>2. \A c \in Coins : Seen(c)' = {}
    BY <2>1 DEF Seen
  <2>3. QED BY <2>1, <2>2, FS_EmptySet DEF SumsSoFar
<1>4. QED BY <1>1, <1>2, <1>3, StepsOfTheAdapter

LEMMA SampledAgreeKept ==
  ASSUME IngestInv, ZoneAnnounced, SampledAgree, [IngestNext]_ingestVars
  PROVE  SampledAgree'
<1>1. CASE [Next]_vars
  BY <1>1, SampledAgreeStep DEF IngestInv, IngestTypeOK, TypeInv
<1>2. CASE StorageFails
  <2>1. UNCHANGED <<pc, next, zones, lastAlert, longUsd, shortUsd, lastError>>
    BY <1>2, WhatStorageFailureLeaves DEF base, locals, reading
  <2>2. QED BY <2>1 DEF SampledAgree, ZonesFollowSamples, Completed, ZoneAgrees
<1>3. CASE Restart
  BY <1>3 DEF Restart, SampledAgree, ZonesFollowSamples, Completed
<1>4. QED BY <1>1, <1>2, <1>3, StepsOfTheAdapter

\* The requests for the deltas date every coin they leave LIVE.
LEMMA DeltasDate ==
  ASSUME TypeOK, AskDeltas,
         \A j \in 1..Len(WatchCoins) :
           j < next /\ Live(WatchCoins[j]) => coinStatus[WatchCoins[j]].at = now
  PROVE  /\ ~Completed'
         /\ pc' = "deltas" => \A j \in 1..Len(WatchCoins) :
              j < next' /\ Live(WatchCoins[j])' => coinStatus'[WatchCoins[j]].at = now'
<1> PICK i \in 1..Len(WatchCoins) :
      \/ \E qualifying \in SUBSET Wallets : DeltasOk(i, qualifying)
      \/ DeltasFail(i)
      \/ FetchRaises(i)
  BY DEF AskDeltas
<1>1. next = i /\ WatchCoins[i] \in Coins /\ \A j \in 1..Len(WatchCoins) : WatchCoins[j] \in Coins
  BY WatchedCoin DEF DeltasOk, DeltasFail, FetchRaises, AtCoin
<1>2. CASE FetchRaises(i)
  BY <1>2 DEF FetchRaises, Completed
<1>3. ASSUME NEW qualifying \in SUBSET Wallets, DeltasOk(i, qualifying) \/ DeltasFail(i)
      PROVE  /\ ~Completed'
             /\ \A j \in 1..Len(WatchCoins) :
                  j < next' /\ Live(WatchCoins[j])' => coinStatus'[WatchCoins[j]].at = now'
  <2>1. pc' = "deltas" /\ next' = i + 1 /\ now' = now
    BY <1>3 DEF DeltasOk, DeltasFail, AtCoin, locals
  <2>2. Live(WatchCoins[i])' => coinStatus'[WatchCoins[i]].at = now
    BY <1>1, <1>3 DEF DeltasOk, DeltasFail, MarkError, Live, TypeOK
  <2>3. \A c \in Coins : c # WatchCoins[i] => coinStatus'[c] = coinStatus[c]
    BY <1>1, <1>3 DEF DeltasOk, DeltasFail, MarkError, TypeOK
  <2>4. ASSUME NEW j \in 1..Len(WatchCoins), j < next', Live(WatchCoins[j])'
        PROVE  coinStatus'[WatchCoins[j]].at = now'
    <3>1. CASE WatchCoins[j] = WatchCoins[i]
      BY <2>1, <2>2, <2>4, <3>1 DEF Live
    <3>2. CASE WatchCoins[j] # WatchCoins[i]
      <4>1. j < next /\ Live(WatchCoins[j]) /\ coinStatus'[WatchCoins[j]] = coinStatus[WatchCoins[j]]
        BY <1>1, <2>1, <2>3, <2>4, <3>2, WatchCoinsAssumption DEF Live
      <4>2. QED BY <2>1, <4>1
    <3>3. QED BY <3>1, <3>2
  <2>5. QED BY <2>1, <2>4 DEF Completed
<1>4. QED BY <1>2, <1>3

\* What a fetch does to the times; its rows are stored only later.
LEMMA FetchIsDated ==
  ASSUME IngestInv, PollIsDated, SafeFetch, Waits
  PROVE  PollIsDated'
<1>a. /\ TypeOK /\ OneQueue /\ LocalsReset /\ EnabledWhilePolling
      /\ clock \in Int /\ now \in Int /\ endedAt \in Int /\ \A r \in whaleEvents : r.at \in Int
  BY DEF IngestInv, IngestTypeOK, TypeOK, Times, Never, PollIsDated
<1>b. alive' = alive /\ UNCHANGED <<whaleEvents, toNotify>> /\ toNotify = <<>> /\ Fetch
  BY DEF SafeFetch, tables
<1>c. clock' = clock
  BY <1>b DEF Fetch, SkipDisabled, StartFetch, AskDeltas, DeltasOk, DeltasFail, FetchRaises,
     StartWallets, AskWallets, WalletRead, WalletFails, ReadPrices, UpdateSkew, FinishFetch,
     world, market
<1>0. /\ TypeOK /\ OneQueue /\ LocalsReset /\ EnabledWhilePolling /\ alive' = alive
      /\ UNCHANGED <<clock, whaleEvents, toNotify>> /\ toNotify = <<>> /\ Fetch
      /\ clock \in Int /\ now \in Int /\ endedAt \in Int /\ \A r \in whaleEvents : r.at \in Int
  BY <1>a, <1>b, <1>c
<1>1. Busy'
  BY <1>0 DEF Busy, Fetch, SkipDisabled, StartFetch, AskDeltas, DeltasOk, DeltasFail,
     FetchRaises, AtCoin, StartWallets, AskWallets, WalletRead, WalletFails, ReadPrices, UpdateSkew,
     FinishFetch
<1>2. endedAt' = endedAt
  BY <1>1 DEF Waits
<1>3. ASSUME AskWallets, NEW c \in Coins, Live(c)'
      PROVE  coinStatus'[c] = coinStatus[c] /\ Live(c)
  <2>1. PICK w \in Wallets : WalletRead(w) \/ WalletFails(w)
    BY <1>3 DEF AskWallets
  <2>2. CASE WalletRead(w)
    BY <1>3, <2>2 DEF WalletRead, Live
  <2>3. CASE WalletFails(w)
    <3>1. coinStatus'[c] = IF c \in CoinsOf(w) THEN [coinStatus[c] EXCEPT !.state = "ERROR"]
                                               ELSE coinStatus[c]
      BY <2>3 DEF WalletFails, MarkError
    <3>2. QED BY <1>0, <1>3, <3>1 DEF Live, TypeOK
  <2>4. QED BY <2>1, <2>2, <2>3
<1> USE DEF PollIsDated, Underway, Fetching, Completed
<1>4. CASE StartFetch
  <2>1. pc = "idle" /\ pc' = "deltas" /\ next' = 1 /\ now' = clock /\ ~Busy
    BY <1>0, <1>4 DEF StartFetch, LocalsReset, Busy
  <2>2. clock > endedAt
    BY <1>1, <2>1 DEF Waits, Rested
  <2>3. \A r \in whaleEvents : r.at < now'
    BY <1>0, <2>1, <2>2
  <2>4. QED BY <1>0, <1>1, <1>2, <2>1, <2>3
<1>5. CASE SkipDisabled
  BY <1>0, <1>1, <1>2, <1>5 DEF SkipDisabled, EnabledWhilePolling, base
<1>6. CASE AskDeltas
  <2>1. pc = "deltas" /\ pc' \in {"deltas", "returned"} /\ now' = now
    BY <1>6 DEF AskDeltas, DeltasOk, DeltasFail, FetchRaises, AtCoin, locals
  <2>2. /\ ~Completed'
        /\ pc' = "deltas" => \A j \in 1..Len(WatchCoins) :
             j < next' /\ Live(WatchCoins[j])' => coinStatus'[WatchCoins[j]].at = now'
    BY <1>0, <1>6, <2>1, DeltasDate
  <2>3. QED BY <1>0, <1>1, <1>2, <2>1, <2>2
<1>7. CASE StartWallets
  <2>1. pc = "deltas" /\ pc' = "wallets" /\ next > Len(WatchCoins) /\ UNCHANGED <<coinStatus, now>>
    BY <1>7 DEF StartWallets
  <2>2. \A j \in 1..Len(WatchCoins) : Live(WatchCoins[j]) => coinStatus[WatchCoins[j]].at = now
    BY <1>0, <2>1, WatchCoinsAssumption DEF TypeOK
  <2>3. \A c \in Coins : Live(c) => coinStatus[c].at = now
    BY <2>2 DEF Coins
  <2>4. QED BY <1>0, <1>1, <1>2, <2>1, <2>3 DEF Live
<1>8. CASE AskWallets
  <2>1. pc = "wallets" /\ pc' = "wallets" /\ now' = now
    BY <1>8 DEF AskWallets, WalletRead, WalletFails
  <2>2. QED BY <1>0, <1>1, <1>2, <1>3, <1>8, <2>1
<1>9. CASE ReadPrices \/ FinishFetch \/ \E i \in 1..Len(WatchCoins) : UpdateSkew(i)
  <2>1. pc \in {"wallets", "skew"} /\ pc' \in {"skew", "returned"} /\ UNCHANGED <<coinStatus, now>>
    BY <1>9 DEF ReadPrices, UpdateSkew, FinishFetch, AtCoin, locals
  <2>2. QED BY <1>0, <1>1, <1>2, <2>1 DEF Live
<1>10. QED BY <1>0, <1>4, <1>5, <1>6, <1>7, <1>8, <1>9 DEF Fetch

LEMMA PollIsDatedStep ==
  ASSUME IngestInv, RowsWereAnswered, PollIsDated, [DashNext]_dashVars, RowsWereAnswered', IngestInv'
  PROVE  PollIsDated'
<1>0. /\ clock \in Times /\ clock' \in Times /\ Times \subseteq Int /\ Never \in Int /\ Times' = Times
      /\ \A r \in whaleEvents' : r.at \in Int
  BY DEF IngestInv, IngestTypeOK, TypeOK, Times, Never
<1>1. CASE UNCHANGED <<ingestVars, endedAt, history>>
  BY <1>1 DEF ingestVars, vars, world, market, base, locals, tables, PollIsDated, Busy, Underway,
     Fetching, Completed, Live
<1> SUFFICES ASSUME Waits, Observes, IngestNext PROVE PollIsDated'
  BY <1>1 DEF DashNext, Serves, Restarts, IngestNext, dashVars
<1>2. ASSUME ~Busy', Busy PROVE endedAt' = clock /\ \A r \in whaleEvents' : r.at <= clock'
  <2>1. endedAt' = clock
    BY <1>2 DEF Waits
  <2>2. answeredAt' <= clock' /\ answeredAt' \in Int /\ \A r \in whaleEvents' : r.at <= answeredAt'
    BY <1>0 DEF RowsWereAnswered
  <2>3. QED BY <1>0, <2>1, <2>2
<1> USE DEF PollIsDated, Underway, Fetching, Completed
<1>3. CASE Market \/ Notify
  <2>1. UNCHANGED <<pc, next, now, alive, lastError, coinStatus, whaleEvents>>
    BY <1>3 DEF Market, Environment, Tick, Trade, Notify, vars, base, locals, tables
  <2>2. clock' = clock \/ (toNotify' = toNotify)
    BY <1>3 DEF Market, Notify, vars, world, market
  <2>3. endedAt' \in Times \union {Never} /\ (~Busy' => \A r \in whaleEvents' : r.at <= endedAt')
    BY <1>0, <1>2, <2>1, <2>2 DEF Waits, Busy
  <2>4. QED BY <1>0, <2>1, <2>3 DEF Live
<1>4. CASE SafeFetch
  BY <1>4, FetchIsDated
<1>5. CASE Persist \/ Restart
  <2>1. pc' = "idle" /\ clock' = clock
    BY <1>5 DEF Persist, Consume, Restart, market
  <2>2. endedAt' \in Times \union {Never}
    BY <1>0 DEF Waits
  <2>3. ASSUME ~Busy' PROVE \A r \in whaleEvents' : r.at <= endedAt'
    <3>1. CASE Busy
      BY <1>2, <2>1, <2>3, <3>1
    <3>2. CASE ~Busy
      <4>1. Restart /\ UNCHANGED whaleEvents /\ endedAt' = endedAt
        BY <1>5, <3>2 DEF Persist, Consume, Restart, Busy, tables, Waits
      <4>2. QED BY <3>2, <4>1
    <3>3. QED BY <3>1, <3>2
  <2>4. QED BY <1>0, <2>1, <2>2, <2>3
<1>6. CASE StorageFails
  <2>1. pc' = "returned" /\ alive' = FALSE /\ UNCHANGED <<now, lastError, coinStatus>>
    BY <1>6, WhatStorageFailureLeaves DEF base, locals
  <2>2. Busy' /\ endedAt' = endedAt
    BY <2>1 DEF Busy, Waits
  <2>3. UNCHANGED pc
    BY <1>6, WhatStorageFailureLeaves
  <2>4. QED BY <1>0, <2>1, <2>2, <2>3 DEF Live
<1>7. QED BY <1>3, <1>4, <1>5, <1>6 DEF IngestNext, Lives, PollLoop

LEMMA ImageIsFinite ==
  ASSUME NEW S, IsFiniteSet(S), NEW f
  PROVE  IsFiniteSet({f[x] : x \in S})
<1> DEFINE T == {f[x] : x \in S}
           g == [x \in S |-> f[x]]
<1>1. g \in Surjection(S, T)
  BY DEF Surjection
<1> HIDE DEF g, T
<1>2. IsFiniteSet(T)
  BY <1>1, FS_Surjection
<1>3. QED BY <1>2 DEF T

LEMMA CoinsAreFinite == IsFiniteSet(Coins)
<1>1. IsFiniteSet(1..Len(WatchCoins))
  BY WatchCoinsAssumption, FS_Interval
<1>2. IsFiniteSet({WatchCoins[i] : i \in 1..Len(WatchCoins)})
  BY <1>1, ImageIsFinite
<1>3. QED BY <1>2 DEF Coins

\* The rows of the running poll are finitely many rows of the table.
LEMMA RowsToComeType ==
  ASSUME TypeOK, IsFiniteSet(events), NEW c \in Coins
  PROVE  /\ RowsToCome(c) \in SUBSET AllRows /\ IsFiniteSet(RowsToCome(c))
         /\ LongRows(RowsToCome(c)) \in SUBSET AllRows /\ IsFiniteSet(LongRows(RowsToCome(c)))
         /\ ShortRows(RowsToCome(c)) \in SUBSET AllRows /\ IsFiniteSet(ShortRows(RowsToCome(c)))
<1> DEFINE Row(e) == [holding |-> e.holding, usd |-> e.usd, at |-> now]
           E == {e \in events : e.holding[2] = c}
<1>1. \A e \in events : Row(e) \in AllRows
  BY DEF TypeOK, AllRows
<1>2. RowsToCome(c) = {Row(e) : e \in E}
  BY DEF RowsToCome
<1>3. IsFiniteSet(E)
  BY FS_Subset
<1>4. IsFiniteSet({Row(e) : e \in E})
  <2> DEFINE f == [e \in E |-> Row(e)]
  <2>1. IsFiniteSet({f[e] : e \in E})
    <3> HIDE DEF E, f
    <3> QED BY <1>3, ImageIsFinite
  <2>2. {f[e] : e \in E} = {Row(e) : e \in E}
    OBVIOUS
  <2>3. QED BY <2>1, <2>2
<1>5. RowsToCome(c) \in SUBSET AllRows /\ IsFiniteSet(RowsToCome(c))
  BY <1>1, <1>2, <1>4
<1>6. /\ LongRows(RowsToCome(c)) \in SUBSET RowsToCome(c)
      /\ ShortRows(RowsToCome(c)) \in SUBSET RowsToCome(c)
  BY DEF LongRows, ShortRows
<1>7. QED BY <1>5, <1>6, FS_Subset

\* A wallet that is read adds at most one row to a coin, and if it is seen there, what it
\* adds to the sum is that row or it has no event.
LEMMA ReadAddsRow ==
  ASSUME TypeOK, EventsAddUp, SumsSoFar, NEW w \in Wallets, WalletRead(w),
         NEW c \in Coins, EveryoneSeenHasEvent(c)'
  PROVE  /\ longUsd'[c] = SumOver(Amount, LongRows(RowsToCome(c)))'
         /\ shortUsd'[c] = SumOver(Amount, ShortRows(RowsToCome(c)))'
<1> DEFINE seen == {d \in CoinsOf(w) : IsObserved(w, d)}
           p == position[<<w, c>>]
           new == [holding |-> <<w, c>>, usd |-> p]
           row == [holding |-> <<w, c>>, usd |-> p, at |-> now]
           Old == RowsToCome(c)
<1>1. /\ pc = "wallets" /\ w \in toRead /\ now' = now
      /\ observed' = observed \union {<<w, d>> : d \in seen}
      /\ events' = events \union {[holding |-> <<w, d>>, usd |-> position[<<w, d>>]] :
                                    d \in {d \in seen : IsLarge(w, d)}}
  BY DEF WalletRead
<1>2. /\ longUsd'[c] = IF c \in seen /\ p > 0 THEN longUsd[c] + p ELSE longUsd[c]
      /\ shortUsd'[c] = IF c \in seen /\ p < 0 THEN shortUsd[c] - p ELSE shortUsd[c]
      /\ p \in Int /\ p \in Exposures /\ longUsd[c] \in Nat /\ shortUsd[c] \in Nat
  BY ExposuresAssumption DEF WalletRead, TypeOK, Holdings
<1>3. ASSUME NEW e \in events', e \notin events, e.holding[2] = c
      PROVE  e = new /\ c \in seen /\ IsLarge(w, c)
  <2>1. PICK d \in seen : IsLarge(w, d) /\ e = [holding |-> <<w, d>>, usd |-> position[<<w, d>>]]
    BY <1>1, <1>3
  <2>2. e.holding = <<w, d>>
    BY <2>1
  <2>3. d = c
    BY <1>3, <2>2
  <2>4. QED BY <2>1, <2>3
<1>4. \A e \in events : e.holding # <<w, c>>
  BY <1>1 DEF EventsAddUp
<1>5. EveryoneSeenHasEvent(c)
  <2> SUFFICES ASSUME NEW v \in Seen(c) PROVE \E e \in events : e.holding = <<v, c>>
    BY DEF EveryoneSeenHasEvent
  <2>1. v \in Seen(c)' /\ v # w
    BY <1>1 DEF Seen, SumsSoFar
  <2>2. PICK e \in events' : e.holding = <<v, c>>
    BY <2>1 DEF EveryoneSeenHasEvent
  <2>3. e.holding[2] = c /\ e.holding # <<w, c>>
    BY <2>1, <2>2
  <2>4. e \in events
    <3> SUFFICES ASSUME e \notin events PROVE FALSE
      OBVIOUS
    <3>1. e = new
      BY <1>3, <2>3
    <3>2. QED BY <2>3, <3>1
  <2>5. QED BY <2>2, <2>4
<1>6. longUsd[c] = SumOver(Amount, LongRows(Old)) /\ shortUsd[c] = SumOver(Amount, ShortRows(Old))
  BY <1>1, <1>5 DEF EventsAddUp
<1>7. CASE c \notin seen
  <2>1. {e \in events' : e.holding[2] = c} = {e \in events : e.holding[2] = c}
    <3>1. events \subseteq events'
      BY <1>1
    <3>2. QED BY <1>3, <1>7, <3>1
  <2>2. RowsToCome(c)' = Old
    BY <1>1, <2>1 DEF RowsToCome
  <2> HIDE DEF seen, Old, p
  <2>3. QED BY <1>2, <1>6, <1>7, <2>2
<1>8. CASE c \in seen
  <2>1. IsLarge(w, c)
    <3>1. w \in Seen(c)'
      BY <1>1, <1>8 DEF Seen
    <3>2. PICK e \in events' : e.holding = <<w, c>>
      BY <3>1 DEF EveryoneSeenHasEvent
    <3>3. QED BY <1>3, <1>4, <3>2
  <2>2. {e \in events' : e.holding[2] = c} = {e \in events : e.holding[2] = c} \union {new}
    <3>1. events \subseteq events' /\ new \in events' /\ new.holding[2] = c
      BY <1>1, <1>8, <2>1
    <3>2. QED BY <1>3, <3>1
  <2>3. RowsToCome(c)' = Old \union {row}
    <3>1. \A x : x \in RowsToCome(c)' <=>
            \E e \in {e \in events : e.holding[2] = c} \union {new} :
              x = [holding |-> e.holding, usd |-> e.usd, at |-> now]
      BY <1>1, <2>2 DEF RowsToCome
    <3>2. row = [holding |-> new.holding, usd |-> new.usd, at |-> now]
      OBVIOUS
    <3>3. \A x : x \in Old <=>
            \E e \in {e \in events : e.holding[2] = c} :
              x = [holding |-> e.holding, usd |-> e.usd, at |-> now]
      BY DEF RowsToCome
    <3> HIDE DEF new, row, Old
    <3>4. QED BY <3>1, <3>2, <3>3
  <2>4. row \in AllRows /\ row \notin Old /\ row.usd = p /\ Amount[row] = Abs(p)
    <3>1. row \in AllRows /\ row.usd = p /\ row.holding = <<w, c>>
      BY <1>2 DEF AllRows, TypeOK, Holdings
    <3>2. \A r \in Old : r.holding # <<w, c>>
      BY <1>4 DEF RowsToCome
    <3>3. row \notin Old
      BY <3>1, <3>2
    <3>4. Amount[row] = Abs(row.usd)
      BY <3>1 DEF Amount
    <3> HIDE DEF row, p, Old
    <3>5. QED BY <3>1, <3>3, <3>4
  <2>5. /\ LongRows(Old) \in SUBSET AllRows /\ IsFiniteSet(LongRows(Old))
        /\ ShortRows(Old) \in SUBSET AllRows /\ IsFiniteSet(ShortRows(Old))
        /\ row \notin LongRows(Old) /\ row \notin ShortRows(Old)
    BY <2>4, RowsToComeType DEF EventsAddUp, LongRows, ShortRows
  <2>6. p # 0
    BY <1>8 DEF IsObserved
  <2> HIDE DEF row, p, Old, seen, new
  <2>7. /\ LongRows(Old \union {row}) = IF p > 0 THEN LongRows(Old) \union {row} ELSE LongRows(Old)
        /\ ShortRows(Old \union {row}) = IF p < 0 THEN ShortRows(Old) \union {row} ELSE ShortRows(Old)
    BY <2>4 DEF LongRows, ShortRows
  <2>8. /\ SumOver(Amount, LongRows(Old) \union {row}) = Abs(p) + SumOver(Amount, LongRows(Old))
        /\ SumOver(Amount, ShortRows(Old) \union {row}) = Abs(p) + SumOver(Amount, ShortRows(Old))
    BY <2>4, <2>5, AmountType, SumWith
  <2>9. /\ longUsd'[c] = IF p > 0 THEN longUsd[c] + p ELSE longUsd[c]
        /\ shortUsd'[c] = IF p < 0 THEN shortUsd[c] - p ELSE shortUsd[c]
    BY <1>2, <1>8
  <2>10. /\ longUsd'[c] = SumOver(Amount, LongRows(Old \union {row}))
         /\ shortUsd'[c] = SumOver(Amount, ShortRows(Old \union {row}))
    <3>1. CASE p > 0
      <4>1. Abs(p) = p /\ ~(p < 0)
        BY <1>2, <3>1 DEF Abs
      <4>2. longUsd'[c] = Abs(p) + longUsd[c] /\ shortUsd'[c] = shortUsd[c]
        BY <1>2, <2>9, <3>1, <4>1
      <4>3. /\ LongRows(Old \union {row}) = LongRows(Old) \union {row}
            /\ ShortRows(Old \union {row}) = ShortRows(Old)
        BY <2>7, <3>1, <4>1
      <4>4. QED BY <1>6, <2>8, <4>2, <4>3
    <3>2. CASE p < 0
      <4>1. Abs(p) = -p /\ ~(p > 0)
        BY <1>2, <3>2 DEF Abs
      <4>2. longUsd'[c] = longUsd[c] /\ shortUsd'[c] = Abs(p) + shortUsd[c]
        BY <1>2, <2>9, <3>2, <4>1
      <4>3. /\ LongRows(Old \union {row}) = LongRows(Old)
            /\ ShortRows(Old \union {row}) = ShortRows(Old) \union {row}
        BY <2>7, <3>2, <4>1
      <4>4. QED BY <1>6, <2>8, <4>2, <4>3
    <3>3. QED BY <1>2, <2>6, <3>1, <3>2
  <2>11. QED BY <2>3, <2>10
<1>9. QED BY <1>7, <1>8

LEMMA EventsStayFinite ==
  ASSUME IsFiniteSet(events), NEW w \in Wallets, WalletRead(w)
  PROVE  IsFiniteSet(events')
<1> DEFINE New == {c \in CoinsOf(w) : IsObserved(w, c) /\ IsLarge(w, c)}
           f == [c \in Coins |-> [holding |-> <<w, c>>, usd |-> position[<<w, c>>]]]
<1>1. events' = events \union {f[c] : c \in New}
  BY DEF WalletRead, CoinsOf
<1>2. IsFiniteSet(New)
  BY CoinsAreFinite, FS_Subset DEF CoinsOf
<1> HIDE DEF New, f
<1>3. IsFiniteSet({f[c] : c \in New})
  BY <1>2, ImageIsFinite
<1>4. QED BY <1>1, <1>3, FS_Union

LEMMA EventsAddUpStep ==
  ASSUME IngestInv, RowsWereAnswered, SumsSoFar, EventsAddUp, [IngestNext]_ingestVars
  PROVE  EventsAddUp'
<1>0. TypeOK /\ EnabledWhilePolling
  BY DEF IngestInv, IngestTypeOK
<1>1. ASSUME UNCHANGED <<events, now, observed, longUsd, shortUsd>>,
             pc' = "wallets" => pc = "wallets" /\ toRead' \subseteq toRead,
             pc' \in {"wallets", "skew"} \/ Completed' => pc \in {"wallets", "skew"} \/ Completed
      PROVE  EventsAddUp'
  <2>1. \A c \in Coins : /\ EveryoneSeenHasEvent(c)' <=> EveryoneSeenHasEvent(c)
                         /\ RowsToCome(c)' = RowsToCome(c)
    BY <1>1 DEF EveryoneSeenHasEvent, Seen, RowsToCome
  <2>2. QED BY <1>1, <2>1 DEF EventsAddUp
<1>2. CASE Market \/ Notify \/ UNCHANGED ingestVars
  <2>1. UNCHANGED <<events, now, observed, longUsd, shortUsd, pc, toRead, lastError>>
    BY <1>2 DEF Market, Environment, Tick, Trade, Notify, ingestVars, vars, base, locals, reading
  <2>2. QED BY <1>1, <2>1 DEF Completed
<1>3. CASE StorageFails
  <2>1. UNCHANGED <<events, now, observed, longUsd, shortUsd, pc, toRead, lastError>>
    BY <1>3, WhatStorageFailureLeaves DEF base, locals, reading
  <2>2. QED BY <1>1, <2>1 DEF Completed
<1>4. CASE Persist \/ Restart
  <2>1. pc' = "idle" /\ events' = {}
    BY <1>4 DEF Persist, Consume, Restart, ResetLocals
  <2>2. QED BY <2>1, FS_EmptySet DEF EventsAddUp, Completed
<1>5. CASE SkipDisabled \/ StartFetch \/ AskDeltas
  <2>1. pc' \in {"deltas", "returned"} /\ events' = events /\ ~Completed'
    BY <1>0, <1>5 DEF SkipDisabled, StartFetch, AskDeltas, DeltasOk, DeltasFail, FetchRaises, AtCoin,
       EnabledWhilePolling, Completed, base, locals, reading
  <2>2. QED BY <2>1 DEF EventsAddUp
<1>6. CASE StartWallets
  <2>1. /\ pc = "deltas" /\ pc' = "wallets"
        /\ UNCHANGED <<events, longUsd, shortUsd>>
    BY <1>6 DEF StartWallets, reading
  <2>2. events' = {} /\ \A c \in Coins : longUsd'[c] = 0 /\ shortUsd'[c] = 0
    BY <2>1 DEF RowsWereAnswered, SumsSoFar
  <2>3. \A c \in Coins : LongRows(RowsToCome(c)') = {} /\ ShortRows(RowsToCome(c)') = {}
    BY <2>2 DEF RowsToCome, LongRows, ShortRows
  <2>4. SumOver(Amount, {}) = 0
    BY AmountType, SumOfNone
  <2>5. QED BY <2>1, <2>2, <2>3, <2>4, FS_EmptySet DEF EventsAddUp, Completed
<1>7. CASE \E w \in Wallets : WalletRead(w)
  <2>1. PICK w \in Wallets : WalletRead(w)
    BY <1>7
  <2>2. pc = "wallets" /\ pc' = "wallets" /\ w \in toRead /\ toRead' = toRead \ {w}
    BY <2>1 DEF WalletRead
  <2>3. ASSUME NEW e \in events' PROVE e.holding[1] \notin toRead'
    <3>1. CASE e \in events
      BY <2>2, <3>1 DEF EventsAddUp
    <3>2. CASE e \notin events
      <4>1. PICK c \in Coins : e = [holding |-> <<w, c>>, usd |-> position[<<w, c>>]]
        BY <2>1, <2>3, <3>2 DEF WalletRead, CoinsOf
      <4>2. QED BY <2>2, <4>1
    <3>3. QED BY <3>1, <3>2
  <2>4. IsFiniteSet(events')
    BY <2>1, EventsStayFinite DEF EventsAddUp
  <2>5. ASSUME NEW c \in Coins, EveryoneSeenHasEvent(c)'
        PROVE  /\ longUsd'[c] = SumOver(Amount, LongRows(RowsToCome(c)))'
               /\ shortUsd'[c] = SumOver(Amount, ShortRows(RowsToCome(c)))'
    BY <1>0, <2>1, <2>5, ReadAddsRow
  <2>6. QED BY <2>2, <2>3, <2>4, <2>5 DEF EventsAddUp
<1>8. CASE \E w \in Wallets : WalletFails(w)
  <2>1. /\ pc = "wallets" /\ pc' = "wallets" /\ toRead' \subseteq toRead
        /\ UNCHANGED <<events, now, observed, longUsd, shortUsd>>
    BY <1>8 DEF WalletFails, reading
  <2>2. QED BY <1>1, <2>1
<1>9. CASE ReadPrices \/ FinishFetch \/ \E i \in 1..Len(WatchCoins) : UpdateSkew(i)
  <2>1. /\ pc \in {"wallets", "skew"} /\ pc' \in {"skew", "returned"}
        /\ UNCHANGED <<events, now, observed, longUsd, shortUsd>>
    BY <1>9 DEF ReadPrices, UpdateSkew, FinishFetch, AtCoin, locals, reading
  <2>2. QED BY <1>1, <2>1
<1>10. QED BY <1>2, <1>3, <1>4, <1>5, <1>6, <1>7, <1>8, <1>9
           DEF IngestNext, Lives, PollLoop, SafeFetch, Fetch, AskWallets

\* When a poll that completed is stored, the rows with the time of a LIVE coin are those
\* of this poll, and the sums it moved the zone by are their sums.
LEMMA PersistFits ==
  ASSUME IngestInv, ReadSoFar, SampledAgree, PollIsComplete, EventsAddUp, PollIsDated,
         Persist, ~lastError, NEW c \in Coins
  PROVE  /\ coinStatus[c].state # "STALE"
         /\ Live(c) => ZoneFitsRows(c, RowsAt(c, coinStatus[c].at))'
<1>1. /\ alive /\ pc = "returned" /\ Completed /\ Underway /\ whaleEvents' = WithEvents
      /\ UNCHANGED <<active, coinStatus, zones, lastAlert>>
  BY DEF Persist, Consume, Completed, Underway
<1>2. TypeOK /\ coinStatus[c].state # "STALE"
  BY <1>1 DEF PollIsComplete, IngestInv, IngestTypeOK
<1> SUFFICES ASSUME Live(c) PROVE ZoneFitsRows(c, RowsAt(c, coinStatus[c].at))'
  BY <1>2
<1>3. coinStatus'[c].at = now /\ active'[c] = Seen(c)
  BY <1>1 DEF PollIsDated, ReadSoFar, LiveMeansRead, Live, Seen
<1> PICK R : R = RowsToCome(c)
  OBVIOUS
<1>4. {r \in whaleEvents' : r.holding[2] = c /\ r.at = now} = R
  <2>1. ASSUME NEW r \in whaleEvents', r.holding[2] = c, r.at = now PROVE r \in R
    <3>1. r \notin whaleEvents
      <4>1. now \in Int /\ \A q \in whaleEvents : q.at < now
        BY <1>1, <1>2 DEF PollIsDated, TypeOK, Times
      <4>2. QED BY <2>1, <4>1
    <3>2. PICK e \in events : r = [holding |-> e.holding, usd |-> e.usd, at |-> now]
      BY <1>1, <3>1 DEF WithEvents
    <3>3. e.holding[2] = c
      BY <2>1, <3>2
    <3>4. QED BY <3>2, <3>3 DEF RowsToCome
  <2>2. ASSUME NEW r \in R PROVE r \in whaleEvents' /\ r.holding[2] = c /\ r.at = now
    BY <1>1, <2>2 DEF RowsToCome, WithEvents
  <2>3. QED BY <2>1, <2>2
<1>5. RowsAt(c, coinStatus[c].at)' = R
  BY <1>3, <1>4 DEF RowsAt
<1>6. IsFiniteSet(R)
  BY <1>2, RowsToComeType DEF EventsAddUp
<1>7. ASSUME \A w \in active'[c] : \E r \in R : r.holding = <<w, c>>
      PROVE  ZoneFits(c, SumOver(Amount, LongRows(R)), SumOver(Amount, ShortRows(R)))'
  <2>1. EveryoneSeenHasEvent(c)
    <3> SUFFICES ASSUME NEW w \in Seen(c) PROVE \E e \in events : e.holding = <<w, c>>
      BY DEF EveryoneSeenHasEvent
    <3>1. PICK r \in R : r.holding = <<w, c>>
      BY <1>3, <1>7
    <3>2. PICK e \in events : r = [holding |-> e.holding, usd |-> e.usd, at |-> now]
      BY <3>1 DEF RowsToCome
    <3>3. QED BY <3>1, <3>2
  <2>2. longUsd[c] = SumOver(Amount, LongRows(R)) /\ shortUsd[c] = SumOver(Amount, ShortRows(R))
    BY <1>1, <2>1 DEF EventsAddUp
  <2>3. ZoneAgrees(c)
    BY <1>1 DEF SampledAgree, ZonesFollowSamples
  <2> PICK l, s : l = SumOver(Amount, LongRows(R)) /\ s = SumOver(Amount, ShortRows(R))
    OBVIOUS
  <2>4. ZoneFits(c, l, s)
    BY <2>2, <2>3 DEF ZoneAgrees, ZoneFits
  <2>5. ZoneFits(c, l, s)'
    BY <1>1, <2>4 DEF ZoneFits
  <2>6. QED BY <2>5
<1>8. ZoneFitsRows(c, R)'
  BY <1>6, <1>7 DEF ZoneFitsRows
<1>9. QED BY <1>5, <1>8

LEMMA TableFitsZonesStep ==
  ASSUME IngestInv, ReadSoFar, SampledAgree, PollIsComplete, EventsAddUp, PollIsDated,
         TableFitsZones, [IngestNext]_ingestVars
  PROVE  TableFitsZones'
<1> SUFFICES ASSUME alive', pc' = "idle", ~lastError', lastSuccessAt' # Never, NEW c \in Coins
             PROVE  /\ coinStatus'[c].state # "STALE"
                    /\ Live(c)' => ZoneFitsRows(c, RowsAt(c, coinStatus[c].at))'
  BY DEF TableFitsZones
<1>1. CASE Market \/ Notify \/ UNCHANGED ingestVars
  <2>1. UNCHANGED <<alive, pc, lastError, lastSuccessAt, coinStatus, active, whaleEvents, zones, lastAlert>>
    BY <1>1 DEF Market, Environment, Tick, Trade, Notify, ingestVars, vars, base, skew, tables
  <2>2. /\ coinStatus[c].state # "STALE"
        /\ Live(c) => ZoneFitsRows(c, RowsAt(c, coinStatus[c].at))
    BY <2>1 DEF TableFitsZones
  <2>3. RowsAt(c, coinStatus[c].at)' = RowsAt(c, coinStatus[c].at)
    BY <2>1 DEF RowsAt
  <2>4. QED BY <2>1, <2>2, <2>3 DEF Live, ZoneFitsRows, ZoneFits
<1>2. ~SafeFetch
  BY DEF SafeFetch, Fetch, SkipDisabled, StartFetch, AskDeltas, DeltasOk, DeltasFail, FetchRaises,
     AtCoin, StartWallets, AskWallets, WalletRead, WalletFails, ReadPrices, UpdateSkew, FinishFetch
<1>3. CASE Persist
  <2>1. UNCHANGED <<lastError, coinStatus>>
    BY <1>3 DEF Persist, Consume, base
  <2>2. QED BY <1>3, <2>1, PersistFits DEF Live
<1>4. ~StorageFails /\ ~Restart
  BY WhatStorageFailureLeaves DEF Restart
<1>5. QED BY <1>1, <1>2, <1>3, <1>4 DEF IngestNext, Lives, PollLoop

LEMMA TableFitsZonesInvariant == DashSpec => []TableFitsZones
<1>1. DashInit => /\ ReadSoFar /\ ZoneAnnounced /\ SampledAgree /\ SumsSoFar
                  /\ PollIsComplete /\ EventsAddUp /\ PollIsDated /\ TableFitsZones
  <2> SUFFICES ASSUME InitAdapter, whaleEvents = {}, endedAt = Never
               PROVE  /\ ReadSoFar /\ ZoneAnnounced /\ SampledAgree /\ SumsSoFar
                      /\ PollIsComplete /\ EventsAddUp /\ PollIsDated /\ TableFitsZones
    BY DEF DashInit, IngestInit, Init
  <2>1. \A c \in Coins : Seen(c) = {} /\ active[c] = {}
    BY DEF InitAdapter, Seen
  <2>2. SumsSoFar /\ EventsAddUp
    BY <2>1, FS_EmptySet DEF InitAdapter, SumsSoFar, EventsAddUp, Completed
  <2>3. QED BY <2>2 DEF InitAdapter, ReadSoFar, LiveMeansRead, ZoneAnnounced, Quiet, SampledAgree,
               ZonesFollowSamples, PollIsComplete, PollIsDated, Underway, Fetching, Completed,
               TableFitsZones
<1>2. [DashNext]_dashVars => [IngestNext]_ingestVars
  BY DEF DashNext, Serves, Restarts, IngestNext, dashVars
<1>3. IngestInv /\ ZoneAnnounced /\ [IngestNext]_ingestVars => ZoneAnnounced'
  BY ZoneAnnouncedKept DEF IngestInv, IngestTypeOK, TypeInv
<1>4. IngestInv /\ ReadSoFar /\ [IngestNext]_ingestVars => ReadSoFar'
  BY ReadSoFarKept
<1>5. IngestInv /\ ZoneAnnounced /\ SampledAgree /\ [IngestNext]_ingestVars => SampledAgree'
  BY SampledAgreeKept
<1>6. IngestInv /\ SumsSoFar /\ [IngestNext]_ingestVars => SumsSoFar'
  BY SumsSoFarKept
<1>7. IngestInv /\ RowsWereAnswered /\ PollIsComplete /\ [DashNext]_dashVars => PollIsComplete'
  BY PollIsCompleteStep
<1>8. IngestInv /\ RowsWereAnswered /\ SumsSoFar /\ EventsAddUp /\ [IngestNext]_ingestVars
        => EventsAddUp'
  BY EventsAddUpStep
<1>9. IngestInv /\ RowsWereAnswered /\ PollIsDated /\ [DashNext]_dashVars
        /\ RowsWereAnswered' /\ IngestInv' => PollIsDated'
  BY PollIsDatedStep
<1>10. IngestInv /\ ReadSoFar /\ SampledAgree /\ PollIsComplete /\ EventsAddUp /\ PollIsDated
         /\ TableFitsZones /\ [IngestNext]_ingestVars => TableFitsZones'
  BY TableFitsZonesStep
<1>11. QED BY <1>1, <1>2, <1>3, <1>4, <1>5, <1>6, <1>7, <1>8, <1>9, <1>10,
              ServiceInvariant, RowsWereAnsweredInvariant, PTL DEF DashSpec

\* formatting.py:68-69, as far as it goes: when the rows of a LIVE panel all come from
\* the latest poll and every tracked wallet is among them, the shares it shows are
\* those the zone of the coin was decided by.
THEOREM PanelShowsItsZone == DashSpec => []PanelAgreesWithZone
<1>1. IngestInv /\ TableFitsZones => PanelAgreesWithZone
  <2> SUFFICES ASSUME IngestInv, TableFitsZones, NEW c \in Coins,
                      Settled, coin_status(c) = "LIVE",
                      \A r \in Panel(c) : r.at = coinStatus[c].at,
                      \A w \in active[c] : \E r \in Panel(c) : r.holding = <<w, c>>,
                      NEW s, s = coin_skew(c)
               PROVE  /\ zones[c] = "long_dominant" => ~Below70(s.long, s.whole)
                      /\ zones[c] = "short_dominant" => ~Below70(s.short, s.whole)
                      /\ zones[c] = "neutral" /\ Above75(s.long, s.whole)
                           => lastAlert[c] = [zone |-> "short_dominant", direction |-> "exit"]
                      /\ zones[c] = "neutral" /\ Above75(s.short, s.whole)
                           => lastAlert[c] = [zone |-> "long_dominant", direction |-> "exit"]
    BY DEF PanelAgreesWithZone
  <2>1. TypeOK /\ whaleEvents \subseteq AllRows
    BY DEF IngestInv, IngestTypeOK, AllRows
  <2>2. Live(c) /\ ZoneFitsRows(c, RowsAt(c, coinStatus[c].at))
    <3>1. coinStatus[c].state # "ERROR"
      BY DEF coin_status
    <3>2. coinStatus[c].state # "STALE" /\ (Live(c) => ZoneFitsRows(c, RowsAt(c, coinStatus[c].at)))
      BY DEF TableFitsZones, Settled, Busy
    <3>3. coinStatus[c].state \in {"STALE", "LIVE", "ERROR"}
      BY <2>1 DEF TypeOK
    <3>4. QED BY <3>1, <3>2, <3>3 DEF Live
  <2>3. Panel(c) = RowsAt(c, coinStatus[c].at)
    <3>1. PICK q \in whaleEvents : q \in Panel(c) /\ q.at >= clock - Freshness
      BY LiveHasRecentRow
    <3>2. coinStatus[c].at >= clock - Freshness
      BY <3>1
    <3>3. QED BY <3>2 DEF Panel, recent_events, RowsAt
  <2> PICK R : R = Panel(c)
    OBVIOUS
  <2> PICK l, h : l = SumOver(Amount, LongRows(R)) /\ h = SumOver(Amount, ShortRows(R))
    OBVIOUS
  <2>4. IsFiniteSet(R) /\ ZoneFits(c, l, h)
    BY <2>2, <2>3 DEF ZoneFitsRows
  <2>5. R \in SUBSET AllRows
    BY <2>1 DEF Panel, recent_events
  <2>6. l \in Nat /\ h \in Nat
    <3>1. LongRows(R) \in SUBSET R /\ ShortRows(R) \in SUBSET R
      BY DEF LongRows, ShortRows
    <3>2. QED BY <2>4, <2>5, <3>1, AmountType, FS_Subset, SumType
  <2>7. s = compute_skew(l, h)
    BY <2>4, <2>5, TotalsOfRows DEF coin_skew
  <2>8. CASE l + h <= 0
    <3>1. s.long = 0 /\ s.short = 0 /\ s.whole = 1 /\ l = 0 /\ h = 0
      BY <2>6, <2>7, <2>8 DEF compute_skew
    <3>2. QED BY <2>4, <3>1 DEF ZoneFits, Below70, Above75
  <2>9. CASE l + h > 0
    <3>1. s.long = l /\ s.short = h /\ s.whole = l + h
      BY <2>6, <2>7, <2>9 DEF compute_skew
    <3>2. QED BY <2>4, <3>1 DEF ZoneFits
  <2>10. QED BY <2>6, <2>8, <2>9
<1>2. QED BY <1>1, ServiceInvariant, TableFitsZonesInvariant, PTL
=============================================================================
