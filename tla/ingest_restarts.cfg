SPECIFICATION DashSpec
CONSTANTS
  btc = btc
  w1 = w1
  w2 = w2
  WatchCoins <- OneCoin
  Wallets = {w1, w2}
  Exposures <- EverySide
  MinPositionUsd = 3
  MaxConsecutiveFailures = 2
  SnapshotInterval = 1
  MaxClock = 3
  Retention = 1
  MaxRestarts = 1
  PollInterval = 1
  MaxTrades = 1
SYMMETRY WalletSymmetry
INVARIANTS HistoryIsBounded TrackedWasRecorded NoDominanceIsSilent
  LivePanelIsComplete PanelAgreesWithZone NothingStaleIsLive LiveCoinsHaveFreshSource
PROPERTIES PruneOnlyExpired
CHECK_DEADLOCK FALSE
