SPECIFICATION FairLifetimeSpec
CONSTANTS
  btc = btc
  eth = eth
  w1 = w1
  WatchCoins <- RepeatedCoin
  Wallets = {w1}
  Exposures <- Shifting
  MinPositionUsd = 3
  MaxConsecutiveFailures = 2
  SnapshotInterval = 2
  MaxClock = 2
  Retention = 3
  MaxRestarts = 0
INVARIANTS IngestTypeOK Announced SnapshotsAreSpaced
PROPERTIES ReaderSeesAlternation AnnouncementsArrive ReaderLearnsTheTruth
