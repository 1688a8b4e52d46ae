SPECIFICATION Spec
CONSTANTS
  btc = btc
  eth = eth
  w1 = w1
  w2 = w2
  WatchCoins <- RepeatedCoin
  Wallets = {w1, w2}
  Exposures <- BandExposures
  MinPositionUsd = 3
  MaxConsecutiveFailures = 2
  SnapshotInterval = 1
  MaxClock = 1
SYMMETRY WalletSymmetry
INVARIANTS TypeOK ZonesFollowSamples
PROPERTIES DropOnlyWhenFlat LiveAlertsAreWarranted AlertsAlternate
