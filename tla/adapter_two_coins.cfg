SPECIFICATION Spec
CONSTANTS
  btc = btc
  eth = eth
  w1 = w1
  w2 = w2
  WatchCoins <- TwoCoins
  Wallets = {w1, w2}
  Exposures <- LongOrFlat
  MinPositionUsd = 3
  MaxConsecutiveFailures = 2
  SnapshotInterval = 1
  MaxClock = 0
SYMMETRY WalletSymmetry
INVARIANTS LiveMeansRead
PROPERTIES LiveAlertsAreWarranted
