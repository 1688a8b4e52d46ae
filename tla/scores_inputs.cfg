SPECIFICATION Spec
CONSTANTS
  None = None
  Symbols = {}
  ProximityPct = 20
  Price = 10
  Prices = {7, 8, 9, 10, 11, 12, 13}
  RsiValues = {0, 20, 50, 100}
  Histograms <- FallingOrRising
  Middles = {9, 12}
  Widths = {0, 1, 3}
  Notionals = {0, 1, 3}
  Companions <- SomeScores
  MaxBuckets = 3
  Closes = {8, 9, 10, 11, 12}
  Wicks = {0, 1}
  MaxWicked = 1
  MaxCandles = 5
  EMA_PERIOD = 2
  RSI_PERIOD = 2
  MACD_FAST = 2
  MACD_SLOW = 3
  MACD_SIGNAL = 2
  BOLLINGER_PERIOD = 3
  ATR_PERIOD = 2
INVARIANTS ScoresAreBounded WeightedLiesBetween MirrorNegates MissingIsNotNeutral OnlyNearBucketsCount CloserPullsHarder LargestClustersAreNamed
  IndicatorsMirror SteadyTrendHasNoMomentum AveragesStayWithin AtrCoversTravel
CHECK_DEADLOCK FALSE
