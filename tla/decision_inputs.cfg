SPECIFICATION Spec
CONSTANTS
  None = None
  btc = btc
  eth = eth
  dashboard = dashboard
  run = run
  ProximityPct = 20
  Readings <- TwoReadings
  Symbols = {btc}
  Pollers = {dashboard, run}
  LastCandle = 2
  Answers <- SomeAnswers
  MaxHeatmaps = 2
  MaxDecisions = 2
SYMMETRY PollerSymmetry
INVARIANTS TypeOK InputsKeepUp DecisionsAreReproducible
PROPERTIES LatestNeverGoesBack
