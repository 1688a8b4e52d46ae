SPECIFICATION Spec
CONSTANTS
  None = None
  btc = btc
  eth = eth
  dashboard = dashboard
  run = run
  ProximityPct = 20
  Readings <- TwoReadings
  Symbols = {btc}
  Pollers = {run}
  LastCandle = 2
  Answers <- OneAnswer
  MaxHeatmaps = 1
  MaxDecisions = 2
INVARIANTS RowsAreFinal
