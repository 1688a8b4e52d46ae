SPECIFICATION FairSpec
CONSTANTS
  hyperdash = hyperdash
  btc = btc
  eth = eth
  sol = sol
  AdapterLoops = {hyperdash}
  SymbolLoops = {btc, eth, sol}
INVARIANTS NoneOutlivesItsConnection ClosedUnlessFailed
PROPERTIES ShutdownEnds
CHECK_DEADLOCK FALSE
