SPECIFICATION Spec
CONSTANTS
  hyperdash = hyperdash
  btc = btc
  eth = eth
  sol = sol
  AdapterLoops = {hyperdash}
  SymbolLoops = {btc, eth, sol}
INVARIANTS LoopsAreCancelled
CHECK_DEADLOCK FALSE
