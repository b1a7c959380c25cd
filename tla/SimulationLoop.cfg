CONSTANTS
  Prices = {1, 2}
  TradeSizes = {1, 2}
  Batches <- MCBatches
  Latency = 1
  MaxSkip = 2
  MaxTicks = 3
SPECIFICATION Spec
INVARIANTS  NoOverfill
CHECK_DEADLOCK FALSE
