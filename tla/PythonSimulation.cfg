CONSTANTS
  BTC = "BTC"
  Futures = {}
  Options = {"CALL"}
  Multiplier <- MCMultiplier
  Leverage = 2
  InitialBalance = 64
  Prices = {16, 32}
  Quantities = {1}
  FeePerLot = 1
  MaxLots = 20
  MaxFills = 50
  MaxOrderSize = 3
  MaxPosition = 4
  MaxDrawdown = 60
  MaxDailyLoss = 60
  Signals <- MCSignals
  MaxSignals = 4
  MaxTicks = 3
  Volumes = {1, 2}
  Latency = 1
  AdverseSelection = FALSE
  SizePct = 50
  Slippage = 2
  Penalty = 2
  Maintenance = 20
  Expiry = 3
SPECIFICATION SimSpec
INVARIANT DueOrdersWaitForVolume
PROPERTY MarginCallsAreNotMissed
