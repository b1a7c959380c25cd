CONSTANTS
  BTC = "BTC"
  Futures = {}
  Options = {}
  Multiplier <- MCMultiplier
  Leverage = 1
  InitialBalance = 64
  Prices = {16, 32}
  Quantities = {1, 2}
  FeePerLot = 1
  MaxLots = 2
  MaxFills = 4
SPECIFICATION Spec
PROPERTY ClosingKeepsValue
