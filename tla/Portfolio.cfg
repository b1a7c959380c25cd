CONSTANTS
  BTC = "BTC"
  Futures = {"PERP"}
  Options = {"CALL"}
  Multiplier <- MCMultiplier
  Leverage = 2
  InitialBalance = 64
  Prices = {16, 32}
  Quantities = {1, 2}
  FeePerLot = 1
  MaxLots = 2
  MaxFills = 4
SPECIFICATION Spec
INVARIANTS MarginIsItsShare
PROPERTY CashAddsUp
