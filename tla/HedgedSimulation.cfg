CONSTANTS
  Engines = {"pair", "basket"}
  Bars <- MCBars
  Ratios <- MCRatios
  Fixed <- MCFixed
  Window = 2
  MaxTicks = 3
  Capital = 64
  SizePct = 50
  MaxNetPct = 50
  Leverage = 2
  Maintenance = 10
  Penalty = 1
  Slippage = 7
  Fee = 5
  ClassOf <- MCClasses
  Paths <- MCPaths
  Unit = 4
  Lookback = 1
  Holding = 1
  RegimeWindow = 2
  GrossPct = 400
  HighPct = 50
  MediumPct = 100
SPECIFICATION MCSpec
INVARIANTS  OnlyLabelsAndExitsLookAhead
