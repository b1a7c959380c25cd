CONSTANTS
  Bars <- MCBars
  N = 3
  Spacings = {1, 5}
  InitialCapital = 64
  Leverage = 2
  Maintenance = 10
  Penalty = 1
  FundingPct = 10
  Interval = 2
  StopLoss = 25
  TakeProfit = 25
  IntrabarPath = TRUE
  SizePct = 50
  Costs = {0, 1}
  Commissions = {1, 2}
  CheckInterval = 1
  MaxLossPct = 30
SPECIFICATION Spec
INVARIANTS MoneyAddsUp FundingOncePerPeriod
PROPERTY StopsWereTradable
