CONSTANTS
  Analyses <- MCAnalyses
  Outcomes <- MCOutcomes
  Pending = Pending
  Failed = Failed
  UserConfigs <- MCUserConfigs
  OtherMetrics <- MCOtherMetrics
  PositionCap = 20
  DailyLossCap = 10
  LeverageCap = 3
  MinDays = 4
  AdminThreshold = 250
  MultiSigThreshold = 1000
  CapitalLossThreshold = 50
  DrawdownThreshold = 15
  None = None
SPECIFICATION Spec
INVARIANTS TestedIsUnseen ApprovedIsEarned
CHECK_DEADLOCK FALSE
