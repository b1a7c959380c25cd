CONSTANTS
  ShortData = 12
  BarsPerWindow = 5
  Folds = 4
  TestFolds = 2
  PurgeBars = 5
  Low = Low
  Medium = Medium
  High = High
  Unknown = Unknown
  Jobs <- MCJobs
  MinBars = 10
  LookaheadBars = 20
  CpcvBars = 20
  None = None
SPECIFICATION Spec
INVARIANTS WindowsAreIndependent  BandsDescribeTheShownAnalysis PassHidesOnlyTheSearch
