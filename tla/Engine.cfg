CONSTANTS
  Capital = 16
  MinTrades = 3
  NumRuns = 4
  BlockRuns = 2
  TailPart = 2
  MinBlock = 3
  None = None
  Sources <- MCSources
  Settings <- MCSettings
  Outcomes <- MCOutcomes
  Threshold = 120
  Day = 4
  Venues = {"near", "dear", "slow"}
  Snapshots <- MCSnapshots
  Parents <- MCParents
  Profiles <- MCProfiles
  MaxVenues = 2
  MinAllocation = 40
  MinProfit = 0
  MaxAge = 1
  NoLimit = NoLimit
  NoVenue = NoVenue
  PoolTypes = {"concentrated", "constant", "stable"}
  Ticks = 2
  Swaps <- MCSwaps
  Deposit = 96
  DepositPct = 25
  Gas = 1
  HalfWidth = 1
  Amp = 100
  MaxSwaps = 3
  NoPosition = NoPosition
  Strategies <- MCStrategies
  Inputs <- MCInputs
  Configs <- MCConfigs
  Codes = {"buy", "hold"}
  Period = 2
SPECIFICATION MCSpec
INVARIANTS FractionsBoundTheLoss FillingIsFaithful WalkForwardTestsNothing SplitsAddUp UnchangedBooksPay WorthAgainstDeposit StateFollowsTheTicks OnlyBulkSignals
CHECK_DEADLOCK FALSE
