CONSTANTS
  OrderIds = {o1, o2, o3}
  Prices = {1, 2}
  Quantities = {1, 2}
  TrackOrders = TRUE
  Snapshots <- MCSnapshots
  MaxPlaced = 4
  MaxAmended = 1
SYMMETRY IdSymmetry
SPECIFICATION Spec
INVARIANT LevelsMatchQueues
PROPERTIES PriceTimePriority MatchMakesProgress ImplementsLedger
