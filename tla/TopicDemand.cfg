CONSTANTS
  x = x
  y = y
  Datasets = {1, 2}
  Topics <- MCTopics
  Slots = {1, 2}
  MaxCalls = 4
SPECIFICATION DemandSpec
INVARIANTS LastDeliveryIsNewest FlipsAreTold
CHECK_DEADLOCK FALSE
