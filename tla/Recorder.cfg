CONSTANTS
  p1 = p1
  p2 = p2
  s1 = s1
  s2 = s2
  b1 = b1
  Writer = Writer
  NoItem = NoItem
  Producers <- MCProducers
  Stoppers <- MCStoppers
  Bindings <- MCBindings
  Costs = {1, 2, 3}
  Budget = 2
  SinkFails = TRUE
  MaxPushes = 1
SPECIFICATION FairSpec
INVARIANTS WithinBudget NothingLost NoLostWakeUp SinkInTurn
PROPERTIES PushesReturn StopReturns
CHECK_DEADLOCK FALSE
