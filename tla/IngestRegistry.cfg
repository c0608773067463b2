CONSTANTS
  ReentersFrom <- MCReenters
  MaxIngests = 5
  MaxReactions = 4
  NoEntry = NoEntry
SPECIFICATION Spec
INVARIANTS RowsShowLive EndsOnce
CHECK_DEADLOCK FALSE
