CONSTANTS
  c1 = c1
  c2 = c2
  c3 = c3
  Clients <- MCClients
  Capacity = 3
  Sizes <- MCSizes
  Copies <- MCCopies
SPECIFICATION FairSpec
INVARIANTS TypeOK NoOvercommit NoStalledLine
PROPERTIES ServedInOrder ImplementsBudgetLine
CHECK_DEADLOCK FALSE
