SPECIFICATION FairSpec
CONSTANTS
  a = a  b = b  c = c
  Order <- ForkOrder
  Reads <- ForkReads
  RawNodes = {a}
  ReadsClock = {}
  PinnedAt <- NoPins
  MaxTime = 2
  Capacity = 1
  Outcomes = {"shown", "error"}
  MaxEvents = 3
  EventKinds = {"request", "install", "remove", "withdraw"}
  Topic = Topic
  NoRun = NoRun
  NoTime = NoTime
  NoFailure = NoFailure
PROPERTIES Settles
CHECK_DEADLOCK FALSE
