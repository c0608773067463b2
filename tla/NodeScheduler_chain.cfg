SPECIFICATION Spec
CONSTANTS
  a = a  b = b  c = c
  Order <- ChainOrder
  Reads <- ChainReads
  RawNodes = {a}
  ReadsClock = {a}
  PinnedAt <- PinnedReader
  MaxTime = 2
  Capacity = 1
  Outcomes = {"shown", "blank", "unreadable"}
  MaxEvents = 4
  EventKinds = {"request", "withdraw", "install", "remove", "suspend", "arrive", "retire"}
  Topic = Topic
  NoRun = NoRun
  NoTime = NoTime
  NoFailure = NoFailure
INVARIANTS RoomsExact NoStalledRequest NothingShownForFailure ReadyShowsResult
PROPERTIES ReadyIsCurrent DisplayMovesForward
CHECK_DEADLOCK FALSE
