CONSTANTS
  gui = gui
  worker = worker
  worker2 = worker2
  NoThread = NoThread
  Gui = gui
  Threads <- MCThreads
  MayDiscard = TRUE
  MaxSequences = 3
SPECIFICATION ToolboxFairSpec
INVARIANTS NoWedgedRow
PROPERTIES NoStolenFinish ReleasedRowGoes
CHECK_DEADLOCK FALSE
