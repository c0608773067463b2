CONSTANTS
  gui = gui
  worker = worker
  worker2 = worker2
  NoThread = NoThread
  Gui = gui
  Threads <- MCPair
  MayDiscard = TRUE
  MaxSequences = 2
SPECIFICATION ToolboxSpec
INVARIANTS ReleasedIsReported
CHECK_DEADLOCK FALSE
