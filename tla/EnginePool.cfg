CONSTANTS
  t1 = t1
  t2 = t2
  t3 = t3
  NoRun = NoRun
  Tasks <- MCTasks
  PythonTasks <- MCPython
  SharedThreads = 1
  MaxPublishes = 1
  MaxDepth = 3
SPECIFICATION FairSpec
INVARIANTS TypeOK OutstandingExact NoStrandedResult NoHungWait SkippedIsCancelled
PROPERTIES EveryRunSettles WaitReturns
CHECK_DEADLOCK FALSE
