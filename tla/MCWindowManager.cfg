SPECIFICATION WindowSpec
CHECK_DEADLOCK FALSE
CONSTANTS
  t1 = t1
  t2 = t2
  Tasks <- MCTasks
  None = None
  MaxWindows = 2
  MaxUpdates = 3
  MaxList = 2
  MaxFrames = 1
  MaxInputs = 1
INVARIANTS NativeWindowsAreLive DrawsIntoItsWindow
PROPERTIES RemovedWindowCloses UpdatesAreApplied
