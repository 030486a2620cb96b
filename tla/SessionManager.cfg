SPECIFICATION SessionSpec
CHECK_DEADLOCK FALSE
INVARIANT ClosureRunsOnce
PROPERTIES FailedStartExits ExitsOnceReleased
