CONSTANTS
  s1 = s1
  s2 = s2
  Nobody = Nobody
  Sessions <- MCSessions
  MaxRequests <- MCMaxRequests
  MaxStarts = 2
SPECIFICATION DaemonSpec
INVARIANTS RunningContainerIsTracked NoForeignContainer BinderNodesAreOwned CleanEndLeavesNothing
PROPERTIES StopUnmountsAll IdleSessionStopsContainer
CHECK_DEADLOCK FALSE
