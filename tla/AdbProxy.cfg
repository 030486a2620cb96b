SPECIFICATION AdbSpec
CONSTANTS
  MaxConns = 3
  Workers = 3
  MaxHosts = 2
CHECK_DEADLOCK FALSE
INVARIANTS PortHasOneOwner
PROPERTIES LockIsPassedOn
