SPECIFICATION Spec
CONSTANTS
  a1 = a1
  a2 = a2
  b1 = b1
  A = A
  B = B
  NoThread = NoThread
  Threads <- MCThreads
  Procs <- MCProcs
  ProcOf <- MCProcOf
  Callees <- MCCallees
  Async <- MCAsync
  MaxTxn = 3
  MaxTodo = 1
SYMMETRY MCSymmetry
CHECK_DEADLOCK FALSE
INVARIANTS NothingDangles CallsAreNotForgotten NoLostWakeup AsyncIsSerialised
