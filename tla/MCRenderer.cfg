SPECIFICATION Spec
CHECK_DEADLOCK FALSE
CONSTANTS
  t1 = t1
  t2 = t2
  Threads <- MCThreads
  MaxHandle = 3
  MaxCreations = 3
  MaxContexts = 2
  MaxWindows = 2
  MaxBuffers = 2
  MaxRefs = 2
  Sizes = {0, 1}
  SizeOf <- MCSizeOf
SYMMETRY Symm
INVARIANTS TablesAreTracked CurrentSurfaceFlushes WindowNamesItsBuffer
PROPERTY DrainsOnlyItsOwn
