CONSTANTS
  p1 = p1
  c1 = c1
  k1 = k1
  b1 = b1
  b2 = b2
  Moved = Moved
  Producers <- MCProducers
  Consumers <- MCConsumers
  Closers <- MCClosers
  Buffers <- MCBuffers
  Capacity <- MCCapacity
SPECIFICATION FairSpec
INVARIANTS TypeOK RingHoldsBuffers NoLostWakeup
PROPERTIES RefinesBoundedFifo CloseReleasesCallers
