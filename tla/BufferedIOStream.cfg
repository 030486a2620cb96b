CONSTANTS
  InCapacity = 1
  OutCapacity = 1
  MaxChunk = 2
  MaxIn = 2
  MaxOut = 3
  Moved = Moved
SPECIFICATION Spec
INVARIANTS InputIsByteExact OutputIsByteExact
PROPERTIES DecodeLockIsReleased RenderThreadStops
