CONSTANTS
  InCapacity = 2
  OutCapacity = 1
  MaxChunk = 2
  MaxIn = 1
  MaxOut = 1
  Moved = Moved
SPECIFICATION Spec

PROPERTY DestructionEnds
