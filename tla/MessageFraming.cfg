SPECIFICATION Spec
CONSTANTS
  ByteBase = 3
  BodyBytes = {1}
  BodyLengths = {0, 1, 2, 28}
  LineLengths = {0, 1, 2}
  MaxMessages = 2
  MaxRead = 8
  Room = 34
  MaxRetries = 1
CHECK_DEADLOCK FALSE
INVARIANTS StreamStaysAligned NoWholeMessageWaits
