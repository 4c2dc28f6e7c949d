SPECIFICATION Spec
CONSTANTS
  Clocks <- MCWall
  MaxId = 1
  MaxSeq = 2
  MaxNow = 2
PROPERTIES
  InterruptIsResumed
