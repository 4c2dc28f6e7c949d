SPECIFICATION LoopSpec
CONSTANTS
  Errors <- MCErrors
  FailureThreshold = 3
  Interval = 2
  MaxHeartbeats = 6
  None = None
INVARIANTS
  BreakerExact
  StopIsPrompt
CHECK_DEADLOCK FALSE
