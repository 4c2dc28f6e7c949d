SPECIFICATION HeartbeatSpec
CONSTANTS
  d1 = d1
  d2 = d2
  p1 = p1
  p2 = p2
  p3 = p3
  None = None
  Decisions <- MCDecisions
  Procs <- MCOneProc
  Restricted <- MCNone
  MaxAttempts = 2
PROPERTIES PendingIsRetried
CHECK_DEADLOCK FALSE
