SPECIFICATION FairSpec
CONSTANTS
  Lenses <- MCLenses
  MaxChunks = 2
  JudgeSays <- MCJudgeSays
  MaxHeartbeats = 2
  None = None
INVARIANTS
  TypeOK
  TradeIsBacked
  ClaimsQuoteWhatWasRead
  RowsNameDecision
PROPERTIES
  NoLateRow
  HeartbeatEnds
CHECK_DEADLOCK FALSE
