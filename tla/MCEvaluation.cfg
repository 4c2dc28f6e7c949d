SPECIFICATION Spec
CONSTANTS
  FailureModes = {"uncited_claim", "insufficient_evidence"}
  RedTeamTotal = 50
  AllRegimes <- MCRegimes
  Universe <- MCUniverse
  Spy = "SPY"
  Days = 2
  Recorded <- MCRecorded
  Row <- MCRow
  Batches <- MCBatches
INVARIANTS
  ReportIsItsRegimes
  SummaryIsOfItsReports
  CapturedReplays
  BooksBalance
