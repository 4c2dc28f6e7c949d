SPECIFICATION FairSpec
CONSTANTS
  d1 = d1
  Decisions <- MCDecisions
  Actors <- MCActors
  Deadline = 1
  MaxAge = 1
  Grace = 1
  MaxRotations = 1
  None = None
INVARIANTS
  ReleasedWasApproved
  AuditTrue
  OnePrompt
  AnsweredInTimeNotRefused
  FreshPromptAccepted
PROPERTIES
  FirstAnswerWins
  AnsweredOrRefused
