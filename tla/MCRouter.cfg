SPECIFICATION FairSpec
CONSTANTS
  Callers = {c1, c2}
  Prompts = {p}
  DocLists <- MCDocLists
  Profiles = {"haiku", "sonnet"}
  FallbackChain <- MCFallbackChain
  Decisions = {d}
  Contents = {yes, no}
  Modes = {"live", "cached", "record"}
  MaxCalls = 3
  None = None
INVARIANTS
  AnswerFitsAttempt
  RecordingReplays
PROPERTIES
  ImplementsLlmCall
  CallReturns
CHECK_DEADLOCK FALSE
