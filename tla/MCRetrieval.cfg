SPECIFICATION FairSpec
CONSTANTS
  Procs = {p1, p2}
  Docs <- MCDocs
  Empty <- MCEmpty
  Corpus <- MCCorpus
  Configured <- MCConfigured
  Options <- MCOptions
  MaxFaults = 1
  Published <- MCPublished
  Days <- MCDays
  KRetrieve = 2
  KFinal = 1
  RrfK = 60
INVARIANTS
  SuccessMeansIndexed
  RowNeverOverclaims
  PointInTime
  FoundByBothFirst
PROPERTIES
  AllIndexed
