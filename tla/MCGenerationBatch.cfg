SPECIFICATION FairBatchSpec
CONSTANTS
  moved = moved
  stuck = stuck
  Cases <- MCCases
  Foreign <- MCForeign
  None = none
  CaseRetries = 2
  MaxAttempts = 3
  MaxVersions = 2
  MaxEdits = 2
INVARIANTS
  AttemptsAreSeparate
  ResultsAreComparable
PROPERTIES
  BatchEnds
CHECK_DEADLOCK FALSE
