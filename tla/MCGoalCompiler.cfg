CONSTANTS
  WallSeconds = 6
  MaxModelCalls = 3
  MaxTokens = 5
  ExecutionSeconds = 4
  FinalValidationReserve = 2
  Inputs = {1, 2}
  OutputLimits = {1, 3}
  Timeouts = {2, 5}
  Overrun = 1
  Excess = 1
  Issues <- MCIssues
  Answers <- MCAnswers
  Expecting = {"line"}
  Narrating = {"example"}
  Words <- MCWords
  Weight <- MCWeight
  FacetsIn <- MCFacetsIn
  Usable = {"parse", "main"}
SPECIFICATION CompilerSpec
INVARIANTS
  BudgetIsKept
  ReserveIsKept
  GoalsAreGrounded
  ProvenanceIsKept
