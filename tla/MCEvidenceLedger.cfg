SPECIFICATION Spec
CONSTANTS
  g1 = g1
  g2 = g2
  s1 = s1
  none = none
  p0 = p0
  t1 = t1
  P0 = p0
  NoGoal = none
  HardGoals <- MCHardGoals
  SoftGoals = {s1}
  IssueWitnesses <- MCIssueWitnesses
  PublicCandidates <- MCPublicCandidates
  ContractRecords <- MCContractRecords
  Facets <- MCFacets
  RebuiltChecks <- MCRebuiltChecks
  Rebuilt <- MCRebuilt
  ProbeNames <- MCProbeNames
  AgentChecks <- MCAgentChecks
  Shows <- MCShows
  Challenges <- MCChallenges
  Owner <- MCOwner
  Direct <- MCDirect
  Mutable <- MCMutable
  Trials = {t1}
  MayBe <- MCMayBe
  MaxProbes = 3
  CandidateAllowance = 1
  StabilityRuns = 1
  ExtraAttempts = 1
  MaxTurns = 4
  ReadLimit = 1
  RepeatLimit = 1
  TargetRecoveryAttempts = 1
INVARIANTS
  RecoveryIsGrounded
  EvidenceIsKept
  ReachedIsFailToPass
PROPERTIES
  SurvivorBlocksForGood
CHECK_DEADLOCK FALSE
