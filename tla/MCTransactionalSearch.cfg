SPECIFICATION Spec
CONSTANTS
  Cell <- MCCell
  Target <- MCTarget
  Hard <- MCHard
  Trusted <- MCTrusted
  Public <- MCPublic
  Impacted <- MCImpacted
  Confirmed <- MCTarget
  Rank <- MCRank
  Outcomes <- MCOutcomes
  ReplayLimit = 1
  ImpactLimit = 2
INVARIANTS
  StateIsOfOnePatch
  GatesHold
PROPERTIES
  ProgressIsKept
CHECK_DEADLOCK FALSE
