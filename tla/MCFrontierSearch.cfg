CONSTANTS
  t = t
  u = u
  ch = ch
  p = p
  q = q
  r = r
  cell = cell
  NoPatch = NoPatch
  Patches = {p, q}
  Blocked = {}
  Flaky = {}
  Targets = {t}
  Challenges = {}
  Verdicts <- MCVerdicts
  Regions = {1, 2}
  MechanismOf <- MCMechanismOf
  Cells = {cell}
  BranchFactor = 2
  MaxDepth = 2
  MaxRevisions = 3
  MaxExpansions = 1
  MaxProbes = 1
  RecoveryAttempts = 1
  MaxFailures = 1
SPECIFICATION FairSpec
INVARIANTS
  RepetitionIsBounded
  StopIsEarned
PROPERTIES
  DepthYieldsOnlyToNewEvidence
  SearchEnds
