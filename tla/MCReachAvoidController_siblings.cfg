CONSTANTS
  t = t
  p = p
  c1 = c1
  a = a
  b = b
  d = d
  name = name
  goal = goal
  Blank = Blank
  NoCheckpoint = NoCheckpoint
  Targets = {t}
  Preservations = {}
  Challenges = {}
  HardGoals = {goal}
  Blockers = {name}
  SyntaxBlockers = {}
  ForbiddenEdits = {}
  UndefinedNames = {name}
  Authority <- MCAuthority
  GoalOf <- MCGoalOf
  Patches = {a, b, d}
  MechanicalOf <- OnlyBIsBlocked
  SizeOf <- MCSizeOf
  Executions <- PassOrFail
  Reductions = {0}
  InitialAttempts = 1
  RecoveryAttempts = 1
  MaxRevisions = 2
  MaxDepth = 2
SPECIFICATION FairSpec
INVARIANTS
  SearchRemembers
PROPERTIES
  ImplementsLineage
  CaseEnds
