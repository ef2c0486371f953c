CONSTANTS
  t = t
  p = p
  c1 = c1
  a = a
  b = b
  d = d
  name = name
  goal = goal
  Blank = Blank
  NoCheckpoint = NoCheckpoint
  Targets = {t}
  Preservations = {p}
  Challenges = {c1}
  HardGoals = {goal}
  Blockers = {name}
  SyntaxBlockers = {}
  ForbiddenEdits = {}
  UndefinedNames = {name}
  Authority <- MCAuthority
  GoalOf <- MCGoalOf
  Patches = {a, b}
  MechanicalOf <- OnlyBIsBlocked
  SizeOf <- MCSizeOf
  Executions <- PassOrFail
  Reductions = {0}
  InitialAttempts = 1
  RecoveryAttempts = 0
  MaxRevisions = 1
  MaxDepth = 1
SPECIFICATION Spec
INVARIANTS
  WorkingIsCoherent
  TrialsAreComparable
  OutcomeIsEarned
PROPERTIES
  LocksOnlyGrow
