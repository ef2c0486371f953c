CONSTANTS
  t1 = t1
  t2 = t2
  p1 = p1
  c1 = c1
  goal = goal
  soft = soft
  syntax = syntax
  name = name
  api = api
  Targets = {t1, t2}
  Preservations = {p1}
  Challenges = {c1}
  HardGoals = {goal}
  Blockers = {syntax, name, api}
  SyntaxBlockers = {syntax}
  ForbiddenEdits = {}
  UndefinedNames = {name}
  Authority <- MCAuthority
  GoalOf <- MCGoalOf
  AnyPatch = {1, 2}
  ParentSides <- MCParentSides
  TrialSides <- MCTrialSides
  LockSets <- MCLockSets
SPECIFICATION JudgementSpec
INVARIANTS
  PromotionIsSound
  RejectionIsSound
  TargetGainIsOneWay
CHECK_DEADLOCK FALSE
