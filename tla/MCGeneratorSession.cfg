CONSTANTS
  clean = clean
  a = a
  b = b
  x = x
  y = y
  c = c
  d = d
  Clean = clean
  Trees = {clean, a, b}
  Edits = {x, y}
  Rejectable = {b}
  Checks = {c, d}
  MaxTurns = 2
  RecoveryTurns = 3
  ForceWindow = 2
  RepeatLimit = 2
  DuplicateLimit = 2
  NoOpLimit = 2
SPECIFICATION FairSpec
INVARIANTS
  ResultsAreOfThisTree
  HandoverIsSound
PROPERTIES
  SessionEnds
