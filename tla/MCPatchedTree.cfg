SPECIFICATION TreesSpec
CONSTANTS
  PathOrder <- Order
  DevNull = "dev/null"
  Excluded = {"build/g.py"}
  Blank = "blank"
  Code <- Statements
  PythonPaths <- Python
  Forbidden = {}
  Builtins = {}
  Cleans <- CleanTrees
  Patches <- Responses
  MaxEdits = 3
  MaxRevisions = 3
INVARIANTS
  ReplayIsExact
  MechanicalVerdictIsRight
PROPERTIES
  OnlyNamedFilesChange
CHECK_DEADLOCK FALSE
