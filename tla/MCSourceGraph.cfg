CONSTANTS
  clean = clean
  edit = edit
  move = move
  broken = broken
  Clean = clean
  Gone = "gone"
  Broken = "broken"
  NoHash = "not read"
  Paths <- MCPaths
  Names <- MCNames
  Trees <- MCTrees
  Content <- MCContent
  Defs <- MCDefs
  Spans <- MCSpans
  Calls <- MCCalls
  Hints <- MCHints
  Wanted <- MCWanted
  MaxFiles = 2
  MaxSymbols = 7
  MaxEdges = 7
  MaxExpansions = 2
  MaxRounds = 2
  MaxObservations = 1
SPECIFICATION Spec
INVARIANTS
  SourceIsOfThisTree
PROPERTIES
  EvidenceKeepsItsSource
CHECK_DEADLOCK FALSE
