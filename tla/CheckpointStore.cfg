CONSTANTS
  None = None
  Boot = boot
  Ids = {boot, p0, r1}
  WithReturns = {r1}
  MaxVersion = 2
  MaxFaults = 2
SPECIFICATION Spec
INVARIANTS
  CheckpointsAreWhole
  VerifyIsRight
PROPERTIES
  ContentIsKept
  ImplementsAtomicStore
