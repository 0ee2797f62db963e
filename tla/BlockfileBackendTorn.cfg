SPECIFICATION Spec
CONSTANTS
  Keys = {k1, k2}
  MaxBlocks = 2
  HighUse = 2
  MaxId = 3
  MaxRefs = 2
  Faults = {}
  None = None
SYMMETRY BackendSymmetry
INVARIANTS
  ListsKeepHeads
