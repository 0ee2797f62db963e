SPECIFICATION Spec
CONSTANTS
  Keys = {k1, k2}
  MaxBlocks = 2
  HighUse = 3
  MaxId = 2
  MaxRefs = 2
  Faults = {"flush_overwritten"}
  None = None
SYMMETRY BackendSymmetry
INVARIANTS
  CleanIsWhole
