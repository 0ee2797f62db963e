SPECIFICATION Spec
CONSTANTS
  Keys = {k1, k2}
  MaxBlocks = 2
  HighUse = 3
  MaxId = 1
  MaxRefs = 2
  Faults = {"trim_in_close"}
  None = None
SYMMETRY BackendSymmetry
INVARIANTS
  CleanFindable
