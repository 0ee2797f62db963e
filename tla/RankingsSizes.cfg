SPECIFICATION Spec
CONSTANTS
  Nodes = {n1}
  Lists = {l1}
  Iters = {}
  NoAddr = NoAddr
  None = None
  MaxCrashes = 1
SYMMETRY RankingsSymmetry
INVARIANTS
  DecrementAboveZero
