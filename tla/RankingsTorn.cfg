SPECIFICATION Spec
CONSTANTS
  Nodes = {n1, n2}
  Lists = {l1}
  Iters = {}
  NoAddr = NoAddr
  None = None
  MaxCrashes = 2
SYMMETRY RankingsSymmetry
INVARIANTS
  CrashesMended
