SPECIFICATION Spec
CONSTANTS
  Nodes = {n1, n2, n3, n4}
  Lists = {l1, l2}
  Iters = {i1}
  NoAddr = NoAddr
  None = None
  MaxCrashes = 2
SYMMETRY RankingsSymmetry
INVARIANTS
  ListsIntact
  NoCriticalError
  SizesDrift
  SelfCheckExact
  RemoveStatesDocumented
  IteratorsFresh
