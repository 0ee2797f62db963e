SPECIFICATION Spec
CONSTANTS
  Jobs = {j1, j2}
  NumPriorities = 3
  LimitsValues <- ZeroOrTwo
  MaxLoops = 1
INVARIANTS
  QueuedOnlyAtLimit
