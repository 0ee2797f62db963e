SPECIFICATION Spec
CONSTANTS
  Keys = {1, 2}
  TwoFamilies = {1}
  ProcOnly = {}
  Requests = {r1, r2, r3}
  NumPriorities = 2
  Limits <- OneReserved
  MaxQueuedJobs = 1
  MaxFailures = 2
  Fallback = TRUE
  MaxJobs = 3
  Faults = {}
  None = None
SYMMETRY RequestSymmetry
INVARIANTS
  SlotsAgree
