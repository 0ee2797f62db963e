SPECIFICATION FairSpec
CONSTANTS
  Keys = {1, 2}
  TwoFamilies = {1}
  ProcOnly = {}
  Requests = {r1, r2}
  NumPriorities = 2
  Limits <- SafeLimits
  MaxQueuedJobs = 1
  MaxFailures = 2
  Fallback = TRUE
  MaxJobs = 3
  Faults = {}
  None = None
INVARIANTS
  SlotsAgree
  NobodyForgotten
  LookupsCurrent
PROPERTIES
  AllAnswered
