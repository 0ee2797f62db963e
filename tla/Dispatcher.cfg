SPECIFICATION Spec
CONSTANTS
  Jobs = {j1, j2, j3, j4, j5}
  NumPriorities = 3
  LimitsValues <- SomeLimits
  MaxLoops = 2
SYMMETRY JobSymmetry
INVARIANTS
  TypeOK
  JobsTracked
  NoIdleSlot
  ReservedSlotsKept
  LimitsRoundTrip
PROPERTIES
  NoOvertaking
