SPECIFICATION Spec
CONSTANTS
  Trans = {t1, t2}
  Kinds = {"get", "prefetch", "only"}
  MixedKinds = {}
  MaxMixed = 0
  MaxEntries = 3
  Faults = {}
  None = None
INVARIANT ReadersSeeWholeBody
CHECK_DEADLOCK FALSE
