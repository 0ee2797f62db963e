SPECIFICATION Spec
CONSTANTS
  Trans = {t1, t2}
  Kinds = {"get", "post"}
  MixedKinds = {}
  MaxMixed = 0
  MaxEntries = 3
  Faults = {}
  None = None
INVARIANT InvalidationSticks
CHECK_DEADLOCK FALSE
