SPECIFICATION FairSpec
CONSTANTS
  Trans = {t1, t2}
  Kinds = {"get"}
  MixedKinds = {}
  MaxMixed = 0
  MaxEntries = 3
  Faults = {}
  None = None
PROPERTY LockSpec
CHECK_DEADLOCK FALSE
