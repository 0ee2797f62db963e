SPECIFICATION Spec
CONSTANTS
  Trans = {t1}
  Kinds = {"put"}
  MixedKinds = {}
  MaxMixed = 0
  MaxEntries = 3
  Faults = {}
  None = None
INVARIANT PutHasEntry
CHECK_DEADLOCK FALSE
