SPECIFICATION Spec
CONSTANTS
  Trans = {t1, t2, t3}
  Kinds = {"get", "prefetch", "only", "bypass", "update", "head", "put", "post"}
  MixedKinds = {"prefetch", "bypass", "update", "head", "put", "post"}
  MaxMixed = 2
  MaxEntries = 4
  Faults = {"resume_send", "short_eof", "flag_write"}
  None = None
INVARIANTS HoldersKnown WaitersQueuedOnce EntriesManaged PartsServedExplained
PROPERTIES LockSafety
SYMMETRY CacheSymmetry
CHECK_DEADLOCK FALSE
