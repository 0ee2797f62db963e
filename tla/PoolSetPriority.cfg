SPECIFICATION Spec
CONSTANTS
  h1 = h1
  h2 = h2
  h3 = h3
  Handles = {h1, h2}
  Groups <- OneGroup
  NumPriorities = 2
  max_sockets = 1
  max_sockets_per_group = 1
  ConnectResults <- OnlyPending
  RespectLimitsValues <- Enabled
  connect_backup_jobs_enabled = FALSE
  HasLowerPool = FALSE
  NoHandle = NoHandle
  NoSocket = NoSocket
  NoResult = NoResult
  MaxGeneration = 0
  MaxTasks = 1
  MaxOverLimit = 0
INVARIANTS
  SetPriorityFindsRequest
