SPECIFICATION Spec
CONSTANTS
  h1 = h1
  h2 = h2
  h3 = h3
  Handles = {h1, h2}
  Groups <- TwoGroups
  NumPriorities = 1
  max_sockets = 3
  max_sockets_per_group = 2
  ConnectResults <- AllConnectResults
  RespectLimitsValues <- Enabled
  connect_backup_jobs_enabled = TRUE
  HasLowerPool = TRUE
  NoHandle = NoHandle
  NoSocket = NoSocket
  NoResult = NoResult
  MaxGeneration = 1
  MaxTasks = 2
  MaxOverLimit = 0
SYMMETRY HandleSymmetry
INVARIANTS
  TypeOK
  CountersAgree
  SocketLimits
  NonEmptyGroupsMapped
  RequestsTracked
  ResultsDelivered
  BackupTimerHasJob
  NoSocketSurvivesFlush
