SPECIFICATION FairSpec
CONSTANTS
  Replicas = {"c1", "c2"}
  Requests = {"q1", "q2"}
  None = None
  Settings <- OpsSettings
INVARIANTS BusyHasWorker
PROPERTIES LockFreed
CHECK_DEADLOCK FALSE
