SPECIFICATION FairSpec
CONSTANTS
  Jobs = {j1, j2}
  Readers = {r1}
  NoJob = NoJob
  StorageType = "in_memory"
  StorageOutcomes <- NoFault
  SaveOutcomes <- NoFault
  CacheOutcomes <- NoFault
  RpcOutcomes = {"zip", "empty", "fatal"}
  TTLOutlivesJob = TRUE
  SlowBackends = TRUE
  MaxCrashes = 1
CHECK_DEADLOCK FALSE
PROPERTIES AcceptedIsDecided
