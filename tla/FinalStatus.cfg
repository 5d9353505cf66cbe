SPECIFICATION Spec
CONSTANTS
  Jobs = {j1}
  Readers = {r1}
  NoJob = NoJob
  StorageType = "postgres"
  StorageOutcomes <- NoFault
  SaveOutcomes <- NoFault
  CacheOutcomes <- PlainFaults
  RpcOutcomes = {"zip", "empty", "fatal"}
  TTLOutlivesJob = TRUE
  SlowBackends = FALSE
  MaxCrashes = 0
CHECK_DEADLOCK FALSE
SYMMETRY Symmetry
PROPERTIES FinalStatusIsFinal
