SPECIFICATION Spec
CONSTANTS
  Jobs = {j1, j2}
  Readers = {r1}
  NoJob = NoJob
  StorageType = "postgres"
  StorageOutcomes <- PlainFaults
  SaveOutcomes <- PlainFaults
  CacheOutcomes <- PlainFaults
  RpcOutcomes = {"zip", "empty", "fatal"}
  TTLOutlivesJob = FALSE
  SlowBackends = FALSE
  MaxCrashes = 1
CHECK_DEADLOCK FALSE
SYMMETRY Symmetry
INVARIANTS CompletedIsServed FailedIsNotContradicted
PROPERTIES VerdictNeverReversed
