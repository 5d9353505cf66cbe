SPECIFICATION FairSpec
CONSTANTS
  Jobs = {j1}
  Readers = {r1, r2}
  NoJob = NoJob
  StorageType = "postgres"
  StorageOutcomes <- AllOutcomes
  SaveOutcomes <- SaveFaults
  CacheOutcomes <- PlainFaults
  RpcOutcomes = {"zip", "empty", "fatal"}
  TTLOutlivesJob = FALSE
  SlowBackends = TRUE
  MaxCrashes = 1
CHECK_DEADLOCK FALSE
INVARIANTS TypeOK CompletedIsReal RowMatchesStatus NoSendOnClosedChannel ProcessJobIsNeverStuck
PROPERTIES ImplementsLifecycle ProcessJobEnds PollingEnds
