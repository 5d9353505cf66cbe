SPECIFICATION FairSpec
CONSTANTS
  Jobs = {j1}
  Readers = {r1, r2}
  NoJob = NoJob
  StorageType = "postgres"
  StorageOutcomes <- AllOutcomes
  SaveOutcomes <- NoFault
  CacheOutcomes <- PlainFaults
  SendOutcomes <- SendFaults
  RowOutcomes = {"zip", "empty", "fatal"}
  MaxCrashes = 2
CHECK_DEADLOCK FALSE
INVARIANTS TypeOK InputBeforeMessage AcceptedIsUnderWay
PROPERTIES ImplementsLifecycle PollingEnds VerdictNeverReversed
