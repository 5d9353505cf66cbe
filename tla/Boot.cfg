SPECIFICATION FairSpec
CONSTANTS
  EnvVars <- Required
  StorageType = "postgres"
  MaxFaults = 2
CHECK_DEADLOCK FALSE
INVARIANTS ServesOnSolidGround WorkerComesLast MainIsNeverStuck
PROPERTIES BootEnds
