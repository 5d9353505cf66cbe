SPECIFICATION Spec
CONSTANTS
  EnvVars <- Required
  StorageType = "postgres"
  MaxFaults = 0
CHECK_DEADLOCK FALSE
INVARIANTS ClientsAreOpen
