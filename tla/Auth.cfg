SPECIFICATION FairSpec
CONSTANTS
  Clients = {c1, c2}
  Logins = {"anna", "boris"}
  Passwords = {"short", "good", "long"}
  Short = {"short"}
  Long = {"long"}
  Key <- Keys
  StorageType = "postgres"
  UserOutcomes <- AllOutcomes
  JWTSigningMethod = "HS256"
  TokenTTL = 3
  Second = 2
  MaxIds = 1
  MaxClock = 3
  MaxRestarts = 1
CHECK_DEADLOCK FALSE
INVARIANTS TypeOK TokenNamesUser ServedIsSomebody TokenLivesItsTTL
PROPERTIES UsersAreKept NoLockOut
