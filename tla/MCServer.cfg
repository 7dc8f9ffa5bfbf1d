\* Two clients, and nine configuration files.
SPECIFICATION FairSpec
CONSTANTS
  Clients = {c1, c2}
  Files <- SomeFiles
  Env <- EnvTwo
  Credentials <- SomeCredentials
CHECK_DEADLOCK FALSE
INVARIANTS TypeOK OwnEntry PriorityByWeight PoolLostOnlyToTwin SessionsNeverPanic ShutdownSparesClients
PROPERTIES CleanShutdown ShutdownEnds ComesUp PoolWaitersServed
