\* One client, whose query runs when the signal comes.
SPECIFICATION Spec
CONSTANTS
  Clients = {c1}
  Files <- TwoUsersFile
  Env <- EnvTwo
  Credentials <- SomeCredentials
CHECK_DEADLOCK FALSE
INVARIANTS GracePeriod
