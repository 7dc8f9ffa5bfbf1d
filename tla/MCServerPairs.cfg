\* The file has two entries of one user.
SPECIFICATION Spec
CONSTANTS
  Clients = {c1}
  Files <- OneUserTwiceFile
  Env <- EnvTwo
  Credentials <- SomeCredentials
CHECK_DEADLOCK FALSE
INVARIANTS PairsAdmitted
