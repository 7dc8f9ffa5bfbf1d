\* A client sends two batches of the extended protocol.
SPECIFICATION Spec
CONSTANTS
  Sessions = {s1}
  Conns = {c1}
  Capacity = 2
  QueueSize = 1
  Sends = {"Execute", "Sync"}
  MayLose = FALSE
  Outcomes = {"I", "T", "E"}
  Nil = Nil
  None = None
INVARIANTS OneTokenPerQuery
