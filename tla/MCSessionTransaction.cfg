\* A client vanishes in a transaction.
SPECIFICATION Spec
CONSTANTS
  Sessions = {s1}
  Conns = {c1}
  Capacity = 2
  QueueSize = 1
  Sends = {"Query"}
  MayLose = FALSE
  Outcomes = {"I", "T", "E"}
  Nil = Nil
  None = None
INVARIANTS NoInheritedTransaction
