\* Two sessions take turns on one connection, which may be lost, under two tokens.
\* A client that sends COPY FROM STDIN blocks its session until it is lost.
SPECIFICATION Spec
CONSTANTS
  Sessions = {s1, s2}
  Conns = {c1}
  Capacity = 2
  QueueSize = 1
  Sends = {"Query", "Copy", "Execute", "Flush", "Sync", "Terminate"}
  MayLose = TRUE
  Outcomes = {"I", "T", "E"}
  Nil = Nil
  None = None
SYMMETRY Symmetry
INVARIANTS TypeOK InStep ReadyMeansReady NoForeignReplies TxStatusTrue CoveredByToken
