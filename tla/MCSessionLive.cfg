\* Two sessions with a connection each share one token; their clients
\* may send COPY FROM STDIN and Flush, after which a session may really stop.
SPECIFICATION FairSpec
CONSTANTS
  Sessions = {s1, s2}
  Conns = {c1, c2}
  Capacity = 1
  QueueSize = 1
  Sends = {"Query", "Copy", "Execute", "Flush", "Sync"}
  MayLose = FALSE
  Outcomes = {"I"}
  Nil = Nil
  None = None
CHECK_DEADLOCK FALSE
PROPERTIES FollowsAdmissionControl RequestsAnswered TokensComeBack
