\* Three tiers, two tokens, one caller in each tier; the fair semaphore.
SPECIFICATION FairSpec
CONSTANTS
  r1 = r1
  r2 = r2
  r3 = r3
  r4 = r4
  Requests = {r1, r2, r3}
  TierOf <- OneEach
  NumTiers = 3
  Capacity = 2
  DebtUnit = 2
  Forgive = 1
  Decay = 1
  QueueSize = 1
  ShortTimeout = 0
  LongTimeout = 1
  Nobody = Nobody
  Background = Background
INVARIANTS TypeOK PrivilegeOrdered
PROPERTIES QueuedCallersAnswered ExpiredWaitersCollected DebtRunsOut
