\* One tier with a queue of one, one token.
SPECIFICATION FairSpec
CONSTANTS
  r1 = r1
  r2 = r2
  r3 = r3
  r4 = r4
  Requests = {r1, r2, r3}
  TierOf <- AllEqual
  NumTiers = 1
  Capacity = 1
  DebtUnit = 2
  Forgive = 1
  Decay = 1
  QueueSize = 1
  ShortTimeout = 1
  LongTimeout = 2
  Nobody = Nobody
  Background = Background
PROPERTIES EveryCallerAnswered
