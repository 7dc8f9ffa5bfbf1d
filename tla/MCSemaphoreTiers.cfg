\* Two tiers, one token: three callers of the first tier queue in both modes,
\* live ones behind others that have expired; under overload two of different
\* ages can be queued.  While the caller of the second tier holds the token they
\* can overflow their queue of two.
SPECIFICATION Spec
CONSTANTS
  r1 = r1
  r2 = r2
  r3 = r3
  r4 = r4
  Requests = {r1, r2, r3, r4}
  TierOf <- ThreeAndOne
  NumTiers = 2
  Capacity = 1
  DebtUnit = 2
  Forgive = 1
  Decay = 1
  QueueSize = 2
  ShortTimeout = 1
  LongTimeout = 2
  Nobody = Nobody
  Background = Background
SYMMETRY FirstThreeAlike
INVARIANTS TokensConserved NoIdleToken VerdictSlotFree ReaperArmed QueueOrder
PROPERTIES
  ImplementsAdmissionControl BoundedQueueingDelay FirstComeFirstServed
  BacklogStartsAfresh OverloadNoticed
