\* backpressure/decay.go: three tiers, so that the floor has to be carried from
\* one tier to the next, and a clock long enough for a full debt to decay.
SPECIFICATION Spec
CONSTANTS
  NumTiers = 3
  Capacity = 2
  DebtUnit = 3
  Forgive = 1
  Decay = 2
  MaxTime = 6
INVARIANTS TypeOK DebtOrdered
PROPERTY ImplementsDebtLedger
