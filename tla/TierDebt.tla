------------------------------ MODULE TierDebt ------------------------------
(***************************************************************************)
(* The debt of the tiers, as the semaphore uses it: how many free tokens   *)
(* must be left over before a request of a tier may be admitted.  Debt is  *)
(* counted in DebtUnits per token, so that a fraction of a token (the 0.1  *)
(* forgiven per success) is a whole number; the rounding of float64 is not *)
(* modelled.  These are the values; LinearDecay is how the code stores     *)
(* them, as values that are brought up to date only when they are read.    *)
(***************************************************************************)
EXTENDS Integers

CONSTANTS
  NumTiers,   \* len(tiers); tier 0 is the most important one
  Capacity,   \* the tokens of the semaphore
  DebtUnit,   \* debt that reserves one token
  Forgive,    \* debt forgiven by one success (debtForgivePerSuccess)
  Decay       \* debt that one tick of time takes away (decayPerSec)

ASSUME NumTiersAssumption == NumTiers \in Nat \ {0}
ASSUME TokensAssumption == Capacity \in Nat \ {0}
ASSUME DebtAssumption ==
  DebtUnit \in Nat \ {0} /\ Forgive \in Nat /\ Decay \in Nat

Tiers == 0 .. NumTiers - 1

\* Not more seats can be reserved than there are.
MaxDebt == Capacity * DebtUnit

Greater(x, y) == IF x > y THEN x ELSE y
Lesser(x, y) == IF x < y THEN x ELSE y

NoDebt == [p \in Tiers |-> 0]

\* What holds of every table of debts the semaphore can reach: the first tier
\* owes nothing, and each owes at least as much as the tiers above it.
Sound(debt) ==
  /\ debt \in [Tiers -> 0 .. MaxDebt]
  /\ debt[0] = 0
  /\ \A p, q \in Tiers : p < q => debt[p] <= debt[q]

\* Mutants of Penalised and Forgiven: no setMax, no floor.
PenalisedWithoutMax(debt, p) ==
  [q \in Tiers |-> IF q > p THEN debt[q] + DebtUnit ELSE debt[q]]

ForgivenWithoutFloor(debt, p) ==
  [q \in Tiers |-> IF q > p THEN Greater(debt[q] - Forgive, 0) ELSE debt[q]]

\* A request of tier p had to wait: every less important tier owes one token
\* more.
Penalised(debt, p) ==
  [q \in Tiers |-> IF q > p THEN Lesser(debt[q] + DebtUnit, MaxDebt) ELSE debt[q]]

\* A request of tier p was admitted at once: the less important tiers are
\* forgiven a little, but never below what tier p itself owes.
Forgiven(debt, p) ==
  [q \in Tiers |-> IF q > p THEN Greater(debt[q] - Forgive, debt[p]) ELSE debt[q]]

\* Mutant of Decayed: the debt per tick is rounded down to nothing.
DecayedByNothing(debt) == debt

\* A tick of time.
Decayed(debt) == [q \in Tiers |-> Greater(debt[q] - Decay, 0)]
=============================================================================
