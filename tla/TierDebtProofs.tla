--------------------------- MODULE TierDebtProofs ---------------------------
(***************************************************************************)
(* The debts stay ordered by tier, for any number of tiers and any rates.  *)
(***************************************************************************)
EXTENDS TierDebt, TLAPS

USE NumTiersAssumption, TokensAssumption, DebtAssumption

LEMMA MaxDebtType == MaxDebt \in Nat
<1>1. \A x, y \in Nat : x * y \in Nat
  OBVIOUS
<1> QED BY <1>1 DEF MaxDebt

LEMMA FirstTier == 0 \in Tiers
BY DEF Tiers

LEMMA NoDebtSound == Sound(NoDebt)
BY MaxDebtType, FirstTier DEF Sound, NoDebt

LEMMA PenalisedSound ==
  ASSUME NEW debt, Sound(debt), NEW p \in Tiers
  PROVE  Sound(Penalised(debt, p))
<1>1. \A q \in Tiers : q \in Int /\ q >= 0 /\ debt[q] \in 0 .. MaxDebt
  BY DEF Tiers, Sound
<1>2. Penalised(debt, p) \in [Tiers -> 0 .. MaxDebt]
  BY <1>1, MaxDebtType DEF Penalised, Lesser
<1>3. Penalised(debt, p)[0] = 0
  BY <1>1, FirstTier DEF Penalised, Sound
<1>4. ASSUME NEW q \in Tiers, NEW r \in Tiers, q < r
      PROVE  Penalised(debt, p)[q] <= Penalised(debt, p)[r]
  <2>1. debt[q] <= debt[r]
    BY <1>4 DEF Sound
  <2> QED BY <1>1, <1>4, <2>1, MaxDebtType DEF Penalised, Lesser
<1> QED BY <1>2, <1>3, <1>4 DEF Sound

LEMMA ForgivenSound ==
  ASSUME NEW debt, Sound(debt), NEW p \in Tiers
  PROVE  Sound(Forgiven(debt, p))
<1>1. \A q \in Tiers : q \in Int /\ q >= 0 /\ debt[q] \in 0 .. MaxDebt
  BY DEF Tiers, Sound
<1>2. Forgiven(debt, p) \in [Tiers -> 0 .. MaxDebt]
  BY <1>1, MaxDebtType DEF Forgiven, Greater
<1>3. Forgiven(debt, p)[0] = 0
  BY <1>1, FirstTier DEF Forgiven, Sound
<1>4. ASSUME NEW q \in Tiers, NEW r \in Tiers, q < r
      PROVE  Forgiven(debt, p)[q] <= Forgiven(debt, p)[r]
  <2>1. debt[q] <= debt[r] /\ (q < p => debt[q] <= debt[p])
    BY <1>4 DEF Sound
  <2> QED BY <1>1, <1>4, <2>1, MaxDebtType DEF Forgiven, Greater
<1> QED BY <1>2, <1>3, <1>4 DEF Sound

LEMMA DecayedSound ==
  ASSUME NEW debt, Sound(debt)
  PROVE  Sound(Decayed(debt))
<1>1. \A q \in Tiers : debt[q] \in 0 .. MaxDebt
  BY DEF Sound
<1>2. Decayed(debt) \in [Tiers -> 0 .. MaxDebt]
  BY <1>1, MaxDebtType DEF Decayed, Greater
<1>3. Decayed(debt)[0] = 0
  BY FirstTier DEF Decayed, Greater, Sound
<1>4. ASSUME NEW q \in Tiers, NEW r \in Tiers, q < r
      PROVE  Decayed(debt)[q] <= Decayed(debt)[r]
  <2>1. debt[q] <= debt[r]
    BY <1>4 DEF Sound
  <2> QED BY <1>1, <2>1 DEF Decayed, Greater
<1> QED BY <1>2, <1>3, <1>4 DEF Sound
=============================================================================
