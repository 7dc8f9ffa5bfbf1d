------------------------- MODULE LinearDecayProofs -------------------------
(***************************************************************************)
(* Debts that are brought up to date only when they are read come to the   *)
(* same as one table of debts, for any number of tiers and any rates.      *)
(***************************************************************************)
EXTENDS LinearDecay, TierDebtProofs, WellFoundedInduction

USE NumTiersAssumption, TokensAssumption, DebtAssumption

Debts == [x : 0 .. MaxDebt, last : 0 .. MaxTime]

\* The debts as they would be read are sound because no reading is of a later
\* time than now: only then does a tick take the same from each tier, whenever
\* that tier was read last.
IInv ==
  /\ TypeOK
  /\ \A p \in Tiers : ledger[p].last <= now
  /\ Sound(Debt)

-----------------------------------------------------------------------------
(* The methods of linearDecay *)

LEMMA DecayOverTime ==
  ASSUME NEW n \in Nat
  PROVE  n * Decay \in Nat /\ (n + 1) * Decay = n * Decay + Decay
OBVIOUS

\* get: the debt it answers, and that it may be asked again.
LEMMA GetKeeps ==
  ASSUME TypeOK, NEW d \in Debts, d.last <= now
  PROVE  /\ Get(d) = [x |-> Get(d).x, last |-> now]
         /\ Get(d) \in Debts /\ Get(d).last = now /\ Get(d).x \in 0 .. d.x
         /\ Get(Get(d)).x = Get(d).x
         /\ Get(d).x = Greater(0, d.x - (now - d.last) * Decay)
<1>1. d.x \in 0 .. MaxDebt /\ d.last \in 0 .. MaxTime /\ now \in 0 .. MaxTime
      /\ now - d.last \in Nat
  BY MaxTimeAssumption DEF TypeOK, Debts
<1>2. (now - d.last) * Decay \in Nat
  BY <1>1, DecayOverTime
<1>3. Greater(0, now - d.last) = now - d.last
  BY <1>1 DEF Greater
<1>4. Get(d) = [x |-> Greater(0, d.x - (now - d.last) * Decay), last |-> now]
  BY <1>3 DEF Get
<1>5. Greater(0, d.x - (now - d.last) * Decay) \in 0 .. d.x
  BY <1>1, <1>2, MaxDebtType DEF Greater
<1>6. Get(d).x \in 0 .. d.x /\ Get(d).last = now /\ Get(d) \in Debts
  BY <1>1, <1>4, <1>5, MaxDebtType DEF Debts
<1>7. Get(Get(d)).x = Get(d).x
  <2>1. Greater(0, now - Get(d).last) = 0
    BY <1>1, <1>6 DEF Greater
  <2>2. Get(Get(d)).x = Greater(0, Get(d).x - 0 * Decay)
    BY <2>1 DEF Get
  <2>3. Get(d).x \in Nat
    BY <1>1, <1>6
  <2>4. \A y \in Nat : Greater(0, y - 0 * Decay) = y
    BY DEF Greater
  <2> QED BY <2>2, <2>3, <2>4
<1> QED BY <1>4, <1>6, <1>7

\* A debt that was stored now is read as it is.
LEMMA GetNow ==
  ASSUME now \in Nat, NEW y \in Nat
  PROVE  Get([x |-> y, last |-> now]).x = y
<1>1. Greater(0, now - now) = 0
  BY DEF Greater
<1>2. y - 0 * Decay = y
  OBVIOUS
<1> QED BY <1>1, <1>2 DEF Get, Greater

LEMMA PenalisedDebt ==
  ASSUME TypeOK, NEW d \in Debts, d.last <= now
  PROVE  SetMax(Add(d, DebtUnit)) =
           [x |-> Lesser(Get(d).x + DebtUnit, MaxDebt), last |-> now]
<1>1. Get(d) = [x |-> Get(d).x, last |-> now] /\ Get(d).x \in Nat
  BY GetKeeps, MaxDebtType DEF Debts
<1> DEFINE y == Lesser(Get(d).x + DebtUnit, MaxDebt)
<1>2. y \in Nat /\ Greater(0, y) = y /\ Lesser(y, MaxDebt) = y
  BY <1>1, MaxDebtType DEF Lesser, Greater
<1>3. Add(d, DebtUnit) = [x |-> y, last |-> now]
  BY <1>1, <1>2 DEF Add
<1>4. Get([x |-> y, last |-> now]) = [x |-> y, last |-> now]
  <2>1. Get([x |-> y, last |-> now]).x = y
    BY <1>2, GetNow, MaxTimeAssumption DEF TypeOK
  <2> QED BY <2>1 DEF Get
<1> HIDE DEF y
<1>5. SetMax([x |-> y, last |-> now]) = [x |-> y, last |-> now]
  BY <1>2, <1>4 DEF SetMax
<1> QED BY <1>3, <1>5 DEF y

LEMMA PardonedDebt ==
  ASSUME TypeOK, NEW d \in Debts, d.last <= now, NEW least \in 0 .. MaxDebt
  PROVE  Floor(Add(d, -Forgive), least) =
           [x |-> Greater(Greater(0, Get(d).x - Forgive), least), last |-> now]
<1>1. Get(d) = [x |-> Get(d).x, last |-> now] /\ Get(d).x \in 0 .. MaxDebt
  BY GetKeeps, MaxDebtType DEF Debts
<1> DEFINE y == Greater(0, Get(d).x - Forgive)
<1>2. y \in Nat /\ Lesser(Get(d).x + (-Forgive), MaxDebt) = Get(d).x - Forgive
  BY <1>1, MaxDebtType DEF Lesser, Greater
<1>3. Add(d, -Forgive) = [x |-> y, last |-> now]
  BY <1>1, <1>2 DEF Add
<1>4. Get([x |-> y, last |-> now]) = [x |-> y, last |-> now]
  <2>1. Get([x |-> y, last |-> now]).x = y
    BY <1>2, GetNow, MaxTimeAssumption DEF TypeOK
  <2> QED BY <2>1 DEF Get
<1> HIDE DEF y
<1> QED BY <1>3, <1>4 DEF Floor, y

-----------------------------------------------------------------------------
(* The loop of a success *)

\* One round of the loop for each tier, from what the table was.
Round(p, f) ==
  [q \in Tiers |->
     IF q < p \/ p = NumTiers - 1 THEN ledger[q]
     ELSE IF q = p THEN Get(ledger[p])
     ELSE Floor(Add(ledger[q], -Forgive), f[q - 1].x)]

\* What it comes to, without the floor carried from tier to tier.
Pardoned(p) ==
  [q \in Tiers |->
     IF q < p \/ p = NumTiers - 1 THEN ledger[q]
     ELSE IF q = p THEN Get(ledger[p])
     ELSE [x |-> Greater(Debt[q] - Forgive, Debt[p]), last |-> now]]

LEMMA DebtsOf ==
  ASSUME IInv, NEW q \in Tiers
  PROVE  /\ ledger[q] \in Debts /\ ledger[q].last <= now /\ now \in Nat
         /\ Debt[q] = Get(ledger[q]).x /\ Debt[q] \in 0 .. MaxDebt
         /\ Get(ledger[q]) = [x |-> Debt[q], last |-> now] /\ q \in Nat
<1>1. /\ ledger[q] \in Debts /\ ledger[q].last <= now /\ now \in Nat
      /\ Debt[q] = Get(ledger[q]).x /\ Debt[q] \in 0 .. MaxDebt /\ q \in Nat
  BY MaxTimeAssumption DEF IInv, TypeOK, Debts, Debt, Sound, Tiers
<1> QED BY <1>1, GetKeeps DEF IInv

\* Because the debts are in order, the floor by the tier above is one by p.
LEMMA FloorCarried ==
  ASSUME IInv, NEW p \in Tiers
  PROVE  Pardoned(p) = Round(p, Pardoned(p))
<1>1. ASSUME NEW q \in Tiers, q > p, p # NumTiers - 1
      PROVE  Floor(Add(ledger[q], -Forgive), Pardoned(p)[q - 1].x) =
               [x |-> Greater(Debt[q] - Forgive, Debt[p]), last |-> now]
  <2> DEFINE above == Pardoned(p)[q - 1].x
  <2>1. q - 1 \in Tiers /\ q - 1 >= p /\ p \in Nat /\ q \in Nat
    BY <1>1 DEF Tiers
  <2>2. /\ Debt[q] \in 0 .. MaxDebt /\ Debt[p] \in 0 .. MaxDebt /\ Debt[q - 1] \in 0 .. MaxDebt
        /\ Debt[q - 1] <= Debt[q]
    BY <1>1, <2>1, DebtsOf DEF IInv, Sound
  <2>3. above \in {Debt[p], Greater(Debt[q - 1] - Forgive, Debt[p])}
    <3>1. CASE q - 1 = p
      <4>1. Pardoned(p)[q - 1] = Get(ledger[p])
        BY <1>1, <2>1, <3>1 DEF Pardoned
      <4> QED BY <4>1 DEF Debt
    <3>2. CASE q - 1 # p
      <4>1. ~(q - 1 < p)
        BY <2>1
      <4>2. Pardoned(p)[q - 1] = [x |-> Greater(Debt[q - 1] - Forgive, Debt[p]), last |-> now]
        BY <1>1, <2>1, <3>2, <4>1 DEF Pardoned
      <4> QED BY <4>2
    <3> QED BY <3>1, <3>2
  <2> HIDE DEF above
  <2>4. above \in 0 .. MaxDebt
    BY <2>2, <2>3, MaxDebtType DEF Greater
  <2>5. Greater(Greater(0, Debt[q] - Forgive), above) = Greater(Debt[q] - Forgive, Debt[p])
    BY <2>2, <2>3, MaxDebtType DEF Greater
  <2>6. Floor(Add(ledger[q], -Forgive), above) =
          [x |-> Greater(Greater(0, Debt[q] - Forgive), above), last |-> now]
    <3>1. /\ ledger[q] \in Debts /\ ledger[q].last <= now
          /\ Debt[q] = Get(ledger[q]).x
      BY DebtsOf
    <3> QED BY <2>4, <3>1, PardonedDebt DEF IInv
  <2> QED BY <2>5, <2>6 DEF above
<1>2. ASSUME NEW q \in Tiers
      PROVE  Pardoned(p)[q] = Round(p, Pardoned(p))[q]
  <2>1. q \in Int /\ p \in Int
    BY DEF Tiers
  <2>2. CASE q > p /\ p # NumTiers - 1
    <3>1. ~(q < p) /\ q # p
      BY <2>1, <2>2
    <3>2. Pardoned(p)[q] = [x |-> Greater(Debt[q] - Forgive, Debt[p]), last |-> now]
      BY <2>2, <3>1 DEF Pardoned
    <3>3. Round(p, Pardoned(p))[q] = Floor(Add(ledger[q], -Forgive), Pardoned(p)[q - 1].x)
      BY <2>2, <3>1 DEF Round
    <3> QED BY <1>1, <2>2, <3>2, <3>3
  <2>3. CASE ~(q > p /\ p # NumTiers - 1)
    <3>1. q < p \/ p = NumTiers - 1 \/ q = p
      BY <2>1, <2>3
    <3> QED BY <3>1 DEF Pardoned, Round
  <2> QED BY <2>2, <2>3
<1>3. /\ Pardoned(p) = [q \in Tiers |-> Pardoned(p)[q]]
      /\ Round(p, Pardoned(p)) = [q \in Tiers |-> Round(p, Pardoned(p))[q]]
  BY DEF Pardoned, Round
<1> QED BY <1>2, <1>3

\* The loop has no other outcome: two that differ would differ in a first tier.
LEMMA RoundsDetermined ==
  ASSUME NEW p \in Tiers, NEW f, NEW g, f = Round(p, f), g = Round(p, g)
  PROVE  f = g
<1> DEFINE Differ == {q \in Tiers : f[q] # g[q]}
<1>1. ASSUME Differ # {}
      PROVE  FALSE
  <2>1. PICK q \in Differ : \A r \in Differ : <<r, q>> \notin OpToRel(<, Nat)
    <3>1. Differ \subseteq Nat
      BY DEF Tiers
    <3> QED BY <1>1, <3>1, WFMin, NatLessThanWellFounded
  <2>2. q \in Tiers /\ f[q] # g[q] /\ q \in Nat /\ p \in Nat
    <3>1. q \in Tiers /\ f[q] # g[q]
      BY <2>1
    <3>2. Tiers \subseteq Nat
      BY DEF Tiers
    <3> QED BY <3>1, <3>2
  <2>3. ~(q < p \/ p = NumTiers - 1) /\ q # p
    BY <2>2 DEF Round
  <2>4. q - 1 \in Tiers /\ q - 1 \in Nat /\ q - 1 < q
    BY <2>2, <2>3 DEF Tiers
  <2>5. q - 1 \notin Differ
    BY <2>1, <2>2, <2>4 DEF OpToRel
  <2>6. f[q - 1] = g[q - 1]
    BY <2>4, <2>5
  <2> QED BY <2>2, <2>6 DEF Round
<1>2. \A q \in Tiers : f[q] = g[q]
  BY <1>1
<1>3. f = [q \in Tiers |-> f[q]] /\ g = [q \in Tiers |-> g[q]]
  BY DEF Round
<1> QED BY <1>2, <1>3

LEMMA PardonResult ==
  ASSUME IInv, NEW p \in Tiers, Pardon(p)
  PROVE  ledger' = Pardoned(p) /\ now' = now
<1>1. ledger' = (CHOOSE f : f = Round(p, f)) /\ now' = now
  BY DEF Pardon, Round
<1>2. (CHOOSE f : f = Round(p, f)) = Round(p, CHOOSE f : f = Round(p, f))
  BY FloorCarried
<1> QED BY <1>1, <1>2, FloorCarried, RoundsDetermined

-----------------------------------------------------------------------------
(* The steps *)

\* The tables of DebtLedger are those of TierDebt.
LEMMA SameTables ==
  /\ Ledger!NoDebt = NoDebt /\ Ledger!Decayed(Debt) = Decayed(Debt)
  /\ \A p \in Tiers : /\ Ledger!Penalised(Debt, p) = Penalised(Debt, p)
                      /\ Ledger!Forgiven(Debt, p) = Forgiven(Debt, p)
  /\ Ledger!Tiers = Tiers
BY DEF Ledger!NoDebt, Ledger!Decayed, Ledger!Penalised, Ledger!Forgiven, Ledger!Tiers,
       Ledger!Greater, Ledger!Lesser, Ledger!MaxDebt, NoDebt, Decayed, Penalised, Forgiven,
       Tiers, Greater, Lesser, MaxDebt

\* Tables that are stored now are read as they are; old entries as before.
LEMMA DebtAfter ==
  ASSUME IInv, now' = now, NEW table, ledger' = [q \in Tiers |-> table[q]], NEW y,
         \A q \in Tiers : \/ table[q] = ledger[q] /\ y[q] = Debt[q]
                          \/ table[q] = [x |-> y[q], last |-> now] /\ y[q] \in 0 .. MaxDebt
  PROVE  /\ TypeOK' /\ \A q \in Tiers : ledger'[q].last <= now'
         /\ Debt' = [q \in Tiers |-> y[q]]
<1>1. ASSUME NEW q \in Tiers
      PROVE  /\ ledger'[q] \in Debts /\ ledger'[q].last <= now
             /\ Get(ledger'[q]).x = y[q]
  <2>1. /\ ledger[q] \in Debts /\ ledger[q].last <= now
        /\ Debt[q] = Get(ledger[q]).x /\ now \in 0 .. MaxTime /\ now \in Nat
    BY DebtsOf DEF IInv, TypeOK
  <2>2. CASE table[q] = ledger[q] /\ y[q] = Debt[q]
    BY <2>1, <2>2
  <2>3. CASE table[q] = [x |-> y[q], last |-> now] /\ y[q] \in 0 .. MaxDebt
    <3>1. Get([x |-> y[q], last |-> now]).x = y[q]
      BY <2>1, <2>3, MaxDebtType, GetNow
    <3> QED BY <2>1, <2>3, <3>1 DEF Debts
  <2> QED BY <2>2, <2>3
<1>2. TypeOK' /\ \A q \in Tiers : ledger'[q].last <= now'
  BY <1>1 DEF IInv, TypeOK, Debts
<1>3. Debt' = [q \in Tiers |-> y[q]]
  BY <1>1 DEF Debt, Get
<1> QED BY <1>2, <1>3

LEMMA ReadStep ==
  ASSUME IInv, NEW p \in Tiers, Read(p)
  PROVE  IInv' /\ UNCHANGED Debt
<1> DEFINE table == [q \in Tiers |-> IF q = p THEN Get(ledger[p]) ELSE ledger[q]]
           y == Debt
<1>1. now' = now /\ ledger' = [q \in Tiers |-> table[q]]
  BY DEF Read, IInv, TypeOK
<1>2. \A q \in Tiers : \/ table[q] = ledger[q] /\ y[q] = Debt[q]
                       \/ table[q] = [x |-> y[q], last |-> now] /\ y[q] \in 0 .. MaxDebt
  BY DebtsOf
<1>3. y = [q \in Tiers |-> y[q]]
  BY DEF Debt
<1>4. y = Debt
  OBVIOUS
<1> HIDE DEF table, y
<1>5. /\ TypeOK' /\ \A q \in Tiers : ledger'[q].last <= now'
      /\ Debt' = [q \in Tiers |-> y[q]]
  BY <1>1, <1>2, DebtAfter
<1>6. Debt' = Debt
  BY <1>3, <1>4, <1>5
<1> QED BY <1>5, <1>6 DEF IInv

LEMMA PenaliseStep ==
  ASSUME IInv, NEW p \in Tiers, Penalise(p)
  PROVE  IInv' /\ Debt' = Penalised(Debt, p)
<1> DEFINE table == [q \in Tiers |->
                       IF q > p THEN SetMax(Add(ledger[q], DebtUnit)) ELSE ledger[q]]
           y == Penalised(Debt, p)
<1>1. now' = now /\ ledger' = [q \in Tiers |-> table[q]]
  BY DEF Penalise
<1>2. Sound(y) /\ y = [q \in Tiers |-> y[q]]
  BY PenalisedSound DEF IInv, Penalised
<1>3. \A q \in Tiers : \/ table[q] = ledger[q] /\ y[q] = Debt[q]
                       \/ table[q] = [x |-> y[q], last |-> now] /\ y[q] \in 0 .. MaxDebt
  <2>1. \A q \in Tiers : y[q] \in 0 .. MaxDebt
    BY <1>2 DEF Sound
  <2>2. \A q \in Tiers : SetMax(Add(ledger[q], DebtUnit)) =
                           [x |-> Lesser(Debt[q] + DebtUnit, MaxDebt), last |-> now]
    BY DebtsOf, PenalisedDebt DEF IInv
  <2> QED BY <2>1, <2>2 DEF Penalised
<1> HIDE DEF table, y
<1>4. /\ TypeOK' /\ \A q \in Tiers : ledger'[q].last <= now'
      /\ Debt' = [q \in Tiers |-> y[q]]
  BY <1>1, <1>3, DebtAfter
<1> QED BY <1>2, <1>4 DEF IInv, y

LEMMA PardonStep ==
  ASSUME IInv, NEW p \in Tiers, Pardon(p)
  PROVE  IInv' /\ Debt' = Forgiven(Debt, p)
<1> DEFINE table == Pardoned(p)
           y == Forgiven(Debt, p)
<1>1. now' = now /\ ledger' = [q \in Tiers |-> table[q]]
  BY PardonResult DEF Pardoned
<1>2. Sound(y) /\ y = [q \in Tiers |-> y[q]]
  BY ForgivenSound DEF IInv, Forgiven
<1>3. ASSUME NEW q \in Tiers
      PROVE  \/ table[q] = ledger[q] /\ y[q] = Debt[q]
             \/ table[q] = [x |-> y[q], last |-> now] /\ y[q] \in 0 .. MaxDebt
  <2>1. y[q] \in 0 .. MaxDebt /\ p \in Int /\ q \in Int
    BY <1>2 DEF Sound, Tiers
  <2>2. CASE q < p \/ p = NumTiers - 1
    <3>1. ~(q > p)
      BY <2>2 DEF Tiers
    <3> QED BY <2>2, <3>1 DEF Pardoned, Forgiven
  <2>3. CASE q = p
    <3>1. y[q] = Debt[q]
      BY <2>1, <2>3 DEF Forgiven
    <3>2. table[q] = ledger[q] \/ table[q] = Get(ledger[p])
      BY <2>3 DEF Pardoned
    <3>3. Get(ledger[p]) = [x |-> Debt[p], last |-> now]
      BY DebtsOf
    <3> QED BY <2>1, <2>3, <3>1, <3>2, <3>3
  <2>4. CASE q > p /\ p # NumTiers - 1
    <3>1. ~(q < p) /\ q # p
      BY <2>1, <2>4
    <3>2. table[q] = [x |-> Greater(Debt[q] - Forgive, Debt[p]), last |-> now]
      BY <2>4, <3>1 DEF Pardoned
    <3>3. y[q] = Greater(Debt[q] - Forgive, Debt[p])
      BY <2>4 DEF Forgiven
    <3> QED BY <2>1, <3>2, <3>3
  <2> QED BY <2>1, <2>2, <2>3, <2>4
<1> HIDE DEF table, y
<1>4. /\ TypeOK' /\ \A q \in Tiers : ledger'[q].last <= now'
      /\ Debt' = [q \in Tiers |-> y[q]]
  BY <1>1, <1>3, DebtAfter
<1> QED BY <1>2, <1>4 DEF IInv, y

\* A tick takes the same from each tier, whenever it was read last.
LEMMA TickStep ==
  ASSUME IInv, Tick
  PROVE  IInv' /\ Debt' = Decayed(Debt)
<1>1. now \in Nat /\ now' = now + 1 /\ now' \in 0 .. MaxTime /\ ledger' = ledger
  BY MaxTimeAssumption DEF Tick, IInv, TypeOK
<1>2. ASSUME NEW q \in Tiers
      PROVE  /\ Debt'[q] = Greater(Debt[q] - Decay, 0)
             /\ ledger'[q].last <= now'
  <2> DEFINE d == ledger[q]
             n == now - d.last
             lost == n * Decay
  <2>1. d \in Debts /\ d.last <= now /\ d.x \in 0 .. MaxDebt /\ d.last \in Nat
    <3>1. ledger[q] \in Debts /\ ledger[q].last <= now
      BY DebtsOf
    <3> QED BY <3>1, MaxTimeAssumption, MaxDebtType DEF Debts
  <2>2. n \in Nat /\ now' - d.last = n + 1
    BY <1>1, <2>1
  <2>3. lost \in Nat /\ (now' - d.last) * Decay = lost + Decay
    BY <2>2, DecayOverTime
  <2>4. Debt[q] = Greater(0, d.x - lost)
    BY <2>1, GetKeeps DEF IInv, Debt
  <2>5. Greater(0, now' - d.last) = now' - d.last
    BY <2>2 DEF Greater
  <2>6. Debt'[q] = Greater(0, d.x - (lost + Decay))
    BY <1>1, <2>3, <2>5 DEF Debt, Get
  <2> HIDE DEF lost, n
  <2>7. Greater(0, d.x - (lost + Decay)) = Greater(Greater(0, d.x - lost) - Decay, 0)
    BY <2>1, <2>3, MaxDebtType DEF Greater
  <2> QED BY <1>1, <2>1, <2>4, <2>6, <2>7
<1>3. Debt' = Decayed(Debt)
  BY <1>2 DEF Debt, Decayed
<1>4. TypeOK' /\ Sound(Debt')
  BY <1>1, <1>3, DecayedSound DEF IInv, TypeOK
<1> QED BY <1>2, <1>3, <1>4 DEF IInv

LEMMA InitHolds == Init => IInv /\ Debt = NoDebt
<1> SUFFICES ASSUME Init
             PROVE  IInv /\ Debt = NoDebt
  OBVIOUS
<1>1. now = 0 /\ ledger = [p \in Tiers |-> [x |-> 0, last |-> 0]] /\ now \in Nat
  BY DEF Init
<1>2. Get([x |-> 0, last |-> now]).x = 0
  BY <1>1, GetNow
<1>3. Debt = NoDebt
  BY <1>1, <1>2 DEF Debt, NoDebt
<1>4. TypeOK
  BY <1>1, MaxDebtType, MaxTimeAssumption DEF TypeOK
<1> QED BY <1>1, <1>3, <1>4, NoDebtSound DEF IInv

LEMMA NextHolds ==
  ASSUME IInv, [Next]_vars
  PROVE  IInv' /\ [Ledger!Next]_Debt
<1>1. CASE UNCHANGED vars
  BY <1>1 DEF vars, IInv, TypeOK, Debt, Get
<1>2. CASE Tick
  BY <1>2, TickStep, SameTables DEF Ledger!Next, Ledger!Tick
<1>3. ASSUME NEW p \in Tiers, Read(p)
      PROVE  IInv' /\ UNCHANGED Debt
  BY <1>3, ReadStep
<1>4. ASSUME NEW p \in Tiers, Penalise(p)
      PROVE  IInv' /\ Ledger!Next
  BY <1>4, PenaliseStep, SameTables DEF Ledger!Next, Ledger!Penalise
<1>5. ASSUME NEW p \in Tiers, Pardon(p)
      PROVE  IInv' /\ Ledger!Next
  BY <1>5, PardonStep, SameTables DEF Ledger!Next, Ledger!Pardon
<1> QED BY <1>1, <1>2, <1>3, <1>4, <1>5 DEF Next

\* IInv is an inductive invariant of the stored debts.
THEOREM DebtsInvariant == Spec => []IInv
<1>1. IInv /\ [Next]_vars => IInv'
  BY NextHolds
<1> QED BY InitHolds, <1>1, PTL DEF Spec

\* add, setMax and floor keep every debt between nothing and the capacity.
THEOREM DebtTypes == Spec => []TypeOK
<1>1. IInv => TypeOK
  BY DEF IInv
<1> QED BY DebtsInvariant, <1>1, PTL

\* floor: in whatever order the tiers are brought up to date, a less important
\* one never owes less than a more important one.
THEOREM LessImportantOwesMore == Spec => []DebtOrdered
<1>1. IInv => DebtOrdered
  BY DEF IInv, Sound, DebtOrdered
<1> QED BY DebtsInvariant, <1>1, PTL

\* get, add, setMax and floor, called for each tier when it is looked at, come
\* to the same as one table that every tick brings up to date.
THEOREM LazyDecayIsExact == Spec => ImplementsDebtLedger
<1>1. Init => Ledger!Init
  BY InitHolds, SameTables DEF Ledger!Init
<1>2. IInv /\ [Next]_vars => [Ledger!Next]_Debt
  BY NextHolds
<1> QED BY DebtsInvariant, <1>1, <1>2, PTL
        DEF Spec, ImplementsDebtLedger, Ledger!Spec
=============================================================================
