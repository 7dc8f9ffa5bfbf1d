---------------------------- MODULE ConfigProofs ----------------------------
(***************************************************************************)
(* What Load makes of a file that validate has accepted, for every file.   *)
(***************************************************************************)
EXTENDS Config, SequenceTheorems, WellFoundedInduction, TLAPS

-----------------------------------------------------------------------------
(* Extremal elements, from the well-foundedness of < on Nat *)

\* A set of naturals has a least element.
LEMMA LeastNatural ==
  ASSUME NEW T \in SUBSET Nat, T # {}
  PROVE  \E x \in T : \A y \in T : x <= y
<1>1. PICK x \in T : \A y \in T : <<y, x>> \notin OpToRel(<, Nat)
  BY WFMin, NatLessThanWellFounded
<1>2. \A y \in T : ~(y < x)
  BY <1>1 DEF OpToRel
<1> QED BY <1>2

\* A set of indices has a greatest one.
LEMMA GreatestIndex ==
  ASSUME NEW n \in Nat, NEW T \in SUBSET (1 .. n), T # {}
  PROVE  \E x \in T : \A y \in T : y <= x
<1> DEFINE U == {n - y : y \in T}
<1>1. U \in SUBSET Nat /\ U # {}
  <2>1. ASSUME NEW y \in T PROVE n - y \in Nat
    BY <2>1
  <2>2. PICK y \in T : TRUE
    OBVIOUS
  <2>3. n - y \in U
    BY <2>2
  <2> QED BY <2>1, <2>3
<1>2. PICK u \in U : \A v \in U : u <= v
  BY <1>1, LeastNatural
<1>3. PICK x \in T : u = n - x
  BY <1>2
<1>4. ASSUME NEW y \in T PROVE y <= x
  <2>1. n - x <= n - y
    BY <1>2, <1>3
  <2> QED BY <2>1
<1> QED BY <1>4

-----------------------------------------------------------------------------

\* An order between neighbours is one between any two.
LEMMA NeighboursSuffice ==
  ASSUME NEW n \in Nat, NEW w \in [1 .. n -> Int],
         \A i \in 2 .. n : w[i] <= w[i - 1],
         NEW i \in 1 .. n
  PROVE  \A j \in i .. n : w[j] <= w[i]
<1> DEFINE T == {j \in i .. n : ~(w[j] <= w[i])}
<1> SUFFICES ASSUME T # {} PROVE FALSE
  OBVIOUS
<1>1. T \in SUBSET Nat
  OBVIOUS
<1>2. PICK j \in T : \A k \in T : j <= k
  BY <1>1, LeastNatural
<1>3. j \in 2 .. n /\ j - 1 \in i .. n
  BY <1>2
<1>4. w[j - 1] <= w[i]
  BY <1>2, <1>3
<1>5. w[j] <= w[j - 1]
  BY <1>3
<1> QED BY <1>2, <1>3, <1>4, <1>5

\* validate looks at the weights of the file and Load puts 1 for a weight that
\* is not there: the tiers of the configuration are still in order of weight.
THEOREM LoadKeepsOrder ==
  ASSUME NEW f, NEW env, f.tiers \in Seq(TierFiles), Validate(f)
  PROVE  /\ DOMAIN Load(f, env).tiers = 1 .. Len(f.tiers)
         /\ \A i, j \in 1 .. Len(f.tiers) : i <= j =>
              /\ Load(f, env).tiers[i].weight \in Int
              /\ Load(f, env).tiers[j].weight \in Int
              /\ Load(f, env).tiers[j].weight <= Load(f, env).tiers[i].weight
<1> DEFINE n == Len(f.tiers)
           w == [i \in 1 .. n |-> f.tiers[i].weight]
<1>1. n \in Nat /\ DOMAIN f.tiers = 1 .. n /\ \A i \in 1 .. n : f.tiers[i] \in TierFiles
  BY LenProperties, ElementOfSeq
<1>2. w \in [1 .. n -> Int]
  BY <1>1 DEF TierFiles
<1>3. ASSUME NEW i \in 2 .. n PROVE w[i] <= w[i - 1]
  <2>1. i \in 1 .. n /\ i - 1 \in 1 .. n
    BY <1>1
  <2>2. f.tiers[i].weight <= f.tiers[i - 1].weight
    BY DEF Validate
  <2> QED BY <2>1, <2>2
<1>4. ASSUME NEW i \in 1 .. n, NEW j \in 1 .. n, i <= j PROVE w[j] <= w[i]
  <2>1. j \in i .. n
    BY <1>1, <1>4
  <2> HIDE DEF w
  <2> QED BY <1>1, <1>2, <1>3, <2>1, NeighboursSuffice
<1>5. \A i \in 1 .. n : Load(f, env).tiers[i].weight = OrDefault(w[i], 1)
  BY <1>1 DEF Load, Tier
<1>6. DOMAIN Load(f, env).tiers = 1 .. n
  BY <1>1 DEF Load
<1>7. ASSUME NEW i \in 1 .. n, NEW j \in 1 .. n, i <= j
      PROVE  /\ OrDefault(w[i], 1) \in Int /\ OrDefault(w[j], 1) \in Int
             /\ OrDefault(w[j], 1) <= OrDefault(w[i], 1)
  <2>1. w[i] \in Int /\ w[j] \in Int /\ w[j] <= w[i]
    BY <1>2, <1>4, <1>7
  <2> HIDE DEF w
  <2> QED BY <2>1 DEF OrDefault
<1> QED BY <1>5, <1>6, <1>7
=============================================================================
