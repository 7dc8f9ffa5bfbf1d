---------------------------- MODULE LinearDecay ----------------------------
(***************************************************************************)
(* backpressure/decay.go, and the two loops of Semaphore.Acquire that use  *)
(* it: each tier's debt is a value x as of a time `last', and every call   *)
(* first brings it up to date (get).  The tiers are updated at different   *)
(* times, so at most moments the stored numbers cannot be compared with    *)
(* each other.                                                             *)
(***************************************************************************)
EXTENDS TierDebt

CONSTANT MaxTime   \* bound: the clock stops there

ASSUME MaxTimeAssumption == MaxTime \in Nat

VARIABLES
  ledger,  \* the linearDecay of every tier
  now      \* the clock

vars == <<ledger, now>>

-----------------------------------------------------------------------------
(* The methods of linearDecay, on one record d *)

\* Mutants of Get: debt decays below zero, and decays again at every reading.
UnclampedGet(d) == [x |-> d.x - Greater(0, now - d.last) * Decay, last |-> now]

GetKeepingLast(d) ==
  [d EXCEPT !.x = Greater(0, @ - Greater(0, now - d.last) * Decay)]

Get(d) == [x |-> Greater(0, d.x - Greater(0, now - d.last) * Decay), last |-> now]

Add(d, amount) ==
  [Get(d) EXCEPT !.x = Greater(0, Lesser(@ + amount, MaxDebt))]

SetMax(d) == [Get(d) EXCEPT !.x = Lesser(@, MaxDebt)]

\* Mutant of Floor: no floor.
NoFloor(d, least) == Get(d)

Floor(d, least) == [Get(d) EXCEPT !.x = Greater(@, least)]

-----------------------------------------------------------------------------
(* NewSemaphore, and the uses of the debts *)

Init ==
  /\ now = 0
  /\ ledger = [p \in Tiers |-> [x |-> 0, last |-> 0]]

\* canAdmit reads the debt of one tier.
Read(p) ==
  /\ ledger' = [ledger EXCEPT ![p] = Get(@)]
  /\ UNCHANGED now

\* Acquire could not admit at once.
Penalise(p) ==
  /\ ledger' = [q \in Tiers |->
       IF q > p THEN SetMax(Add(ledger[q], DebtUnit)) ELSE ledger[q]]
  /\ UNCHANGED now

\* Acquire admitted at once.  The loop goes from tier p + 1 down, and floors
\* each tier by the tier above it, which it has just changed.
Pardon(p) ==
  /\ ledger' =
       LET pardoned[q \in Tiers] ==
             IF q < p \/ p = NumTiers - 1 THEN ledger[q]
             ELSE IF q = p THEN Get(ledger[p])
             ELSE Floor(Add(ledger[q], -Forgive), pardoned[q - 1].x)
       IN  pardoned
  /\ UNCHANGED now

Tick ==
  /\ now < MaxTime
  /\ now' = now + 1
  /\ UNCHANGED ledger

Next == Tick \/ \E p \in Tiers : Read(p) \/ Penalise(p) \/ Pardon(p)

Spec == Init /\ [][Next]_vars

-----------------------------------------------------------------------------
(* Properties *)

\* Types of the debts: never negative, and never more than what capacity
\* allows to reserve.
TypeOK ==
  /\ now \in 0 .. MaxTime
  /\ ledger \in [Tiers -> [x : 0 .. MaxDebt, last : 0 .. MaxTime]]

\* What get would answer for each tier now.
Debt == [p \in Tiers |-> Get(ledger[p]).x]

\* semaphore.go:227-230: a less important tier never owes less than a more
\* important one, in whatever order the tiers were penalised, forgiven and
\* brought up to date.
DebtOrdered == \A p, q \in Tiers : p < q => Debt[p] <= Debt[q]

Ledger == INSTANCE DebtLedger WITH debt <- Debt

\* Updating the debts only when they are read, tier by tier and with the
\* floor of the loop, comes to the same as one table updated at every tick:
\* the other modules may use that table.
ImplementsDebtLedger == Ledger!Spec
=============================================================================
