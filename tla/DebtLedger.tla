----------------------------- MODULE DebtLedger -----------------------------
(***************************************************************************)
(* What the debts of the semaphore promise, whatever way they are stored:  *)
(* one number per tier, all brought up to date at every tick.              *)
(***************************************************************************)
EXTENDS TierDebt

VARIABLE debt

Init == debt = NoDebt

Penalise(p) == debt' = Penalised(debt, p)
Pardon(p) == debt' = Forgiven(debt, p)
Tick == debt' = Decayed(debt)

Next == Tick \/ \E p \in Tiers : Penalise(p) \/ Pardon(p)

Spec == Init /\ [][Next]_debt
=============================================================================
