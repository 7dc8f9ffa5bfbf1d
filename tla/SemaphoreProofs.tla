-------------------------- MODULE SemaphoreProofs --------------------------
(***************************************************************************)
(* Proofs about Semaphore, for every set of callers, number of tiers,      *)
(* capacity, queue size, timeouts and debt rates.                          *)
(***************************************************************************)
EXTENDS Semaphore, CoDelProofs, TierDebtProofs

\* The inductive invariant behind TokensConserved: counting the owners needs
\* to know that an admitted waiter is in no queue (it cannot be popped again),
\* that one in a queue has no token, and that whoever is in the critical
\* section holds the lock.
IInv ==
  /\ TypeOK
  /\ LockHeld
  /\ QueuesDisjoint
  /\ WaitersCoherent
  /\ TokensConserved
  /\ Sound(debt)

-----------------------------------------------------------------------------
(* Counting owners *)

LEMMA OwnersFinite ==
  IsFiniteSet(Owners) /\ Cardinality(Owners) \in Nat
<1>1. Owners \in SUBSET Requests
  BY DEF Owners
<1>2. IsFiniteSet(Owners)
  BY <1>1, RequestsAssumption, FS_Subset
<1> QED BY <1>2, FS_CardinalityType

LEMMA OwnersKept ==
  ASSUME TokensConserved, outstanding' = outstanding,
         \A r \in Requests : Owner(r)' <=> Owner(r)
  PROVE  TokensConserved' /\ Owners' = Owners
<1>1. Owners' = Owners
  BY DEF Owners
<1> QED BY <1>1 DEF TokensConserved

LEMMA OwnerAdded ==
  ASSUME TokensConserved, outstanding \in 0 .. Capacity, outstanding < Capacity,
         outstanding' = outstanding + 1,
         NEW r \in Requests, ~Owner(r), Owner(r)',
         \A s \in Requests \ {r} : Owner(s)' <=> Owner(s)
  PROVE  /\ TokensConserved' /\ outstanding' \in 0 .. Capacity
         /\ Owners' = Owners \cup {r} /\ Cardinality(Owners) < Capacity
<1>1. Owners' = Owners \cup {r} /\ r \notin Owners
  BY DEF Owners
<1>2. Cardinality(Owners') = Cardinality(Owners) + 1
  BY <1>1, OwnersFinite, FS_AddElement
<1> QED BY <1>1, <1>2, TokensAssumption DEF TokensConserved

LEMMA OwnerRemoved ==
  ASSUME TokensConserved, outstanding \in 0 .. Capacity,
         outstanding' = outstanding - 1,
         NEW r \in Requests, Owner(r), ~Owner(r)',
         \A s \in Requests \ {r} : Owner(s)' <=> Owner(s)
  PROVE  TokensConserved' /\ outstanding' \in 0 .. Capacity
<1>1. Owners' = Owners \ {r} /\ r \in Owners
  BY DEF Owners
<1>2. Cardinality(Owners') = Cardinality(Owners) - 1
  BY <1>1, OwnersFinite, FS_RemoveElement
<1>3. Cardinality(Owners) # 0
  BY <1>1, OwnersFinite, FS_EmptySet
<1> QED BY <1>2, <1>3, OwnersFinite, TokensAssumption DEF TokensConserved

-----------------------------------------------------------------------------
(* Facts about single conditions *)

\* A tier that may admit finds a free token.
LEMMA CanAdmitSpare ==
  ASSUME TypeOK, NEW p \in Tiers, CanAdmit(p)
  PROVE  outstanding < Capacity
<1>1. outstanding \in 0 .. Capacity /\ debt[p] \in Nat /\ Capacity \in Nat
  BY MaxDebtType, TokensAssumption DEF TypeOK
<1>2. CASE outstanding = Capacity
  <2>1. (Capacity - outstanding) * DebtUnit = 0
    BY <1>1, <1>2, DebtAssumption
  <2> QED BY <1>1, <2>1, DebtAssumption DEF CanAdmit
<1> QED BY <1>1, <1>2

LEMMA NewWaiterType == NewWaiter \in Waiters
BY TimeoutAssumption DEF NewWaiter, Waiters, Long

\* The queue of a waiter is the queue of its tier.
LEMMA QueuedWhere ==
  ASSUME NEW queues, Sorted(queues), NEW p \in Tiers, NEW r \in ItemsOf(queues[p])
  PROVE  TierOf[r] = p /\ InQueue(queues, r)
BY DEF Sorted, InQueue

-----------------------------------------------------------------------------
(* admit's first loop *)

LEMMA ReapAllKeeps ==
  ASSUME NEW queues \in [Tiers -> Queues(Requests)],
         NEW waiters \in [Requests -> Waiters],
         Sorted(queues),
         NEW at,
         \A r \in Requests : Coherent(InQueue(queues, r), waiters[r], at[r]),
         ReapAll(queues, waiters)
  PROVE  /\ codel' \in [Tiers -> Queues(Requests)]
         /\ waiter' \in [Requests -> Waiters]
         /\ QueuesDisjoint'
         /\ \A r \in Requests :
              /\ Coherent(Queued(r)', waiter'[r], at[r])
              /\ Queued(r)' => InQueue(queues, r)
              /\ ~InQueue(queues, r) \/ Queued(r)' => waiter'[r] = waiters[r]
              /\ InQueue(queues, r) => waiter'[r].state # "admitted"
<1> DEFINE waited == [r \in Requests |-> waiters[r].waited]
           dropped == UNION {Dropped(queues[p], waited) : p \in Tiers}
<1>1. /\ codel' = [p \in Tiers |-> Reap(queues[p], waited)]
      /\ waiter' = [r \in Requests |->
           IF r \notin dropped THEN waiters[r]
           ELSE IF waiters[r].state = "expired" THEN NewWaiter
           ELSE [waiters[r] EXCEPT !.c = "false"]]
  BY DEF ReapAll
<1> HIDE DEF waited
<1>2. \A p \in Tiers :
        /\ Reap(queues[p], waited) \in Queues(Requests)
        /\ Distinct(Reap(queues[p], waited))
        /\ Dropped(queues[p], waited) \subseteq ItemsOf(queues[p])
        /\ ItemsOf(Reap(queues[p], waited)) = ItemsOf(queues[p]) \ Dropped(queues[p], waited)
  BY ReapKeeps DEF Sorted
<1>3. codel' \in [Tiers -> Queues(Requests)]
  BY <1>1, <1>2
<1>4. waiter' \in [Requests -> Waiters]
  BY <1>1, NewWaiterType DEF Waiters
<1>5. QueuesDisjoint'
  BY <1>1, <1>2 DEF QueuesDisjoint, Sorted
<1>6. ASSUME NEW r \in Requests
      PROVE  /\ r \in dropped <=> r \in Dropped(queues[TierOf[r]], waited)
             /\ Queued(r)' <=> InQueue(queues, r) /\ r \notin dropped
             /\ r \in dropped => InQueue(queues, r)
  <2>1. TierOf[r] \in Tiers
    BY TierOfAssumption
  <2>2. r \in dropped => r \in Dropped(queues[TierOf[r]], waited)
    BY <1>2 DEF Sorted
  <2>3. r \in Dropped(queues[TierOf[r]], waited) => r \in dropped
    BY <2>1
  <2>4. codel'[TierOf[r]] = Reap(queues[TierOf[r]], waited)
    BY <1>1, <2>1
  <2> QED BY <1>2, <2>1, <2>2, <2>3, <2>4 DEF Queued, InQueue
<1> HIDE DEF dropped
<1>7. ASSUME NEW r \in Requests
      PROVE  /\ Coherent(Queued(r)', waiter'[r], at[r])
             /\ Queued(r)' => InQueue(queues, r)
             /\ ~InQueue(queues, r) \/ Queued(r)' => waiter'[r] = waiters[r]
             /\ InQueue(queues, r) => waiter'[r].state # "admitted"
  <2>1. Coherent(InQueue(queues, r), waiters[r], at[r]) /\ waiters[r] \in Waiters
    OBVIOUS
  <2>2. CASE r \in dropped
    BY <1>1, <1>6, <2>1, <2>2 DEF Coherent, Waiters, NewWaiter
  <2>3. CASE r \notin dropped
    BY <1>1, <1>6, <2>1, <2>3 DEF Coherent
  <2> QED BY <2>2, <2>3
<1> QED BY <1>3, <1>4, <1>5, <1>7

-----------------------------------------------------------------------------
(* The refinement mapping *)

\* Status in terms of the situations of WaitersCoherent.
LEMMA StatusCases ==
  ASSUME TypeOK, WaitersCoherent, NEW r \in Requests
  PROVE  /\ Status[r] = "granted" <=> Owner(r)
         /\ Status[r] = "waiting" <=> Queued(r) /\ waiter[r].state = "waiting"
         /\ Status[r] = "refused" <=> pc[r] \in InWait /\ ~Queued(r) /\ ~Owner(r)
         /\ Status[r] = "idle" <=> pc[r] \in {"idle", "releasing", "panicked"}
         /\ Queued(r) => ~Owner(r)
<1>1. Coherent(Queued(r), waiter[r], pc[r])
  BY DEF WaitersCoherent
<1>2. /\ pc[r] \in InWait \cup {"idle", "holding", "releasing", "panicked"}
      /\ waiter[r].state \in {"waiting", "admitted", "expired"}
  BY DEF TypeOK, Waiters, InWait
<1> QED BY <1>1, <1>2 DEF Status, Owner, Coherent, InWait

\* The Cardinality of AdmissionControl is the one used here.
LEMMA SameCardinality == \A S : Control!Cardinality(S) = Cardinality(S)
BY DEF Control!Cardinality, Cardinality

LEMMA GrantedAreOwners ==
  ASSUME TypeOK, WaitersCoherent
  PROVE  Control!Granted = Owners
BY StatusCases DEF Control!Granted, Owners

LEMMA StatusOneChanged ==
  ASSUME NEW r \in Requests, \A s \in Requests \ {r} : Status'[s] = Status[s]
  PROVE  Status' = [Status EXCEPT ![r] = Status'[r]]
BY DEF Status

LEMMA StatusUnchanged ==
  ASSUME \A s \in Requests : Status'[s] = Status[s]
  PROVE  Status' = Status
BY DEF Status

\* What reaping does to the status of a request that the same step leaves
\* alone otherwise.
LEMMA ReapedStatus ==
  ASSUME TypeOK, WaitersCoherent, NEW s \in Requests, pc'[s] = pc[s],
         Queued(s)' => Queued(s),
         ~Queued(s) \/ Queued(s)' => waiter'[s] = waiter[s],
         Queued(s) => waiter'[s].state # "admitted"
  PROVE  /\ Owner(s)' <=> Owner(s)
         /\ Status'[s] = IF Status[s] = "waiting" /\ ~Queued(s)'
                         THEN "refused" ELSE Status[s]
<1>1. Coherent(Queued(s), waiter[s], pc[s])
  BY DEF WaitersCoherent
<1>2. Owner(s)' <=> Owner(s)
  BY <1>1 DEF Owner, Coherent
<1> QED BY <1>1, <1>2 DEF Status, Owner, Coherent, InWait

-----------------------------------------------------------------------------
(* Each action keeps the invariant, and is a step of AdmissionControl *)

LEMMA AcquireFastStep ==
  ASSUME IInv, NEW r \in Requests, AcquireFast(r)
  PROVE  IInv' /\ Control!GrantAtOnce(r)
<1> USE DEF IInv
<1>1. /\ pc[r] = "idle" /\ ~Queued(r) /\ m = Nobody
      /\ UNCHANGED <<m, waiter, codel, hasWaiters, ticker, bg, closed>>
      /\ pc' = [pc EXCEPT ![r] = "holding"]
  BY DEF AcquireFast, MayAsk
<1>2. waiter[r].state = "waiting" /\ waiter[r].c = "empty"
  BY <1>1 DEF WaitersCoherent, Coherent, InWait
<1>3. TierOf[r] \in Tiers /\ outstanding < Capacity
  BY TierOfAssumption, CanAdmitSpare DEF AcquireFast, AdmittedAtOnce
<1>4. Sound(debt)'
  BY <1>3, ForgivenSound DEF AcquireFast
<1>5. \A s \in Requests : Queued(s)' <=> Queued(s)
  BY <1>1 DEF Queued, InQueue
<1>6. ~Owner(r) /\ Owner(r)' /\ \A s \in Requests \ {r} : Owner(s)' <=> Owner(s)
  BY <1>1, <1>2 DEF Owner, TypeOK
<1>7. TokensConserved' /\ outstanding' \in 0 .. Capacity /\ Cardinality(Owners) < Capacity
  BY <1>3, <1>6, OwnerAdded DEF AcquireFast, TypeOK
<1>8. TypeOK'
  BY <1>1, <1>4, <1>7 DEF TypeOK, Sound
<1>9. LockHeld'
  BY <1>1 DEF LockHeld, TypeOK
<1>10. QueuesDisjoint'
  BY <1>1 DEF QueuesDisjoint, Sorted
<1>11. WaitersCoherent'
  BY <1>1, <1>2, <1>5 DEF WaitersCoherent, Coherent, TypeOK, InWait
<1>12. Control!GrantAtOnce(r)
  <2>1. Status[r] = "idle" /\ Cardinality(Control!Granted) < Capacity
    BY <1>1, <1>7, StatusCases, GrantedAreOwners
  <2>2. \A s \in Control!Waiting : TierOf[s] > TierOf[r]
    <3>1. ASSUME NEW s \in Requests, Status[s] = "waiting"
          PROVE  TierOf[s] > TierOf[r]
      <4>1. Queued(s) /\ TierOf[s] \in Tiers
        BY <3>1, StatusCases, TierOfAssumption
      <4>2. ~IsEmpty(codel[TierOf[s]])
        BY <4>1 DEF Queued, InQueue, ItemsOf, IsEmpty
      <4>3. TierOf[s] \notin 0 .. TierOf[r]
        BY <4>2 DEF AcquireFast, AdmittedAtOnce, IsHigherPriorityPresent
      <4> QED BY <1>3, <4>1, <4>3, NumTiersAssumption DEF Tiers
    <3> QED BY <3>1 DEF Control!Waiting
  <2>3. \A s \in Requests \ {r} : Status'[s] = Status[s]
    BY <1>1, <1>5, <1>6 DEF TypeOK, Status
  <2>4. Status'[r] = "granted"
    BY <1>6 DEF Status
  <2> QED BY <2>1, <2>2, <2>3, <2>4, SameCardinality, StatusOneChanged DEF Control!GrantAtOnce
<1> QED BY <1>4, <1>7, <1>8, <1>9, <1>10, <1>11, <1>12

\* What admit sees of a newcomer: queued behind its tier, or turned away.
LEMMA NewcomerQueued ==
  ASSUME IInv, NEW r \in Requests, AcquireSlow(r),
         NEW queues, queues = [codel EXCEPT ![TierOf[r]] = Push(@, r)],
         NEW waiters, waiters = [waiter EXCEPT ![r] = NewWaiter]
  PROVE  /\ queues \in [Tiers -> Queues(Requests)] /\ Sorted(queues)
         /\ waiters \in [Requests -> Waiters]
         /\ ReapAll(queues, waiters)
         /\ waiters[r] = NewWaiter
         /\ \A s \in Requests \ {r} : InQueue(queues, s) <=> Queued(s)
         /\ \A s \in Requests : Coherent(InQueue(queues, s), waiters[s], pc'[s])
<1> USE DEF IInv
<1> DEFINE p == TierOf[r]
<1>1. /\ ~Queued(r) /\ pc' = [pc EXCEPT ![r] = "acquiring"]
      /\ ReapAll(queues, waiters)
  BY DEF AcquireSlow, MayAsk
<1>2. p \in Tiers
  BY TierOfAssumption
<1>3. /\ Push(codel[p], r) \in Queues(Requests)
      /\ Distinct(Push(codel[p], r))
      /\ ItemsOf(Push(codel[p], r)) \in {ItemsOf(codel[p]), ItemsOf(codel[p]) \cup {r}}
  <2>1. codel[p] \in Queues(Requests) /\ Distinct(codel[p]) /\ r \notin ItemsOf(codel[p])
    BY <1>1, <1>2 DEF TypeOK, QueuesDisjoint, Sorted, Queued, InQueue
  <2> QED BY <2>1, PushKeeps
<1>4. queues \in [Tiers -> Queues(Requests)] /\ waiters \in [Requests -> Waiters]
  BY <1>3, NewWaiterType DEF TypeOK
<1>5. Sorted(queues)
  BY <1>2, <1>3 DEF TypeOK, QueuesDisjoint, Sorted
<1>6. \A s \in Requests \ {r} :
        /\ InQueue(queues, s) <=> Queued(s)
        /\ waiters[s] = waiter[s] /\ pc'[s] = pc[s]
  BY <1>1, <1>2, <1>3 DEF TypeOK, Queued, InQueue
<1>7. waiters[r] = NewWaiter /\ pc'[r] = "acquiring"
  BY <1>1 DEF TypeOK
<1>8. ASSUME NEW s \in Requests
      PROVE  Coherent(InQueue(queues, s), waiters[s], pc'[s])
  <2>1. CASE s = r
    BY <1>7, <2>1 DEF Coherent, NewWaiter, InWait
  <2>2. CASE s # r
    BY <1>6, <2>2 DEF WaitersCoherent, Coherent
  <2> QED BY <2>1, <2>2
<1> QED BY <1>1, <1>4, <1>5, <1>6, <1>7, <1>8

LEMMA AcquireSlowStep ==
  ASSUME IInv, NEW r \in Requests, AcquireSlow(r)
  PROVE  IInv' /\ Control!Ask(r)
<1> USE DEF IInv
<1> DEFINE p == TierOf[r]
           queues == [codel EXCEPT ![p] = Push(@, r)]
           waiters == [waiter EXCEPT ![r] = NewWaiter]
<1>1. /\ pc[r] = "idle" /\ ~Queued(r) /\ m = Nobody /\ m' = r /\ ~closed
      /\ UNCHANGED <<outstanding, bg, closed>>
      /\ pc' = [pc EXCEPT ![r] = "acquiring"]
      /\ ReapAll(queues, waiters)
      /\ debt' = Penalised(debt, p)
      /\ ticker' = (IF hasWaiters THEN ticker ELSE TickerOn) /\ hasWaiters' = TRUE
  BY DEF AcquireSlow, MayAsk
<1>2. waiter[r].state = "waiting" /\ waiter[r].c = "empty"
  BY <1>1 DEF WaitersCoherent, Coherent, InWait
<1>3. p \in Tiers
  BY TierOfAssumption
<1> HIDE DEF queues, waiters
<1>4. queues = [codel EXCEPT ![p] = Push(@, r)] /\ waiters = [waiter EXCEPT ![r] = NewWaiter]
  BY DEF queues, waiters
<1>5. /\ queues \in [Tiers -> Queues(Requests)] /\ Sorted(queues)
      /\ waiters \in [Requests -> Waiters]
  BY <1>4, NewcomerQueued
<1>6. \A s \in Requests \ {r} :
        /\ InQueue(queues, s) <=> Queued(s)
        /\ waiters[s] = waiter[s] /\ pc'[s] = pc[s]
  <2>1. \A s \in Requests \ {r} : InQueue(queues, s) <=> Queued(s)
    BY <1>4, NewcomerQueued
  <2>2. \A s \in Requests \ {r} : waiters[s] = waiter[s] /\ pc'[s] = pc[s]
    BY <1>1, <1>4 DEF TypeOK
  <2> QED BY <2>1, <2>2
<1>7. waiters[r] = NewWaiter /\ pc'[r] = "acquiring"
  BY <1>1, <1>4 DEF TypeOK
<1>8. \A s \in Requests : Coherent(InQueue(queues, s), waiters[s], pc'[s])
  BY <1>4, NewcomerQueued
<1>9. /\ codel' \in [Tiers -> Queues(Requests)]
      /\ waiter' \in [Requests -> Waiters]
      /\ QueuesDisjoint'
      /\ \A s \in Requests :
           /\ Coherent(Queued(s)', waiter'[s], pc'[s])
           /\ Queued(s)' => InQueue(queues, s)
           /\ ~InQueue(queues, s) \/ Queued(s)' => waiter'[s] = waiters[s]
           /\ InQueue(queues, s) => waiter'[s].state # "admitted"
  BY <1>1, <1>5, <1>8, ReapAllKeeps
<1>10. ASSUME NEW s \in Requests, s # r
       PROVE  /\ Owner(s)' <=> Owner(s)
              /\ Status'[s] = IF Status[s] = "waiting" /\ ~Queued(s)'
                              THEN "refused" ELSE Status[s]
  BY <1>6, <1>9, <1>10, ReapedStatus
<1>11. ~Owner(r) /\ ~Owner(r)'
  BY <1>1, <1>2, <1>7, <1>9 DEF Owner, NewWaiter
<1>12. TokensConserved'
  BY <1>1, <1>10, <1>11, OwnersKept
<1>13. Sound(debt)'
  BY <1>1, <1>3, PenalisedSound
<1>14. TypeOK'
  <2>1. ticker' \in [armed : BOOLEAN, elapsed : 0 .. LongTimeout - 1, due : BOOLEAN]
    BY <1>1, TimeoutAssumption DEF TypeOK, TickerOn
  <2> QED BY <1>1, <1>9, <1>13, <2>1 DEF TypeOK, Sound
<1>15. LockHeld'
  BY <1>1, RequestsAssumption DEF LockHeld, TypeOK
<1>16. WaitersCoherent'
  BY <1>9 DEF WaitersCoherent
<1>17. Control!Ask(r)
  <2> DEFINE S == {s \in Control!Waiting : s # r /\ ~Queued(s)'}
  <2>1. Status[r] = "idle" /\ r \notin S
    BY <1>1, StatusCases
  <2>2. Status'[r] \in {"waiting", "refused"}
    BY <1>7, <1>11 DEF Status
  <2>3. \A s \in Requests \ {r} : Status'[s] = Control!Refusing(S)[s]
    BY <1>10 DEF Control!Refusing, Control!Waiting
  <2>4. Status' = [Control!Refusing(S) EXCEPT ![r] = Status'[r]]
    BY <2>3 DEF Status, Control!Refusing
  <2>5. S \in SUBSET Control!Waiting
    OBVIOUS
  <2> QED BY <2>1, <2>2, <2>4, <2>5 DEF Control!Ask
<1> QED BY <1>9, <1>12, <1>13, <1>14, <1>15, <1>16, <1>17

\* Taking the lock only to run admit: Release, and the background goroutine.
LEMMA ReapingStep ==
  ASSUME IInv, ReapAll(codel, waiter),
         NEW at, \A s \in Requests : Coherent(Queued(s), waiter[s], at[s])
  PROVE  /\ codel' \in [Tiers -> Queues(Requests)]
         /\ waiter' \in [Requests -> Waiters]
         /\ QueuesDisjoint'
         /\ \A s \in Requests :
              /\ Coherent(Queued(s)', waiter'[s], at[s])
              /\ Queued(s)' => Queued(s)
              /\ ~Queued(s) \/ Queued(s)' => waiter'[s] = waiter[s]
              /\ Queued(s) => waiter'[s].state # "admitted"
<1>1. /\ codel \in [Tiers -> Queues(Requests)]
      /\ waiter \in [Requests -> Waiters]
      /\ Sorted(codel)
  BY DEF IInv, TypeOK, QueuesDisjoint
<1>2. \A s \in Requests : Coherent(InQueue(codel, s), waiter[s], at[s])
  BY DEF Queued
<1> QED BY <1>1, <1>2, ReapAllKeeps DEF Queued

LEMMA ReleaseStep ==
  ASSUME IInv, NEW r \in Requests, Release(r)
  PROVE  IInv' /\ Control!Return(r)
<1> USE DEF IInv
<1>1. /\ pc[r] = "holding" /\ m = Nobody /\ m' = r
      /\ UNCHANGED <<debt, hasWaiters, ticker, bg, closed>>
      /\ outstanding' = outstanding - 1
      /\ pc' = [pc EXCEPT ![r] = "releasing"]
      /\ ReapAll(codel, waiter)
  BY DEF Release
<1>2. ~Queued(r) /\ waiter[r].state = "waiting" /\ waiter[r].c = "empty"
  BY <1>1 DEF WaitersCoherent, Coherent, InWait
<1>3. pc'[r] = "releasing" /\ \A s \in Requests \ {r} : pc'[s] = pc[s]
  BY <1>1 DEF TypeOK
<1>4. ASSUME NEW s \in Requests
      PROVE  Coherent(Queued(s), waiter[s], pc'[s])
  BY <1>2, <1>3 DEF WaitersCoherent, Coherent
<1>5. /\ codel' \in [Tiers -> Queues(Requests)]
      /\ waiter' \in [Requests -> Waiters]
      /\ QueuesDisjoint'
      /\ \A s \in Requests :
           /\ Coherent(Queued(s)', waiter'[s], pc'[s])
           /\ Queued(s)' => Queued(s)
           /\ ~Queued(s) \/ Queued(s)' => waiter'[s] = waiter[s]
           /\ Queued(s) => waiter'[s].state # "admitted"
  BY <1>1, <1>4, ReapingStep
<1>6. ASSUME NEW s \in Requests, s # r
      PROVE  /\ Owner(s)' <=> Owner(s)
             /\ Status'[s] = IF Status[s] = "waiting" /\ ~Queued(s)'
                             THEN "refused" ELSE Status[s]
  BY <1>3, <1>5, <1>6, ReapedStatus
<1>7. Owner(r) /\ ~Owner(r)'
  BY <1>1, <1>2, <1>3, <1>5 DEF Owner
<1>8. TokensConserved' /\ outstanding' \in 0 .. Capacity
  BY <1>1, <1>6, <1>7, OwnerRemoved DEF TypeOK
<1>9. TypeOK'
  BY <1>1, <1>5, <1>8 DEF TypeOK
<1>10. LockHeld'
  BY <1>1, RequestsAssumption DEF LockHeld, TypeOK
<1>11. WaitersCoherent'
  BY <1>5 DEF WaitersCoherent
<1>12. Sound(debt)'
  BY <1>1 DEF Sound
<1>13. Control!Return(r)
  <2> DEFINE S == {s \in Control!Waiting : s # r /\ ~Queued(s)'}
  <2>1. Status[r] = "granted" /\ Status'[r] = "idle"
    BY <1>3, <1>7 DEF Status
  <2>2. \A s \in Requests \ {r} : Status'[s] = Control!Refusing(S)[s]
    BY <1>6 DEF Control!Refusing, Control!Waiting
  <2>3. Status' = [Control!Refusing(S) EXCEPT ![r] = Status'[r]]
    BY <2>2 DEF Status, Control!Refusing
  <2>4. S \in SUBSET Control!Waiting
    OBVIOUS
  <2> QED BY <2>1, <2>3, <2>4 DEF Control!Return
<1> QED BY <1>5, <1>8, <1>9, <1>10, <1>11, <1>12, <1>13

LEMMA BackgroundLockStep ==
  ASSUME IInv, BackgroundLock
  PROVE  IInv' /\ Control!Expire
<1> USE DEF IInv
<1>1. /\ bg = "locking" /\ m = Nobody /\ m' = Background /\ bg' = "admitting"
      /\ UNCHANGED <<pc, outstanding, debt, hasWaiters, ticker, closed>>
      /\ ReapAll(codel, waiter)
  BY DEF BackgroundLock
<1>2. ASSUME NEW s \in Requests
      PROVE  Coherent(Queued(s), waiter[s], pc[s])
  BY DEF WaitersCoherent
<1>3. /\ codel' \in [Tiers -> Queues(Requests)]
      /\ waiter' \in [Requests -> Waiters]
      /\ QueuesDisjoint'
      /\ \A s \in Requests :
           /\ Coherent(Queued(s)', waiter'[s], pc[s])
           /\ Queued(s)' => Queued(s)
           /\ ~Queued(s) \/ Queued(s)' => waiter'[s] = waiter[s]
           /\ Queued(s) => waiter'[s].state # "admitted"
  BY <1>1, <1>2, ReapingStep
<1>4. ASSUME NEW s \in Requests
      PROVE  /\ Owner(s)' <=> Owner(s)
             /\ Status'[s] = IF Status[s] = "waiting" /\ ~Queued(s)'
                             THEN "refused" ELSE Status[s]
  BY <1>1, <1>3, ReapedStatus
<1>5. TokensConserved'
  BY <1>1, <1>4, OwnersKept
<1>6. TypeOK'
  BY <1>1, <1>3 DEF TypeOK
<1>7. LockHeld'
  BY <1>1, RequestsAssumption DEF LockHeld, TypeOK
<1>8. WaitersCoherent'
  BY <1>1, <1>3 DEF WaitersCoherent
<1>9. Sound(debt)'
  BY <1>1 DEF Sound
<1>10. Control!Expire
  <2> DEFINE S == {s \in Control!Waiting : ~Queued(s)'}
  <2>1. \A s \in Requests : Status'[s] = Control!Refusing(S)[s]
    BY <1>4 DEF Control!Refusing, Control!Waiting
  <2>2. Status' = Control!Refusing(S)
    BY <2>1 DEF Status, Control!Refusing
  <2>3. S \in SUBSET Control!Waiting
    OBVIOUS
  <2> QED BY <2>2, <2>3 DEF Control!Expire
<1> QED BY <1>3, <1>5, <1>6, <1>7, <1>8, <1>9, <1>10

LEMMA AdmitPopStep ==
  ASSUME IInv, NEW p \in Tiers, AdmitPop(p)
  PROVE  IInv' /\ (UNCHANGED Status \/ \E r \in Requests : Control!Grant(r))
<1> USE DEF IInv
<1>1. /\ ~IsEmpty(codel[p]) /\ Exposed(p) /\ CanAdmit(p)
      /\ codel' = [codel EXCEPT ![p] = Pop(@)]
      /\ UNCHANGED <<m, pc, debt, hasWaiters, ticker, bg, closed>>
  BY DEF AdmitPop
<1>2. PICK w \in Requests :
        /\ w = Peek(codel[p])
        /\ w \in ItemsOf(codel[p])
        /\ Pop(codel[p]) \in Queues(Requests)
        /\ Distinct(Pop(codel[p]))
        /\ ItemsOf(Pop(codel[p])) = ItemsOf(codel[p]) \ {w}
  <2>1. codel[p] \in Queues(Requests) /\ Distinct(codel[p])
    BY DEF TypeOK, QueuesDisjoint, Sorted
  <2> QED BY <1>1, <2>1, PopKeeps, ItemsInRange
<1>3. TierOf[w] = p /\ Queued(w)
  BY <1>2, QueuedWhere DEF QueuesDisjoint, Queued
<1>4. IF waiter[w].state = "waiting"
      THEN /\ waiter' = [waiter EXCEPT ![w].state = "admitted", ![w].c = "true"]
           /\ outstanding' = outstanding + 1
      ELSE /\ waiter' = [waiter EXCEPT ![w] = NewWaiter]
           /\ outstanding' = outstanding
  BY <1>2 DEF AdmitPop
<1>5. ~Queued(w)' /\ \A s \in Requests \ {w} : Queued(s)' <=> Queued(s)
  BY <1>1, <1>2, <1>3, TierOfAssumption DEF TypeOK, Queued, InQueue
<1>6. codel' \in [Tiers -> Queues(Requests)] /\ QueuesDisjoint'
  BY <1>1, <1>2 DEF TypeOK, QueuesDisjoint, Sorted
<1>7. \A s \in Requests \ {w} : waiter'[s] = waiter[s]
  BY <1>4 DEF TypeOK
<1>8. outstanding < Capacity /\ outstanding \in 0 .. Capacity
  BY <1>1, CanAdmitSpare DEF TypeOK
<1>9. Coherent(Queued(w), waiter[w], pc[w])
  BY <1>3 DEF WaitersCoherent
<1>10. LockHeld' /\ Sound(debt)'
  BY <1>1 DEF LockHeld, Sound
<1>11. \A s \in Requests \ {w} : Status'[s] = Status[s] /\ (Owner(s)' <=> Owner(s))
  BY <1>1, <1>5, <1>7 DEF Status, Owner
<1>12. CASE waiter[w].state = "waiting"
  <2>1. waiter'[w].state = "admitted" /\ waiter'[w].c = "true" /\ waiter'[w] \in Waiters
    BY <1>3, <1>4, <1>12 DEF TypeOK, Waiters
  <2>2. ~Owner(w) /\ Owner(w)'
    BY <1>3, <1>9, <1>12, <2>1 DEF Owner, Coherent, InWait
  <2>3. /\ TokensConserved' /\ outstanding' \in 0 .. Capacity
        /\ Cardinality(Owners) < Capacity
    BY <1>3, <1>4, <1>8, <1>11, <1>12, <2>2, OwnerAdded
  <2>4. waiter' \in [Requests -> Waiters]
    BY <1>4, <1>12, <2>1 DEF TypeOK, Waiters
  <2>5. TypeOK'
    BY <1>1, <1>6, <2>3, <2>4 DEF TypeOK
  <2>6. WaitersCoherent'
    <3>1. Coherent(Queued(w)', waiter'[w], pc'[w])
      BY <1>1, <1>3, <1>5, <1>9, <1>12, <2>1 DEF Coherent
    <3>2. \A s \in Requests \ {w} : Coherent(Queued(s)', waiter'[s], pc'[s])
      BY <1>1, <1>5, <1>7 DEF WaitersCoherent, Coherent
    <3> QED BY <3>1, <3>2 DEF WaitersCoherent
  <2>7. Control!Grant(w)
    <3>1. Status[w] = "waiting" /\ Status'[w] = "granted"
      BY <1>3, <1>12, <2>2, StatusCases DEF Status
    <3>2. \A s \in Control!Waiting : TierOf[s] >= TierOf[w]
      <4>1. ASSUME NEW s \in Requests, Status[s] = "waiting"
            PROVE  TierOf[s] >= p
        <5>1. Queued(s) /\ TierOf[s] \in Tiers
          BY <4>1, StatusCases, TierOfAssumption
        <5>2. ~IsEmpty(codel[TierOf[s]])
          BY <5>1 DEF Queued, InQueue, ItemsOf, IsEmpty
        <5> QED BY <1>1, <5>1, <5>2 DEF Exposed, Tiers
      <4> QED BY <1>3, <4>1 DEF Control!Waiting
    <3>3. Status' = [Status EXCEPT ![w] = "granted"]
      BY <1>11, <3>1 DEF Status
    <3> QED BY <2>3, <3>1, <3>2, <3>3, GrantedAreOwners, SameCardinality DEF Control!Grant
  <2> QED BY <1>3, <1>6, <1>10, <2>3, <2>5, <2>6, <2>7
<1>13. CASE waiter[w].state # "waiting"
  <2>1. waiter'[w] = NewWaiter /\ pc[w] = "idle" /\ outstanding' = outstanding
    BY <1>3, <1>4, <1>9, <1>13 DEF TypeOK, Coherent
  <2>2. ~Owner(w) /\ ~Owner(w)'
    BY <1>1, <1>3, <1>9, <2>1 DEF Owner, NewWaiter, Coherent
  <2>3. TokensConserved'
    BY <1>3, <1>11, <2>1, <2>2, OwnersKept
  <2>4. TypeOK'
    BY <1>1, <1>4, <1>6, <1>13, NewWaiterType DEF TypeOK
  <2>5. WaitersCoherent'
    <3>1. Coherent(Queued(w)', waiter'[w], pc'[w])
      BY <1>1, <1>5, <2>1 DEF Coherent, NewWaiter
    <3>2. \A s \in Requests \ {w} : Coherent(Queued(s)', waiter'[s], pc'[s])
      BY <1>1, <1>5, <1>7 DEF WaitersCoherent, Coherent
    <3> QED BY <3>1, <3>2 DEF WaitersCoherent
  <2>6. UNCHANGED Status
    <3>1. Status'[w] = Status[w]
      BY <1>1, <1>3, <2>1, <2>2 DEF Status
    <3> QED BY <1>11, <3>1, StatusUnchanged
  <2> QED BY <1>6, <1>10, <2>3, <2>4, <2>5, <2>6
<1> QED BY <1>12, <1>13

LEMMA TickerOffType ==
  TickerOff \in [armed : BOOLEAN, elapsed : 0 .. LongTimeout - 1, due : BOOLEAN]
<1>1. 0 \in 0 .. LongTimeout - 1
  BY TimeoutAssumption
<1> QED BY <1>1 DEF TickerOff

\* A step that moves no waiter and no token, and keeps callers in Acquire
\* there, is no step of AdmissionControl.
LEMMA QuietStep ==
  ASSUME IInv, UNCHANGED <<waiter, outstanding, debt>>,
         TypeOK', LockHeld', QueuesDisjoint',
         \A r \in Requests :
           /\ Queued(r)' <=> Queued(r)
           /\ \/ pc'[r] = pc[r]
              \/ pc[r] \in InWait /\ pc'[r] \in InWait
              \/ /\ pc[r] \in {"idle", "releasing"} /\ ~Queued(r)
                 /\ pc'[r] \in {"idle", "panicked"}
  PROVE  IInv' /\ UNCHANGED Status
<1> USE DEF IInv
<1>1. ASSUME NEW r \in Requests
      PROVE  /\ Owner(r)' <=> Owner(r)
             /\ Status'[r] = Status[r]
             /\ Coherent(Queued(r)', waiter'[r], pc'[r])
  BY DEF Status, Owner, WaitersCoherent, Coherent, InWait
<1>2. TokensConserved'
  BY <1>1, OwnersKept
<1>3. Sound(debt)'
  BY DEF Sound
<1>4. WaitersCoherent'
  BY <1>1 DEF WaitersCoherent
<1> QED BY <1>1, <1>2, <1>3, <1>4, StatusUnchanged

LEMMA AdmitReturnStep ==
  ASSUME IInv, AdmitReturn
  PROVE  IInv' /\ UNCHANGED Status
<1> USE DEF IInv
<1>1. /\ m # Nobody /\ m' = Nobody
      /\ UNCHANGED <<waiter, codel, outstanding, debt, closed>>
      /\ IF m = Background
         THEN bg' = "select" /\ UNCHANGED pc
         ELSE /\ pc' = [pc EXCEPT ![m] = IF @ = "acquiring" THEN "waiting" ELSE "idle"]
              /\ UNCHANGED bg
      /\ hasWaiters' \in {hasWaiters, FALSE} /\ ticker' \in {ticker, TickerOff}
  BY DEF AdmitReturn
<1>2. \A r \in Requests : Queued(r)' <=> Queued(r)
  BY <1>1 DEF Queued, InQueue
<1>3. QueuesDisjoint'
  BY <1>1 DEF QueuesDisjoint, Sorted
<1>4. TypeOK'
  <2>1. ticker' \in [armed : BOOLEAN, elapsed : 0 .. LongTimeout - 1, due : BOOLEAN]
    BY <1>1, TickerOffType DEF TypeOK
  <2>2. /\ pc' \in [Requests -> {"idle", "acquiring", "waiting", "expiring",
                                 "holding", "releasing", "panicked"}]
        /\ bg' \in {"select", "locking", "admitting", "done"}
    <3>1. CASE m = Background
      BY <1>1, <3>1 DEF TypeOK
    <3>2. CASE m # Background
      BY <1>1, <3>2 DEF TypeOK
    <3> QED BY <3>1, <3>2
  <2> QED BY <1>1, <2>1, <2>2 DEF TypeOK
<1>5. \A r \in Requests :
        \/ pc'[r] = pc[r]
        \/ m = r /\ pc[r] = "acquiring" /\ pc'[r] = "waiting"
        \/ m = r /\ pc[r] = "releasing" /\ pc'[r] = "idle"
  BY <1>1 DEF TypeOK, LockHeld
<1>6. LockHeld'
  <2>1. CASE m = Background
    BY <1>1, <2>1, RequestsAssumption DEF LockHeld, TypeOK
  <2>2. CASE m # Background
    <3>1. m \in Requests /\ pc' = [pc EXCEPT ![m] = IF @ = "acquiring" THEN "waiting" ELSE "idle"]
      BY <1>1, <2>2 DEF TypeOK
    <3>2. \A r \in Requests : pc'[r] \notin {"acquiring", "releasing"}
      BY <3>1 DEF LockHeld, TypeOK
    <3> QED BY <1>1, <2>2, <3>2, RequestsAssumption DEF LockHeld
  <2> QED BY <2>1, <2>2
<1>7. ASSUME NEW r \in Requests
      PROVE  \/ pc'[r] = pc[r]
             \/ pc[r] \in InWait /\ pc'[r] \in InWait
             \/ /\ pc[r] \in {"idle", "releasing"} /\ ~Queued(r)
                /\ pc'[r] \in {"idle", "panicked"}
  BY <1>5 DEF WaitersCoherent, Coherent, InWait
<1> QED BY <1>1, <1>2, <1>3, <1>4, <1>6, <1>7, QuietStep

LEMMA WaitReceiveStep ==
  ASSUME IInv, NEW r \in Requests, WaitReceive(r)
  PROVE  IInv' /\ (UNCHANGED Status \/ Control!Leave(r))
<1> USE DEF IInv
<1>1. /\ pc[r] = "waiting" /\ waiter[r].c # "empty"
      /\ pc' = [pc EXCEPT ![r] = IF waiter[r].c = "true" THEN "holding" ELSE "idle"]
      /\ waiter' = [waiter EXCEPT ![r] = NewWaiter]
      /\ UNCHANGED <<m, codel, outstanding, debt, hasWaiters, ticker, closed, bg>>
  BY DEF WaitReceive, lockVars
<1>2. /\ ~Queued(r)
      /\ waiter[r].state = "admitted" <=> waiter[r].c = "true"
      /\ waiter[r].c \in {"true", "false"}
  BY <1>1 DEF WaitersCoherent, Coherent, TypeOK, Waiters
<1>3. /\ pc'[r] = (IF waiter[r].c = "true" THEN "holding" ELSE "idle")
      /\ waiter'[r] = NewWaiter
      /\ \A s \in Requests \ {r} : pc'[s] = pc[s] /\ waiter'[s] = waiter[s]
  BY <1>1 DEF TypeOK
<1>4. \A s \in Requests : Queued(s)' <=> Queued(s)
  BY <1>1 DEF Queued, InQueue
<1>5. \A s \in Requests \ {r} : Owner(s)' <=> Owner(s)
  BY <1>3 DEF Owner
<1>6. Owner(r)' <=> Owner(r)
  BY <1>1, <1>2, <1>3 DEF Owner, NewWaiter
<1>7. TokensConserved'
  BY <1>1, <1>5, <1>6, OwnersKept
<1>8. TypeOK'
  BY <1>1, NewWaiterType DEF TypeOK
<1>9. LockHeld' /\ QueuesDisjoint' /\ Sound(debt)'
  BY <1>1 DEF LockHeld, TypeOK, QueuesDisjoint, Sorted, Sound
<1>10. WaitersCoherent'
  <2>1. Coherent(Queued(r)', waiter'[r], pc'[r])
    BY <1>2, <1>3, <1>4 DEF Coherent, NewWaiter
  <2>2. \A s \in Requests \ {r} : Coherent(Queued(s)', waiter'[s], pc'[s])
    BY <1>3, <1>4 DEF WaitersCoherent, Coherent
  <2> QED BY <2>1, <2>2 DEF WaitersCoherent
<1>11. \A s \in Requests \ {r} : Status'[s] = Status[s]
  BY <1>3, <1>4, <1>5 DEF Status
<1>12. UNCHANGED Status \/ Control!Leave(r)
  <2>1. CASE waiter[r].c = "true"
    <3>1. Status'[r] = Status[r]
      BY <1>2, <1>6, <2>1 DEF Status, Owner
    <3> QED BY <1>11, <3>1, StatusUnchanged
  <2>2. CASE waiter[r].c = "false"
    <3>1. Status[r] = "refused" /\ Status'[r] = "idle"
      BY <1>1, <1>2, <1>3, <1>6, <2>2 DEF Status, Owner
    <3>2. Status' = [Status EXCEPT ![r] = "idle"]
      BY <1>11, <3>1 DEF Status
    <3> QED BY <3>1, <3>2 DEF Control!Leave
  <2> QED BY <1>2, <2>1, <2>2
<1> QED BY <1>7, <1>8, <1>9, <1>10, <1>12

LEMMA ExpireStep ==
  ASSUME IInv, NEW r \in Requests, Expire(r)
  PROVE  IInv' /\ (UNCHANGED Status \/ Control!Leave(r))
<1> USE DEF IInv
<1>1. /\ pc[r] = "expiring"
      /\ UNCHANGED <<m, codel, outstanding, debt, hasWaiters, ticker, closed, bg>>
  BY DEF Expire, lockVars
<1>2. /\ Queued(r) => waiter[r].c = "empty" /\ waiter[r].state = "waiting"
      /\ ~Queued(r) => waiter[r].state # "expired"
      /\ waiter[r] \in Waiters
  BY <1>1 DEF WaitersCoherent, Coherent, InWait, TypeOK
<1>3. \A s \in Requests : Queued(s)' <=> Queued(s)
  BY <1>1 DEF Queued, InQueue
<1>4. /\ \A s \in Requests \ {r} : pc'[s] = pc[s] /\ waiter'[s] = waiter[s]
      /\ waiter' \in [Requests -> Waiters]
      /\ pc' = [pc EXCEPT ![r] = pc'[r]] /\ pc'[r] \in {"idle", "holding"}
  BY NewWaiterType DEF Expire, TypeOK, Waiters
<1>5. \/ /\ waiter[r].state = "waiting" /\ pc'[r] = "idle"
         /\ \/ Queued(r) /\ waiter'[r].state = "expired" /\ waiter'[r].c = "empty"
            \/ ~Queued(r) /\ waiter'[r] = NewWaiter
      \/ /\ waiter[r].state = "admitted" /\ pc'[r] = "holding"
         /\ ~Queued(r) /\ waiter'[r] = NewWaiter
  <2>1. CASE waiter[r].state = "waiting"
    BY <1>2, <2>1 DEF Expire, TypeOK, Waiters
  <2>2. CASE waiter[r].state # "waiting"
    BY <1>2, <2>2 DEF Expire, TypeOK, Waiters
  <2> QED BY <2>1, <2>2
<1>6. \A s \in Requests \ {r} : Owner(s)' <=> Owner(s)
  BY <1>4 DEF Owner
<1>7. Owner(r)' <=> Owner(r)
  BY <1>1, <1>5 DEF Owner, NewWaiter
<1>8. TokensConserved'
  BY <1>1, <1>6, <1>7, OwnersKept
<1>9. TypeOK'
  BY <1>1, <1>4 DEF TypeOK
<1>10. LockHeld' /\ QueuesDisjoint' /\ Sound(debt)'
  BY <1>1, <1>4 DEF LockHeld, TypeOK, QueuesDisjoint, Sorted, Sound
<1>11. WaitersCoherent'
  <2>1. Coherent(Queued(r)', waiter'[r], pc'[r])
    BY <1>3, <1>5 DEF Coherent, NewWaiter
  <2>2. \A s \in Requests \ {r} : Coherent(Queued(s)', waiter'[s], pc'[s])
    BY <1>3, <1>4 DEF WaitersCoherent, Coherent
  <2> QED BY <2>1, <2>2 DEF WaitersCoherent
<1>12. \A s \in Requests \ {r} : Status'[s] = Status[s]
  BY <1>3, <1>4, <1>6 DEF Status
<1>13. UNCHANGED Status \/ Control!Leave(r)
  <2>1. CASE Owner(r)
    <3>1. Status'[r] = Status[r]
      BY <1>7, <2>1 DEF Status
    <3> QED BY <1>12, <3>1, StatusUnchanged
  <2>2. CASE ~Owner(r)
    <3>1. Status[r] \in {"waiting", "refused"} /\ Status'[r] = "idle"
      BY <1>1, <1>5, <1>7, <2>2 DEF Status, Owner
    <3>2. Status' = [Status EXCEPT ![r] = "idle"]
      BY <1>12, <3>1 DEF Status
    <3> QED BY <3>1, <3>2 DEF Control!Leave
  <2> QED BY <2>1, <2>2
<1> QED BY <1>8, <1>9, <1>10, <1>11, <1>13

\* The steps that change neither a waiter nor a token.
LEMMA OtherSteps ==
  ASSUME IInv,
         \/ \E r \in Requests : AcquireClosed(r) \/ ContextDone(r)
         \/ BackgroundTick \/ BackgroundExit \/ Close
  PROVE  IInv' /\ UNCHANGED Status
<1> USE DEF IInv
<1>1. UNCHANGED <<m, waiter, codel, outstanding, debt, hasWaiters>>
  BY DEF AcquireClosed, ContextDone, BackgroundTick, BackgroundExit, Close, lockVars
<1>2. \A r \in Requests : Queued(r)' <=> Queued(r)
  BY <1>1 DEF Queued, InQueue
<1>3. QueuesDisjoint'
  BY <1>1 DEF QueuesDisjoint, Sorted
<1>4. CASE \E r \in Requests : AcquireClosed(r) \/ ContextDone(r)
  <2>1. PICK r \in Requests : AcquireClosed(r) \/ ContextDone(r)
    BY <1>4
  <2>2. /\ UNCHANGED <<ticker, closed, bg>>
        /\ \A s \in Requests \ {r} : pc'[s] = pc[s]
        /\ \/ pc[r] = "idle" /\ pc'[r] = "panicked" /\ ~Queued(r)
           \/ pc[r] = "waiting" /\ pc'[r] = "expiring"
        /\ pc' = [pc EXCEPT ![r] = pc'[r]]
    BY <2>1 DEF AcquireClosed, ContextDone, MayAsk, lockVars, TypeOK
  <2>3. TypeOK' /\ LockHeld'
    BY <1>1, <2>2 DEF TypeOK, LockHeld
  <2>4. \A s \in Requests :
          \/ pc'[s] = pc[s]
          \/ pc[s] \in InWait /\ pc'[s] \in InWait
          \/ /\ pc[s] \in {"idle", "releasing"} /\ ~Queued(s)
             /\ pc'[s] \in {"idle", "panicked"}
    BY <2>2 DEF InWait
  <2> QED BY <1>1, <1>2, <1>3, <2>3, <2>4, QuietStep
<1>5. CASE BackgroundTick \/ BackgroundExit \/ Close
  <2>1. UNCHANGED pc
    BY <1>5 DEF BackgroundTick, BackgroundExit, Close
  <2>2. TypeOK'
    <3>1. ticker' \in [armed : BOOLEAN, elapsed : 0 .. LongTimeout - 1, due : BOOLEAN]
      <4>1. CASE Close
        BY <4>1, TickerOffType DEF Close
      <4>2. CASE BackgroundTick
        BY <4>2 DEF BackgroundTick, TypeOK
      <4>3. CASE BackgroundExit
        BY <4>3 DEF BackgroundExit, TypeOK, lockVars
      <4> QED BY <1>5, <4>1, <4>2, <4>3
    <3>2. bg' \in {"select", "locking", "admitting", "done"} /\ closed' \in BOOLEAN
      BY <1>5 DEF BackgroundTick, BackgroundExit, Close, lockVars, TypeOK
    <3> QED BY <1>1, <2>1, <3>1, <3>2 DEF TypeOK
  <2>3. LockHeld'
    BY <1>1, <1>5, <2>1 DEF LockHeld, BackgroundTick, BackgroundExit, Close
  <2> QED BY <1>1, <1>2, <1>3, <2>1, <2>2, <2>3, QuietStep
<1> QED BY <1>4, <1>5

LEMMA TickStep ==
  ASSUME IInv, Tick
  PROVE  IInv' /\ UNCHANGED Status
<1> USE DEF IInv
<1>1. /\ UNCHANGED <<m, pc, outstanding, hasWaiters, bg, closed>>
      /\ codel' = [p \in Tiers |-> Aged(codel[p])]
      /\ debt' = Decayed(debt)
      /\ waiter' = [r \in Requests |->
           IF Queued(r) THEN [waiter[r] EXCEPT !.waited = Later(@)] ELSE waiter[r]]
  BY DEF Tick
<1>2. \A t \in 0 .. Long : Later(t) \in 0 .. Long
  BY TimeoutAssumption DEF Later, Long
<1>3. /\ codel' \in [Tiers -> Queues(Requests)]
      /\ \A p \in Tiers : codel'[p].items = codel[p].items
  <2>1. ASSUME NEW p \in Tiers
        PROVE  /\ Aged(codel[p]) \in Queues(Requests)
               /\ Aged(codel[p]).items = codel[p].items
    <3>1. codel[p] \in Queues(Requests)
      BY DEF TypeOK
    <3>2. Later(codel[p].sinceEmptied) \in 0 .. Long
      BY <1>2, <3>1 DEF Queues
    <3> QED BY <3>1, <3>2 DEF Aged, Queues
  <2> QED BY <1>1, <2>1
<1>4. \A r \in Requests : Queued(r)' <=> Queued(r)
  BY <1>3, TierOfAssumption DEF Queued, InQueue, ItemsOf
<1>5. QueuesDisjoint'
  BY <1>3 DEF QueuesDisjoint, Sorted, Distinct, ItemsOf
<1>6. /\ waiter' \in [Requests -> Waiters]
      /\ \A r \in Requests :
           waiter'[r].state = waiter[r].state /\ waiter'[r].c = waiter[r].c
  BY <1>1, <1>2 DEF TypeOK, Waiters
<1>7. \A r \in Requests : (Owner(r)' <=> Owner(r)) /\ Status'[r] = Status[r]
  BY <1>1, <1>4, <1>6 DEF Owner, Status
<1>8. TokensConserved'
  BY <1>1, <1>7, OwnersKept
<1>9. Sound(debt)'
  BY <1>1, DecayedSound
<1>10. ticker' \in [armed : BOOLEAN, elapsed : 0 .. LongTimeout - 1, due : BOOLEAN]
  <2>1. /\ ticker \in [armed : BOOLEAN, elapsed : 0 .. LongTimeout - 1, due : BOOLEAN]
        /\ 0 \in 0 .. LongTimeout - 1
    BY TimeoutAssumption DEF TypeOK
  <2>2. ASSUME ticker.elapsed + 1 < LongTimeout
        PROVE  ticker.elapsed + 1 \in 0 .. LongTimeout - 1
    BY <2>1, <2>2, TimeoutAssumption
  <2>3. CASE ~ticker.armed
    BY <2>1, <2>3 DEF Tick
  <2>4. CASE ticker.armed /\ ticker.elapsed + 1 < LongTimeout
    <3>1. ticker' = [ticker EXCEPT !.elapsed = @ + 1]
      BY <2>4 DEF Tick
    <3> QED BY <2>1, <2>2, <2>4, <3>1
  <2>5. CASE ticker.armed /\ ~(ticker.elapsed + 1 < LongTimeout)
    <3>1. ticker' = [ticker EXCEPT !.elapsed = 0, !.due = TRUE]
      BY <2>5 DEF Tick
    <3> QED BY <2>1, <3>1
  <2> QED BY <2>3, <2>4, <2>5
<1>11. TypeOK'
  BY <1>1, <1>3, <1>6, <1>9, <1>10 DEF TypeOK, Sound
<1>12. LockHeld'
  BY <1>1 DEF LockHeld
<1>13. WaitersCoherent'
  BY <1>1, <1>4, <1>6 DEF WaitersCoherent, Coherent
<1> QED BY <1>5, <1>7, <1>8, <1>9, <1>11, <1>12, <1>13, StatusUnchanged

-----------------------------------------------------------------------------
(* The theorems about tokens and verdicts *)

LEMMA InitInv ==
  Init => IInv /\ Control!Init
<1> SUFFICES ASSUME Init PROVE IInv /\ Control!Init
  OBVIOUS
<1>1. /\ 0 \in 0 .. Long /\ 0 \in 0 .. LongTimeout - 1 /\ << >> \in Seq(Requests)
      /\ 0 \in 0 .. Capacity
  BY TimeoutAssumption, TokensAssumption DEF Long
<1>2. \A p \in Tiers :
        codel[p] \in Queues(Requests) /\ ItemsOf(codel[p]) = {} /\ Distinct(codel[p])
  BY <1>1 DEF Init, NewCoDel, Queues, ItemsOf, Distinct
<1>3. Sound(debt)
  BY NoDebtSound DEF Init
<1>4. codel \in [Tiers -> Queues(Requests)]
  BY <1>2 DEF Init
<1>5. TypeOK
  BY <1>1, <1>3, <1>4, NewWaiterType DEF Init, TypeOK, Sound, TickerOff
<1>6. LockHeld /\ QueuesDisjoint
  BY <1>2, RequestsAssumption DEF Init, LockHeld, QueuesDisjoint, Sorted
<1>7. \A r \in Requests : ~Queued(r) /\ ~Owner(r) /\ Status[r] = "idle"
  BY <1>2, TierOfAssumption DEF Init, Queued, InQueue, Owner, NewWaiter, Status
<1>8. WaitersCoherent
  BY <1>7 DEF WaitersCoherent, Coherent, Init, NewWaiter
<1>9. TokensConserved
  <2>1. Owners = {}
    BY <1>7 DEF Owners
  <2> QED BY <2>1, TokensAssumption, FS_EmptySet DEF TokensConserved, Init
<1>10. Control!Init
  BY <1>7 DEF Control!Init, Status
<1> QED BY <1>3, <1>5, <1>6, <1>8, <1>9, <1>10 DEF IInv

LEMMA NextStep ==
  ASSUME IInv, [Next]_vars
  PROVE  IInv' /\ [Control!Next]_Status
<1>1. CASE UNCHANGED vars
  <2>1. UNCHANGED Status /\ UNCHANGED Owners
    BY <1>1 DEF vars, lockVars, Status, Owner, Owners, Queued, InQueue
  <2> QED BY <1>1, <2>1 DEF vars, lockVars, IInv, TypeOK, LockHeld, QueuesDisjoint,
       Sorted, WaitersCoherent, TokensConserved, Sound, Queued, InQueue
<1>2. ASSUME NEW r \in Requests, Caller(r)
      PROVE  IInv' /\ [Control!Next]_Status
  BY <1>2, AcquireFastStep, AcquireSlowStep, ReleaseStep, WaitReceiveStep, ExpireStep,
     OtherSteps DEF Caller, Control!Next
<1>3. CASE Admit
  BY <1>3, AdmitPopStep, AdmitReturnStep DEF Admit, Control!Next
<1>4. CASE Reaper
  BY <1>4, BackgroundLockStep, OtherSteps DEF Reaper, Control!Next
<1>5. CASE Close
  BY <1>5, OtherSteps
<1>6. CASE Tick
  BY <1>6, TickStep
<1> QED BY <1>1, <1>2, <1>3, <1>4, <1>5, <1>6 DEF Next

LEMMA Inductive == Spec => []IInv
<1>1. Init => IInv
  BY InitInv
<1>2. IInv /\ [Next]_vars => IInv'
  BY NextStep
<1> QED BY <1>1, <1>2, PTL DEF Spec

\* Every field keeps its type: in particular `outstanding' stays between 0 and
\* the capacity, so the panics of semaphore.go:219-222 and 343-346 never happen.
THEOREM TypeCorrect == Spec => []TypeOK
BY Inductive, PTL DEF IInv

\* In every interleaving of callers, contexts, reaper and clock, the tokens
\* taken are those of the calls that succeeded and have not been released.
THEOREM TokenSafety == Spec => []TokensConserved
BY Inductive, PTL DEF IInv

\* A queued waiter's channel is empty, so a verdict can be sent to it under
\* the lock without blocking.
THEOREM SendsNeverBlock == Spec => []VerdictSlotFree
<1>1. IInv => VerdictSlotFree
  BY DEF IInv, VerdictSlotFree, WaitersCoherent, Coherent, QueuesDisjoint, Sorted
<1> QED BY Inductive, <1>1, PTL

\* For any number of tiers, what a tier may take, every tier above it may.
THEOREM PrivilegeSafety == Spec => []PrivilegeOrdered
<1>1. IInv => PrivilegeOrdered
  <2> SUFFICES ASSUME IInv, NEW p \in Tiers, NEW q \in Tiers, p < q, CanAdmit(q)
               PROVE  CanAdmit(p)
    BY DEF PrivilegeOrdered
  <2>1. debt[p] <= debt[q] /\ debt[p] \in Int /\ debt[q] \in Int
    BY MaxDebtType DEF IInv, Sound
  <2>2. (Capacity - outstanding) * DebtUnit \in Int
    <3>1. \A x, y \in Int : x * y \in Int
      OBVIOUS
    <3>2. Capacity - outstanding \in Int
      BY TokensAssumption DEF IInv, TypeOK
    <3> QED BY <3>1, <3>2, DebtAssumption
  <2> QED BY <2>1, <2>2, DebtAssumption DEF CanAdmit
<1> QED BY Inductive, <1>1, PTL

\* The semaphore implements AdmissionControl: at most Capacity tokens, one
\* final verdict per request, strict priority between the tiers.
THEOREM Refinement == Spec => ImplementsAdmissionControl
<1>1. Init => Control!Init
  BY InitInv
<1>2. IInv /\ [Next]_vars => [Control!Next]_Status
  BY NextStep
<1> QED BY Inductive, <1>1, <1>2, PTL DEF Spec, ImplementsAdmissionControl, Control!Spec

-----------------------------------------------------------------------------
(* The queues and the reaper *)

\* Each queue of waiters in order of arrival.
Ordered(q, waiters) ==
  \A i, j \in DOMAIN q.items :
    i <= j => waiters[q.items[i]].waited >= waiters[q.items[j]].waited

\* A queue that was reaped since time passed last.
Fresh(q, waiters) ==
  SetMode(q) = q /\ \A r \in ItemsOf(q) : waiters[r].waited <= Timeout(q)

Reaped == m # Nobody => \A p \in Tiers : Fresh(codel[p], waiter)

\* hasWaiters may lag behind only inside a critical section, and only in one
\* direction; the ticker follows it.
Watched ==
  /\ ~AllEmpty => hasWaiters
  /\ m = Nobody /\ hasWaiters => ~AllEmpty
  /\ ~closed => (ticker.armed <=> hasWaiters)

\* The inductive invariant behind the order, the delay and the reaper.
QInv == IInv /\ QueueOrder /\ Reaped /\ Watched /\ NoIdleToken

\* What the action properties of Semaphore ask of a step.
InTime ==
  \A r \in Requests : Admitted(r) => waiter[r].waited <= Timeout(codel[TierOf[r]])

InTurn ==
  \A r, s \in Requests :
    /\ Admitted(r) /\ codel[TierOf[r]].mode = "FIFO"
    /\ Queued(s) /\ TierOf[s] = TierOf[r] /\ waiter[s].state = "waiting"
    => waiter[s].waited <= waiter[r].waited

Noticed ==
  /\ \A p \in Tiers : ~IsEmpty(codel[p]) /\ ~IsEmpty(codel'[p]) =>
       codel'[p].sinceEmptied >= codel[p].sinceEmptied
  /\ \A r, s \in Requests :
       /\ Admitted(r) /\ codel[TierOf[r]].sinceEmptied > LongTimeout
       /\ Queued(s) /\ TierOf[s] = TierOf[r]
       => waiter[r].waited <= waiter[s].waited /\ waiter[r].waited <= ShortTimeout

\* Noticed, in its parts.
Remembered ==
  \A p \in Tiers : ~IsEmpty(codel[p]) /\ ~IsEmpty(codel'[p]) =>
    codel'[p].sinceEmptied >= codel[p].sinceEmptied

Youngest ==
  \A r, s \in Requests :
    /\ Admitted(r) /\ codel[TierOf[r]].sinceEmptied > LongTimeout
    /\ Queued(s) /\ TierOf[s] = TierOf[r]
    => waiter[r].waited <= waiter[s].waited /\ waiter[r].waited <= ShortTimeout

Afresh ==
  \A p \in Tiers : IsEmpty(codel[p]) /\ ~IsEmpty(codel'[p]) =>
    codel'[p].mode = "FIFO" /\ codel'[p].sinceEmptied = 0

-----------------------------------------------------------------------------
(* One queue *)

\* What is left of a queue in order is in order.
LEMMA SliceOrdered ==
  ASSUME NEW q, NEW r, NEW k \in Int, NEW n \in Int, Slice(r.items, q.items, k, n),
         DOMAIN q.items \subseteq Int,
         NEW old, NEW new, Ordered(q, old),
         \A w \in ItemsOf(r) : new[w].waited = old[w].waited
  PROVE  Ordered(r, new)
<1> SUFFICES ASSUME NEW i \in DOMAIN r.items, NEW j \in DOMAIN r.items, i <= j
             PROVE  new[r.items[i]].waited >= new[r.items[j]].waited
  BY DEF Ordered
<1>1. ASSUME NEW x \in DOMAIN r.items
      PROVE  /\ k + x \in DOMAIN q.items /\ r.items[x] = q.items[k + x] /\ x \in Int
             /\ new[r.items[x]].waited = old[r.items[x]].waited
  <2>1. k + x \in DOMAIN q.items /\ r.items[x] = q.items[k + x] /\ x \in Int
    BY DEF Slice
  <2>2. r.items[x] \in ItemsOf(r)
    BY DEF ItemsOf
  <2> QED BY <2>1, <2>2
<1>2. k + i <= k + j
  BY <1>1
<1>3. old[q.items[k + i]].waited >= old[q.items[k + j]].waited
  BY <1>1, <1>2 DEF Ordered
<1> QED BY <1>1, <1>3

\* A newcomer is put where the youngest belongs.
LEMMA PushOrdered ==
  ASSUME NEW q \in Queues(Requests), NEW r \in Requests, r \notin ItemsOf(q),
         NEW old \in [Requests -> Waiters], Ordered(q, old)
  PROVE  Ordered(Push(q, r), [old EXCEPT ![r] = NewWaiter])
<1> DEFINE new == [old EXCEPT ![r] = NewWaiter]
           s == q.items
           c == SetMode(q)
<1>1. /\ c \in Queues(Requests) /\ c.items = s /\ s \in Seq(Requests)
      /\ Len(s) \in Nat /\ DOMAIN s = 1 .. Len(s)
  BY SetModeKeeps, ItemsInRange
<1>2. /\ new[r].waited = 0
      /\ \A i \in DOMAIN s : s[i] # r /\ s[i] \in Requests /\ new[s[i]] = old[s[i]]
      /\ \A w \in Requests : old[w].waited \in Nat
  <2>1. \A i \in DOMAIN s : s[i] # r /\ s[i] \in Requests
    BY <1>1, ElementOfSeq DEF ItemsOf
  <2> QED BY <2>1, TimeoutAssumption DEF NewWaiter, Waiters, Long
<1>3. CASE Len(s) < QueueSize
  <2>1. /\ Push(q, r) = [c EXCEPT !.items = Append(s, r)]
        /\ [c EXCEPT !.items = Append(s, r)].items = Append(s, r)
    BY <1>1, <1>3, AppendProperties, SetItems DEF Push
  <2>2. /\ DOMAIN Append(s, r) = 1 .. Len(s) + 1
        /\ \A i \in 1 .. Len(s) : Append(s, r)[i] = s[i]
        /\ Append(s, r)[Len(s) + 1] = r
    BY <1>1, AppendProperties
  <2> DEFINE t == Append(s, r)
             n == Len(s)
  <2> HIDE DEF t, n, new
  <2>3. ASSUME NEW i \in 1 .. n + 1, NEW j \in 1 .. n + 1, i <= j
        PROVE  new[t[i]].waited >= new[t[j]].waited
    <3>1. CASE j = n + 1
      <4>1. new[t[j]].waited = 0
        BY <1>2, <2>2, <3>1 DEF t, n
      <4>2. new[t[i]].waited \in Nat
        <5>1. CASE i = n + 1
          BY <1>2, <2>2, <5>1 DEF t, n
        <5>2. CASE i # n + 1
          <6>1. i \in 1 .. n
            BY <1>1, <5>2 DEF n
          <6> QED BY <1>1, <1>2, <2>2, <6>1 DEF t, n
        <5> QED BY <5>1, <5>2
      <4> QED BY <4>1, <4>2
    <3>2. CASE j # n + 1
      <4>1. i \in 1 .. n /\ j \in 1 .. n
        BY <1>1, <2>3, <3>2 DEF n
      <4>2. old[s[i]].waited >= old[s[j]].waited
        BY <1>1, <2>3, <4>1 DEF n, Ordered
      <4> QED BY <1>1, <1>2, <2>2, <4>1, <4>2 DEF t, n
    <3> QED BY <3>1, <3>2
  <2>4. Push(q, r).items = t /\ DOMAIN t = 1 .. n + 1
    BY <2>1, <2>2 DEF t, n
  <2> QED BY <2>3, <2>4 DEF Ordered, new
<1>4. CASE ~(Len(s) < QueueSize)
  <2>1. Push(q, r).items = s
    BY <1>1, <1>4 DEF Push
  <2> HIDE DEF new
  <2> QED BY <1>2, <2>1 DEF Ordered, new
<1> QED BY <1>3, <1>4

\* What reap leaves is in order and not stale.
LEMMA ReapFresh ==
  ASSUME NEW q \in Queues(Requests), NEW old \in [Requests -> Waiters], Ordered(q, old),
         NEW waited, waited = [r \in Requests |-> old[r].waited],
         NEW new, \A w \in ItemsOf(Reap(q, waited)) : new[w].waited = old[w].waited
  PROVE  Ordered(Reap(q, waited), new) /\ Fresh(Reap(q, waited), new)
<1> DEFINE c == SetMode(q)
           r == Reap(q, waited)
           n == Len(q.items)
           k == StaleCount(c, waited)
<1>1. /\ k \in 0 .. n /\ n \in Nat /\ DOMAIN q.items = 1 .. n
      /\ r \in Queues(Requests) /\ r.items \in Seq(Requests)
      /\ Slice(r.items, q.items, k, n - k)
      /\ r = SetMode([c EXCEPT !.items = r.items])
  BY ReapItems
<1>2. c \in Queues(Requests) /\ c.items = q.items /\ SetMode(c) = c
  BY SetModeKeeps, SetModeTwice
<1>3. waited \in [Requests -> Int] /\ \A w \in Requests : waited[w] = old[w].waited
  BY TimeoutAssumption DEF Waiters, Long
<1>4. Ordered(r, new)
  <2> HIDE DEF c, r, n, k
  <2>1. k \in Int /\ n - k \in Int /\ DOMAIN q.items \subseteq Int
    BY <1>1
  <2>2. \A w \in ItemsOf(r) : new[w].waited = old[w].waited
    BY DEF r
  <2> QED BY <1>1, <2>1, <2>2, SliceOrdered
<1>5. SetMode(r) = r
  <2>1. [c EXCEPT !.items = r.items] \in Queues(Requests)
    BY <1>1, <1>2, SetItems
  <2> HIDE DEF c, r, n, k
  <2> QED BY <1>1, <2>1, SetModeTwice
<1>6. ASSUME NEW w \in ItemsOf(r) PROVE new[w].waited <= Timeout(r)
  <2> HIDE DEF c, r, n, k
  <2>1. PICK i \in 1 .. n - k : w = r.items[i]
    BY <1>1, <1>6 DEF ItemsOf, Slice
  <2>2. k + i \in 1 .. n /\ w = q.items[k + i] /\ k + i > k /\ w \in Requests
    <3>1. k + i \in 1 .. n /\ k + i > k
      BY <1>1
    <3>2. w = q.items[k + i]
      BY <1>1, <2>1 DEF Slice
    <3> QED BY <3>1, <3>2, <1>1, ItemsInRange DEF ItemsOf
  <2>3. \A x, y \in DOMAIN c.items : x <= y => waited[c.items[x]] >= waited[c.items[y]]
    <3>1. \A x \in DOMAIN q.items : q.items[x] \in Requests
      BY ItemsInRange DEF ItemsOf
    <3> QED BY <1>2, <1>3, <3>1 DEF Ordered
  <2>4. waited[c.items[k + i]] <= Timeout(c)
    <3>1. k + i \in 1 .. Len(c.items) /\ k + i > StaleCount(c, waited)
      BY <1>2, <2>2 DEF n, k
    <3> QED BY <1>2, <1>3, <2>3, <3>1, ReapLeavesNoStale
  <2>5. r.items # << >> /\ c.items # << >>
    <3>1. i \in DOMAIN r.items /\ k + i \in DOMAIN c.items
      BY <1>1, <1>2, <2>1, <2>2 DEF Slice
    <3> QED BY <3>1
  <2>6. r.mode = c.mode
    BY <1>1, <1>2, <2>5, ModeStays
  <2>7. new[w].waited = waited[w]
    BY <1>3, <1>6, <2>2 DEF r
  <2> QED BY <1>2, <2>2, <2>4, <2>6, <2>7 DEF Timeout
<1> QED BY <1>4, <1>5, <1>6 DEF Fresh

\* A pop keeps the order and the mode of what is left.
LEMMA PopFresh ==
  ASSUME NEW q \in Queues(Requests), ~IsEmpty(q), Distinct(q),
         NEW old, Ordered(q, old), Fresh(q, old),
         NEW new, \A w \in ItemsOf(Pop(q)) : new[w].waited = old[w].waited
  PROVE  Ordered(Pop(q), new) /\ Fresh(Pop(q), new)
<1> DEFINE r == Pop(q)
           n == Len(q.items)
           k == IF q.mode = "FIFO" THEN 1 ELSE 0
<1>1. /\ n \in Nat \ {0} /\ DOMAIN q.items = 1 .. n
      /\ r \in Queues(Requests) /\ r.items \in Seq(Requests)
      /\ r = SetMode([q EXCEPT !.items = r.items])
  BY PopItems
<1>2. Slice(r.items, q.items, k, n - 1) /\ k \in {0, 1}
  BY PopItems
<1>3. Ordered(r, new)
  <2> HIDE DEF r, n, k
  <2>1. k \in Int /\ n - 1 \in Int /\ DOMAIN q.items \subseteq Int
    BY <1>1, <1>2
  <2>2. \A w \in ItemsOf(r) : new[w].waited = old[w].waited
    BY DEF r
  <2> QED BY <1>2, <2>1, <2>2, SliceOrdered
<1>4. SetMode(r) = r
  <2>1. [q EXCEPT !.items = r.items] \in Queues(Requests)
    BY <1>1, SetItems
  <2> HIDE DEF r, n, k
  <2> QED BY <1>1, <2>1, SetModeTwice
<1>5. ASSUME NEW w \in ItemsOf(r) PROVE new[w].waited <= Timeout(r)
  <2>1. w \in ItemsOf(q) /\ new[w].waited = old[w].waited
    BY PopKeeps
  <2> HIDE DEF r, n, k
  <2>2. r.items # << >> /\ q.items # << >>
    BY DEF ItemsOf, IsEmpty
  <2>3. r.mode = q.mode
    BY <1>1, <2>2, ModeStays DEF Fresh
  <2> QED BY <2>1, <2>3 DEF Timeout, Fresh
<1> QED BY <1>3, <1>4, <1>5 DEF Fresh

-----------------------------------------------------------------------------
(* Steps *)

\* Steps that move no waiter in a queue, admit nobody and take no lock.
LEMMA QuietQueues ==
  ASSUME QInv, codel' = codel, m' \in {m, Nobody},
         \A r \in Requests :
           /\ Queued(r) => waiter'[r].waited = waiter[r].waited
           /\ ~Admitted(r)
  PROVE  QueueOrder' /\ Reaped' /\ InTime /\ InTurn /\ Youngest /\ Afresh
<1>1. ASSUME NEW p \in Tiers, NEW r \in ItemsOf(codel[p])
      PROVE  waiter'[r].waited = waiter[r].waited
  <2>1. Queued(r) /\ r \in Requests
    BY QueuedWhere, ItemsInRange DEF QInv, IInv, TypeOK, QueuesDisjoint, Queued
  <2> QED BY <2>1
<1>2. QueueOrder'
  BY <1>1 DEF QInv, QueueOrder, ItemsOf
<1>3. Reaped'
  BY <1>1 DEF QInv, Reaped, Fresh
<1> QED BY <1>2, <1>3 DEF InTime, InTurn, Youngest, Afresh

\* The first loop of admit.
LEMMA ReapingQueues ==
  ASSUME NEW queues \in [Tiers -> Queues(Requests)],
         NEW waiters \in [Requests -> Waiters],
         Sorted(queues),
         NEW at,
         \A r \in Requests : Coherent(InQueue(queues, r), waiters[r], at[r]),
         \A p \in Tiers : Ordered(queues[p], waiters),
         ReapAll(queues, waiters)
  PROVE  /\ QueueOrder' /\ Reaped'
         /\ \A p \in Tiers : IsEmpty(queues[p]) => IsEmpty(codel'[p])
<1> DEFINE waited == [r \in Requests |-> waiters[r].waited]
<1>1. codel' = [p \in Tiers |-> Reap(queues[p], waited)]
  BY DEF ReapAll
<1>2. /\ codel' \in [Tiers -> Queues(Requests)]
      /\ QueuesDisjoint'
      /\ \A r \in Requests : Queued(r)' => waiter'[r] = waiters[r]
  BY ReapAllKeeps
<1>3. waited = [r \in Requests |-> waiters[r].waited]
  OBVIOUS
<1> HIDE DEF waited
<1>4. ASSUME NEW p \in Tiers
      PROVE  Ordered(codel'[p], waiter') /\ Fresh(codel'[p], waiter')
  <2>1. codel'[p] = Reap(queues[p], waited)
    BY <1>1
  <2>2. ASSUME NEW w \in ItemsOf(codel'[p]) PROVE waiter'[w].waited = waiters[w].waited
    <3>1. w \in Requests
      BY <1>2, ItemsInRange
    <3>2. InQueue(codel', w)
      BY <1>2, QueuedWhere DEF QueuesDisjoint
    <3> QED BY <1>2, <3>1, <3>2 DEF Queued, InQueue
  <2> QED BY <1>3, <2>1, <2>2, ReapFresh
<1>5. ASSUME NEW p \in Tiers, IsEmpty(queues[p])
      PROVE  IsEmpty(codel'[p])
  <2>1. ItemsOf(queues[p]) = {}
    BY <1>5, EmptyHasNoItems
  <2>2. ItemsOf(Reap(queues[p], waited)) = {} /\ Reap(queues[p], waited) \in Queues(Requests)
    BY <2>1, ReapKeeps DEF Sorted
  <2> QED BY <1>1, <2>2, EmptyHasNoItems
<1>6. QueueOrder'
  BY <1>4 DEF QueueOrder, Ordered
<1>7. Reaped'
  BY <1>4 DEF Reaped
<1> QED BY <1>5, <1>6, <1>7

\* The callers that take the lock only to run admit.
LEMMA ReapingOnly ==
  ASSUME QInv, ReapAll(codel, waiter)
  PROVE  /\ QueueOrder' /\ Reaped' /\ (AllEmpty => AllEmpty')
         /\ \A r \in Requests : ~Admitted(r)
         /\ Afresh
<1>1. /\ codel \in [Tiers -> Queues(Requests)]
      /\ waiter \in [Requests -> Waiters]
      /\ Sorted(codel)
      /\ \A s \in Requests : Coherent(InQueue(codel, s), waiter[s], pc[s])
  BY DEF QInv, IInv, TypeOK, QueuesDisjoint, WaitersCoherent, Queued
<1>2. \A p \in Tiers : Ordered(codel[p], waiter)
  BY DEF QInv, QueueOrder, Ordered
<1>3. /\ QueueOrder' /\ Reaped'
      /\ \A p \in Tiers : IsEmpty(codel[p]) => IsEmpty(codel'[p])
  BY <1>1, <1>2, ReapingQueues
<1>4. ASSUME NEW r \in Requests PROVE ~Admitted(r)
  <2>1. /\ ~Queued(r) => waiter'[r] = waiter[r]
        /\ Queued(r) => waiter'[r].state # "admitted"
    BY <1>1, ReapingStep DEF QInv, Queued
  <2> QED BY <2>1 DEF Admitted
<1> QED BY <1>3, <1>4 DEF AllEmpty, Afresh

\* Acquire, for a caller that has to queue.
LEMMA AcquireSlowQueues ==
  ASSUME QInv, NEW r \in Requests, AcquireSlow(r)
  PROVE  /\ QueueOrder' /\ Reaped' /\ Afresh
         /\ \A s \in Requests : ~Admitted(s)
<1> DEFINE p == TierOf[r]
           queues == [codel EXCEPT ![p] = Push(@, r)]
           waiters == [waiter EXCEPT ![r] = NewWaiter]
<1>1. /\ p \in Tiers /\ ~Queued(r)
      /\ codel \in [Tiers -> Queues(Requests)] /\ waiter \in [Requests -> Waiters]
  BY TierOfAssumption DEF AcquireSlow, MayAsk, QInv, IInv, TypeOK
<1>2. /\ queues \in [Tiers -> Queues(Requests)] /\ Sorted(queues)
      /\ waiters \in [Requests -> Waiters] /\ ReapAll(queues, waiters)
      /\ waiters[r] = NewWaiter
  BY NewcomerQueued DEF QInv
<1>3. \A s \in Requests : Coherent(InQueue(queues, s), waiters[s], pc'[s])
  BY NewcomerQueued DEF QInv
<1>4. /\ queues[p] = Push(codel[p], r)
      /\ \A q \in Tiers \ {p} : queues[q] = codel[q]
  BY <1>1
<1>5. ASSUME NEW q \in Tiers PROVE Ordered(queues[q], waiters)
  <2>1. Ordered(codel[q], waiter)
    BY DEF QInv, QueueOrder, Ordered
  <2>2. CASE q = p
    BY <1>1, <1>4, <2>1, <2>2, PushOrdered DEF Queued, InQueue
  <2>3. CASE q # p
    <3>1. \A w \in ItemsOf(codel[q]) : w # r /\ w \in Requests
      BY <1>1, <2>3, ItemsInRange DEF QInv, IInv, QueuesDisjoint, Sorted
    <3>2. \A w \in ItemsOf(codel[q]) : waiters[w] = waiter[w]
      BY <1>1, <3>1
    <3> HIDE DEF queues, waiters
    <3> QED BY <1>4, <2>1, <2>3, <3>2 DEF Ordered, ItemsOf
  <2> QED BY <2>2, <2>3
<1> HIDE DEF queues, waiters
<1>6. /\ QueueOrder' /\ Reaped'
      /\ \A q \in Tiers : IsEmpty(queues[q]) => IsEmpty(codel'[q])
  BY <1>2, <1>3, <1>5, ReapingQueues
<1>7. ASSUME NEW s \in Requests PROVE ~Admitted(s)
  <2>1. /\ ~InQueue(queues, s) => waiter'[s] = waiters[s]
        /\ InQueue(queues, s) => waiter'[s].state # "admitted"
    BY <1>2, <1>3, ReapAllKeeps
  <2>2. waiters[s].state = "waiting" \/ waiters[s] = waiter[s]
    BY <1>1, <1>2 DEF NewWaiter, waiters
  <2> QED BY <2>1, <2>2 DEF Admitted
<1>8. Afresh
  <2> SUFFICES ASSUME NEW q \in Tiers, IsEmpty(codel[q]), ~IsEmpty(codel'[q])
               PROVE  codel'[q].mode = "FIFO" /\ codel'[q].sinceEmptied = 0
    BY DEF Afresh
  <2>1. q = p /\ ~IsEmpty(queues[p])
    BY <1>4, <1>6
  <2> DEFINE waited == [s \in Requests |-> waiters[s].waited]
             c == queues[p]
  <2>2. codel'[p] = Reap(c, waited)
    BY <1>1, <1>2 DEF ReapAll
  <2>3. SetMode(codel[p]) = [codel[p] EXCEPT !.mode = "FIFO", !.sinceEmptied = 0]
    BY <2>1 DEF SetMode
  <2>4. c.mode = "FIFO" /\ c.sinceEmptied = 0
    BY <1>1, <1>4, <2>3 DEF Push, Queues
  <2>5. SetMode(c) = c
    BY <2>1, <2>4, TimeoutAssumption DEF SetMode
  <2>6. /\ c \in Queues(Requests) /\ Reap(c, waited) \in Queues(Requests)
        /\ Reap(c, waited).items \in Seq(Requests)
        /\ Reap(c, waited) = SetMode([SetMode(c) EXCEPT !.items = Reap(c, waited).items])
    BY <1>1, <1>2, ReapItems
  <2> HIDE DEF c, waited
  <2>7. Reap(c, waited).items # << >> /\ c.items # << >>
    BY <2>1, <2>2 DEF IsEmpty, c
  <2> QED BY <2>1, <2>2, <2>4, <2>5, <2>6, <2>7, ModeStays
<1> QED BY <1>6, <1>7, <1>8

\* A round of admit's second loop.
LEMMA AdmitPopQueues ==
  ASSUME QInv, NEW p \in Tiers, AdmitPop(p)
  PROVE  QueueOrder' /\ Reaped' /\ InTime /\ InTurn /\ Youngest /\ Afresh
<1> DEFINE w == Peek(codel[p])
<1>1. /\ m # Nobody /\ m' = m /\ ~IsEmpty(codel[p])
      /\ codel' = [codel EXCEPT ![p] = Pop(@)]
      /\ codel \in [Tiers -> Queues(Requests)] /\ waiter \in [Requests -> Waiters]
      /\ Distinct(codel[p]) /\ codel[p] \in Queues(Requests)
  BY DEF AdmitPop, QInv, IInv, TypeOK, QueuesDisjoint, Sorted
<1>2. /\ w \in ItemsOf(codel[p]) /\ Pop(codel[p]) \in Queues(Requests)
      /\ ItemsOf(Pop(codel[p])) = ItemsOf(codel[p]) \ {w}
      /\ w \in Requests /\ TierOf[w] = p
  <2>1. /\ w \in ItemsOf(codel[p]) /\ Pop(codel[p]) \in Queues(Requests)
        /\ ItemsOf(Pop(codel[p])) = ItemsOf(codel[p]) \ {w}
    BY <1>1, PopKeeps
  <2> QED BY <1>1, <2>1, ItemsInRange, QueuedWhere DEF QInv, IInv, QueuesDisjoint
<1> HIDE DEF w
<1>3. \A s \in Requests \ {w} : waiter'[s] = waiter[s]
  BY <1>1 DEF AdmitPop, w
<1>4. ASSUME NEW q \in Tiers
      PROVE  Ordered(codel[q], waiter) /\ Fresh(codel[q], waiter)
  BY <1>1 DEF QInv, QueueOrder, Ordered, Reaped
<1>5. ASSUME NEW q \in Tiers
      PROVE  Ordered(codel'[q], waiter') /\ Fresh(codel'[q], waiter')
  <2>1. CASE q = p
    <3>1. \A s \in ItemsOf(Pop(codel[p])) : waiter'[s].waited = waiter[s].waited
      BY <1>1, <1>2, <1>3, ItemsInRange
    <3>2. codel'[q] = Pop(codel[p])
      BY <1>1, <2>1
    <3> QED BY <1>1, <1>4, <3>1, <3>2, PopFresh
  <2>2. CASE q # p
    <3>1. codel'[q] = codel[q]
      BY <1>1, <2>2
    <3>2. \A s \in ItemsOf(codel[q]) : waiter'[s] = waiter[s]
      BY <1>1, <1>2, <1>3, <2>2, ItemsInRange DEF QInv, IInv, QueuesDisjoint, Sorted
    <3> QED BY <1>4, <3>1, <3>2 DEF Ordered, Fresh, ItemsOf
  <2> QED BY <2>1, <2>2
<1>6. QueueOrder' /\ Reaped'
  BY <1>5 DEF QueueOrder, Ordered, Reaped
<1>7. \A r \in Requests : Admitted(r) => r = w
  BY <1>3 DEF Admitted
<1>8. InTime
  BY <1>2, <1>4, <1>7 DEF InTime, Fresh
<1>9. InTurn
  <2> SUFFICES ASSUME codel[p].mode = "FIFO", NEW s \in ItemsOf(codel[p])
               PROVE  waiter[s].waited <= waiter[w].waited
    BY <1>2, <1>7 DEF InTurn, Queued, InQueue
  <2>1. /\ w = codel[p].items[1] /\ DOMAIN codel[p].items = 1 .. Len(codel[p].items)
        /\ Len(codel[p].items) \in Nat \ {0}
    BY <1>1, PopItems DEF w
  <2>2. PICK i \in 1 .. Len(codel[p].items) : s = codel[p].items[i]
    BY <2>1 DEF ItemsOf
  <2>3. waiter[codel[p].items[1]].waited >= waiter[codel[p].items[i]].waited
    BY <1>4, <2>1 DEF Ordered
  <2>4. waiter[s].waited \in Int /\ waiter[w].waited \in Int
    BY <1>1, <1>2, ItemsInRange, TimeoutAssumption DEF Waiters, Long
  <2> QED BY <2>1, <2>2, <2>3, <2>4
<1>10. Afresh
  BY <1>1 DEF Afresh
<1>11. Youngest
  <2> SUFFICES ASSUME codel[p].sinceEmptied > LongTimeout, NEW s \in ItemsOf(codel[p])
               PROVE  waiter[w].waited <= waiter[s].waited /\ waiter[w].waited <= ShortTimeout
    BY <1>2, <1>7 DEF Youngest, Queued, InQueue
  <2>1. codel[p].mode = "LIFO"
    <3>1. SetMode(codel[p]) = codel[p]
      BY <1>4 DEF Fresh
    <3>2. SetMode(codel[p]) = [codel[p] EXCEPT !.mode = "LIFO"]
      BY <1>1 DEF SetMode
    <3> QED BY <1>1, <3>1, <3>2 DEF Queues
  <2> DEFINE n == Len(codel[p].items)
  <2>2. w = codel[p].items[n] /\ DOMAIN codel[p].items = 1 .. n /\ n \in Nat \ {0}
    BY <1>1, <2>1, PopItems DEF w
  <2>3. PICK i \in 1 .. n : s = codel[p].items[i]
    BY <2>2 DEF ItemsOf
  <2>4. waiter[codel[p].items[i]].waited >= waiter[codel[p].items[n]].waited
    BY <1>4, <2>2 DEF Ordered
  <2>5. waiter[s].waited \in Int /\ waiter[w].waited \in Int
    BY <1>1, <1>2, ItemsInRange, TimeoutAssumption DEF Waiters, Long
  <2>6. waiter[w].waited <= ShortTimeout
    BY <1>2, <1>4, <2>1 DEF Fresh, Timeout
  <2> QED BY <2>2, <2>3, <2>4, <2>5, <2>6
<1> QED BY <1>6, <1>8, <1>9, <1>10, <1>11

\* A tick ages all waiters alike.
LEMMA TickQueues ==
  ASSUME QInv, Tick
  PROVE  QueueOrder' /\ Reaped' /\ InTime /\ InTurn /\ Youngest /\ Afresh /\ (AllEmpty' <=> AllEmpty)
<1>1. /\ m = Nobody /\ m' = Nobody
      /\ codel' = [p \in Tiers |-> Aged(codel[p])]
      /\ waiter' = [r \in Requests |->
           IF Queued(r) THEN [waiter[r] EXCEPT !.waited = Later(@)] ELSE waiter[r]]
      /\ codel \in [Tiers -> Queues(Requests)] /\ waiter \in [Requests -> Waiters]
  BY DEF Tick, QInv, IInv, TypeOK
<1>2. \A p \in Tiers : codel'[p].items = codel[p].items
  BY <1>1 DEF Aged, Queues
<1>3. \A p \in Tiers : \A r \in ItemsOf(codel[p]) :
        /\ r \in Requests /\ waiter[r].waited \in 0 .. Long
        /\ waiter'[r].waited = Later(waiter[r].waited)
  <2> SUFFICES ASSUME NEW p \in Tiers, NEW r \in ItemsOf(codel[p])
               PROVE  /\ r \in Requests /\ waiter[r].waited \in 0 .. Long
                      /\ waiter'[r].waited = Later(waiter[r].waited)
    OBVIOUS
  <2>1. r \in Requests /\ Queued(r)
    BY <1>1, ItemsInRange, QueuedWhere DEF QInv, IInv, QueuesDisjoint, Queued
  <2> QED BY <1>1, <2>1 DEF Waiters
<1>4. \A x, y \in 0 .. Long : x >= y => Later(x) >= Later(y)
  BY TimeoutAssumption DEF Later, Long
<1>5. QueueOrder'
  BY <1>2, <1>3, <1>4 DEF QInv, QueueOrder, ItemsOf
<1>6. \A r \in Requests : ~Admitted(r)
  BY <1>1 DEF Admitted, Waiters
<1>7. \A p \in Tiers : IsEmpty(codel'[p]) <=> IsEmpty(codel[p])
  BY <1>2 DEF IsEmpty
<1> QED BY <1>1, <1>5, <1>6, <1>7 DEF Reaped, InTime, InTurn, Youngest, Afresh, AllEmpty
\* The steps outside admit and the clock leave the queues and the age of the
\* waiters in them alone.
LEMMA QuietMoves ==
  ASSUME QInv,
         \/ AdmitReturn \/ BackgroundTick \/ BackgroundExit \/ Close
         \/ \E r \in Requests : AcquireFast(r) \/ AcquireClosed(r) \/ ContextDone(r)
         \/ \E r \in Requests : WaitReceive(r) \/ Expire(r)
  PROVE  /\ codel' = codel /\ m' \in {m, Nobody}
         /\ \A r \in Requests :
              /\ Queued(r) => waiter'[r].waited = waiter[r].waited
              /\ ~Admitted(r)
<1>1. waiter \in [Requests -> Waiters]
  BY DEF QInv, IInv, TypeOK
<1>2. CASE \/ AdmitReturn \/ BackgroundTick \/ BackgroundExit \/ Close
           \/ \E r \in Requests : AcquireFast(r) \/ AcquireClosed(r) \/ ContextDone(r)
  <2>1. codel' = codel /\ m' \in {m, Nobody} /\ waiter' = waiter
    BY <1>2 DEF AdmitReturn, BackgroundTick, BackgroundExit, Close, AcquireFast,
       AcquireClosed, ContextDone, lockVars
  <2> QED BY <2>1 DEF Admitted
<1>3. ASSUME NEW r \in Requests, WaitReceive(r) \/ Expire(r)
      PROVE  /\ codel' = codel /\ m' = m
             /\ \A s \in Requests :
                  /\ Queued(s) => waiter'[s].waited = waiter[s].waited
                  /\ ~Admitted(s)
  <2>1. codel' = codel /\ m' = m
    BY <1>3 DEF WaitReceive, Expire, lockVars
  <2>2. \A s \in Requests \ {r} : waiter'[s] = waiter[s]
    BY <1>1, <1>3 DEF WaitReceive, Expire
  <2>3. waiter'[r].state \in {"waiting", "expired"}
    BY <1>1, <1>3 DEF WaitReceive, Expire, NewWaiter, Waiters
  <2>4. Queued(r) => waiter'[r].waited = waiter[r].waited
    <3>1. ASSUME Queued(r), WaitReceive(r)
          PROVE  FALSE
      BY <3>1 DEF WaitReceive, QInv, IInv, WaitersCoherent, Coherent
    <3>2. ASSUME Queued(r), Expire(r)
          PROVE  waiter'[r].waited = waiter[r].waited
      <4>1. waiter[r].state = "waiting"
        BY <3>2 DEF Expire, QInv, IInv, WaitersCoherent, Coherent
      <4>2. waiter' = [waiter EXCEPT ![r].state = "expired"]
        BY <3>2, <4>1 DEF Expire
      <4> QED BY <1>1, <4>2 DEF Waiters
    <3> QED BY <1>3, <3>1, <3>2
  <2> QED BY <2>1, <2>2, <2>3, <2>4 DEF Admitted
<1>4. CASE \E r \in Requests : WaitReceive(r) \/ Expire(r)
  BY <1>3, <1>4
<1> QED BY <1>2, <1>4

\* What every step does to the queues.
LEMMA QueuesStep ==
  ASSUME QInv, Next
  PROVE  QueueOrder' /\ Reaped' /\ InTime /\ InTurn /\ Youngest /\ Afresh
<1>1. CASE \/ AdmitReturn \/ BackgroundTick \/ BackgroundExit \/ Close
           \/ \E r \in Requests : AcquireFast(r) \/ AcquireClosed(r) \/ ContextDone(r)
           \/ \E r \in Requests : WaitReceive(r) \/ Expire(r)
  <2>1. codel' = codel /\ m' \in {m, Nobody}
    BY <1>1, QuietMoves
  <2>2. \A r \in Requests :
          /\ Queued(r) => waiter'[r].waited = waiter[r].waited
          /\ ~Admitted(r)
    BY <1>1, QuietMoves
  <2> QED BY <2>1, <2>2, QuietQueues
<1>2. CASE BackgroundLock \/ \E r \in Requests : Release(r)
  <2>1. ReapAll(codel, waiter)
    BY <1>2 DEF BackgroundLock, Release
  <2> QED BY <2>1, ReapingOnly DEF InTime, InTurn, Youngest
<1>3. CASE \E r \in Requests : AcquireSlow(r)
  BY <1>3, AcquireSlowQueues DEF InTime, InTurn, Youngest
<1>4. CASE \E p \in Tiers : AdmitPop(p)
  BY <1>4, AdmitPopQueues
<1>5. CASE Tick
  BY <1>5, TickQueues
<1> QED BY <1>1, <1>2, <1>3, <1>4, <1>5 DEF Next, Admit, Reaper, Caller

\* The age of a backlog is forgotten only when nobody is queued any more.
LEMMA BacklogRemembered ==
  ASSUME QInv, Next
  PROVE  Remembered
<1>1. codel \in [Tiers -> Queues(Requests)]
  BY DEF QInv, IInv, TypeOK
<1> SUFFICES ASSUME NEW p \in Tiers, codel[p].items # << >>, codel'[p].items # << >>
             PROVE  codel'[p].sinceEmptied >= codel[p].sinceEmptied
  BY DEF Remembered, IsEmpty
<1>2. codel[p] \in Queues(Requests) /\ codel[p].sinceEmptied \in 0 .. Long
  BY <1>1 DEF Queues
<1>3. CASE codel'[p] = codel[p]
  BY <1>2, <1>3, TimeoutAssumption DEF Long
<1>4. CASE BackgroundLock \/ \E r \in Requests : Release(r)
  <2>1. PICK waited : codel'[p] = Reap(codel[p], waited)
    BY <1>4 DEF BackgroundLock, Release, ReapAll
  <2> QED BY <1>2, <2>1, ReapAge, TimeoutAssumption DEF Long
<1>5. ASSUME NEW r \in Requests, AcquireSlow(r)
      PROVE  codel'[p].sinceEmptied >= codel[p].sinceEmptied
  <2> DEFINE q == IF p = TierOf[r] THEN Push(codel[p], r) ELSE codel[p]
  <2>1. PICK waited : codel'[p] = Reap(q, waited)
    <3>1. [codel EXCEPT ![TierOf[r]] = Push(@, r)][p] = q
      BY <1>1
    <3> HIDE DEF q
    <3> QED BY <1>5, <3>1 DEF AcquireSlow, ReapAll
  <2>2. q \in Queues(Requests) /\ q.sinceEmptied = codel[p].sinceEmptied
        /\ ItemsOf(codel[p]) \subseteq ItemsOf(q)
    <3>1. CASE p # TierOf[r]
      BY <1>2, <3>1
    <3>2. CASE p = TierOf[r]
      <4>1. Distinct(codel[p]) /\ r \notin ItemsOf(codel[p])
        BY <1>5, <3>2 DEF AcquireSlow, MayAsk, Queued, InQueue, QInv, IInv, QueuesDisjoint, Sorted
      <4>2. Push(codel[p], r) \in Queues(Requests)
            /\ ItemsOf(codel[p]) \subseteq ItemsOf(Push(codel[p], r))
        BY <1>2, <4>1, PushKeeps
      <4> QED BY <1>2, <3>2, <4>2, PushAge
    <3> QED BY <3>1, <3>2
  <2>3. q.items # << >>
    BY <1>2, <2>2, EmptyHasNoItems DEF IsEmpty
  <2> HIDE DEF q
  <2> QED BY <1>2, <2>1, <2>2, <2>3, ReapAge, TimeoutAssumption DEF Long
<1>6. ASSUME NEW t \in Tiers, AdmitPop(t), t = p
      PROVE  codel'[p].sinceEmptied >= codel[p].sinceEmptied
  <2>1. codel'[p] = Pop(codel[p])
    BY <1>1, <1>6 DEF AdmitPop
  <2> QED BY <1>2, <2>1, PopAge, TimeoutAssumption DEF Long
<1>7. ASSUME NEW t \in Tiers, AdmitPop(t), t # p
      PROVE  codel'[p] = codel[p]
  BY <1>1, <1>7 DEF AdmitPop
<1>8. CASE Tick
  <2>1. codel'[p].sinceEmptied = Later(codel[p].sinceEmptied)
    BY <1>2, <1>8 DEF Tick, Aged, Queues
  <2> QED BY <1>2, <2>1, TimeoutAssumption DEF Later, Long
<1>9. CASE \/ AdmitReturn \/ BackgroundTick \/ BackgroundExit \/ Close
           \/ \E r \in Requests : AcquireFast(r) \/ AcquireClosed(r) \/ ContextDone(r)
           \/ \E r \in Requests : WaitReceive(r) \/ Expire(r)
  BY <1>3, <1>9, QuietMoves
<1> QED BY <1>3, <1>4, <1>5, <1>6, <1>7, <1>8, <1>9 DEF Next, Admit, Reaper, Caller

\* hasWaiters and the ticker: turned on by the newcomer, off by the end of
\* admit, and nothing empties the last queue but a critical section.
LEMMA WatchedStep ==
  ASSUME QInv, Next
  PROVE  Watched'
<1> USE DEF Watched
<1>1. Watched /\ ticker \in [armed : BOOLEAN, elapsed : 0 .. LongTimeout - 1, due : BOOLEAN]
  BY DEF QInv, IInv, TypeOK
<1>2. ASSUME NEW r \in Requests, AcquireSlow(r)
      PROVE  Watched'
  BY <1>1, <1>2, RequestsAssumption DEF AcquireSlow, TickerOn
<1>3. CASE AdmitReturn
  <2>1. AllEmpty' <=> AllEmpty
    BY <1>3 DEF AdmitReturn, AllEmpty
  <2> QED BY <1>1, <1>3, <2>1 DEF AdmitReturn, TickerOff
<1>4. ASSUME NEW p \in Tiers, AdmitPop(p)
      PROVE  Watched'
  <2>1. ~AllEmpty /\ m' # Nobody /\ UNCHANGED <<hasWaiters, ticker, closed>>
    BY <1>4 DEF AdmitPop, AllEmpty
  <2> QED BY <1>1, <2>1
<1>5. CASE BackgroundLock \/ \E r \in Requests : Release(r)
  <2>1. ReapAll(codel, waiter) /\ m' # Nobody /\ UNCHANGED <<hasWaiters, ticker, closed>>
    BY <1>5, RequestsAssumption DEF BackgroundLock, Release
  <2> QED BY <1>1, <2>1, ReapingOnly
<1>6. CASE Tick
  <2>1. /\ m' = m /\ UNCHANGED <<hasWaiters, closed>>
        /\ ticker'.armed = ticker.armed
    BY <1>1, <1>6 DEF Tick
  <2> QED BY <1>1, <1>6, <2>1, TickQueues
<1>7. CASE Close
  <2>1. closed' /\ m' = m /\ UNCHANGED <<codel, hasWaiters>>
    BY <1>7 DEF Close
  <2> QED BY <1>1, <2>1 DEF AllEmpty
<1>8. CASE \/ BackgroundTick \/ BackgroundExit
           \/ \E r \in Requests : AcquireFast(r) \/ AcquireClosed(r) \/ ContextDone(r)
           \/ \E r \in Requests : WaitReceive(r) \/ Expire(r)
  <2>1. /\ UNCHANGED <<m, codel, hasWaiters, closed>>
        /\ ticker'.armed = ticker.armed
    BY <1>1, <1>8 DEF BackgroundTick, BackgroundExit, AcquireFast, AcquireClosed,
       ContextDone, WaitReceive, Expire, lockVars
  <2> QED BY <1>1, <2>1 DEF AllEmpty
<1> QED BY <1>2, <1>3, <1>4, <1>5, <1>6, <1>7, <1>8 DEF Next, Admit, Reaper, Caller

\* The first tier owes nothing, so a waiter of it is kept only by the capacity.
LEMMA FirstTierWaits ==
  ASSUME IInv, ~CanAdmit(0)
  PROVE  outstanding = Capacity
<1>1. /\ debt[0] = 0 /\ outstanding \in 0 .. Capacity
      /\ Capacity \in Nat /\ DebtUnit \in Nat \ {0}
  BY TokensAssumption, DebtAssumption DEF IInv, Sound, TypeOK
<1>2. CASE outstanding # Capacity
  <2> DEFINE free == Capacity - outstanding
  <2>1. free \in Nat \ {0}
    BY <1>1, <1>2
  <2> HIDE DEF free
  <2>2. free * DebtUnit >= DebtUnit
    <3>1. \A x, y \in Nat \ {0} : x * y >= y
      OBVIOUS
    <3> QED BY <1>1, <2>1, <3>1
  <2> QED BY <1>1, <2>2 DEF CanAdmit, free
<1> QED BY <1>2

\* Only the end of a critical section has to establish that no token is idle.
LEMMA NoIdleTokenStep ==
  ASSUME QInv, Next
  PROVE  NoIdleToken'
<1> USE DEF NoIdleToken
<1>1. NoIdleToken /\ IInv /\ 0 \in Tiers
  BY FirstTier DEF QInv
<1>2. CASE AdmitReturn
  <2>1. UNCHANGED <<codel, outstanding>> /\ m' = Nobody
    BY <1>2 DEF AdmitReturn
  <2>2. ~IsEmpty(codel[0]) => ~CanAdmit(0)
    BY <1>1, <1>2 DEF AdmitReturn, Exposed, Tiers
  <2> QED BY <1>1, <2>1, <2>2, FirstTierWaits
<1>3. ASSUME NEW r \in Requests, AcquireFast(r)
      PROVE  NoIdleToken'
  <2>1. m = Nobody /\ codel' = codel /\ CanAdmit(TierOf[r]) /\ TierOf[r] \in Tiers
    BY <1>3, TierOfAssumption DEF AcquireFast, MayAsk, AdmittedAtOnce
  <2>2. outstanding < Capacity /\ outstanding \in Int /\ Capacity \in Int
    BY <1>1, <2>1, CanAdmitSpare, TokensAssumption DEF IInv, TypeOK
  <2>3. IsEmpty(codel[0])
    BY <1>1, <2>1, <2>2
  <2> QED BY <2>1, <2>3
<1>4. CASE \/ BackgroundLock \/ \E p \in Tiers : AdmitPop(p)
           \/ \E r \in Requests : AcquireSlow(r) \/ Release(r)
  <2>1. m' # Nobody
    BY <1>4, RequestsAssumption DEF BackgroundLock, AdmitPop, AcquireSlow, Release
  <2> QED BY <2>1
<1>5. CASE Tick
  <2>1. UNCHANGED <<m, outstanding>> /\ codel'[0].items = codel[0].items
    BY <1>1, <1>5 DEF Tick, Aged, IInv, TypeOK, Queues
  <2> QED BY <1>1, <2>1 DEF IsEmpty
<1>6. CASE \/ BackgroundTick \/ BackgroundExit \/ Close
           \/ \E r \in Requests : AcquireClosed(r) \/ ContextDone(r)
           \/ \E r \in Requests : WaitReceive(r) \/ Expire(r)
  <2>1. UNCHANGED <<m, codel, outstanding>>
    BY <1>6 DEF BackgroundTick, BackgroundExit, Close, AcquireClosed, ContextDone,
       WaitReceive, Expire, lockVars
  <2> QED BY <1>1, <2>1
<1> QED BY <1>2, <1>3, <1>4, <1>5, <1>6 DEF Next, Admit, Reaper, Caller

-----------------------------------------------------------------------------
(* The theorems about the queues and the reaper *)

LEMMA InitQueues ==
  Init => QInv
<1> SUFFICES ASSUME Init PROVE QInv
  OBVIOUS
<1>1. /\ m = Nobody /\ ~hasWaiters /\ ~ticker.armed
      /\ \A p \in Tiers : codel[p].items = << >> /\ IsEmpty(codel[p])
      /\ 0 \in Tiers
  BY FirstTier DEF Init, NewCoDel, TickerOff, IsEmpty
<1>2. QueueOrder /\ Reaped /\ Watched /\ NoIdleToken
  BY <1>1 DEF QueueOrder, Reaped, Watched, NoIdleToken, AllEmpty
<1> QED BY <1>2, InitInv DEF QInv

LEMMA QueuesStutter ==
  ASSUME QInv, UNCHANGED vars
  PROVE  QInv'
<1>1. IInv'
  BY NextStep DEF QInv
<1>2. QueueOrder' /\ Reaped' /\ Watched' /\ NoIdleToken'
  BY DEF QInv, QueueOrder, Reaped, Fresh, Watched, NoIdleToken, AllEmpty, vars, lockVars
<1> QED BY <1>1, <1>2 DEF QInv

LEMMA InductiveQueues == Spec => []QInv
<1>1. Init => QInv
  BY InitQueues
<1>2. ASSUME QInv, [Next]_vars
      PROVE  QInv'
  <2>1. CASE UNCHANGED vars
    BY <1>2, <2>1, QueuesStutter
  <2>2. CASE Next
    <3>1. IInv'
      BY <1>2, NextStep DEF QInv
    <3> QED BY <1>2, <2>2, <3>1, QueuesStep, WatchedStep, NoIdleTokenStep DEF QInv
  <2> QED BY <1>2, <2>1, <2>2
<1> QED BY <1>1, <1>2, PTL DEF Spec

\* Whatever pushes, pops, reaps and ages the queues, each stays in the order of
\* arrival, which is why reap may stop at the first waiter that is not stale.
THEOREM QueuesInOrder == Spec => []QueueOrder
<1>1. QInv => QueueOrder
  BY DEF QInv
<1> QED BY InductiveQueues, <1>1, PTL

\* When the lock is free, hasWaiters says whether somebody is queued, and the
\* ticker of the background goroutine runs if and only if it does.
THEOREM ReaperRunsWhenNeeded == Spec => []ReaperArmed
<1>1. QInv => ReaperArmed
  BY DEF QInv, Watched, ReaperArmed
<1> QED BY InductiveQueues, <1>1, PTL

\* When the lock is free, either nobody of the first tier is queued or every
\* token is taken.
THEOREM NoTokenIdles == Spec => []NoIdleToken
<1>1. QInv => NoIdleToken
  BY DEF QInv
<1> QED BY InductiveQueues, <1>1, PTL

\* Who is admitted from a queue has not been in it for longer than the timeout
\* of the mode that the queue is in.
THEOREM DelayIsBounded == Spec => BoundedQueueingDelay
<1>1. QInv /\ [Next]_vars => [InTime]_vars
  BY QueuesStep
<1>2. Spec => [][InTime]_vars
  BY InductiveQueues, <1>1, PTL DEF Spec
<1> QED BY <1>2 DEF BoundedQueueingDelay, InTime

\* A queue in FIFO mode admits none before another that has waited for longer
\* and has not given up.
THEOREM ServedInTurn == Spec => FirstComeFirstServed
<1>1. QInv /\ [Next]_vars => [InTurn]_vars
  BY QueuesStep
<1>2. Spec => [][InTurn]_vars
  BY InductiveQueues, <1>1, PTL DEF Spec
<1> QED BY <1>2 DEF FirstComeFirstServed, InTurn

\* A queue that stops being empty does so in FIFO mode, its backlog just begun,
\* however long ago it was touched last.
THEOREM BacklogForgotten == Spec => BacklogStartsAfresh
<1>1. QInv /\ [Next]_vars => [Afresh]_vars
  BY QueuesStep
<1>2. Spec => [][Afresh]_vars
  BY InductiveQueues, <1>1, PTL DEF Spec
<1> QED BY <1>2 DEF BacklogStartsAfresh, Afresh

\* While anybody of a tier is queued the age of its backlog is not forgotten, and
\* once that is more than LongTimeout only the youngest is admitted, in time.
THEOREM OverloadIsNoticed == Spec => OverloadNoticed
<1>1. QInv /\ [Next]_vars => [Noticed]_vars
  BY QueuesStep, BacklogRemembered DEF Noticed, Remembered, Youngest
<1>2. Spec => [][Noticed]_vars
  BY InductiveQueues, <1>1, PTL DEF Spec
<1> QED BY <1>2 DEF OverloadNoticed, Noticed
=============================================================================
