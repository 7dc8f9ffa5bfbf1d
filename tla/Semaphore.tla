----------------------------- MODULE Semaphore -----------------------------
(***************************************************************************)
(* backpressure/semaphore.go: the prioritised semaphore that every query   *)
(* of the proxy goes through, with the waiters of codel.go.                *)
(*                                                                         *)
(* The processes are the callers (one request each, calling Acquire, then  *)
(* Release, then Acquire again) and the background goroutine.  Everything  *)
(* but a waiter's `state' and channel is guarded by the mutex s.m, so a    *)
(* critical section is cut only where it touches one of those two, that is *)
(* at each pop of admit's loop: its first part takes the lock, each pop is *)
(* an action, and AdmitReturn unlocks.  Within a pop, the three steps      *)
(* CAS, send, and outstanding++ are one: `outstanding' is read only under  *)
(* the lock, and a waiter that returns between them has nothing to do that *)
(* needs no lock.  The drops of one reap are one step for the same reason. *)
(*                                                                         *)
(* Time passes in ticks, and never while the lock is held: a critical      *)
(* section reads the clock once (now) and lasts microseconds, the timeouts *)
(* are milliseconds.                                                       *)
(***************************************************************************)
EXTENDS CoDel, TierDebt

CONSTANTS
  Requests,    \* the callers
  TierOf,      \* the tier that each passes to Acquire
  Nobody,      \* value of m: the lock is free
  Background   \* value of m: the goroutine background holds the lock

ASSUME RequestsAssumption ==
  /\ IsFiniteSet(Requests)
  /\ Nobody \notin Requests \cup {Background}
  /\ Background \notin Requests
ASSUME TierOfAssumption == TierOf \in [Requests -> Tiers]

VARIABLES
  m,            \* who holds the mutex
  pc,           \* where each caller is
  waiter,       \* the coDelWaiter of each caller
  codel,        \* the queue of each tier
  outstanding,  \* tokens taken
  debt,         \* debt of each tier, as get would answer
  hasWaiters,
  ticker,       \* reapTicker: armed, time since it fired, a tick is due
  bg,           \* where the goroutine background is
  closed        \* isClosed, and bgDone closed

lockVars == <<codel, outstanding, debt, hasWaiters, ticker, closed>>
vars == <<m, pc, waiter, lockVars, bg>>

Waiters ==
  [state : {"waiting", "admitted", "expired"},  \* 0, 1, 2
   c : {"empty", "true", "false"},              \* the channel, with room for one
   waited : 0 .. Long]                          \* time since enqueued

\* A waiter that nothing refers to is the same as a new one.
NewWaiter == [state |-> "waiting", c |-> "empty", waited |-> 0]

\* Mutant of TickerOn: the ticker is not armed.
TickerNotArmed == [armed |-> FALSE, elapsed |-> 0, due |-> FALSE]

\* Reset(infinity), Reset(longTimeout) and Stop leave no tick in the channel.
TickerOff == [armed |-> FALSE, elapsed |-> 0, due |-> FALSE]
TickerOn == [armed |-> TRUE, elapsed |-> 0, due |-> FALSE]

InQueue(queues, r) == r \in ItemsOf(queues[TierOf[r]])

Queued(r) == InQueue(codel, r)

AllEmpty == \A p \in Tiers : IsEmpty(codel[p])

\* Mutant of Exposed: the loop begins with the least important tier.
ExposedFromBelow(p) == \A q \in Tiers : q > p => IsEmpty(codel[q])

\* The tiers that admit would look at: those with nothing above them waiting.
Exposed(p) == \A q \in Tiers : q < p => IsEmpty(codel[q])

CanAdmit(p) == (Capacity - outstanding) * DebtUnit >= debt[p] + DebtUnit

Init ==
  /\ m = Nobody
  /\ pc = [r \in Requests |-> "idle"]
  /\ waiter = [r \in Requests |-> NewWaiter]
  /\ codel = [p \in Tiers |-> NewCoDel]
  /\ outstanding = 0
  /\ debt = NoDebt
  /\ hasWaiters = FALSE
  /\ ticker = TickerOff
  /\ bg = "select"
  /\ closed = FALSE

-----------------------------------------------------------------------------
(* admit *)

\* The first loop: every queue drops its stale waiters, which sends FALSE to
\* them (to an expired one in vain).  queues and waiters are what the caller
\* of admit has made of them.
ReapAll(queues, waiters) ==
  LET waited == [r \in Requests |-> waiters[r].waited]
      dropped == UNION {Dropped(queues[p], waited) : p \in Tiers}
  IN  /\ codel' = [p \in Tiers |-> Reap(queues[p], waited)]
      /\ waiter' = [r \in Requests |->
           IF r \notin dropped THEN waiters[r]
           ELSE IF waiters[r].state = "expired" THEN NewWaiter
           ELSE [waiters[r] EXCEPT !.c = "false"]]

\* Mutant of AdmitPop: the loop ends when a waiter turns out to have expired.
AdmitPopGivingUp(p) ==
  /\ m # Nobody
  /\ ~IsEmpty(codel[p]) /\ Exposed(p)
  /\ CanAdmit(p)
  /\ codel' = [codel EXCEPT ![p] = Pop(@)]
  /\ LET w == Peek(codel[p])
     IN  IF waiter[w].state = "waiting"
         THEN /\ waiter' = [waiter EXCEPT ![w].state = "admitted", ![w].c = "true"]
              /\ outstanding' = outstanding + 1
              /\ UNCHANGED <<m, pc, bg>>
         ELSE /\ waiter' = [waiter EXCEPT ![w] = NewWaiter]
              /\ m' = Nobody
              /\ pc' = [r \in Requests |->
                   IF r # m THEN pc[r] ELSE IF pc[r] = "acquiring" THEN "waiting" ELSE "idle"]
              /\ bg' = IF m = Background THEN "select" ELSE bg
              /\ UNCHANGED outstanding
  /\ UNCHANGED <<debt, hasWaiters, ticker, closed>>

\* One round of the second loop that pops a waiter: the CAS of its state
\* decides whether it gets the token or had expired already.
AdmitPop(p) ==
  /\ m # Nobody
  /\ ~IsEmpty(codel[p]) /\ Exposed(p)
  /\ CanAdmit(p)
  /\ codel' = [codel EXCEPT ![p] = Pop(@)]
  /\ LET w == Peek(codel[p])
     IN  IF waiter[w].state = "waiting"
         THEN /\ waiter' = [waiter EXCEPT ![w].state = "admitted", ![w].c = "true"]
              /\ outstanding' = outstanding + 1
         ELSE /\ waiter' = [waiter EXCEPT ![w] = NewWaiter]
              /\ UNCHANGED outstanding
  /\ UNCHANGED <<m, pc, debt, hasWaiters, ticker, bg, closed>>

\* Mutant of AdmitReturn: the ticker is turned off, but hasWaiters is not.
AdmitReturnKeepingHasWaiters ==
  /\ m # Nobody
  /\ \A p \in Tiers : ~IsEmpty(codel[p]) /\ Exposed(p) => ~CanAdmit(p)
  /\ ticker' = IF AllEmpty /\ hasWaiters THEN TickerOff ELSE ticker
  /\ m' = Nobody
  /\ IF m = Background
     THEN bg' = "select" /\ UNCHANGED pc
     ELSE /\ pc' = [pc EXCEPT ![m] = IF @ = "acquiring" THEN "waiting" ELSE "idle"]
          /\ UNCHANGED bg
  /\ UNCHANGED <<waiter, codel, outstanding, debt, hasWaiters, closed>>

\* The loop ends: nobody waits, or the tier whose turn it is must wait on.
\* The caller of admit unlocks.
AdmitReturn ==
  /\ m # Nobody
  /\ \A p \in Tiers : ~IsEmpty(codel[p]) /\ Exposed(p) => ~CanAdmit(p)
  /\ IF AllEmpty /\ hasWaiters
     THEN ticker' = TickerOff /\ hasWaiters' = FALSE
     ELSE UNCHANGED <<ticker, hasWaiters>>
  /\ m' = Nobody
  /\ IF m = Background
     THEN bg' = "select" /\ UNCHANGED pc
     ELSE /\ pc' = [pc EXCEPT ![m] = IF @ = "acquiring" THEN "waiting" ELSE "idle"]
          /\ UNCHANGED bg
  /\ UNCHANGED <<waiter, codel, outstanding, debt, closed>>

-----------------------------------------------------------------------------
(* Acquire and Release *)

\* A caller may ask again once no queue holds its last waiter (the next call
\* makes a new one; the old one stays until it is popped or reaped).
MayAsk(r) == m = Nobody /\ pc[r] = "idle" /\ ~Queued(r)

\* Not only the tiers above: a newcomer queues behind its own tier too.
IsHigherPriorityPresent(r) == \E p \in 0 .. TierOf[r] : ~IsEmpty(codel[p])

AdmittedAtOnce(r) == ~IsHigherPriorityPresent(r) /\ CanAdmit(TierOf[r])

AcquireFast(r) ==
  /\ MayAsk(r) /\ ~closed
  /\ AdmittedAtOnce(r)
  /\ outstanding' = outstanding + 1
  /\ debt' = Forgiven(debt, TierOf[r])
  /\ pc' = [pc EXCEPT ![r] = "holding"]
  /\ UNCHANGED <<m, waiter, codel, hasWaiters, ticker, bg, closed>>

AcquireSlow(r) ==
  /\ MayAsk(r) /\ ~closed
  /\ ~AdmittedAtOnce(r)
  /\ debt' = Penalised(debt, TierOf[r])
  /\ ReapAll([codel EXCEPT ![TierOf[r]] = Push(@, r)],
             [waiter EXCEPT ![r] = NewWaiter])
  /\ ticker' = IF hasWaiters THEN ticker ELSE TickerOn
  /\ hasWaiters' = TRUE
  /\ m' = r
  /\ pc' = [pc EXCEPT ![r] = "acquiring"]
  /\ UNCHANGED <<outstanding, bg, closed>>

\* panic(ErrSemaphoreAlreadyCLosed): the caller never returns.
AcquireClosed(r) ==
  /\ MayAsk(r) /\ closed
  /\ pc' = [pc EXCEPT ![r] = "panicked"]
  /\ UNCHANGED <<m, waiter, lockVars, bg>>

Release(r) ==
  /\ m = Nobody
  /\ pc[r] = "holding"
  /\ outstanding' = outstanding - 1
  /\ ReapAll(codel, waiter)
  /\ m' = r
  /\ pc' = [pc EXCEPT ![r] = "releasing"]
  /\ UNCHANGED <<debt, hasWaiters, ticker, bg, closed>>

-----------------------------------------------------------------------------
(* wait: a select between the context and the channel *)

\* The verdict arrives.
WaitReceive(r) ==
  /\ pc[r] = "waiting"
  /\ waiter[r].c # "empty"
  /\ pc' = [pc EXCEPT ![r] = IF waiter[r].c = "true" THEN "holding" ELSE "idle"]
  /\ waiter' = [waiter EXCEPT ![r] = NewWaiter]
  /\ UNCHANGED <<m, lockVars, bg>>

\* The context is done; a verdict may be there as well, select takes either.
ContextDone(r) ==
  /\ pc[r] = "waiting"
  /\ pc' = [pc EXCEPT ![r] = "expiring"]
  /\ UNCHANGED <<m, waiter, lockVars, bg>>

\* Mutant of Expire: who loses the CAS returns the error all the same.
ExpireIgnoringVerdict(r) ==
  /\ pc[r] = "expiring"
  /\ pc' = [pc EXCEPT ![r] = "idle"]
  /\ waiter' = IF waiter[r].state = "waiting" /\ Queued(r)
               THEN [waiter EXCEPT ![r].state = "expired"]
               ELSE [waiter EXCEPT ![r] = NewWaiter]
  /\ UNCHANGED <<m, lockVars, bg>>

\* The CAS of the state, in a race with the one of AdmitPop.  Who loses it has
\* been admitted and returns no error.
Expire(r) ==
  /\ pc[r] = "expiring"
  /\ IF waiter[r].state = "waiting"
     THEN /\ pc' = [pc EXCEPT ![r] = "idle"]
          /\ waiter' = IF Queued(r)
                       THEN [waiter EXCEPT ![r].state = "expired"]
                       ELSE [waiter EXCEPT ![r] = NewWaiter]
     ELSE /\ pc' = [pc EXCEPT ![r] = "holding"]
          /\ waiter' = [waiter EXCEPT ![r] = NewWaiter]
  /\ UNCHANGED <<m, lockVars, bg>>

-----------------------------------------------------------------------------
(* The goroutine background, Close, and the clock *)

BackgroundTick ==
  /\ bg = "select" /\ ticker.due
  /\ bg' = "locking"
  /\ ticker' = [ticker EXCEPT !.due = FALSE]
  /\ UNCHANGED <<m, pc, waiter, codel, outstanding, debt, hasWaiters, closed>>

BackgroundLock ==
  /\ bg = "locking"
  /\ m = Nobody
  /\ ReapAll(codel, waiter)
  /\ m' = Background
  /\ bg' = "admitting"
  /\ UNCHANGED <<pc, outstanding, debt, hasWaiters, ticker, closed>>

BackgroundExit ==
  /\ bg = "select" /\ closed
  /\ bg' = "done"
  /\ UNCHANGED <<m, pc, waiter, lockVars>>

Close ==
  /\ m = Nobody
  /\ ~closed
  /\ closed' = TRUE
  /\ ticker' = TickerOff
  /\ UNCHANGED <<m, pc, waiter, codel, outstanding, debt, hasWaiters, bg>>

\* The age of a waiter matters as long as a queue holds it.
Tick ==
  /\ m = Nobody
  /\ waiter' = [r \in Requests |->
       IF Queued(r) THEN [waiter[r] EXCEPT !.waited = Later(@)] ELSE waiter[r]]
  /\ codel' = [p \in Tiers |-> Aged(codel[p])]
  /\ debt' = Decayed(debt)
  /\ ticker' = IF ~ticker.armed THEN ticker
               ELSE IF ticker.elapsed + 1 < LongTimeout
                    THEN [ticker EXCEPT !.elapsed = @ + 1]
                    ELSE [ticker EXCEPT !.elapsed = 0, !.due = TRUE]
  /\ UNCHANGED <<m, pc, outstanding, hasWaiters, bg, closed>>

-----------------------------------------------------------------------------

Caller(r) ==
  \/ AcquireFast(r) \/ AcquireSlow(r) \/ AcquireClosed(r) \/ Release(r)
  \/ WaitReceive(r) \/ ContextDone(r) \/ Expire(r)

Admit == AdmitReturn \/ \E p \in Tiers : AdmitPop(p)

Reaper == BackgroundTick \/ BackgroundLock \/ BackgroundExit

Next == Admit \/ Reaper \/ Close \/ Tick \/ \E r \in Requests : Caller(r)

Spec == Init /\ [][Next]_vars

-----------------------------------------------------------------------------
(* What the scheduling gives.  Goroutines that can go on do go on.  Time     *)
(* passes, however often the lock is taken meanwhile, and sync.Mutex hands   *)
(* the lock to a goroutine that has waited for 1 ms: hence strong fairness.  *)
(* Nothing is assumed of the callers: they need not ask, release their token *)
(* or have their context cancelled.                                          *)

Fairness ==
  /\ WF_vars(Admit)
  /\ WF_vars(BackgroundTick) /\ SF_vars(BackgroundLock)
  /\ SF_vars(Tick)
  /\ \A r \in Requests : WF_vars(WaitReceive(r)) /\ WF_vars(Expire(r))

FairSpec == Spec /\ Fairness

-----------------------------------------------------------------------------
(* Properties *)

\* Types of the fields of Semaphore, coDel and coDelWaiter.
TypeOK ==
  /\ m \in Requests \cup {Nobody, Background}
  /\ pc \in [Requests -> {"idle", "acquiring", "waiting", "expiring", "holding",
                          "releasing", "panicked"}]
  /\ waiter \in [Requests -> Waiters]
  /\ codel \in [Tiers -> Queues(Requests)]
  /\ outstanding \in 0 .. Capacity
  /\ debt \in [Tiers -> 0 .. MaxDebt]
  /\ hasWaiters \in BOOLEAN
  /\ ticker \in [armed : BOOLEAN, elapsed : 0 .. LongTimeout - 1, due : BOOLEAN]
  /\ bg \in {"select", "locking", "admitting", "done"}
  /\ closed \in BOOLEAN

\* Who has a token, or has been given one and does not know it yet.
Owner(r) == pc[r] = "holding" \/ waiter[r].state = "admitted"

Owners == {r \in Requests : Owner(r)}

\* Whatever races the context, the reaper and the pops run, `outstanding' is
\* the number of calls that have returned or will return without an error and
\* have not called Release: no token is lost to a waiter that gave up, none is
\* given twice, and the panics of ErrSemaphoreUnbalance are never reached.
TokensConserved ==
  /\ outstanding = Cardinality(Owners)
  /\ outstanding <= Capacity

\* codel.go:121,130 send while the lock is held, into a channel with room for
\* one: a waiter that is still queued has never been sent anything, and no
\* queue holds a waiter twice, so that send never blocks the whole semaphore.
VerdictSlotFree ==
  /\ \A r \in Requests : Queued(r) =>
       waiter[r].c = "empty" /\ waiter[r].state # "admitted"
  /\ \A p \in Tiers : Distinct(codel[p])

\* The reaper's ticker runs exactly while someone is queued: hasWaiters, a
\* cached answer to that, is never stale when the lock is free.
ReaperArmed ==
  m = Nobody =>
    /\ hasWaiters <=> ~AllEmpty
    /\ ~closed => (ticker.armed <=> hasWaiters)

\* Between two critical sections no token is free while a request of the most
\* important tier is queued, even if waiters ahead of it have expired.
NoIdleToken ==
  m = Nobody /\ ~IsEmpty(codel[0]) => outstanding = Capacity

\* What a less important tier may take, a more important one may take too,
\* after any history of penalties, pardons and decay.
PrivilegeOrdered ==
  \A p, q \in Tiers : p < q /\ CanAdmit(q) => CanAdmit(p)

\* Each queue is in the order of arrival: reap, which stops at the first
\* waiter that is not stale, leaves no stale one behind it.
QueueOrder ==
  \A p \in Tiers : \A i, j \in DOMAIN codel[p].items :
    i <= j => waiter[codel[p].items[i]].waited >= waiter[codel[p].items[j]].waited

\* In the slow part of Acquire.
InWait == {"acquiring", "waiting", "expiring"}

\* What the properties rest on.  The caller or the goroutine that is in a
\* critical section holds the lock...
LockHeld ==
  /\ \A r \in Requests : pc[r] \in {"acquiring", "releasing"} <=> m = r
  /\ bg = "admitting" <=> m = Background

\* ... each queue holds waiters of its own tier, none twice...
Sorted(queues) ==
  \A p \in Tiers :
    Distinct(queues[p]) /\ \A r \in ItemsOf(queues[p]) : TierOf[r] = p

QueuesDisjoint == Sorted(codel)

\* ... and a waiter is in exactly one of these situations: queued and waited
\* for, queued and expired, admitted, dropped or overflowed, or unused.
Coherent(queued, w, at) ==
  IF queued
  THEN /\ w.c = "empty"
       /\ \/ w.state = "waiting" /\ at \in InWait
          \/ w.state = "expired" /\ at = "idle"
  ELSE /\ w.state = "admitted" <=> w.c = "true"
       /\ w.state # "expired"
       /\ \/ at \in InWait
          \/ w.state = "waiting" /\ w.c = "empty"

WaitersCoherent ==
  \A r \in Requests : Coherent(Queued(r), waiter[r], pc[r])

Admitted(r) == waiter[r].state = "waiting" /\ waiter'[r].state = "admitted"

\* Nobody is admitted after having queued for longer than the timeout that is
\* in force, 5 ms under overload: stale requests never reach Postgres.
BoundedQueueingDelay ==
  [][\A r \in Requests : Admitted(r) =>
       waiter[r].waited <= Timeout(codel[TierOf[r]])]_vars

\* While its load is healthy a tier is served first come, first served.
FirstComeFirstServed ==
  [][\A r, s \in Requests :
       /\ Admitted(r) /\ codel[TierOf[r]].mode = "FIFO"
       /\ Queued(s) /\ TierOf[s] = TierOf[r] /\ waiter[s].state = "waiting"
       => waiter[s].waited <= waiter[r].waited]_vars

\* A queue that was empty is not taken for overloaded because nothing had
\* touched it for a while, and a backlog that is gone is forgotten.
BacklogStartsAfresh ==
  [][\A p \in Tiers : IsEmpty(codel[p]) /\ ~IsEmpty(codel'[p]) =>
       codel'[p].mode = "FIFO" /\ codel'[p].sinceEmptied = 0]_vars

\* A backlog that has lasted for longer than LongTimeout is taken for overload,
\* whatever was pushed, popped and reaped meanwhile: its age is not forgotten
\* while anybody is queued, and then (README.md:54) nobody is admitted before
\* somebody younger of its tier, or after more than the short timeout.
OverloadNoticed ==
  [][/\ \A p \in Tiers : ~IsEmpty(codel[p]) /\ ~IsEmpty(codel'[p]) =>
          codel'[p].sinceEmptied >= codel[p].sinceEmptied
     /\ \A r, s \in Requests :
          /\ Admitted(r) /\ codel[TierOf[r]].sinceEmptied > LongTimeout
          /\ Queued(s) /\ TierOf[s] = TierOf[r]
          => waiter[r].waited <= waiter[s].waited /\ waiter[r].waited <= ShortTimeout]_vars

\* What each caller has got from the semaphore so far.
Status ==
  [r \in Requests |->
     IF Owner(r) THEN "granted"
     ELSE IF pc[r] \notin {"acquiring", "waiting", "expiring"} THEN "idle"
     ELSE IF Queued(r) THEN "waiting" ELSE "refused"]

Control == INSTANCE AdmissionControl WITH status <- Status

\* The semaphore keeps the promises of AdmissionControl: the bound, one final
\* verdict for each request, and strict priority between the tiers.
ImplementsAdmissionControl == Control!Spec

\* Whoever is in a queue is answered, by a token or by ErrRejected, even if no
\* token is ever released: the background goroutine sees to it.
QueuedCallersAnswered ==
  \A r \in Requests :
    Queued(r) /\ pc[r] \in {"acquiring", "waiting"}
      ~> pc[r] \in {"idle", "holding"} \/ closed

\* A waiter whose context is done does not occupy its queue for ever.
ExpiredWaitersCollected ==
  \A r \in Requests : waiter[r].state = "expired" ~> ~Queued(r) \/ closed

\* Debt keeps no tier out of an idle semaphore for good: however much it owes,
\* either its debt decays or somebody takes a token.
DebtRunsOut ==
  \A p \in Tiers : outstanding = 0 ~> CanAdmit(p) \/ outstanding > 0 \/ closed

\* proxy.go:362 says of Acquire: "returns error if: dropped by CoDel, queue
\* full, or ctx cancelled".
EveryCallerAnswered ==
  \A r \in Requests : pc[r] = "acquiring" ~> pc[r] \in {"idle", "holding"} \/ closed
=============================================================================
