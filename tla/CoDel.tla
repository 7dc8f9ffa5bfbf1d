------------------------------- MODULE CoDel -------------------------------
(***************************************************************************)
(* backpressure/codel.go: the queue of one tier, as operators on a record  *)
(*   [items        : the queued waiters, oldest first,                     *)
(*    mode         : FIFO while the load is healthy, LIFO under overload,  *)
(*    sinceEmptied : how long ago the queue was last seen empty].          *)
(* Points in time are kept as the time passed since, counted up to Long:   *)
(* the code only compares them with the two timeouts.  The deque inside is *)
(* a sequence: see Deque, which shows that it behaves like one.            *)
(***************************************************************************)
EXTENDS Integers, Sequences, FiniteSets

CONSTANTS
  QueueSize,     \* the capacity of the deque
  ShortTimeout,  \* how long a waiter may queue under overload
  LongTimeout    \* how long otherwise, and how long a backlog is healthy

ASSUME QueueSizeAssumption == QueueSize \in Nat \ {0}
ASSUME TimeoutAssumption ==
  /\ ShortTimeout \in Nat
  /\ LongTimeout \in Nat \ {0}
  /\ ShortTimeout <= LongTimeout

\* More than every timeout: times are not told apart beyond it.
Long == LongTimeout + 1

Later(t) == IF t < Long THEN t + 1 ELSE Long

\* The queues of waiters from a set W, ...
Queues(W) == [items : Seq(W), mode : {"FIFO", "LIFO"}, sinceEmptied : 0 .. Long]

\* ... the waiters in one, ...
ItemsOf(q) == {q.items[i] : i \in DOMAIN q.items}

\* ... and whether each is in it only once.
Distinct(q) == \A i, j \in DOMAIN q.items : q.items[i] = q.items[j] => i = j

NewCoDel == [items |-> << >>, mode |-> "FIFO", sinceEmptied |-> 0]

IsEmpty(q) == q.items = << >>

\* Mutant of SetMode: overload is never noticed.
SetModeFIFO(q) ==
  IF IsEmpty(q) THEN [q EXCEPT !.mode = "FIFO", !.sinceEmptied = 0] ELSE q

SetMode(q) ==
  IF IsEmpty(q) THEN [q EXCEPT !.mode = "FIFO", !.sinceEmptied = 0]
  ELSE IF q.sinceEmptied > LongTimeout THEN [q EXCEPT !.mode = "LIFO"]
  ELSE q

\* Mutants of Push: at the wrong end, and without looking at the mode first.
PushAtFront(q, w) ==
  LET c == SetMode(q)
  IN  IF Len(c.items) < QueueSize THEN [c EXCEPT !.items = <<w>> \o @] ELSE c

PushWithoutSetMode(q, w) ==
  IF Len(q.items) < QueueSize THEN [q EXCEPT !.items = Append(@, w)] ELSE q

\* The error of PushBack is not looked at: a waiter pushed on a full queue is
\* in no queue.
Push(q, w) ==
  LET c == SetMode(q)
  IN  IF Len(c.items) < QueueSize THEN [c EXCEPT !.items = Append(@, w)] ELSE c

\* Whose turn it is in a queue that is not empty.
Peek(q) == IF q.mode = "FIFO" THEN Head(q.items) ELSE q.items[Len(q.items)]

\* The queue without Peek(q).
Pop(q) ==
  SetMode([q EXCEPT !.items =
    IF q.mode = "FIFO" THEN Tail(@) ELSE SubSeq(@, 1, Len(@) - 1)])

Timeout(q) == IF q.mode = "LIFO" THEN ShortTimeout ELSE LongTimeout

-----------------------------------------------------------------------------
(* reap; waited[w] is the time since waiter w was enqueued *)

\* Mutant of StaleCount: only the first waiter is looked at.
StaleAtMostOne(q, waited) ==
  IF ~IsEmpty(q) /\ waited[Head(q.items)] > Timeout(q) THEN 1 ELSE 0

\* How many waiters at the front have waited for longer than the timeout: the
\* loop stops at the first one that has not.
StaleCount(q, waited) ==
  Cardinality({i \in DOMAIN q.items :
                 \A j \in 1 .. i : waited[q.items[j]] > Timeout(q)})

\* The waiters that reap drops...
Dropped(q, waited) ==
  LET c == SetMode(q)
  IN  {c.items[i] : i \in 1 .. StaleCount(c, waited)}

\* Mutant of Reap: the dropped waiters stay.
ReapKeepingDropped(q, waited) == SetMode(q)

\* ... and the queue it leaves.
Reap(q, waited) ==
  LET c == SetMode(q)
  IN  SetMode([c EXCEPT !.items = SubSeq(@, StaleCount(c, waited) + 1, Len(@))])

\* A tick of time.
Aged(q) == [q EXCEPT !.sinceEmptied = Later(@)]
=============================================================================
