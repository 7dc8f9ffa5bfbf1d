------------------------------- MODULE Deque -------------------------------
(***************************************************************************)
(* utils/deque/deque.go: a double-ended queue in a circular slice, as it   *)
(* is used behind every CoDel queue.  `front' and `back' are the indices   *)
(* of the first and the last item; back = -1 means empty.                  *)
(*                                                                         *)
(* Both ways of making one are initial states: New(capacity), and the zero *)
(* value `var d Deque[T]', whose slice is allocated by its first push      *)
(* (ensureInit).  Capacity is New's argument, or the constant CAPACITY of  *)
(* deque.go for a zero value.                                              *)
(***************************************************************************)
EXTENDS Integers, Sequences

CONSTANTS
  Elements,       \* the values stored
  Capacity,       \* len(d.a) once the slice is allocated
  Zero,           \* the zero value of T, written into every freed slot
  Ok, Full, Empty \* nil, errDequeFull, and the panic on an empty deque

ASSUME CapacityAssumption == Capacity \in Nat \ {0}
ASSUME ZeroAssumption == Zero \notin Elements
ASSUME AnswerAssumption == Elements \cap {Ok, Full, Empty} = {}

VARIABLES
  a,            \* the slice; meaningless (nil in the code) until allocated
  front, back,  \* indices of the first and last item
  initialised,  \* FALSE for a zero value that nothing was pushed to
  out           \* what the last call returned

vars == <<a, front, back, initialised, out>>

Slots == 0 .. Capacity - 1

NewSlice == [i \in Slots |-> Zero]

\* Mutant of PositiveMod: Go's % as it is.
TruncatedMod(l, d) == IF l < 0 THEN -((-l) % d) ELSE l % d

\* Go's % truncates towards zero: the rest of a negative l is negative, and d
\* is added to it.
PositiveMod(l, d) ==
  LET x == IF l < 0 THEN -((-l) % d) ELSE l % d
  IN  IF x < 0 THEN x + d ELSE x

-----------------------------------------------------------------------------
(* Len and IsFull *)

Length ==
  IF ~initialised \/ back = -1 THEN 0
  ELSE IF front <= back THEN back - front + 1
  ELSE Capacity - front + back + 1

IsFull == initialised /\ Length = Capacity

-----------------------------------------------------------------------------
(* New, and the zero value *)

Init ==
  /\ a = NewSlice
  /\ front = 0
  /\ out = Ok
  /\ \/ initialised = TRUE /\ back = -1
     \/ initialised = FALSE /\ back = 0

\* What ensureInit leaves in back; it has no effect on an initialised deque.
EnsuredBack == IF initialised THEN back ELSE -1

PushBack(x) ==
  /\ initialised' = TRUE
  /\ UNCHANGED front
  /\ IF IsFull
     THEN out' = Full /\ UNCHANGED <<a, back>>
     ELSE /\ back' = IF Length = 0 THEN front ELSE (EnsuredBack + 1) % Capacity
          /\ a' = [a EXCEPT ![back'] = x]
          /\ out' = Ok

PushFront(x) ==
  /\ initialised' = TRUE
  /\ IF IsFull
     THEN out' = Full /\ UNCHANGED <<a, front, back>>
     ELSE /\ front' = PositiveMod(front - 1, Capacity)
          /\ a' = [a EXCEPT ![front'] = x]
          /\ back' = IF Length = 0 THEN front' ELSE back
          /\ out' = Ok

\* Mutant of PopFront: the freed slot keeps its item.
PopFrontKeepingSlot ==
  /\ UNCHANGED <<a, initialised>>
  /\ IF Length = 0
     THEN out' = Empty /\ UNCHANGED <<front, back>>
     ELSE /\ out' = a[front]
          /\ front' = IF Length = 1 THEN 0 ELSE (front + 1) % Capacity
          /\ back' = IF Length = 1 THEN -1 ELSE back

\* Removing the only item rewinds the deque to the state New leaves.
PopFront ==
  /\ UNCHANGED initialised
  /\ IF Length = 0
     THEN out' = Empty /\ UNCHANGED <<a, front, back>>
     ELSE /\ out' = a[front]
          /\ a' = [a EXCEPT ![front] = Zero]
          /\ front' = IF Length = 1 THEN 0 ELSE (front + 1) % Capacity
          /\ back' = IF Length = 1 THEN -1 ELSE back

\* Mutant of PopBack: removing the only item does not rewind the deque.
PopBackWithoutRewind ==
  /\ UNCHANGED initialised
  /\ IF Length = 0
     THEN out' = Empty /\ UNCHANGED <<a, front, back>>
     ELSE /\ out' = a[back]
          /\ a' = [a EXCEPT ![back] = Zero]
          /\ back' = PositiveMod(back - 1, Capacity)
          /\ UNCHANGED front

PopBack ==
  /\ UNCHANGED initialised
  /\ IF Length = 0
     THEN out' = Empty /\ UNCHANGED <<a, front, back>>
     ELSE /\ out' = a[back]
          /\ a' = [a EXCEPT ![back] = Zero]
          /\ front' = IF Length = 1 THEN 0 ELSE front
          /\ back' = IF Length = 1 THEN -1 ELSE PositiveMod(back - 1, Capacity)

Front ==
  /\ out' = IF Length = 0 THEN Empty ELSE a[front]
  /\ UNCHANGED <<a, front, back, initialised>>

Back ==
  /\ out' = IF Length = 0 THEN Empty ELSE a[back]
  /\ UNCHANGED <<a, front, back, initialised>>

Next ==
  \/ \E x \in Elements : PushBack(x) \/ PushFront(x)
  \/ PopFront \/ PopBack \/ Front \/ Back

Spec == Init /\ [][Next]_vars

-----------------------------------------------------------------------------
(* Properties *)

\* Types of the fields of Deque.
TypeOK ==
  /\ a \in [Slots -> Elements \cup {Zero}]
  /\ front \in Slots
  /\ back \in Slots \cup {-1}
  /\ initialised \in BOOLEAN
  /\ out \in Elements \cup {Ok, Full, Empty}

\* The slot of the k-th item.
SlotOf(k) == (front + k - 1) % Capacity

Live == {SlotOf(k) : k \in 1 .. Length}

\* Every slot outside the window from front to back holds the zero value: a
\* waiter that was popped is never kept alive by the slice, and the window
\* always covers exactly the items pushed and not popped.
NoStaleSlots == \A i \in Slots : a[i] = Zero <=> i \notin Live

\* The items in order: the refinement mapping to a plain bounded sequence.
Items == [k \in 1 .. Length |-> a[SlotOf(k)]]

Abstract == INSTANCE BoundedDeque WITH items <- Items

\* The circular slice behaves as a bounded sequence: whatever the pushes and
\* pops that made the indices wrap around, each call answers and each item
\* comes out as if the items were in a plain sequence.
ImplementsBoundedDeque == Abstract!Spec
=============================================================================
