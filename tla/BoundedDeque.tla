---------------------------- MODULE BoundedDeque ----------------------------
(***************************************************************************)
(* What utils/deque promises its users: a sequence of at most Capacity     *)
(* elements, pushed and popped at both ends.  A push on a full deque       *)
(* answers errDequeFull and changes nothing; reading or popping an empty   *)
(* one panics.  `out' is what the last call answered.                      *)
(***************************************************************************)
EXTENDS Integers, Sequences

CONSTANTS
  Elements,      \* what is stored (pointers to waiters, in catfish)
  Capacity,      \* the argument of New
  Ok, Full, Empty \* answers of a push, a push on a full deque, a panic

VARIABLES items, out

vars == <<items, out>>

Init ==
  /\ items = << >>
  /\ out = Ok

PushBack(x) ==
  /\ items' = IF Len(items) < Capacity THEN Append(items, x) ELSE items
  /\ out' = IF Len(items) < Capacity THEN Ok ELSE Full

PushFront(x) ==
  /\ items' = IF Len(items) < Capacity THEN <<x>> \o items ELSE items
  /\ out' = IF Len(items) < Capacity THEN Ok ELSE Full

PopFront ==
  /\ items' = IF items = << >> THEN items ELSE Tail(items)
  /\ out' = IF items = << >> THEN Empty ELSE Head(items)

PopBack ==
  /\ items' = IF items = << >> THEN items ELSE SubSeq(items, 1, Len(items) - 1)
  /\ out' = IF items = << >> THEN Empty ELSE items[Len(items)]

Front ==
  /\ out' = IF items = << >> THEN Empty ELSE Head(items)
  /\ UNCHANGED items

Back ==
  /\ out' = IF items = << >> THEN Empty ELSE items[Len(items)]
  /\ UNCHANGED items

Next ==
  \/ \E x \in Elements : PushBack(x) \/ PushFront(x)
  \/ PopFront \/ PopBack \/ Front \/ Back

Spec == Init /\ [][Next]_vars
=============================================================================
