---------------------------- MODULE DequeProofs ----------------------------
(***************************************************************************)
(* Proofs about Deque, for every Capacity >= 1 and every set of elements.  *)
(***************************************************************************)
EXTENDS Deque, SequenceTheorems, TLAPS

USE CapacityAssumption DEF Slots

\* Where the circle puts an index that ran at most one round past its end.
Wrap(i) == IF i < Capacity THEN i ELSE i - Capacity

-----------------------------------------------------------------------------
(* Arithmetic of the circle *)

LEMMA ModWraps ==
  ASSUME NEW i \in 0 .. 2 * Capacity - 1
  PROVE  i % Capacity = Wrap(i) /\ Wrap(i) \in Slots
<1>1. CASE i < Capacity
  <2>1. i % Capacity = i
    BY <1>1
  <2> QED BY <1>1, <2>1 DEF Wrap
<1>2. CASE i >= Capacity
  <2>1. i % Capacity = i - Capacity
    BY <1>2
  <2> QED BY <1>2, <2>1 DEF Wrap
<1> QED BY <1>1, <1>2

LEMMA OneBack ==
  ASSUME NEW i \in Slots
  PROVE  PositiveMod(i - 1, Capacity) = IF i = 0 THEN Capacity - 1 ELSE i - 1
<1>1. CASE i = 0
  <2>1. CASE Capacity = 1
    <3>1. 1 % Capacity = 0
      BY <2>1
    <3> QED BY <1>1, <2>1, <3>1 DEF PositiveMod
  <2>2. CASE Capacity > 1
    <3>1. 1 % Capacity = 1
      BY <2>2
    <3> QED BY <1>1, <2>2, <3>1 DEF PositiveMod
  <2> QED BY <2>1, <2>2
<1>2. CASE i > 0
  <2>1. (i - 1) % Capacity = i - 1
    BY <1>2
  <2> QED BY <1>2, <2>1 DEF PositiveMod
<1> QED BY <1>1, <1>2

LEMMA LengthType ==
  ASSUME TypeOK
  PROVE  Length \in 0 .. Capacity
BY DEF TypeOK, Length

LEMMA SlotWraps ==
  ASSUME TypeOK, NEW k \in 1 .. Capacity
  PROVE  SlotOf(k) = Wrap(front + k - 1) /\ SlotOf(k) \in Slots
<1>1. front + k - 1 \in 0 .. 2 * Capacity - 1
  BY DEF TypeOK
<1> QED BY <1>1, ModWraps DEF SlotOf
\* Different positions are in different slots.
LEMMA SlotsDistinct ==
  ASSUME TypeOK, NEW k \in 1 .. Capacity, NEW l \in 1 .. Capacity,
         SlotOf(k) = SlotOf(l)
  PROVE  k = l
BY SlotWraps DEF TypeOK, Wrap

\* front and back are the slots of the first and the last item.
LEMMA Ends ==
  ASSUME TypeOK, Length > 0
  PROVE  /\ SlotOf(1) = front
         /\ SlotOf(Length) = back
<1>1. Length \in 1 .. Capacity /\ 1 \in 1 .. Capacity
  BY LengthType
<1> QED BY <1>1, SlotWraps DEF TypeOK, Wrap, Length

\* Items is the sequence of what the slots hold.
ItemsOK ==
  /\ Items \in Seq(Elements)
  /\ Len(Items) = Length
  /\ \A k \in 1 .. Length : Items[k] = a[SlotOf(k)]

LEMMA ItemsType == TypeOK /\ NoStaleSlots => ItemsOK
<1> SUFFICES ASSUME TypeOK, NoStaleSlots
             PROVE  ItemsOK
  OBVIOUS
<1>1. Length \in Nat /\ 1 .. Length \subseteq 1 .. Capacity
  BY LengthType
<1>2. ASSUME NEW k \in 1 .. Length
      PROVE  a[SlotOf(k)] \in Elements
  <2>1. SlotOf(k) \in Slots /\ SlotOf(k) \in Live
    BY <1>1, SlotWraps DEF Live
  <2> QED BY <2>1 DEF TypeOK, NoStaleSlots
<1> HIDE DEF Slots, SlotOf
<1> QED BY <1>1, <1>2, IsASeq DEF Items, ItemsOK

-----------------------------------------------------------------------------
(* How each call moves the window.  All four leave the window of the other *)
(* items in place: only the slot at one end joins or leaves it.            *)

LEMMA PushBackWindow ==
  ASSUME TypeOK, NEW x \in Elements, PushBack(x), ~IsFull
  PROVE  /\ TypeOK'
         /\ Length' = Length + 1
         /\ \A k \in 1 .. Capacity : SlotOf(k)' = SlotOf(k)
         /\ back' = SlotOf(Length + 1)
<1>1. Length \in 0 .. Capacity /\ Length < Capacity
  BY LengthType DEF IsFull, Length
<1>2. back' = Wrap(front + Length) /\ back' = SlotOf(Length + 1)
  <2>0. Length + 1 \in 1 .. Capacity
    BY <1>1
  <2>1. SlotOf(Length + 1) = Wrap(front + Length)
    BY <2>0, SlotWraps, LengthType DEF TypeOK
  <2>2. CASE Length = 0
    BY <2>1, <2>2 DEF PushBack, Wrap, TypeOK
  <2>3. CASE Length > 0
    <3>1. initialised /\ back \in Slots /\ EnsuredBack = back
      BY <2>3 DEF Length, TypeOK, EnsuredBack
    <3>2. back + 1 \in 0 .. 2 * Capacity - 1
      BY <3>1
    <3>3. back' = Wrap(back + 1)
      BY <2>3, <3>1, <3>2, ModWraps DEF PushBack
    <3> QED BY <1>1, <2>1, <2>3, <3>1, <3>3 DEF Wrap, Length, TypeOK
  <2> QED BY <1>1, <2>2, <2>3
<1>3. back' \in Slots
  BY <1>1, <1>2 DEF Wrap, TypeOK
<1>4. TypeOK'
  BY <1>3 DEF TypeOK, PushBack
<1>5. Length' = Length + 1
  BY <1>1, <1>2, <1>3 DEF TypeOK, PushBack, Length, Wrap
<1>6. \A k : SlotOf(k)' = SlotOf(k)
  BY DEF SlotOf, PushBack
<1> QED BY <1>2, <1>4, <1>5, <1>6

LEMMA PushFrontWindow ==
  ASSUME TypeOK, NEW x \in Elements, PushFront(x), ~IsFull
  PROVE  /\ TypeOK'
         /\ Length' = Length + 1
         /\ \A k \in 1 .. Length : SlotOf(k + 1)' = SlotOf(k)
         /\ SlotOf(1)' = front'
         /\ \A k \in 1 .. Length : front' # SlotOf(k)
<1>1. Length \in 0 .. Capacity /\ Length < Capacity
  BY LengthType DEF IsFull, Length
<1>2. front' = (IF front = 0 THEN Capacity - 1 ELSE front - 1) /\ front' \in Slots
  BY OneBack DEF PushFront, TypeOK
<1>3. TypeOK'
  BY <1>2 DEF TypeOK, PushFront
<1>4. Length' = Length + 1
  BY <1>1, <1>2 DEF TypeOK, PushFront, Length
<1>5. \A k \in 1 .. Capacity : SlotOf(k)' = Wrap(front' + k - 1)
  <2>1. ASSUME NEW k \in 1 .. Capacity
        PROVE  (front' + k - 1) % Capacity = Wrap(front' + k - 1)
    <3>1. front' + k - 1 \in 0 .. 2 * Capacity - 1
      BY <1>2
    <3> QED BY <3>1, ModWraps
  <2> QED BY <2>1 DEF SlotOf
<1>6. \A k \in 1 .. Capacity : SlotOf(k) = Wrap(front + k - 1)
  BY SlotWraps
<1>7. \A k \in 1 .. Length : k \in 1 .. Capacity /\ k + 1 \in 1 .. Capacity
  BY <1>1
<1> QED BY <1>1, <1>2, <1>3, <1>4, <1>5, <1>6, <1>7 DEF Wrap, TypeOK

LEMMA PopFrontWindow ==
  ASSUME TypeOK, NoStaleSlots, PopFront, Length > 0
  PROVE  /\ TypeOK'
         /\ Length' = Length - 1
         /\ \A k \in 1 .. Length' : SlotOf(k)' = SlotOf(k + 1)
<1>1. Length \in 1 .. Capacity
  BY LengthType
<1>2. front \in Live
  BY <1>1, Ends DEF Live
<1>3. a[front] \in Elements
  BY <1>2 DEF TypeOK, NoStaleSlots
<1>4. CASE Length = 1
  BY <1>3, <1>4 DEF TypeOK, PopFront, Length
<1>5. CASE Length > 1
  <2>1. front' = Wrap(front + 1) /\ front' \in Slots /\ back' = back
    <3>1. front + 1 \in 0 .. 2 * Capacity - 1
      BY DEF TypeOK
    <3>2. front' = (front + 1) % Capacity /\ back' = back
      BY <1>1, <1>5 DEF PopFront
    <3> QED BY <3>1, <3>2, ModWraps
  <2>2. TypeOK'
    BY <1>3, <1>5, <2>1 DEF TypeOK, PopFront
  <2>3. Length' = Length - 1
    BY <1>1, <1>5, <2>1 DEF TypeOK, PopFront, Length, Wrap
  <2>4. ASSUME NEW k \in 1 .. Length'
        PROVE  SlotOf(k)' = SlotOf(k + 1)
    <3>1. k \in 1 .. Capacity /\ k + 1 \in 1 .. Capacity
      BY <1>1, <2>3
    <3>2. front' + k - 1 \in 0 .. 2 * Capacity - 1
      BY <2>1, <3>1
    <3>3. (front' + k - 1) % Capacity = Wrap(front' + k - 1)
      BY <3>2, ModWraps
    <3>4. SlotOf(k + 1) = Wrap(front + (k + 1) - 1)
      BY <3>1, SlotWraps
    <3> QED BY <1>1, <2>1, <2>3, <3>1, <3>3, <3>4 DEF SlotOf, Wrap, TypeOK
  <2> QED BY <2>2, <2>3, <2>4
<1> QED BY <1>1, <1>4, <1>5

LEMMA PopBackWindow ==
  ASSUME TypeOK, NoStaleSlots, PopBack, Length > 0
  PROVE  /\ TypeOK'
         /\ Length' = Length - 1
         /\ \A k \in 1 .. Length' : SlotOf(k)' = SlotOf(k)
<1>1. Length \in 1 .. Capacity
  BY LengthType
<1>2. back \in Live /\ back \in Slots
  BY <1>1, Ends, SlotWraps DEF Live
<1>3. a[back] \in Elements
  BY <1>2 DEF TypeOK, NoStaleSlots
<1>4. CASE Length = 1
  BY <1>3, <1>4 DEF TypeOK, PopBack, Length
<1>5. CASE Length > 1
  <2>1. /\ back' = IF back = 0 THEN Capacity - 1 ELSE back - 1
        /\ front' = front
    BY <1>2, <1>5, OneBack DEF PopBack
  <2>2. TypeOK'
    BY <1>2, <1>3, <1>5, <2>1 DEF TypeOK, PopBack
  <2>3. Length' = Length - 1
    BY <1>1, <1>2, <1>5, <2>1 DEF TypeOK, PopBack, Length
  <2>4. \A k : SlotOf(k)' = SlotOf(k)
    BY <2>1 DEF SlotOf
  <2> QED BY <2>2, <2>3, <2>4
<1> QED BY <1>1, <1>4, <1>5

-----------------------------------------------------------------------------
(* The invariant, and the refinement: one lemma per call *)

IInv == TypeOK /\ NoStaleSlots

LEMMA InitInv == Init => IInv
<1> SUFFICES ASSUME Init PROVE IInv
  OBVIOUS
<1>1. TypeOK
  <2>1. 0 \in Slots
    OBVIOUS
  <2>2. a \in [Slots -> Elements \cup {Zero}]
    BY DEF Init, NewSlice
  <2> HIDE DEF Slots
  <2> QED BY <2>1, <2>2 DEF Init, TypeOK
<1>2. Length = 0 /\ Live = {}
  BY DEF Init, Length, Live
<1>3. NoStaleSlots
  BY <1>2 DEF Init, NoStaleSlots, NewSlice
<1> QED BY <1>1, <1>3 DEF IInv

\* A call that leaves the slice and the indices alone keeps the items.
LEMMA ReadKeeps ==
  ASSUME IInv, UNCHANGED <<a, front, back>>, UNCHANGED Length,
         out' \in Elements \cup {Ok, Full, Empty}, initialised' \in BOOLEAN
  PROVE  IInv' /\ Items' = Items
<1>1. \A k : SlotOf(k)' = SlotOf(k)
  BY DEF SlotOf
<1>2. Live' = Live
  BY <1>1 DEF Live
<1>3. Items' = Items
  BY <1>1 DEF Items
<1> QED BY <1>2, <1>3 DEF IInv, TypeOK, NoStaleSlots

\* What the two ends of the deque hold.
LEMMA EndItems ==
  ASSUME IInv, Length > 0
  PROVE  /\ Items # << >>
         /\ Head(Items) = a[front] /\ a[front] \in Elements
         /\ Items[Len(Items)] = a[back] /\ a[back] \in Elements
<1>1. /\ Items \in Seq(Elements) /\ Len(Items) = Length
      /\ \A k \in 1 .. Length : Items[k] = a[SlotOf(k)]
  BY ItemsType DEF IInv, ItemsOK
<1>2. Length \in 1 .. Capacity
  BY LengthType DEF IInv
<1>3. Items # << >> /\ Head(Items) = Items[1]
  BY <1>1, <1>2
<1>4. SlotOf(1) = front /\ SlotOf(Length) = back
  BY Ends DEF IInv
<1>5. Items[1] = a[front] /\ Items[Length] = a[back]
  BY <1>1, <1>2, <1>4
<1>6. Items[1] \in Elements /\ Items[Length] \in Elements
  BY <1>1, <1>2
<1> QED BY <1>1, <1>3, <1>5, <1>6

LEMMA EmptyItems ==
  ASSUME IInv
  PROVE  (Items = << >>) <=> (Length = 0)
<1>1. Items \in Seq(Elements) /\ Len(Items) = Length
  BY ItemsType DEF IInv, ItemsOK
<1> QED BY <1>1

LEMMA FullItems ==
  ASSUME IInv
  PROVE  (Len(Items) < Capacity) <=> ~IsFull
<1>1. Len(Items) = Length /\ Length \in 0 .. Capacity
  BY ItemsType, LengthType DEF IInv, ItemsOK
<1>2. ~initialised => Length = 0
  BY DEF Length
<1> QED BY <1>1, <1>2 DEF IsFull

LEMMA PushBackStep ==
  ASSUME IInv, NEW x \in Elements, PushBack(x)
  PROVE  IInv' /\ Abstract!PushBack(x)
<1>1. CASE IsFull
  <2>1. UNCHANGED Length
    BY <1>1 DEF PushBack, Length, IsFull
  <2>2. IInv' /\ Items' = Items
    BY <1>1, <2>1, ReadKeeps DEF PushBack
  <2> QED BY <1>1, <2>2, FullItems DEF PushBack, Abstract!PushBack
<1>2. CASE ~IsFull
  <2>1. /\ TypeOK'
        /\ Length' = Length + 1
        /\ \A k \in 1 .. Capacity : SlotOf(k)' = SlotOf(k)
        /\ back' = SlotOf(Length + 1)
    BY <1>2, PushBackWindow DEF IInv
  <2>2. Length \in Nat /\ Length + 1 \in 1 .. Capacity
    BY <2>1, LengthType DEF IInv, TypeOK, IsFull, Length
  <2>3. /\ \A k \in 1 .. Length' : SlotOf(k)' = SlotOf(k) /\ SlotOf(k) \in Slots
        /\ \A k \in 1 .. Length : SlotOf(k) # SlotOf(Length + 1)
    <3>1. 1 .. Length' \subseteq 1 .. Capacity
      BY <2>1, <2>2
    <3>2. \A k \in 1 .. Length : k \in 1 .. Capacity /\ k # Length + 1
      BY <2>2
    <3> QED BY <2>1, <2>2, <3>1, <3>2, SlotWraps, SlotsDistinct DEF IInv
  <2>4. a' = [a EXCEPT ![SlotOf(Length + 1)] = x] /\ SlotOf(Length + 1) \in Slots
    BY <1>2, <2>1, <2>2, SlotWraps DEF PushBack, IInv
  <2>5. Live' = Live \cup {SlotOf(Length + 1)}
    <3>1. Live' = {SlotOf(k) : k \in 1 .. Length'}
      BY <2>3 DEF Live
    <3>2. 1 .. Length' = (1 .. Length) \cup {Length + 1}
      BY <2>1, <2>2
    <3> QED BY <3>1, <3>2 DEF Live
  <2>6. NoStaleSlots'
    BY <2>4, <2>5, ZeroAssumption DEF NoStaleSlots, IInv, TypeOK
  <2>7. Items' = Append(Items, x)
    <3>1. /\ Items \in Seq(Elements) /\ Len(Items) = Length
          /\ \A k \in 1 .. Length : Items[k] = a[SlotOf(k)]
      BY ItemsType DEF IInv, ItemsOK
    <3>2. /\ Items' \in Seq(Elements) /\ Len(Items') = Length + 1
          /\ \A k \in 1 .. Length' : Items'[k] = a'[SlotOf(k)']
      <4>1. (TypeOK /\ NoStaleSlots => ItemsOK)'
        BY ItemsType, PTL
      <4> QED BY <2>1, <2>6, <4>1 DEF ItemsOK
    <3>3. \A k \in 1 .. Length : Items'[k] = Items[k]
      BY <2>1, <2>2, <2>3, <2>4, <3>1, <3>2 DEF IInv, TypeOK
    <3>4. Items'[Length + 1] = x
      BY <2>1, <2>2, <2>3, <2>4, <3>2 DEF IInv, TypeOK
    <3>5. /\ Append(Items, x) \in Seq(Elements)
          /\ Len(Append(Items, x)) = Length + 1
          /\ \A k \in 1 .. Length : Append(Items, x)[k] = Items[k]
          /\ Append(Items, x)[Length + 1] = x
      BY <3>1, AppendProperties
    <3>6. \A k \in 1 .. Length + 1 : Items'[k] = Append(Items, x)[k]
      BY <2>2, <3>3, <3>4, <3>5
    <3> QED BY <3>2, <3>5, <3>6, SeqEqual
  <2>8. out' = Ok
    BY <1>2 DEF PushBack
  <2> QED BY <1>2, <2>1, <2>6, <2>7, <2>8, FullItems DEF Abstract!PushBack, IInv
<1> QED BY <1>1, <1>2

LEMMA PushFrontStep ==
  ASSUME IInv, NEW x \in Elements, PushFront(x)
  PROVE  IInv' /\ Abstract!PushFront(x)
<1>1. CASE IsFull
  <2>1. UNCHANGED Length
    BY <1>1 DEF PushFront, Length, IsFull
  <2>2. IInv' /\ Items' = Items
    BY <1>1, <2>1, ReadKeeps DEF PushFront
  <2> QED BY <1>1, <2>2, FullItems DEF PushFront, Abstract!PushFront
<1>2. CASE ~IsFull
  <2>1. /\ TypeOK'
        /\ Length' = Length + 1
        /\ \A k \in 1 .. Length : SlotOf(k + 1)' = SlotOf(k)
        /\ SlotOf(1)' = front'
        /\ \A k \in 1 .. Length : front' # SlotOf(k)
    BY <1>2, PushFrontWindow DEF IInv
  <2>2. Length \in Nat /\ 1 .. Length \subseteq 1 .. Capacity
    BY LengthType DEF IInv
  <2>3. \A k \in 1 .. Length : SlotOf(k) \in Slots
    BY <2>2, SlotWraps DEF IInv
  <2>4. a' = [a EXCEPT ![front'] = x] /\ front' \in Slots
    BY <1>2, <2>1 DEF PushFront, TypeOK
  <2>5. Live' = Live \cup {front'}
    <3>1. 1 .. Length' = {1} \cup {k + 1 : k \in 1 .. Length}
      BY <2>1, <2>2
    <3>2. Live' = {SlotOf(k)' : k \in 1 .. Length'}
      BY DEF Live
    <3>3. Live' = {SlotOf(1)'} \cup {SlotOf(k + 1)' : k \in 1 .. Length}
      BY <3>1, <3>2
    <3> HIDE DEF Slots
    <3> QED BY <2>1, <3>3 DEF Live
  <2>6. NoStaleSlots'
    BY <2>4, <2>5, ZeroAssumption DEF NoStaleSlots, IInv, TypeOK
  <2>7. Items' = <<x>> \o Items
    <3>1. /\ Items \in Seq(Elements) /\ Len(Items) = Length
          /\ \A k \in 1 .. Length : Items[k] = a[SlotOf(k)]
      BY ItemsType DEF IInv, ItemsOK
    <3>2. /\ Items' \in Seq(Elements) /\ Len(Items') = Length + 1
          /\ \A k \in 1 .. Length' : Items'[k] = a'[SlotOf(k)']
      <4>1. (TypeOK /\ NoStaleSlots => ItemsOK)'
        BY ItemsType, PTL
      <4> QED BY <2>1, <2>6, <4>1 DEF ItemsOK
    <3>3. /\ <<x>> \in Seq(Elements) /\ Len(<<x>>) = 1 /\ <<x>>[1] = x
          /\ <<x>> \o Items \in Seq(Elements)
          /\ Len(<<x>> \o Items) = Length + 1
          /\ \A k \in 1 .. 1 + Length :
               (<<x>> \o Items)[k] = IF k <= 1 THEN <<x>>[k] ELSE Items[k - 1]
      BY <3>1, ConcatProperties
    <3>4. Items'[1] = x
      BY <2>1, <2>2, <2>4, <3>2 DEF IInv, TypeOK
    <3>5. ASSUME NEW k \in 1 .. Length
          PROVE  Items'[k + 1] = Items[k]
      <4>1. k + 1 \in 1 .. Length' /\ SlotOf(k + 1)' = SlotOf(k)
        BY <2>1, <2>2
      <4>2. a'[SlotOf(k)] = a[SlotOf(k)]
        BY <2>1, <2>3, <2>4 DEF IInv, TypeOK
      <4> QED BY <3>1, <3>2, <4>1, <4>2
    <3>6. ASSUME NEW k \in 1 .. Length + 1
          PROVE  Items'[k] = (<<x>> \o Items)[k]
      <4>1. CASE k = 1
        BY <3>3, <3>4, <4>1
      <4>2. CASE k > 1
        <5>1. k - 1 \in 1 .. Length /\ (k - 1) + 1 = k
          BY <2>2, <4>2
        <5>2. Items'[(k - 1) + 1] = Items[k - 1]
          BY <3>5, <5>1
        <5> QED BY <2>2, <3>3, <4>2, <5>1, <5>2
      <4>3. k = 1 \/ k > 1
        BY <2>2
      <4> QED BY <4>1, <4>2, <4>3
    <3> QED BY <3>2, <3>3, <3>6, SeqEqual
  <2>8. out' = Ok
    BY <1>2 DEF PushFront
  <2> QED BY <1>2, <2>1, <2>6, <2>7, <2>8, FullItems DEF Abstract!PushFront, IInv
<1> QED BY <1>1, <1>2

LEMMA PopFrontStep ==
  ASSUME IInv, PopFront
  PROVE  IInv' /\ Abstract!PopFront
<1>1. CASE Length = 0
  <2>1. UNCHANGED Length
    BY <1>1 DEF PopFront, Length
  <2>2. IInv' /\ Items' = Items
    BY <1>1, <2>1, ReadKeeps DEF PopFront, IInv, TypeOK
  <2> QED BY <1>1, <2>2, EmptyItems DEF PopFront, Abstract!PopFront
<1>2. CASE Length > 0
  <2>1. /\ TypeOK'
        /\ Length' = Length - 1
        /\ \A k \in 1 .. Length' : SlotOf(k)' = SlotOf(k + 1)
    BY <1>2, PopFrontWindow DEF IInv
  <2>2. Length \in Nat /\ 1 .. Length \subseteq 1 .. Capacity
    BY LengthType DEF IInv
  <2>3. \A k \in 1 .. Length : SlotOf(k) \in Slots
    BY <2>2, SlotWraps DEF IInv
  <2>4. a' = [a EXCEPT ![front] = Zero] /\ front = SlotOf(1)
    BY <1>2, Ends DEF PopFront, IInv
  <2>5. \A k \in 1 .. Length - 1 : SlotOf(k + 1) # front
    <3>1. \A k \in 1 .. Length - 1 :
             1 \in 1 .. Capacity /\ k + 1 \in 1 .. Capacity /\ k + 1 # 1
      BY <2>2
    <3> QED BY <2>4, <3>1, SlotsDistinct DEF IInv
  <2>6. Live' = Live \ {front}
    <3>1. 1 .. Length = {1} \cup {k + 1 : k \in 1 .. Length - 1}
      BY <1>2, <2>2
    <3>2. Live = {SlotOf(1)} \cup {SlotOf(k + 1) : k \in 1 .. Length - 1}
      BY <3>1 DEF Live
    <3>3. Live' = {SlotOf(k)' : k \in 1 .. Length'}
      BY DEF Live
    <3>4. Live' = {SlotOf(k + 1) : k \in 1 .. Length - 1}
      BY <2>1, <3>3
    <3> QED BY <2>4, <2>5, <3>2, <3>4
  <2>7. NoStaleSlots'
    BY <2>4, <2>6 DEF NoStaleSlots, IInv, TypeOK
  <2>8. Items' = Tail(Items)
    <3>1. /\ Items \in Seq(Elements) /\ Len(Items) = Length /\ Items # << >>
          /\ \A k \in 1 .. Length : Items[k] = a[SlotOf(k)]
      BY <1>2, ItemsType, EmptyItems DEF IInv, ItemsOK
    <3>2. /\ Items' \in Seq(Elements) /\ Len(Items') = Length - 1
          /\ \A k \in 1 .. Length' : Items'[k] = a'[SlotOf(k)']
      <4>1. (TypeOK /\ NoStaleSlots => ItemsOK)'
        BY ItemsType, PTL
      <4> QED BY <2>1, <2>7, <4>1 DEF ItemsOK
    <3>3. /\ Tail(Items) \in Seq(Elements)
          /\ Len(Tail(Items)) = Length - 1
          /\ \A k \in 1 .. Len(Tail(Items)) : Tail(Items)[k] = Items[k + 1]
      BY <3>1, HeadTailProperties
    <3>4. ASSUME NEW k \in 1 .. Length - 1
          PROVE  Items'[k] = Items[k + 1]
      <4>1. k + 1 \in 1 .. Length /\ k \in 1 .. Length'
        BY <2>1, <2>2
      <4>2. a'[SlotOf(k + 1)] = a[SlotOf(k + 1)]
        BY <2>3, <2>4, <2>5, <4>1 DEF IInv, TypeOK
      <4> QED BY <2>1, <3>1, <3>2, <4>1, <4>2
    <3> QED BY <3>2, <3>3, <3>4, SeqEqual
  <2>9. out' = Head(Items)
    BY <1>2, EndItems DEF PopFront
  <2> QED BY <1>2, <2>1, <2>7, <2>8, <2>9, EmptyItems DEF Abstract!PopFront, IInv
<1> QED BY <1>1, <1>2, LengthType DEF IInv

LEMMA PopBackStep ==
  ASSUME IInv, PopBack
  PROVE  IInv' /\ Abstract!PopBack
<1>1. CASE Length = 0
  <2>1. UNCHANGED Length
    BY <1>1 DEF PopBack, Length
  <2>2. IInv' /\ Items' = Items
    BY <1>1, <2>1, ReadKeeps DEF PopBack, IInv, TypeOK
  <2> QED BY <1>1, <2>2, EmptyItems DEF PopBack, Abstract!PopBack
<1>2. CASE Length > 0
  <2>1. /\ TypeOK'
        /\ Length' = Length - 1
        /\ \A k \in 1 .. Length' : SlotOf(k)' = SlotOf(k)
    BY <1>2, PopBackWindow DEF IInv
  <2>2. Length \in Nat /\ 1 .. Length \subseteq 1 .. Capacity
    BY LengthType DEF IInv
  <2>3. \A k \in 1 .. Length : SlotOf(k) \in Slots
    BY <2>2, SlotWraps DEF IInv
  <2>4. a' = [a EXCEPT ![back] = Zero] /\ back = SlotOf(Length)
    BY <1>2, Ends DEF PopBack, IInv
  <2>5. \A k \in 1 .. Length - 1 : SlotOf(k) # back
    <3>1. \A k \in 1 .. Length - 1 :
             Length \in 1 .. Capacity /\ k \in 1 .. Capacity /\ k # Length
      BY <1>2, <2>2
    <3> QED BY <2>4, <3>1, SlotsDistinct DEF IInv
  <2>6. Live' = Live \ {back}
    <3>1. 1 .. Length = {Length} \cup 1 .. Length - 1
      BY <1>2, <2>2
    <3>2. Live = {SlotOf(Length)} \cup {SlotOf(k) : k \in 1 .. Length - 1}
      BY <3>1 DEF Live
    <3>3. Live' = {SlotOf(k)' : k \in 1 .. Length'}
      BY DEF Live
    <3>4. Live' = {SlotOf(k) : k \in 1 .. Length - 1}
      BY <2>1, <3>3
    <3> QED BY <2>4, <2>5, <3>2, <3>4
  <2>7. NoStaleSlots'
    BY <2>4, <2>6 DEF NoStaleSlots, IInv, TypeOK
  <2>8. Items' = SubSeq(Items, 1, Len(Items) - 1)
    <3>1. /\ Items \in Seq(Elements) /\ Len(Items) = Length
          /\ \A k \in 1 .. Length : Items[k] = a[SlotOf(k)]
      BY ItemsType DEF IInv, ItemsOK
    <3>2. /\ Items' \in Seq(Elements) /\ Len(Items') = Length - 1
          /\ \A k \in 1 .. Length' : Items'[k] = a'[SlotOf(k)']
      <4>1. (TypeOK /\ NoStaleSlots => ItemsOK)'
        BY ItemsType, PTL
      <4> QED BY <2>1, <2>7, <4>1 DEF ItemsOK
    <3>3. \A k \in 1 .. Length - 1 : k \in 1 .. Length /\ Items[k] \in Elements
      BY <2>2, <3>1, ElementOfSeq
    <3>4. LET shorter == SubSeq(Items, 1, Length - 1)
          IN  /\ shorter \in Seq(Elements)
              /\ Len(shorter) = Length - 1
              /\ \A k \in 1 .. Length - 1 : shorter[k] = Items[k]
      <4>1. LET shorter == SubSeq(Items, 1, Length - 1)
            IN  /\ shorter \in Seq(Elements)
                /\ Len(shorter) = IF 1 <= Length - 1 THEN (Length - 1) - 1 + 1 ELSE 0
                /\ \A k \in 1 .. (Length - 1) - 1 + 1 : shorter[k] = Items[1 + k - 1]
        BY <2>2, <3>3, SubSeqProperties
      <4> QED BY <1>2, <2>2, <4>1
    <3>5. ASSUME NEW k \in 1 .. Length - 1
          PROVE  Items'[k] = Items[k]
      <4>1. a'[SlotOf(k)] = a[SlotOf(k)]
        BY <2>3, <2>4, <2>5, <3>3 DEF IInv, TypeOK
      <4> QED BY <2>1, <3>1, <3>2, <3>3, <4>1
    <3> QED BY <3>1, <3>2, <3>4, <3>5, SeqEqual
  <2>9. out' = Items[Len(Items)]
    BY <1>2, EndItems DEF PopBack
  <2> QED BY <1>2, <2>1, <2>7, <2>8, <2>9, EmptyItems DEF Abstract!PopBack, IInv
<1> QED BY <1>1, <1>2, LengthType DEF IInv

LEMMA PeekStep ==
  ASSUME IInv, Front \/ Back
  PROVE  IInv' /\ (Abstract!Front \/ Abstract!Back)
<1>1. UNCHANGED Length
  BY DEF Front, Back, Length
<1>2. Length > 0 => a[front] \in Elements /\ a[back] \in Elements
  BY EndItems
<1>3. Length \in Nat
  BY LengthType DEF IInv
<1>4. IInv' /\ Items' = Items
  BY <1>1, <1>2, <1>3, ReadKeeps DEF Front, Back, IInv, TypeOK
<1>5. CASE Front
  BY <1>3, <1>4, <1>5, EmptyItems, EndItems DEF Front, Abstract!Front
<1>6. CASE Back
  BY <1>3, <1>4, <1>6, EmptyItems, EndItems DEF Back, Abstract!Back
<1> QED BY <1>4, <1>5, <1>6

\* Every call keeps the invariant and is the same call on the abstract deque.
LEMMA NextStep ==
  ASSUME IInv, [Next]_vars
  PROVE  IInv' /\ [Abstract!Next]_(Abstract!vars)
<1>1. CASE UNCHANGED vars
  <2>1. UNCHANGED <<Length, Items, Live>>
    BY <1>1 DEF vars, Length, Items, Live, SlotOf
  <2> QED BY <1>1, <2>1 DEF vars, IInv, TypeOK, NoStaleSlots, Abstract!vars
<1>2. ASSUME NEW x \in Elements, PushBack(x) \/ PushFront(x)
      PROVE  IInv' /\ Abstract!Next
  BY <1>2, PushBackStep, PushFrontStep DEF Abstract!Next
<1>3. CASE PopFront
  BY <1>3, PopFrontStep DEF Abstract!Next
<1>4. CASE PopBack
  BY <1>4, PopBackStep DEF Abstract!Next
<1>5. CASE Front \/ Back
  BY <1>5, PeekStep DEF Abstract!Next
<1> QED BY <1>1, <1>2, <1>3, <1>4, <1>5 DEF Next

-----------------------------------------------------------------------------
(* The theorems *)

LEMMA Inductive == Spec => []IInv
<1>1. IInv /\ [Next]_vars => IInv'
  BY NextStep
<1> QED BY InitInv, <1>1, PTL DEF Spec

\* The indices stay inside the slice whatever is pushed and popped, at every
\* capacity (deque.go's modular arithmetic never indexes out of range).
THEOREM TypeCorrect == Spec => []TypeOK
BY Inductive, PTL DEF IInv

\* At every capacity, the slots that hold a value are exactly the window from
\* front to back: nothing that was popped stays reachable from the slice.
THEOREM SlotsCleared == Spec => []NoStaleSlots
BY Inductive, PTL DEF IInv

\* At every capacity the circular slice implements the bounded sequence, so
\* the other modules may use a plain sequence wherever the code has a deque.
THEOREM Refinement == Spec => ImplementsBoundedDeque
<1>1. Init => Abstract!Init
  <2> SUFFICES ASSUME Init PROVE Abstract!Init
    OBVIOUS
  <2>1. IInv /\ Length = 0
    BY InitInv DEF Init, Length
  <2> QED BY <2>1, EmptyItems DEF Init, Abstract!Init
<1>2. IInv /\ [Next]_vars => [Abstract!Next]_(Abstract!vars)
  BY NextStep
<1> QED BY Inductive, <1>1, <1>2, PTL DEF Spec, ImplementsBoundedDeque, Abstract!Spec
=============================================================================
