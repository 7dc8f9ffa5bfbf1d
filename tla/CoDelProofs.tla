---------------------------- MODULE CoDelProofs ----------------------------
(***************************************************************************)
(* What the operations of a CoDel queue do to the waiters in it, for every *)
(* set of waiters, queue size and timeouts.                                *)
(***************************************************************************)
EXTENDS CoDel, SequenceTheorems, FiniteSetTheorems, TLAPS

\* Changing the mode moves no waiter.
LEMMA SetModeKeeps ==
  ASSUME NEW W, NEW q \in Queues(W)
  PROVE  SetMode(q) \in Queues(W) /\ SetMode(q).items = q.items
<1>1. 0 \in 0 .. Long
  BY TimeoutAssumption DEF Long
<1> QED BY <1>1 DEF SetMode, Queues

LEMMA SetItems ==
  ASSUME NEW W, NEW q \in Queues(W), NEW s \in Seq(W)
  PROVE  /\ [q EXCEPT !.items = s] \in Queues(W)
         /\ [q EXCEPT !.items = s].items = s
BY DEF Queues

LEMMA ItemsInRange ==
  ASSUME NEW W, NEW q \in Queues(W)
  PROVE  /\ q.items \in Seq(W)
         /\ ItemsOf(q) \subseteq W
         /\ ItemsOf(q) = {q.items[i] : i \in 1 .. Len(q.items)}
BY DEF Queues, ItemsOf

\* A pushed waiter is in the queue, unless the queue was full.
LEMMA PushKeeps ==
  ASSUME NEW W, NEW q \in Queues(W), NEW w \in W, Distinct(q), w \notin ItemsOf(q)
  PROVE  /\ Push(q, w) \in Queues(W)
         /\ Distinct(Push(q, w))
         /\ ItemsOf(Push(q, w)) \in {ItemsOf(q), ItemsOf(q) \cup {w}}
<1> DEFINE c == SetMode(q)
           s == q.items
<1>1. c \in Queues(W) /\ c.items = s /\ s \in Seq(W)
  BY SetModeKeeps, ItemsInRange
<1>2. CASE Len(s) < QueueSize
  <2>1. /\ Append(s, w) \in Seq(W)
        /\ Len(Append(s, w)) = Len(s) + 1
        /\ \A i \in 1 .. Len(s) : Append(s, w)[i] = s[i]
        /\ Append(s, w)[Len(s) + 1] = w
    BY <1>1, AppendProperties
  <2>2. Push(q, w) \in Queues(W) /\ Push(q, w).items = Append(s, w)
    <3>1. Push(q, w) = [c EXCEPT !.items = Append(s, w)]
      BY <1>1, <1>2 DEF Push
    <3> HIDE DEF c, s
    <3>2. /\ [c EXCEPT !.items = Append(s, w)] \in Queues(W)
          /\ [c EXCEPT !.items = Append(s, w)].items = Append(s, w)
      BY <1>1, <2>1, SetItems
    <3> QED BY <3>1, <3>2
  <2>3. Len(s) \in Nat /\ DOMAIN s = 1 .. Len(s)
    BY <1>1
  <2>4. DOMAIN Append(s, w) = (1 .. Len(s)) \cup {Len(s) + 1}
    BY <2>1, <2>3
  <2>5. ItemsOf(Push(q, w)) = ItemsOf(q) \cup {w}
    BY <2>1, <2>2, <2>3, <2>4 DEF ItemsOf
  <2>6. Distinct(Push(q, w))
    BY <2>1, <2>2, <2>3, <2>4 DEF Distinct, ItemsOf
  <2> QED BY <2>2, <2>5, <2>6
<1>3. CASE ~(Len(s) < QueueSize)
  <2>1. Push(q, w) = c
    BY <1>1, <1>3 DEF Push
  <2> QED BY <1>1, <2>1 DEF Distinct, ItemsOf
<1> QED BY <1>2, <1>3

\* t is the part of s that follows its first k elements, n long.
Slice(t, s, k, n) ==
  DOMAIN t = 1 .. n /\ \A i \in 1 .. n : k + i \in DOMAIN s /\ t[i] = s[k + i]

\* Pop takes the first waiter in FIFO mode, the last one in LIFO mode.
LEMMA PopItems ==
  ASSUME NEW W, NEW q \in Queues(W), ~IsEmpty(q)
  PROVE  LET n == Len(q.items)
             t == Pop(q).items
         IN  /\ n \in Nat \ {0} /\ DOMAIN q.items = 1 .. n
             /\ Pop(q) \in Queues(W) /\ t \in Seq(W)
             /\ Pop(q) = SetMode([q EXCEPT !.items = t])
             /\ q.mode = "FIFO" => Slice(t, q.items, 1, n - 1) /\ Peek(q) = q.items[1]
             /\ q.mode # "FIFO" => Slice(t, q.items, 0, n - 1) /\ Peek(q) = q.items[n]
<1> DEFINE s == q.items
           n == Len(s)
           t == IF q.mode = "FIFO" THEN Tail(s) ELSE SubSeq(s, 1, n - 1)
<1>1. s \in Seq(W) /\ n \in Nat \ {0} /\ DOMAIN s = 1 .. n
  BY ItemsInRange, EmptySeq DEF IsEmpty
<1>2. /\ q.mode = "FIFO" => Peek(q) = s[1]
      /\ q.mode # "FIFO" => Peek(q) = s[n]
  BY <1>1 DEF Peek
<1>3. /\ t \in Seq(W) /\ Len(t) = n - 1
      /\ q.mode = "FIFO" => \A i \in 1 .. n - 1 : t[i] = s[1 + i]
      /\ q.mode # "FIFO" => \A i \in 1 .. n - 1 : t[i] = s[0 + i]
  <2>1. CASE q.mode = "FIFO"
    BY <1>1, <2>1, HeadTailProperties DEF IsEmpty
  <2>2. CASE q.mode # "FIFO"
    <3>1. \A i \in 1 .. n - 1 : s[i] \in W
      BY <1>1, ElementOfSeq
    <3>2. /\ SubSeq(s, 1, n - 1) \in Seq(W)
          /\ Len(SubSeq(s, 1, n - 1)) = IF 1 <= n - 1 THEN (n - 1) - 1 + 1 ELSE 0
          /\ \A i \in 1 .. (n - 1) - 1 + 1 : SubSeq(s, 1, n - 1)[i] = s[1 + i - 1]
      BY <1>1, <3>1, SubSeqProperties
    <3> QED BY <1>1, <2>2, <3>2
  <2> QED BY <2>1, <2>2
<1>4. Pop(q) = SetMode([q EXCEPT !.items = t])
  BY <1>1 DEF Pop
<1> HIDE DEF t
<1>5. DOMAIN t = 1 .. n - 1 /\ \A i \in 1 .. n - 1 : 1 + i \in 1 .. n /\ 0 + i \in 1 .. n
  BY <1>1, <1>3
<1>6. Pop(q) \in Queues(W) /\ Pop(q).items = t
  <2>1. [q EXCEPT !.items = t] \in Queues(W) /\ [q EXCEPT !.items = t].items = t
    BY <1>3, SetItems
  <2> QED BY <1>4, <2>1, SetModeKeeps
<1> QED BY <1>1, <1>2, <1>3, <1>4, <1>5, <1>6 DEF Slice

\* Pop takes out the waiter that peek shows, and no other.
LEMMA PopKeeps ==
  ASSUME NEW W, NEW q \in Queues(W), Distinct(q), ~IsEmpty(q)
  PROVE  /\ Peek(q) \in ItemsOf(q)
         /\ Pop(q) \in Queues(W)
         /\ Distinct(Pop(q))
         /\ ItemsOf(Pop(q)) = ItemsOf(q) \ {Peek(q)}
<1> DEFINE s == q.items
           n == Len(s)
<1>1. s \in Seq(W) /\ n \in Nat \ {0} /\ DOMAIN s = 1 .. n
  BY ItemsInRange, EmptySeq DEF IsEmpty
<1>2. CASE q.mode = "FIFO"
  <2> DEFINE t == Pop(q).items
  <2>0. t \in Seq(W) /\ Slice(t, s, 1, n - 1)
    BY <1>2, PopItems
  <2>1. DOMAIN t = 1 .. n - 1 /\ \A i \in 1 .. n - 1 : t[i] = s[i + 1]
    BY <2>0 DEF Slice
  <2>2. Peek(q) = s[1]
    BY <1>2, PopItems
  <2>3. Pop(q) \in Queues(W) /\ Pop(q).items = t
    BY PopItems
  <2>4. DOMAIN t = 1 .. n - 1 /\ \A i \in 1 .. n - 1 : i + 1 \in 1 .. n
    BY <1>1, <2>1
  <2>5. Distinct(Pop(q))
    <3>1. ASSUME NEW i \in 1 .. n - 1, NEW j \in 1 .. n - 1, t[i] = t[j]
          PROVE  i = j
      <4>1. i + 1 = j + 1
        BY <1>1, <2>1, <2>4, <3>1 DEF Distinct
      <4> QED BY <1>1, <4>1
    <3> HIDE DEF t
    <3> QED BY <2>3, <2>4, <3>1 DEF Distinct
  <2>6. ASSUME NEW i \in 1 .. n, i # 1
        PROVE  i - 1 \in 1 .. n - 1 /\ t[i - 1] = s[i] /\ s[i] # s[1]
    BY <1>1, <2>1, <2>6 DEF Distinct
  <2>7. ItemsOf(Pop(q)) = ItemsOf(q) \ {s[1]}
    <3>1. ItemsOf(Pop(q)) = {t[i] : i \in 1 .. n - 1}
      BY <2>3, <2>4 DEF ItemsOf
    <3>2. ItemsOf(q) = {s[i] : i \in 1 .. n}
      BY <1>1 DEF ItemsOf
    <3>3. \A i \in 1 .. n - 1 : t[i] = s[i + 1] /\ s[i + 1] # s[1]
      BY <1>1, <2>1, <2>4 DEF Distinct
    <3> HIDE DEF s, n, t
    <3>4. ASSUME NEW i \in 1 .. n - 1
          PROVE  t[i] \in ItemsOf(q) \ {s[1]}
      BY <2>4, <3>2, <3>3
    <3>5. ASSUME NEW i \in 1 .. n, s[i] # s[1]
          PROVE  s[i] \in {t[j] : j \in 1 .. n - 1}
      <4>1. i # 1
        BY <3>5
      <4> QED BY <2>6, <4>1
    <3>6. \A x \in ItemsOf(q) : \E i \in 1 .. n : x = s[i]
      BY <3>2
    <3> QED BY <3>1, <3>4, <3>5, <3>6
  <2>8. s[1] \in ItemsOf(q)
    BY <1>1 DEF ItemsOf
  <2> QED BY <2>2, <2>3, <2>5, <2>7, <2>8
<1>3. CASE q.mode # "FIFO"
  <2> DEFINE t == Pop(q).items
  <2>0. t \in Seq(W) /\ Slice(t, s, 0, n - 1)
    BY <1>3, PopItems
  <2>1. DOMAIN t = 1 .. n - 1 /\ \A i \in 1 .. n - 1 : t[i] = s[i]
    BY <2>0 DEF Slice
  <2>2. Peek(q) = s[n]
    BY <1>3, PopItems
  <2>3. Pop(q) \in Queues(W) /\ Pop(q).items = t
    BY PopItems
  <2>4. DOMAIN t = 1 .. n - 1 /\ 1 .. n = (1 .. n - 1) \cup {n}
    BY <1>1, <2>1
  <2>5. Distinct(Pop(q))
    BY <1>1, <2>1, <2>3, <2>4 DEF Distinct
  <2>6. ItemsOf(Pop(q)) = ItemsOf(q) \ {s[n]}
    <3>1. ItemsOf(Pop(q)) = {s[i] : i \in 1 .. n - 1}
      BY <2>1, <2>3, <2>4 DEF ItemsOf
    <3>2. ItemsOf(q) = {s[i] : i \in 1 .. n}
      BY <1>1 DEF ItemsOf
    <3>3. \A i \in 1 .. n - 1 : s[i] # s[n]
      BY <1>1, <2>4 DEF Distinct
    <3> QED BY <2>4, <3>1, <3>2, <3>3
  <2>7. s[n] \in ItemsOf(q)
    BY <1>1 DEF ItemsOf
  <2> QED BY <2>2, <2>3, <2>5, <2>6, <2>7
<1> QED BY <1>2, <1>3

LEMMA StaleCountType ==
  ASSUME NEW W, NEW q \in Queues(W), NEW waited
  PROVE  StaleCount(q, waited) \in 0 .. Len(q.items)
<1> DEFINE n == Len(q.items)
           S == {i \in DOMAIN q.items :
                   \A j \in 1 .. i : waited[q.items[j]] > Timeout(q)}
<1>1. n \in Nat /\ DOMAIN q.items = 1 .. n
  BY ItemsInRange
<1>2. IsFiniteSet(1 .. n) /\ Cardinality(1 .. n) = n
  BY <1>1, FS_Interval
<1>3. S \subseteq 1 .. n
  BY <1>1
<1>4. IsFiniteSet(S) /\ Cardinality(S) <= n
  BY <1>2, <1>3, FS_Subset
<1>5. Cardinality(S) \in Nat
  BY <1>4, FS_CardinalityType
<1> QED BY <1>1, <1>4, <1>5 DEF StaleCount

\* Reap cuts the stale waiters off at the front.
LEMMA ReapItems ==
  ASSUME NEW W, NEW q \in Queues(W), NEW waited
  PROVE  LET n == Len(q.items)
             k == StaleCount(SetMode(q), waited)
             r == Reap(q, waited)
         IN  /\ k \in 0 .. n /\ n \in Nat /\ DOMAIN q.items = 1 .. n
             /\ r \in Queues(W) /\ r.items \in Seq(W)
             /\ Slice(r.items, q.items, k, n - k)
             /\ r = SetMode([SetMode(q) EXCEPT !.items = r.items])
<1> DEFINE c == SetMode(q)
           s == q.items
           n == Len(s)
           k == StaleCount(c, waited)
           t == SubSeq(s, k + 1, n)
<1>1. c \in Queues(W) /\ c.items = s /\ s \in Seq(W) /\ n \in Nat /\ DOMAIN s = 1 .. n
  BY SetModeKeeps, ItemsInRange
<1>2. k \in 0 .. n
  BY <1>1, StaleCountType
<1> HIDE DEF c, k
<1>3. /\ t \in Seq(W) /\ Len(t) = n - k
      /\ \A i \in 1 .. n - k : t[i] = s[k + i]
  <2>1. \A i \in k + 1 .. n : s[i] \in W
    BY <1>1, <1>2, ElementOfSeq
  <2>2. /\ t \in Seq(W)
        /\ Len(t) = IF k + 1 <= n THEN n - (k + 1) + 1 ELSE 0
        /\ \A i \in 1 .. n - (k + 1) + 1 : t[i] = s[(k + 1) + i - 1]
    BY <1>1, <1>2, <2>1, SubSeqProperties
  <2> QED BY <1>1, <1>2, <2>2
<1> HIDE DEF t
<1>4. /\ Reap(q, waited) \in Queues(W) /\ Reap(q, waited).items = t
      /\ Reap(q, waited) = SetMode([c EXCEPT !.items = t])
  <2>1. [c EXCEPT !.items = t] \in Queues(W) /\ [c EXCEPT !.items = t].items = t
    BY <1>1, <1>3, SetItems
  <2>2. Reap(q, waited) = SetMode([c EXCEPT !.items = t])
    BY <1>1 DEF Reap, c, k, t
  <2> QED BY <2>1, <2>2, SetModeKeeps
<1>5. Slice(t, s, k, n - k)
  <2>1. DOMAIN t = 1 .. n - k
    BY <1>1, <1>2, <1>3
  <2>2. \A i \in 1 .. n - k : k + i \in 1 .. n
    BY <1>1, <1>2
  <2> QED BY <1>1, <1>3, <2>1, <2>2 DEF Slice
<1> QED BY <1>1, <1>2, <1>3, <1>4, <1>5 DEF c, k

\* Reap splits a queue: each waiter is either dropped or still queued.
LEMMA ReapKeeps ==
  ASSUME NEW W, NEW q \in Queues(W), NEW waited, Distinct(q)
  PROVE  /\ Reap(q, waited) \in Queues(W)
         /\ Distinct(Reap(q, waited))
         /\ Dropped(q, waited) \subseteq ItemsOf(q)
         /\ ItemsOf(Reap(q, waited)) = ItemsOf(q) \ Dropped(q, waited)
<1> DEFINE s == q.items
           n == Len(s)
           k == StaleCount(SetMode(q), waited)
           t == Reap(q, waited).items
<1>1. s \in Seq(W) /\ n \in Nat /\ DOMAIN s = 1 .. n
  BY ItemsInRange
<1>2. k \in 0 .. n
  BY ReapItems
<1>3. t \in Seq(W) /\ DOMAIN t = 1 .. n - k /\ \A i \in 1 .. n - k : t[i] = s[k + i]
  <2>1. t \in Seq(W) /\ Slice(t, s, k, n - k)
    BY ReapItems
  <2> QED BY <2>1 DEF Slice
<1>4. Reap(q, waited) \in Queues(W) /\ Reap(q, waited).items = t
  BY ReapItems
<1>5. Dropped(q, waited) = {s[i] : i \in 1 .. k}
  BY SetModeKeeps DEF Dropped
<1> HIDE DEF k, t
<1>6. /\ DOMAIN t = 1 .. n - k
      /\ ItemsOf(q) = {s[i] : i \in 1 .. n}
      /\ ItemsOf(Reap(q, waited)) = {t[i] : i \in 1 .. n - k}
  <2>1. DOMAIN t = 1 .. n - k
    BY <1>1, <1>2, <1>3
  <2>2. ItemsOf(q) = {s[i] : i \in 1 .. n}
    BY <1>1 DEF ItemsOf
  <2> QED BY <1>4, <2>1, <2>2 DEF ItemsOf
<1>7. ItemsOf(Reap(q, waited)) = {s[i] : i \in k + 1 .. n}
  <2>1. \A i \in 1 .. n - k : k + i \in k + 1 .. n
    BY <1>1, <1>2
  <2>2. \A i \in k + 1 .. n : i - k \in 1 .. n - k /\ k + (i - k) = i
    BY <1>1, <1>2
  <2>3. \A i \in k + 1 .. n : s[i] = t[i - k]
    BY <1>3, <2>2
  <2> QED BY <1>3, <1>6, <2>1, <2>2, <2>3
<1>8. Distinct(Reap(q, waited))
  <2>1. \A i \in 1 .. n - k : k + i \in 1 .. n
    BY <1>1, <1>2
  <2>2. ASSUME NEW i \in 1 .. n - k, NEW j \in 1 .. n - k, t[i] = t[j]
        PROVE  i = j
    <3>1. k + i = k + j
      BY <1>1, <1>3, <2>1, <2>2 DEF Distinct
    <3> QED BY <1>1, <1>2, <3>1
  <2> QED BY <1>4, <1>6, <2>2 DEF Distinct
<1>9. /\ 1 .. n = (1 .. k) \cup (k + 1 .. n)
      /\ \A i \in 1 .. k, j \in k + 1 .. n : s[i] # s[j]
  BY <1>1, <1>2 DEF Distinct
<1> QED BY <1>4, <1>5, <1>6, <1>7, <1>8, <1>9

-----------------------------------------------------------------------------
(* The mode, and what is left of the order and of the ages *)

LEMMA SetModeTwice ==
  ASSUME NEW W, NEW q \in Queues(W)
  PROVE  SetMode(SetMode(q)) = SetMode(q)
BY TimeoutAssumption DEF SetMode, IsEmpty, Queues

\* A queue is empty as soon as it has no waiter.
LEMMA EmptyHasNoItems ==
  ASSUME NEW W, NEW q \in Queues(W)
  PROVE  IsEmpty(q) <=> ItemsOf(q) = {}
<1>1. q.items \in Seq(W) /\ DOMAIN q.items = 1 .. Len(q.items) /\ Len(q.items) \in Nat
  BY ItemsInRange
<1>2. IsEmpty(q) => ItemsOf(q) = {}
  BY DEF IsEmpty, ItemsOf
<1>3. ~IsEmpty(q) => q.items[1] \in ItemsOf(q)
  <2>1. ~IsEmpty(q) => 1 \in DOMAIN q.items
    BY <1>1, EmptySeq DEF IsEmpty
  <2> QED BY <2>1 DEF ItemsOf
<1> QED BY <1>2, <1>3

\* Taking waiters out does not end an overload as long as one is left.
LEMMA ModeStays ==
  ASSUME NEW W, NEW q \in Queues(W), NEW s \in Seq(W), SetMode(q) = q, s # << >>
  PROVE  LET r == SetMode([q EXCEPT !.items = s])
         IN  q.items # << >> => r.mode = q.mode /\ r.sinceEmptied = q.sinceEmptied
BY DEF SetMode, IsEmpty, Queues

\* Nor does it, or a newcomer, make a backlog look younger than it is.
LEMMA AgeStays ==
  ASSUME NEW W, NEW q \in Queues(W), NEW s \in Seq(W), s # << >>, q.items # << >>
  PROVE  /\ SetMode([q EXCEPT !.items = s]).sinceEmptied = q.sinceEmptied
         /\ SetMode(q).sinceEmptied = q.sinceEmptied
BY DEF SetMode, IsEmpty, Queues

LEMMA PushAge ==
  ASSUME NEW W, NEW q \in Queues(W), NEW w \in W, q.items # << >>
  PROVE  Push(q, w).sinceEmptied = q.sinceEmptied
<1>1. SetMode(q) \in Queues(W) /\ SetMode(q).sinceEmptied = q.sinceEmptied
  BY SetModeKeeps DEF SetMode, IsEmpty, Queues
<1> QED BY <1>1 DEF Push, Queues

LEMMA PopAge ==
  ASSUME NEW W, NEW q \in Queues(W), q.items # << >>, Pop(q).items # << >>
  PROVE  Pop(q).sinceEmptied = q.sinceEmptied
<1>1. Pop(q).items \in Seq(W) /\ Pop(q) = SetMode([q EXCEPT !.items = Pop(q).items])
  BY PopItems DEF IsEmpty
<1> QED BY <1>1, AgeStays

LEMMA ReapAge ==
  ASSUME NEW W, NEW q \in Queues(W), NEW waited, q.items # << >>,
         Reap(q, waited).items # << >>
  PROVE  Reap(q, waited).sinceEmptied = q.sinceEmptied
<1> DEFINE c == SetMode(q)
           r == Reap(q, waited)
<1>1. r.items \in Seq(W) /\ r = SetMode([c EXCEPT !.items = r.items])
  BY ReapItems
<1>2. c \in Queues(W) /\ c.items = q.items
  BY SetModeKeeps
<1>3. c.sinceEmptied = q.sinceEmptied
  BY DEF SetMode, IsEmpty, Queues
<1> HIDE DEF c
<1> QED BY <1>1, <1>2, <1>3, AgeStays

\* Of a queue in order of arrival, reap leaves no waiter that is stale.
LEMMA ReapLeavesNoStale ==
  ASSUME NEW W, NEW q \in Queues(W), NEW waited \in [W -> Int],
         \A i, j \in DOMAIN q.items : i <= j => waited[q.items[i]] >= waited[q.items[j]],
         NEW i \in 1 .. Len(q.items), i > StaleCount(q, waited)
  PROVE  waited[q.items[i]] <= Timeout(q)
<1> DEFINE s == q.items
           n == Len(s)
           S == {x \in DOMAIN s : \A j \in 1 .. x : waited[s[j]] > Timeout(q)}
<1>1. /\ n \in Nat /\ DOMAIN s = 1 .. n
      /\ \A x \in 1 .. n : s[x] \in W /\ waited[s[x]] \in Int
      /\ Timeout(q) \in Int
  BY ItemsInRange, ElementOfSeq, TimeoutAssumption DEF Timeout
<1>2. SUFFICES ASSUME waited[s[i]] > Timeout(q)
               PROVE  FALSE
  BY <1>1
<1>3. 1 .. i \subseteq S
  <2> SUFFICES ASSUME NEW x \in 1 .. i, NEW j \in 1 .. x
               PROVE  x \in DOMAIN s /\ waited[s[j]] > Timeout(q)
    OBVIOUS
  <2>1. j \in 1 .. n /\ x \in 1 .. n /\ j <= i
    BY <1>1
  <2>2. waited[s[j]] >= waited[s[i]]
    BY <1>1, <2>1
  <2> QED BY <1>1, <1>2, <2>1, <2>2
<1>4. IsFiniteSet(S) /\ S \subseteq 1 .. n
  <2>1. S \subseteq 1 .. n
    BY <1>1
  <2>2. IsFiniteSet(1 .. n)
    BY <1>1, FS_Interval
  <2> HIDE DEF S
  <2> QED BY <2>1, <2>2, FS_Subset
<1>5. Cardinality(1 .. i) = i /\ Cardinality(S) = StaleCount(q, waited)
  <2>1. i \in Nat /\ i >= 1
    BY <1>1
  <2> QED BY <2>1, FS_Interval DEF StaleCount
<1>6. Cardinality(1 .. i) <= Cardinality(S)
  <2> HIDE DEF S
  <2> QED BY <1>3, <1>4, FS_Subset
<1>7. StaleCount(q, waited) \in Int
  BY <1>1, StaleCountType
<1> QED BY <1>1, <1>5, <1>6, <1>7
=============================================================================
