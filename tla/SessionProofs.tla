--------------------------- MODULE SessionProofs ---------------------------
(***************************************************************************)
(* Proofs about Session, for every set of clients and connections, every   *)
(* capacity, and with connections that are lost at any time.               *)
(***************************************************************************)
EXTENDS Session, FiniteSetTheorems, SequenceTheorems, TLAPS

-----------------------------------------------------------------------------
(* What the connection of a session looks like while it serves a request *)

Own(s, seq) == \A i \in DOMAIN seq : seq[i].of = s

NoReady(seq) == \A i \in DOMAIN seq : seq[i].what # "Ready"

\* A response, or what is left of it: its only ReadyForQuery comes last.
EndsReady(seq) ==
  /\ seq # << >> /\ seq[Len(seq)].what = "Ready"
  /\ \A i \in DOMAIN seq : seq[i].what = "Ready" => i = Len(seq)

BatchKinds == {"Execute", "Flush"}

OpenBatch(todo) == \A i \in DOMAIN todo : todo[i].kind \in BatchKinds

ClosedBatch(todo) ==
  /\ todo # << >> /\ todo[Len(todo)].kind = "Sync"
  /\ \A i \in DOMAIN todo : i # Len(todo) => todo[i].kind \in BatchKinds

\* Postgres has sent the whole response.
Answering(c) ==
  /\ c.todo = << >> /\ c.held = << >> /\ ~c.copying
  /\ EndsReady(c.replies)
  /\ c.alive => c.replies[Len(c.replies)].tx = c.tx

\* The connection was lost before that.
Broken(c) ==
  /\ c.todo = << >> /\ c.held = << >> /\ ~c.copying
  /\ ~c.alive /\ NoReady(c.replies)

Streaming(c) ==
  \/ Answering(c) \/ Broken(c)
  \/ /\ c.alive /\ c.replies = << >> /\ c.held = << >> /\ ~c.copying
     /\ Len(c.todo) = 1 /\ IsQuery(c.todo[1].kind)
  \/ c.alive /\ c.todo = << >> /\ c.held = << >> /\ c.copying /\ NoReady(c.replies)

Relaying(c) ==
  \/ Answering(c) \/ Broken(c)
  \/ /\ c.alive /\ ~c.copying /\ NoReady(c.replies) /\ NoReady(c.held)
     /\ ClosedBatch(c.todo)

Collecting(c) ==
  \/ Broken(c)
  \/ /\ c.alive /\ ~c.copying /\ NoReady(c.replies) /\ NoReady(c.held)
     /\ OpenBatch(c.todo)

-----------------------------------------------------------------------------
(* What the client has sent of its request *)

Whole == {<<"Query">>, <<"Copy">>, <<"Execute", "Sync">>, <<"Execute", "Flush", "Sync">>}

\* In the inbox of a session that is between two requests ...
Unread(doing) ==
  CASE doing = "ready" -> {<< >>}
    [] doing = "batch" -> {<<"Execute">>}
    [] doing \in {"listening", "flushed"} -> {<<"Execute", "Flush">>}
    [] doing = "awaiting" -> {<< >>} \cup Whole
    [] doing = "gone" -> {<< >>, <<"Execute">>, <<"Execute", "Flush">>, <<"Terminate">>} \cup Whole
    [] OTHER -> {}

\* ... and of one that has read the start of a batch.
Rest(doing) ==
  CASE doing = "batch" -> {<< >>}
    [] doing \in {"listening", "flushed"} -> {<< >>, <<"Flush">>}
    [] doing = "awaiting" -> {<<"Sync">>, <<"Flush", "Sync">>}
    [] doing = "gone" -> {<< >>, <<"Flush">>, <<"Sync">>, <<"Flush", "Sync">>}
    [] OTHER -> {}

\* Told nothing since it was told ReadyForQuery, or told at last.
Told(s) ==
  /\ client[s] = "ready" => got[s] = << >>
  /\ \/ NoReady(got[s])
     \/ /\ EndsReady(got[s])
        /\ client[s] \in {"awaiting", "gone"}
        /\ at[s] \in {"receive", "release"} /\ inbox[s] = << >>

-----------------------------------------------------------------------------
(* The inductive invariant *)

NothingBuffered(s) == toPostgres[s] = << >> /\ toClient[s] = << >>

RequestDone(s) ==
  /\ Quiet(Conn(s))
  /\ Conn(s).alive /\ txStatus[s] # Nil => txStatus[s] = Conn(s).tx

\* Where the goroutine of s is decides what its buffers, its connection, its
\* tokens and its inbox may be.
Phase(s) ==
  /\ at[s] = "none" => inbox[s] = << >> /\ NothingBuffered(s) /\ tokens[s] = 0
  /\ at[s] = "pool" =>
       NothingBuffered(s) /\ tokens[s] = 0 /\ txStatus[s] = Nil
  /\ at[s] \in {"pool", "receive", "release"} => inbox[s] \in Unread(client[s])
  /\ at[s] \in {"receive", "acquire", "queued", "overflow", "release"} =>
       NothingBuffered(s) /\ RequestDone(s)
  /\ at[s] \in {"acquire", "queued", "overflow"} =>
       IF IsQuery(msg[s]) THEN client[s] \in {"awaiting", "gone"} /\ inbox[s] = << >>
       ELSE msg[s] = "Execute" /\ inbox[s] \in Rest(client[s])
  /\ at[s] = "collect" =>
       /\ OpenBatch(toPostgres[s]) /\ toClient[s] = << >>
       /\ Collecting(Conn(s))
       /\ inbox[s] \in Rest(client[s])
  /\ at[s] \in {"stream", "relay"} =>
       /\ toPostgres[s] = << >> /\ NoReady(toClient[s])
       /\ client[s] \in {"awaiting", "gone"} /\ inbox[s] = << >>
  /\ at[s] = "stream" => Streaming(Conn(s))
  /\ at[s] = "relay" => Relaying(Conn(s))
  /\ at[s] \in {"collect", "stream", "relay", "release"} => tokens[s] > 0
  /\ client[s] = "out" => at[s] = "none" /\ got[s] = << >>
  /\ at[s] \notin {"none", "unwind"} => Told(s)

\* What went over the connection since the session got it is its own.
OwnTraffic(s) ==
  /\ Own(s, got[s]) /\ Own(s, toClient[s]) /\ Own(s, toPostgres[s])
  /\ connOf[s] # None =>
       Own(s, Conn(s).todo) /\ Own(s, Conn(s).replies) /\ Own(s, Conn(s).held)

\* A connection belongs to one session at most, from WithConn to its end.
ConnsExclusive ==
  /\ \A s \in Sessions : connOf[s] = None <=> at[s] \in {"none", "pool"}
  /\ \A s, t \in Sessions : connOf[s] = connOf[t] /\ connOf[s] # None => s = t

Free(c) == \A s \in Sessions : connOf[s] # c

\* The pool only has connections over which nothing is under way.
FreeConnsQuiet == \A c \in Conns : Free(c) => Quiet(conns[c])

TokensCounted == IsFiniteSet(TakenCalls) /\ Taken <= Capacity

IInv ==
  /\ TypeOK
  /\ ConnsExclusive
  /\ FreeConnsQuiet
  /\ TokensCounted
  /\ \A s \in Sessions : Phase(s) /\ OwnTraffic(s)

-----------------------------------------------------------------------------
(* Sequences of replies and of messages *)

LEMMA AppendAll ==
  ASSUME NEW S, NEW seq \in Seq(S), NEW x \in S
  PROVE  /\ Append(seq, x) \in Seq(S)
         /\ Len(Append(seq, x)) = Len(seq) + 1
         /\ Append(seq, x)[Len(seq) + 1] = x
         /\ \A i \in DOMAIN seq : i \in DOMAIN Append(seq, x) /\ Append(seq, x)[i] = seq[i]
         /\ \A i \in DOMAIN Append(seq, x) : i \in DOMAIN seq \/ i = Len(seq) + 1
OBVIOUS

LEMMA ConcatAll ==
  ASSUME NEW S, NEW seq \in Seq(S), NEW more \in Seq(S)
  PROVE  /\ seq \o more \in Seq(S)
         /\ Len(seq \o more) = Len(seq) + Len(more)
         /\ \A i \in DOMAIN seq : i \in DOMAIN (seq \o more) /\ (seq \o more)[i] = seq[i]
         /\ \A i \in DOMAIN more : (seq \o more)[Len(seq) + i] = more[i]
         /\ \A i \in DOMAIN (seq \o more) :
              i \in DOMAIN seq \/ i - Len(seq) \in DOMAIN more
OBVIOUS

LEMMA TailAll ==
  ASSUME NEW S, NEW seq \in Seq(S), seq # << >>
  PROVE  /\ Head(seq) \in S /\ Head(seq) = seq[1] /\ Len(seq) > 0
         /\ Tail(seq) \in Seq(S) /\ Len(Tail(seq)) = Len(seq) - 1
         /\ \A i \in DOMAIN Tail(seq) : i + 1 \in DOMAIN seq /\ Tail(seq)[i] = seq[i + 1]
OBVIOUS

LEMMA RequestSequences ==
  /\ Head(<<"Query">>) = "Query" /\ Tail(<<"Query">>) = << >>
  /\ Head(<<"Copy">>) = "Copy" /\ Tail(<<"Copy">>) = << >>
  /\ Head(<<"Terminate">>) = "Terminate" /\ Tail(<<"Terminate">>) = << >>
  /\ Head(<<"Execute">>) = "Execute" /\ Tail(<<"Execute">>) = << >>
  /\ Head(<<"Flush">>) = "Flush" /\ Tail(<<"Flush">>) = << >>
  /\ Head(<<"Sync">>) = "Sync" /\ Tail(<<"Sync">>) = << >>
  /\ Head(<<"Execute", "Flush">>) = "Execute" /\ Tail(<<"Execute", "Flush">>) = <<"Flush">>
  /\ Head(<<"Execute", "Sync">>) = "Execute" /\ Tail(<<"Execute", "Sync">>) = <<"Sync">>
  /\ Head(<<"Flush", "Sync">>) = "Flush" /\ Tail(<<"Flush", "Sync">>) = <<"Sync">>
  /\ Head(<<"Execute", "Flush", "Sync">>) = "Execute"
  /\ Tail(<<"Execute", "Flush", "Sync">>) = <<"Flush", "Sync">>
OBVIOUS

LEMMA AppendSecond ==
  ASSUME NEW S, NEW a \in S, NEW b \in S
  PROVE  Append(<<a>>, b) = <<a, b>>
<1> DEFINE seq == <<a>>
           long == <<a, b>>
<1>1. /\ seq \in Seq(S) /\ Len(seq) = 1 /\ seq[1] = a /\ 1 \in DOMAIN seq
      /\ long \in Seq(S) /\ Len(long) = 2 /\ long[1] = a /\ long[2] = b
  OBVIOUS
<1> HIDE DEF seq, long
<1>2. /\ Append(seq, b) \in Seq(S) /\ Len(Append(seq, b)) = 2
      /\ Append(seq, b)[1] = a /\ Append(seq, b)[2] = b
  BY <1>1, AppendAll
<1>3. Append(seq, b) = long
  BY <1>1, <1>2, SeqEqual
<1> QED BY <1>3 DEF seq, long

LEMMA AppendThird ==
  ASSUME NEW S, NEW a \in S, NEW b \in S, NEW c \in S
  PROVE  Append(<<a, b>>, c) = <<a, b, c>>
<1> DEFINE seq == <<a, b>>
           long == <<a, b, c>>
<1>1. /\ seq \in Seq(S) /\ Len(seq) = 2 /\ seq[1] = a /\ seq[2] = b
      /\ 1 \in DOMAIN seq /\ 2 \in DOMAIN seq
      /\ long \in Seq(S) /\ Len(long) = 3 /\ long[1] = a /\ long[2] = b /\ long[3] = c
  OBVIOUS
<1> HIDE DEF seq, long
<1>2. /\ Append(seq, c) \in Seq(S) /\ Len(Append(seq, c)) = 3
      /\ Append(seq, c)[1] = a /\ Append(seq, c)[2] = b /\ Append(seq, c)[3] = c
  BY <1>1, AppendAll
<1>3. Append(seq, c) = long
  BY <1>1, <1>2, SeqEqual
<1> QED BY <1>3 DEF seq, long

LEMMA RequestsGrow ==
  /\ \A kind \in Kinds : Append(<< >>, kind) = <<kind>>
  /\ Append(<<"Execute">>, "Flush") = <<"Execute", "Flush">>
  /\ Append(<<"Execute">>, "Sync") = <<"Execute", "Sync">>
  /\ Append(<<"Flush">>, "Sync") = <<"Flush", "Sync">>
  /\ Append(<<"Execute", "Flush">>, "Sync") = <<"Execute", "Flush", "Sync">>
<1>1. "Execute" \in Kinds /\ "Flush" \in Kinds /\ "Sync" \in Kinds
  BY DEF Kinds
<1> QED BY <1>1, AppendSecond, AppendThird

LEMMA OwnConcat ==
  ASSUME NEW S, NEW seq \in Seq(S), NEW more \in Seq(S), NEW s,
         Own(s, seq), Own(s, more)
  PROVE  Own(s, seq \o more)
<1>1. ASSUME NEW i \in DOMAIN (seq \o more)
      PROVE  (seq \o more)[i].of = s
  <2>1. CASE i \in DOMAIN seq
    BY <2>1, ConcatAll DEF Own
  <2>2. CASE i - Len(seq) \in DOMAIN more
    <3>1. (seq \o more)[Len(seq) + (i - Len(seq))] = more[i - Len(seq)]
      BY <2>2, ConcatAll
    <3>2. Len(seq) + (i - Len(seq)) = i
      BY ConcatAll
    <3> QED BY <2>2, <3>1, <3>2 DEF Own
  <2> QED BY <2>1, <2>2, ConcatAll
<1> QED BY <1>1 DEF Own

LEMMA NoReadyConcat ==
  ASSUME NEW S, NEW seq \in Seq(S), NEW more \in Seq(S), NoReady(seq)
  PROVE  /\ NoReady(more) => NoReady(seq \o more)
         /\ EndsReady(more) => EndsReady(seq \o more)
<1>1. ASSUME NEW i \in DOMAIN (seq \o more)
      PROVE  \/ (seq \o more)[i].what # "Ready"
             \/ i - Len(seq) \in DOMAIN more /\ (seq \o more)[i] = more[i - Len(seq)]
  <2>1. CASE i \in DOMAIN seq
    BY <2>1, ConcatAll DEF NoReady
  <2>2. CASE i - Len(seq) \in DOMAIN more
    <3>1. (seq \o more)[Len(seq) + (i - Len(seq))] = more[i - Len(seq)]
      BY <2>2, ConcatAll
    <3>2. Len(seq) + (i - Len(seq)) = i
      BY ConcatAll
    <3> QED BY <2>2, <3>1, <3>2
  <2> QED BY <2>1, <2>2, ConcatAll
<1>2. NoReady(more) => NoReady(seq \o more)
  BY <1>1 DEF NoReady
<1>3. ASSUME EndsReady(more)
      PROVE  EndsReady(seq \o more)
  <2>1. Len(more) \in DOMAIN more /\ Len(more) > 0 /\ Len(seq) \in Nat
    BY <1>3 DEF EndsReady
  <2>2. Len(seq \o more) = Len(seq) + Len(more)
    BY ConcatAll
  <2>3. (seq \o more)[Len(seq \o more)] = more[Len(more)] /\ seq \o more # << >>
    BY <2>1, <2>2, ConcatAll
  <2>4. ASSUME NEW i \in DOMAIN (seq \o more), (seq \o more)[i].what = "Ready"
        PROVE  i = Len(seq \o more)
    <3>1. i - Len(seq) = Len(more)
      BY <1>1, <1>3, <2>4 DEF EndsReady
    <3> QED BY <2>2, <3>1, ConcatAll
  <2> QED BY <1>3, <2>3, <2>4 DEF EndsReady
<1> QED BY <1>2, <1>3

LEMMA EmptyFits ==
  \A s : Own(s, << >>) /\ NoReady(<< >>) /\ OpenBatch(<< >>)
BY DEF Own, NoReady, OpenBatch

LEMMA OneReply ==
  ASSUME NEW s, NEW what, NEW tx
  PROVE  /\ Own(s, <<[of |-> s, what |-> what, tx |-> tx]>>)
         /\ what # "Ready" => NoReady(<<[of |-> s, what |-> what, tx |-> tx]>>)
         /\ what = "Ready" => EndsReady(<<[of |-> s, what |-> what, tx |-> tx]>>)
BY DEF Own, NoReady, EndsReady

\* Reading the next reply.
LEMMA ReplyTaken ==
  ASSUME NEW S, NEW seq \in Seq(S), seq # << >>
  PROVE  /\ \A s : Own(s, seq) => Own(s, Tail(seq)) /\ Head(seq).of = s
         /\ NoReady(seq) => NoReady(Tail(seq)) /\ Head(seq).what # "Ready"
         /\ EndsReady(seq) /\ Head(seq).what = "Ready" =>
              Tail(seq) = << >> /\ Head(seq) = seq[Len(seq)]
         /\ EndsReady(seq) /\ Head(seq).what # "Ready" =>
              EndsReady(Tail(seq)) /\ Tail(seq)[Len(Tail(seq))] = seq[Len(seq)]
<1>1. 1 \in DOMAIN seq /\ Head(seq) = seq[1] /\ Len(seq) \in Nat /\ Len(seq) > 0
  OBVIOUS
<1>2. /\ Tail(seq) \in Seq(S) /\ Len(Tail(seq)) = Len(seq) - 1
      /\ \A i \in DOMAIN Tail(seq) : i + 1 \in DOMAIN seq /\ Tail(seq)[i] = seq[i + 1]
  BY TailAll
<1>3. \A s : Own(s, seq) => Own(s, Tail(seq)) /\ Head(seq).of = s
  BY <1>1, <1>2 DEF Own
<1>4. NoReady(seq) => NoReady(Tail(seq)) /\ Head(seq).what # "Ready"
  BY <1>1, <1>2 DEF NoReady
<1>5. ASSUME EndsReady(seq), Head(seq).what = "Ready"
      PROVE  Tail(seq) = << >> /\ Head(seq) = seq[Len(seq)]
  <2>1. Len(seq) = 1
    BY <1>1, <1>5 DEF EndsReady
  <2> QED BY <1>1, <1>2, <2>1
<1>6. ASSUME EndsReady(seq), Head(seq).what # "Ready"
      PROVE  EndsReady(Tail(seq)) /\ Tail(seq)[Len(Tail(seq))] = seq[Len(seq)]
  <2>1. Len(seq) # 1
    BY <1>1, <1>6 DEF EndsReady
  <2>2. Len(Tail(seq)) \in DOMAIN Tail(seq) /\ Tail(seq) # << >>
    <3> DEFINE t == Tail(seq)
    <3>1. t \in Seq(S) /\ Len(t) > 0
      BY <1>1, <1>2, <2>1
    <3> HIDE DEF t
    <3>2. Len(t) \in DOMAIN t /\ t # << >>
      BY <3>1
    <3> QED BY <3>2 DEF t
  <2>3. Tail(seq)[Len(Tail(seq))] = seq[Len(seq)]
    BY <1>1, <1>2, <2>2
  <2>4. \A i \in DOMAIN Tail(seq) : Tail(seq)[i].what = "Ready" => i = Len(Tail(seq))
    BY <1>1, <1>2, <1>6 DEF EndsReady
  <2> QED BY <1>6, <2>2, <2>3, <2>4 DEF EndsReady
<1> QED BY <1>3, <1>4, <1>5, <1>6

\* Handling the next message of a batch.
LEMMA BatchForwarded ==
  ASSUME NEW todo \in Seq(Messages), todo # << >>
  PROVE  /\ OpenBatch(todo) => Head(todo).kind \in BatchKinds /\ OpenBatch(Tail(todo))
         /\ ClosedBatch(todo) /\ Head(todo).kind = "Sync" => Tail(todo) = << >>
         /\ ClosedBatch(todo) /\ Head(todo).kind # "Sync" =>
              Head(todo).kind \in BatchKinds /\ ClosedBatch(Tail(todo))
<1>1. 1 \in DOMAIN todo /\ Head(todo) = todo[1] /\ Len(todo) \in Nat /\ Len(todo) > 0
  OBVIOUS
<1> DEFINE rest == Tail(todo)
<1>2. /\ rest \in Seq(Messages) /\ Len(rest) = Len(todo) - 1
      /\ \A i \in DOMAIN rest : i + 1 \in DOMAIN todo /\ rest[i] = todo[i + 1]
  BY TailAll
<1> HIDE DEF rest
<1>3. OpenBatch(todo) => Head(todo).kind \in BatchKinds /\ OpenBatch(rest)
  BY <1>1, <1>2 DEF OpenBatch
<1>4. ASSUME ClosedBatch(todo), Head(todo).kind = "Sync"
      PROVE  rest = << >>
  <2>1. Len(todo) = 1
    BY <1>1, <1>4 DEF ClosedBatch, BatchKinds
  <2> QED BY <1>1, <1>2, <2>1
<1>5. ASSUME ClosedBatch(todo), Head(todo).kind # "Sync"
      PROVE  Head(todo).kind \in BatchKinds /\ ClosedBatch(rest)
  <2>1. Len(todo) # 1
    BY <1>1, <1>5 DEF ClosedBatch
  <2>2. Head(todo).kind \in BatchKinds
    BY <1>1, <1>5, <2>1 DEF ClosedBatch
  <2>3. Len(rest) > 0 /\ Len(rest) \in DOMAIN rest /\ rest # << >>
    BY <1>1, <1>2, <2>1
  <2>4. rest[Len(rest)].kind = "Sync"
    BY <1>1, <1>2, <1>5, <2>3 DEF ClosedBatch
  <2>5. \A i \in DOMAIN rest : i # Len(rest) => rest[i].kind \in BatchKinds
    BY <1>1, <1>2, <1>5 DEF ClosedBatch
  <2> QED BY <2>2, <2>3, <2>4, <2>5 DEF ClosedBatch
<1> QED BY <1>3, <1>4, <1>5 DEF rest

-----------------------------------------------------------------------------
(* Postgres, the loss of a connection, and the pool *)

LEMMA NoSequence == << >> \in Seq(Messages) /\ << >> \in Seq(Replies)
OBVIOUS

LEMMA NewConnType == NewConn \in ConnRecords /\ Quiet(NewConn)
BY DEF NewConn, ConnRecords, TxStatuses, Quiet

LEMMA ConnParts ==
  ASSUME NEW c \in ConnRecords
  PROVE  /\ c.todo \in Seq(Messages) /\ c.replies \in Seq(Replies) /\ c.held \in Seq(Replies)
         /\ c.tx \in TxStatuses /\ c.alive \in BOOLEAN /\ c.copying \in BOOLEAN
BY DEF ConnRecords

LEMMA RepliesType ==
  ASSUME NEW s \in Sessions
  PROVE  /\ \A what \in {"Result", "CopyIn", "Error"} :
              Reply(s, what) \in Replies /\ Own(s, <<Reply(s, what)>>)
              /\ NoReady(<<Reply(s, what)>>)
         /\ \A tx \in TxStatuses \cup {Nil} :
              Ready(s, tx) \in Replies /\ Own(s, <<Ready(s, tx)>>)
              /\ EndsReady(<<Ready(s, tx)>>) /\ Ready(s, tx).tx = tx
         /\ \A kind \in Kinds : Message(s, kind) \in Messages /\ Own(s, <<Message(s, kind)>>)
BY OneReply DEF Reply, Ready, Message, Replies, Messages, Own, NoReady, EndsReady

LEMMA LostKeeps ==
  ASSUME NEW c \in ConnRecords
  PROVE  /\ Lost(c) \in ConnRecords
         /\ \A s : Own(s, c.replies) =>
              Own(s, Lost(c).todo) /\ Own(s, Lost(c).replies) /\ Own(s, Lost(c).held)
         /\ Quiet(c) => Quiet(Lost(c))
         /\ ~Lost(c).alive
         /\ Streaming(c) => Streaming(Lost(c))
         /\ Relaying(c) => Relaying(Lost(c))
         /\ Collecting(c) => Collecting(Lost(c))
<1>1. /\ Lost(c).todo = << >> /\ Lost(c).held = << >> /\ ~Lost(c).copying
      /\ ~Lost(c).alive /\ Lost(c).replies = c.replies
  BY DEF Lost, ConnRecords
<1>5. Lost(c) \in ConnRecords
  BY NoSequence DEF Lost, ConnRecords
<1>2. Answering(c) => Answering(Lost(c))
  BY <1>1 DEF Answering
<1>3. NoReady(c.replies) => Broken(Lost(c))
  BY <1>1 DEF Broken
<1>4. NoReady(<< >>)
  BY EmptyFits
<1> QED
  BY <1>1, <1>2, <1>3, <1>4, <1>5, EmptyFits
  DEF Quiet, Streaming, Relaying, Collecting, Broken

LEMMA ReleasedQuiet ==
  ASSUME NEW c \in ConnRecords, NEW d \in AfterRelease(c)
  PROVE  d \in ConnRecords /\ Quiet(d)
<1>1. CASE d = NewConn
  BY <1>1, NewConnType
<1>2. CASE d \in Drained(c)
  <2>1. PICK t \in TxStatuses : d = [NewConn EXCEPT !.tx = t, !.known = t]
    BY <1>2, OutcomesAssumption, ConnParts DEF Drained
  <2> QED BY <2>1, NoSequence DEF NewConn, ConnRecords, Quiet
<1> QED BY <1>1, <1>2 DEF AfterRelease

\* What Postgres makes of a message, field by field.
HandledAs(c, d, s, kind) ==
  /\ d \in ConnRecords /\ s \in Sessions /\ kind \in Kinds
  /\ kind # "Terminate" => d.alive = c.alive /\ d.todo = Tail(c.todo)
  /\ kind # "Terminate" /\ kind # "Copy" => d.copying = c.copying
  /\ kind = "Query" =>
       /\ d.held = c.held /\ d.tx \in TxStatuses
       /\ d.replies = c.replies \o <<Reply(s, "Result"), Ready(s, d.tx)>>
  /\ kind = "Copy" =>
       /\ d.held = c.held /\ d.copying
       /\ d.replies = Append(c.replies, Reply(s, "CopyIn"))
  /\ kind = "Execute" =>
       d.replies = c.replies /\ d.held = Append(c.held, Reply(s, "Result"))
  /\ kind = "Flush" => d.replies = c.replies \o c.held /\ d.held = << >>
  /\ kind = "Sync" =>
       /\ d.held = << >> /\ d.tx \in TxStatuses
       /\ d.replies = (c.replies \o c.held) \o <<Ready(s, d.tx)>>
  /\ kind = "Terminate" => d = Lost(c)

LEMMA HandledFields ==
  ASSUME NEW c \in ConnRecords, c.todo # << >>, NEW d \in Handled(c)
  PROVE  HandledAs(c, d, Head(c.todo).of, Head(c.todo).kind)
<1> DEFINE s == Head(c.todo).of
           kind == Head(c.todo).kind
<1>0. s = Head(c.todo).of /\ kind = Head(c.todo).kind
  OBVIOUS
<1>1. s \in Sessions /\ kind \in Kinds /\ Tail(c.todo) \in Seq(Messages)
  <2>1. Head(c.todo) \in Messages /\ Tail(c.todo) \in Seq(Messages)
    BY TailAll, ConnParts
  <2> QED BY <2>1 DEF Messages
<1> HIDE DEF s, kind
<1>2. /\ \A what \in {"Result", "CopyIn", "Error"} : Reply(s, what) \in Replies
      /\ \A tx \in TxStatuses \cup {Nil} : Ready(s, tx) \in Replies
  BY <1>1, RepliesType
<1>3. /\ \A t \in TxStatuses :
           /\ c.replies \o <<Reply(s, "Result"), Ready(s, t)>> \in Seq(Replies)
           /\ c.replies \o c.held \o <<Ready(s, t)>> \in Seq(Replies)
      /\ Append(c.replies, Reply(s, "CopyIn")) \in Seq(Replies)
      /\ Append(c.held, Reply(s, "Result")) \in Seq(Replies)
      /\ c.replies \o c.held \in Seq(Replies)
  BY <1>2, ConnParts
<1>4. CASE kind = "Query"
  <2>1. PICK t \in TxStatuses :
          d = [[c EXCEPT !.todo = Tail(@)]
                 EXCEPT !.tx = t, !.replies = @ \o <<Reply(s, "Result"), Ready(s, t)>>]
    BY <1>4, <1>0, OutcomesAssumption DEF Handled
  <2>2. d \in ConnRecords
    BY <1>1, <1>3, <2>1, NoSequence DEF ConnRecords
  <2>3. /\ d.alive = c.alive /\ d.todo = Tail(c.todo)
        /\ d.tx = t /\ d.held = c.held /\ d.copying = c.copying
        /\ d.replies = c.replies \o <<Reply(s, "Result"), Ready(s, t)>>
    BY <2>1 DEF ConnRecords
  <2> QED BY <1>0, <1>1, <1>4, <2>2, <2>3 DEF HandledAs
<1>5. CASE kind = "Copy"
  <2>1. d = [[c EXCEPT !.todo = Tail(@)]
               EXCEPT !.copying = TRUE, !.replies = Append(@, Reply(s, "CopyIn"))]
    BY <1>0, <1>5 DEF Handled
  <2>2. d \in ConnRecords
    BY <1>1, <1>3, <2>1, NoSequence DEF ConnRecords
  <2>3. /\ d.alive = c.alive /\ d.todo = Tail(c.todo)
        /\ d.held = c.held /\ d.copying /\ d.replies = Append(c.replies, Reply(s, "CopyIn"))
    BY <2>1 DEF ConnRecords
  <2> QED BY <1>0, <1>1, <1>5, <2>2, <2>3 DEF HandledAs
<1>6. CASE kind = "Execute"
  <2>1. d = [[c EXCEPT !.todo = Tail(@)] EXCEPT !.held = Append(@, Reply(s, "Result"))]
    BY <1>0, <1>6 DEF Handled
  <2>2. d \in ConnRecords
    BY <1>1, <1>3, <2>1, NoSequence DEF ConnRecords
  <2>3. /\ d.alive = c.alive /\ d.todo = Tail(c.todo)
        /\ d.copying = c.copying
        /\ d.replies = c.replies /\ d.held = Append(c.held, Reply(s, "Result"))
    BY <2>1 DEF ConnRecords
  <2> QED BY <1>0, <1>1, <1>6, <2>2, <2>3 DEF HandledAs
<1>7. CASE kind = "Flush"
  <2>1. d = [[c EXCEPT !.todo = Tail(@)] EXCEPT !.replies = @ \o c.held, !.held = << >>]
    BY <1>0, <1>7 DEF Handled
  <2>2. d \in ConnRecords
    BY <1>1, <1>3, <2>1, NoSequence DEF ConnRecords
  <2>3. /\ d.alive = c.alive /\ d.todo = Tail(c.todo)
        /\ d.copying = c.copying /\ d.replies = c.replies \o c.held /\ d.held = << >>
    BY <2>1 DEF ConnRecords
  <2> QED BY <1>0, <1>1, <1>7, <2>2, <2>3 DEF HandledAs
<1>8. CASE kind = "Sync"
  <2>1. PICK t \in TxStatuses :
          d = [[c EXCEPT !.todo = Tail(@)]
                 EXCEPT !.tx = t, !.held = << >>, !.replies = @ \o c.held \o <<Ready(s, t)>>]
    BY <1>8, <1>0, OutcomesAssumption DEF Handled
  <2>2. d \in ConnRecords
    BY <1>1, <1>3, <2>1, NoSequence DEF ConnRecords
  <2>3. /\ d.alive = c.alive /\ d.todo = Tail(c.todo)
        /\ d.tx = t /\ d.held = << >> /\ d.copying = c.copying
        /\ d.replies = (c.replies \o c.held) \o <<Ready(s, t)>>
    BY <2>1 DEF ConnRecords
  <2> QED BY <1>0, <1>1, <1>8, <2>2, <2>3 DEF HandledAs
<1>9. CASE kind = "Terminate"
  BY <1>0, <1>1, <1>9, LostKeeps DEF Handled, HandledAs
<1> QED BY <1>0, <1>1, <1>4, <1>5, <1>6, <1>7, <1>8, <1>9 DEF Kinds

LEMMA OwnAppend ==
  ASSUME NEW S, NEW seq \in Seq(S), NEW x \in S, NEW s, Own(s, seq), x.of = s
  PROVE  Own(s, Append(seq, x))
BY AppendAll DEF Own

LEMMA NoReadyAppend ==
  ASSUME NEW S, NEW seq \in Seq(S), NEW x \in S, NoReady(seq), x.what # "Ready"
  PROVE  NoReady(Append(seq, x))
BY AppendAll DEF NoReady

LEMMA HandledOwn ==
  ASSUME NEW c \in ConnRecords, c.todo # << >>, NEW d \in Handled(c), NEW t,
         Own(t, c.todo), Own(t, c.replies), Own(t, c.held)
  PROVE  Own(t, d.todo) /\ Own(t, d.replies) /\ Own(t, d.held)
<1> DEFINE kind == Head(c.todo).kind
<1>1. t = Head(c.todo).of /\ Own(t, Tail(c.todo))
  BY ReplyTaken, ConnParts
<1>2. HandledAs(c, d, t, kind)
  BY <1>1, HandledFields
<1> HIDE DEF kind
<1>3. /\ \A what \in {"Result", "CopyIn", "Error"} :
           Reply(t, what) \in Replies /\ Own(t, <<Reply(t, what)>>) /\ Reply(t, what).of = t
      /\ \A tx \in TxStatuses : Ready(t, tx) \in Replies /\ Own(t, <<Ready(t, tx)>>)
  BY <1>2, RepliesType DEF Reply, HandledAs
<1>4. CASE kind = "Query"
  <2>1. /\ d.tx \in TxStatuses /\ d.held = c.held
        /\ d.replies = c.replies \o <<Reply(t, "Result"), Ready(t, d.tx)>>
    BY <1>2, <1>4 DEF HandledAs
  <2>2. /\ Own(t, <<Reply(t, "Result"), Ready(t, d.tx)>>)
        /\ <<Reply(t, "Result"), Ready(t, d.tx)>> \in Seq(Replies)
    <3>1. Reply(t, "Result") \in Replies /\ Ready(t, d.tx) \in Replies
      BY <1>3, <2>1
    <3> QED BY <3>1 DEF Own, Reply, Ready
  <2>3. Own(t, d.replies)
    BY <1>3, <2>1, <2>2, OwnConcat, ConnParts
  <2> QED BY <1>1, <1>2, <1>4, <2>1, <2>3 DEF HandledAs
<1>5. CASE kind = "Copy"
  <2>1. d.held = c.held /\ d.replies = Append(c.replies, Reply(t, "CopyIn"))
    BY <1>2, <1>5 DEF HandledAs
  <2> QED BY <1>1, <1>2, <1>3, <1>5, <2>1, OwnAppend, ConnParts DEF HandledAs
<1>6. CASE kind = "Execute"
  <2>1. d.replies = c.replies /\ d.held = Append(c.held, Reply(t, "Result"))
    BY <1>2, <1>6 DEF HandledAs
  <2> QED BY <1>1, <1>2, <1>3, <1>6, <2>1, OwnAppend, ConnParts DEF HandledAs
<1>7. CASE kind = "Flush"
  <2>1. d.replies = c.replies \o c.held /\ d.held = << >>
    BY <1>2, <1>7 DEF HandledAs
  <2> QED BY <1>1, <1>2, <1>7, <2>1, OwnConcat, ConnParts, EmptyFits DEF HandledAs
<1>8. CASE kind = "Sync"
  <2>1. /\ d.tx \in TxStatuses /\ d.held = << >>
        /\ d.replies = (c.replies \o c.held) \o <<Ready(t, d.tx)>>
    BY <1>2, <1>8 DEF HandledAs
  <2>2. Own(t, c.replies \o c.held) /\ c.replies \o c.held \in Seq(Replies)
    BY OwnConcat, ConnParts
  <2>3. Own(t, <<Ready(t, d.tx)>>) /\ <<Ready(t, d.tx)>> \in Seq(Replies)
    BY <1>3, <2>1
  <2>4. Own(t, d.replies)
    BY <2>1, <2>2, <2>3, OwnConcat
  <2> QED BY <1>1, <1>2, <1>8, <2>1, <2>4, EmptyFits DEF HandledAs
<1>9. CASE kind = "Terminate"
  BY <1>2, <1>9, LostKeeps DEF HandledAs
<1> QED BY <1>2, <1>4, <1>5, <1>6, <1>7, <1>8, <1>9 DEF Kinds, HandledAs

\* Postgres serves a request: it stays in the state that the session expects.
LEMMA HandledKeepsPhase ==
  ASSUME NEW c \in ConnRecords, c.alive, c.todo # << >>, NEW d \in Handled(c)
  PROVE  /\ Streaming(c) => Streaming(d)
         /\ Relaying(c) => Relaying(d)
         /\ Collecting(c) => Collecting(d)
<1> DEFINE s == Head(c.todo).of
           kind == Head(c.todo).kind
<1>0. s = Head(c.todo).of /\ kind = Head(c.todo).kind
  OBVIOUS
<1> HIDE DEF s, kind
<1>1. HandledAs(c, d, s, kind) /\ c.alive
  BY <1>0, HandledFields
<1>2. ~Answering(c) /\ ~Broken(c)
  BY DEF Answering, Broken
<1>3. c.todo[1] = Head(c.todo) /\ Len(c.todo) \in Nat /\ Len(c.todo) > 0
  BY TailAll, ConnParts
<1>4. ASSUME Streaming(c)
      PROVE  Streaming(d)
  <2>1. /\ c.replies = << >> /\ c.held = << >> /\ ~c.copying /\ kind \in {"Query", "Copy"}
        /\ Tail(c.todo) = << >>
    BY <1>0, <1>2, <1>3, <1>4, TailAll, ConnParts DEF Streaming, IsQuery
  <2>2. CASE kind = "Query"
    <3>1. /\ d.held = << >> /\ ~d.copying /\ d.todo = << >> /\ d.tx \in TxStatuses
          /\ d.replies = << >> \o <<Reply(s, "Result"), Ready(s, d.tx)>>
      BY <1>1, <2>1, <2>2 DEF HandledAs
    <3>2. d.replies = <<Reply(s, "Result"), Ready(s, d.tx)>>
      BY <1>1, <3>1, RepliesType, ConcatEmptySeq DEF HandledAs
    <3>3. EndsReady(d.replies) /\ d.replies[Len(d.replies)].tx = d.tx
      BY <3>2 DEF EndsReady, Reply, Ready
    <3> QED BY <3>1, <3>3 DEF Streaming, Answering
  <2>3. CASE kind = "Copy"
    <3>1. /\ d.held = << >> /\ d.copying /\ d.todo = << >>
          /\ d.replies = Append(<< >>, Reply(s, "CopyIn"))
      BY <1>1, <2>1, <2>3 DEF HandledAs
    <3>2. NoReady(d.replies)
      BY <3>1 DEF NoReady, Reply
    <3> QED BY <1>1, <2>3, <3>1, <3>2 DEF Streaming, HandledAs
  <2> QED BY <2>1, <2>2, <2>3
<1>5. ASSUME kind = "Execute", NoReady(c.replies), NoReady(c.held)
      PROVE  NoReady(d.replies) /\ NoReady(d.held)
  <2>1. d.replies = c.replies /\ d.held = Append(c.held, Reply(s, "Result"))
    BY <1>1, <1>5 DEF HandledAs
  <2>2. Reply(s, "Result") \in Replies /\ Reply(s, "Result").what # "Ready"
    BY <1>1, RepliesType DEF Reply, HandledAs
  <2> QED BY <1>5, <2>1, <2>2, NoReadyAppend, ConnParts
<1>6. ASSUME kind = "Flush", NoReady(c.replies), NoReady(c.held)
      PROVE  NoReady(d.replies) /\ NoReady(d.held)
  <2>1. d.replies = c.replies \o c.held /\ d.held = << >>
    BY <1>1, <1>6 DEF HandledAs
  <2> QED BY <1>6, <2>1, NoReadyConcat, ConnParts, EmptyFits
<1>8. ASSUME Relaying(c)
      PROVE  Relaying(d)
  <2>1. ~c.copying /\ NoReady(c.replies) /\ NoReady(c.held) /\ ClosedBatch(c.todo)
    BY <1>2, <1>8 DEF Relaying
  <2>2. CASE kind = "Sync"
    <3>1. Tail(c.todo) = << >>
      BY <1>0, <2>1, <2>2, BatchForwarded, ConnParts
    <3>2. /\ d.held = << >> /\ ~d.copying /\ d.todo = << >> /\ d.tx \in TxStatuses
          /\ d.replies = (c.replies \o c.held) \o <<Ready(s, d.tx)>>
      BY <1>1, <2>1, <2>2, <3>1 DEF HandledAs
    <3>3. NoReady(c.replies \o c.held) /\ c.replies \o c.held \in Seq(Replies)
      BY <2>1, NoReadyConcat, ConnParts
    <3>4. /\ Ready(s, d.tx) \in Replies /\ EndsReady(<<Ready(s, d.tx)>>)
          /\ Ready(s, d.tx).tx = d.tx /\ <<Ready(s, d.tx)>> \in Seq(Replies)
      <4>1. s \in Sessions
        BY <1>1 DEF HandledAs
      <4>2. /\ Ready(s, d.tx) \in Replies /\ EndsReady(<<Ready(s, d.tx)>>)
            /\ Ready(s, d.tx).tx = d.tx
        BY <3>2, <4>1, RepliesType
      <4> QED BY <4>2
    <3>5. EndsReady(d.replies)
      BY <3>2, <3>3, <3>4, NoReadyConcat
    <3>6. d.replies[Len(d.replies)] = Ready(s, d.tx)
      <4> DEFINE q == c.replies \o c.held
      <4>1. q \in Seq(Replies)
        BY <3>3
      <4> HIDE DEF q
      <4>2. \A x \in Replies : (q \o <<x>>)[Len(q \o <<x>>)] = x
        BY <4>1
      <4> QED BY <3>2, <3>4, <4>2 DEF q
    <3> QED BY <3>2, <3>4, <3>5, <3>6 DEF Relaying, Answering
  <2>3. CASE kind # "Sync"
    <3>1. kind \in BatchKinds /\ ClosedBatch(Tail(c.todo))
      BY <1>0, <2>1, <2>3, BatchForwarded, ConnParts
    <3> QED BY <1>1, <1>5, <1>6, <2>1, <3>1 DEF Relaying, BatchKinds, HandledAs
  <2> QED BY <2>2, <2>3
<1>9. ASSUME Collecting(c)
      PROVE  Collecting(d)
  <2>1. ~c.copying /\ NoReady(c.replies) /\ NoReady(c.held) /\ OpenBatch(c.todo)
    BY <1>2, <1>9 DEF Collecting
  <2>2. kind \in BatchKinds /\ OpenBatch(Tail(c.todo))
    BY <1>0, <2>1, BatchForwarded, ConnParts
  <2> QED BY <1>1, <1>5, <1>6, <2>1, <2>2 DEF Collecting, BatchKinds, HandledAs
<1> QED BY <1>4, <1>8, <1>9

\* A flush to Postgres.
LEMMA SentFields ==
  ASSUME NEW c \in ConnRecords, NEW msgs \in Seq(Messages)
  PROVE  /\ Sent(c, msgs) \in ConnRecords
         /\ ~c.alive => Sent(c, msgs) = c
         /\ c.alive =>
              Sent(c, msgs).todo = c.todo \o msgs /\ c.todo \o msgs \in Seq(Messages)
         /\ Sent(c, msgs).replies = c.replies /\ Sent(c, msgs).held = c.held
         /\ Sent(c, msgs).tx = c.tx /\ Sent(c, msgs).alive = c.alive
         /\ Sent(c, msgs).copying = c.copying
<1>1. c.todo \o msgs \in Seq(Messages)
  BY ConnParts
<1> QED BY <1>1 DEF Sent, ConnRecords

LEMMA OneMessage ==
  ASSUME NEW s \in Sessions, NEW kind \in Kinds
  PROVE  /\ Message(s, kind) \in Messages /\ <<Message(s, kind)>> \in Seq(Messages)
         /\ Own(s, <<Message(s, kind)>>)
         /\ kind \in BatchKinds => OpenBatch(<<Message(s, kind)>>)
         /\ kind = "Sync" => ClosedBatch(<<Message(s, kind)>>)
         /\ Len(<<Message(s, kind)>>) = 1 /\ <<Message(s, kind)>>[1].kind = kind
<1>1. Message(s, kind) \in Messages /\ Own(s, <<Message(s, kind)>>)
  BY RepliesType
<1>2. Message(s, kind).kind = kind
  BY DEF Message
<1> HIDE DEF Message
<1> QED BY <1>1, <1>2 DEF OpenBatch, ClosedBatch

\* Joining the parts of a batch.
LEMMA BatchConcat ==
  ASSUME NEW seq \in Seq(Messages), NEW more \in Seq(Messages), OpenBatch(seq)
  PROVE  /\ OpenBatch(more) => OpenBatch(seq \o more)
         /\ ClosedBatch(more) => ClosedBatch(seq \o more)
<1>1. ASSUME NEW i \in DOMAIN (seq \o more)
      PROVE  \/ (seq \o more)[i].kind \in BatchKinds
             \/ i - Len(seq) \in DOMAIN more /\ (seq \o more)[i] = more[i - Len(seq)]
  <2>1. CASE i \in DOMAIN seq
    BY <2>1, ConcatAll DEF OpenBatch
  <2>2. CASE i - Len(seq) \in DOMAIN more
    <3>1. (seq \o more)[Len(seq) + (i - Len(seq))] = more[i - Len(seq)]
      BY <2>2, ConcatAll
    <3>2. Len(seq) + (i - Len(seq)) = i
      BY ConcatAll
    <3> QED BY <2>2, <3>1, <3>2
  <2> QED BY <2>1, <2>2, ConcatAll
<1>2. OpenBatch(more) => OpenBatch(seq \o more)
  BY <1>1 DEF OpenBatch
<1>3. ASSUME ClosedBatch(more)
      PROVE  ClosedBatch(seq \o more)
  <2>1. Len(more) \in DOMAIN more /\ Len(more) > 0 /\ Len(seq) \in Nat
    BY <1>3 DEF ClosedBatch
  <2>2. Len(seq \o more) = Len(seq) + Len(more)
    BY ConcatAll
  <2>3. (seq \o more)[Len(seq \o more)] = more[Len(more)] /\ seq \o more # << >>
    BY <2>1, <2>2, ConcatAll
  <2>4. ASSUME NEW i \in DOMAIN (seq \o more), i # Len(seq \o more)
        PROVE  (seq \o more)[i].kind \in BatchKinds
    <3>1. CASE i - Len(seq) \in DOMAIN more /\ (seq \o more)[i] = more[i - Len(seq)]
      <4>1. i - Len(seq) # Len(more)
        BY <2>1, <2>2, <2>4, <3>1
      <4> QED BY <1>3, <3>1, <4>1 DEF ClosedBatch
    <3> QED BY <1>1, <3>1
  <2> QED BY <1>3, <2>3, <2>4 DEF ClosedBatch
<1> QED BY <1>2, <1>3

\* A query goes to a connection over which nothing is under way.
LEMMA QuerySent ==
  ASSUME NEW c \in ConnRecords, Quiet(c), NEW s \in Sessions, NEW kind \in Kinds,
         IsQuery(kind)
  PROVE  Streaming(Sent(c, << >> \o <<Message(s, kind)>>))
<1> DEFINE one == <<Message(s, kind)>>
           all == << >> \o one
           d == Sent(c, all)
<1>1. one \in Seq(Messages) /\ Len(one) = 1 /\ one[1].kind = kind
  BY OneMessage
<1> HIDE DEF one
<1>2. all = one /\ all \in Seq(Messages) /\ c.todo \o all = one
  BY <1>1, ConcatEmptySeq DEF Quiet
<1> HIDE DEF all
<1>3. /\ d.replies = << >> /\ d.held = << >> /\ ~d.copying /\ d.alive = c.alive
      /\ c.alive => d.todo = one
      /\ ~c.alive => d.todo = << >>
  <2>1. c.todo = << >> /\ c.replies = << >> /\ c.held = << >> /\ ~c.copying
    BY DEF Quiet
  <2>2. /\ d.replies = c.replies /\ d.held = c.held /\ d.copying = c.copying
        /\ d.alive = c.alive
    BY <1>2, SentFields
  <2>3. c.alive => d.todo = c.todo \o all
    BY <1>2, SentFields
  <2>4. ~c.alive => d = c
    BY <1>2, SentFields
  <2> QED BY <1>2, <2>1, <2>2, <2>3, <2>4
<1> HIDE DEF d
<1>4. c.alive \/ ~c.alive
  OBVIOUS
<1>5. Streaming(d)
  BY <1>1, <1>3, <1>4, EmptyFits DEF Streaming, Broken
<1> QED BY <1>5 DEF d, all, one

\* A batch goes on, or ends.
LEMMA BatchSent ==
  ASSUME NEW c \in ConnRecords, Collecting(c),
         NEW msgs \in Seq(Messages), OpenBatch(msgs),
         NEW s \in Sessions, NEW kind \in Kinds
  PROVE  /\ kind = "Flush" => Collecting(Sent(c, msgs \o <<Message(s, kind)>>))
         /\ kind = "Sync" => Relaying(Sent(c, msgs \o <<Message(s, kind)>>))
         /\ msgs \o <<Message(s, kind)>> \in Seq(Messages)
<1> DEFINE one == <<Message(s, kind)>>
           all == msgs \o one
           d == Sent(c, all)
<1>1. /\ one \in Seq(Messages)
      /\ kind = "Flush" => OpenBatch(one)
      /\ kind = "Sync" => ClosedBatch(one)
  BY OneMessage DEF BatchKinds
<1> HIDE DEF one
<1>2. /\ all \in Seq(Messages)
      /\ kind = "Flush" => OpenBatch(all)
      /\ kind = "Sync" => ClosedBatch(all)
  BY <1>1, BatchConcat, ConcatAll
<1> HIDE DEF all
<1>3. /\ ~c.alive => d = c
      /\ c.alive => d.todo = c.todo \o all
      /\ d.alive = c.alive /\ d.replies = c.replies /\ d.held = c.held
      /\ d.copying = c.copying
  BY <1>2, SentFields
<1> HIDE DEF d
<1>4. CASE c.alive
  <2>1. ~c.copying /\ NoReady(c.replies) /\ NoReady(c.held) /\ OpenBatch(c.todo)
    BY <1>4 DEF Collecting, Broken
  <2>2. /\ kind = "Flush" => OpenBatch(d.todo)
        /\ kind = "Sync" => ClosedBatch(d.todo)
    BY <1>2, <1>3, <1>4, <2>1, BatchConcat, ConnParts
  <2>3. /\ kind = "Flush" => Collecting(d)
        /\ kind = "Sync" => Relaying(d)
    BY <1>3, <1>4, <2>1, <2>2 DEF Collecting, Relaying
  <2> QED BY <1>2, <2>3 DEF d, all, one
<1>5. CASE ~c.alive
  <2>1. d = c /\ Broken(d)
    BY <1>3, <1>5 DEF Collecting
  <2>2. Collecting(d) /\ Relaying(d)
    BY <2>1 DEF Collecting, Relaying
  <2> QED BY <1>2, <2>2 DEF d, all, one
<1> QED BY <1>4, <1>5

LEMMA QuietCollects ==
  ASSUME NEW c \in ConnRecords, Quiet(c)
  PROVE  Collecting(c) /\ \A s : Own(s, c.todo) /\ Own(s, c.replies) /\ Own(s, c.held)
BY EmptyFits, ConnParts DEF Quiet, Collecting, Broken

LEMMA SentOwn ==
  ASSUME NEW c \in ConnRecords, NEW msgs \in Seq(Messages), NEW s,
         Own(s, c.todo), Own(s, c.replies), Own(s, c.held), Own(s, msgs)
  PROVE  LET d == Sent(c, msgs)
         IN  Own(s, d.todo) /\ Own(s, d.replies) /\ Own(s, d.held)
<1>1. Own(s, c.todo \o msgs)
  BY OwnConcat, ConnParts
<1> QED BY <1>1, SentFields

-----------------------------------------------------------------------------
(* Counting tokens *)

LEMMA TokensKept ==
  ASSUME TokensCounted, UNCHANGED tokens
  PROVE  TokensCounted'
BY DEF TokensCounted, Taken, TakenCalls, Calls

\* Acquire: the session's tokens are among those that are taken, so the bound
\* on all of them bounds them too.
LEMMA TokenAdded ==
  ASSUME TypeOK, TokensCounted, NEW s \in Sessions, Admit(s)
  PROVE  /\ TokensCounted' /\ tokens' \in [Sessions -> 0 .. Capacity]
         /\ tokens'[s] > 0
         /\ \A t \in Sessions \ {s} : tokens'[t] = tokens[t]
         /\ tokens'[s] = tokens[s] + 1
<1> USE CapacityAssumption
<1>1. /\ tokens \in [Sessions -> 0 .. Capacity] /\ Taken < Capacity
      /\ tokens' = [tokens EXCEPT ![s] = @ + 1]
  BY DEF TypeOK, Admit
<1>2. tokens'[s] = tokens[s] + 1 /\ \A t \in Sessions \ {s} : tokens'[t] = tokens[t]
  BY <1>1
<1> DEFINE n == tokens[s] + 1
<1>3. TakenCalls' = TakenCalls \cup {<<s, n>>}
  BY <1>1, <1>2 DEF TakenCalls, Calls
<1>4. IsFiniteSet(TakenCalls') /\ Cardinality(TakenCalls') <= Capacity
  <2>1. IsFiniteSet(TakenCalls) /\ Cardinality(TakenCalls) \in Nat
    BY FS_CardinalityType DEF TokensCounted
  <2>2. /\ IsFiniteSet(TakenCalls')
        /\ Cardinality(TakenCalls') \in {Cardinality(TakenCalls), Cardinality(TakenCalls) + 1}
    BY <1>3, <2>1, FS_AddElement
  <2>3. Cardinality(TakenCalls) < Capacity
    BY <1>1 DEF Taken
  <2> QED BY <2>1, <2>2, <2>3
<1>5. n <= Cardinality(TakenCalls')
  <2> DEFINE f == [k \in 1 .. n |-> <<s, k>>]
  <2>1. f \in Injection(1 .. n, TakenCalls')
    <3>1. f \in [1 .. n -> TakenCalls']
      BY <1>1, <1>2 DEF TakenCalls, Calls
    <3> QED BY <3>1 DEF Injection, IsInjective
  <2>2. Cardinality(1 .. n) <= Cardinality(TakenCalls')
    BY <1>4, <2>1, FS_Injection
  <2>3. Cardinality(1 .. n) = n
    BY <1>1, FS_Interval
  <2> QED BY <2>2, <2>3
<1>6. Cardinality(TakenCalls') \in Nat
  BY <1>4, FS_CardinalityType
<1>7. n \in 0 .. Capacity
  BY <1>1, <1>4, <1>5, <1>6
<1>8. tokens' \in [Sessions -> 0 .. Capacity]
  BY <1>1, <1>7
<1> QED BY <1>1, <1>2, <1>4, <1>8 DEF TokensCounted, Taken

\* Release.
LEMMA TokenReturned ==
  ASSUME TypeOK, TokensCounted, NEW s \in Sessions, tokens[s] > 0,
         tokens' = [tokens EXCEPT ![s] = @ - 1]
  PROVE  /\ TokensCounted' /\ tokens' \in [Sessions -> 0 .. Capacity]
         /\ \A t \in Sessions \ {s} : tokens'[t] = tokens[t]
         /\ tokens'[s] = tokens[s] - 1
<1> USE CapacityAssumption
<1>1. tokens \in [Sessions -> 0 .. Capacity]
  BY DEF TypeOK
<1>2. /\ tokens'[s] = tokens[s] - 1 /\ \A t \in Sessions \ {s} : tokens'[t] = tokens[t]
      /\ tokens' \in [Sessions -> 0 .. Capacity]
  BY <1>1
<1>3. TakenCalls' \in SUBSET TakenCalls
  BY <1>1, <1>2 DEF TakenCalls, Calls
<1>4. IsFiniteSet(TakenCalls') /\ Cardinality(TakenCalls') <= Cardinality(TakenCalls)
  BY <1>3, FS_Subset DEF TokensCounted
<1>5. Cardinality(TakenCalls') \in Nat /\ Cardinality(TakenCalls) \in Nat
  BY <1>4, FS_CardinalityType DEF TokensCounted
<1> QED BY <1>2, <1>4, <1>5 DEF TokensCounted, Taken

-----------------------------------------------------------------------------
(* What a step of one session leaves alone *)

Same(t) ==
  /\ client'[t] = client[t] /\ inbox'[t] = inbox[t] /\ got'[t] = got[t]
  /\ at'[t] = at[t] /\ msg'[t] = msg[t]
  /\ toPostgres'[t] = toPostgres[t] /\ toClient'[t] = toClient[t]
  /\ tokens'[t] = tokens[t] /\ txStatus'[t] = txStatus[t]
  /\ connOf'[t] = connOf[t]

LEMMA SameKeeps ==
  ASSUME ConnsExclusive, NEW t \in Sessions, Same(t), Phase(t), OwnTraffic(t),
         connOf[t] # None => conns'[connOf[t]] = conns[connOf[t]]
  PROVE  Phase(t)' /\ OwnTraffic(t)'
<1>1. connOf[t] # None => Conn(t)' = Conn(t)
  BY DEF Same, Conn
<1>2. connOf[t] = None <=> at[t] \in {"none", "pool"}
  BY DEF ConnsExclusive
<1>3. OwnTraffic(t)'
  BY <1>1 DEF OwnTraffic, Same
<1>4. Told(t)' <=> Told(t)
  BY DEF Told, Same
<1>5. NothingBuffered(t)' <=> NothingBuffered(t)
  BY DEF NothingBuffered, Same
<1>6. connOf[t] # None => (RequestDone(t)' <=> RequestDone(t))
  BY <1>1 DEF RequestDone, Same
<1>7. Phase(t)'
  BY <1>1, <1>2, <1>4, <1>5, <1>6 DEF Phase, Same
<1> QED BY <1>3, <1>7

\* A step of s that neither gets nor returns a connection.
LEMMA StepKeeps ==
  ASSUME IInv, NEW s \in Sessions, TypeOK', TokensCounted',
         connOf' = connOf,
         at[s] \in {"none", "pool"} <=> at'[s] \in {"none", "pool"},
         \A t \in Sessions \ {s} : Same(t),
         \A c \in Conns : c # connOf[s] => conns'[c] = conns[c],
         Phase(s)', OwnTraffic(s)'
  PROVE  IInv'
<1>1. ConnsExclusive'
  BY DEF IInv, ConnsExclusive, Same
<1>2. FreeConnsQuiet'
  BY DEF IInv, FreeConnsQuiet, Free
<1>3. ASSUME NEW t \in Sessions
      PROVE  Phase(t)' /\ OwnTraffic(t)'
  <2>1. CASE t = s
    BY <2>1
  <2>2. CASE t # s
    <3>1. connOf[t] # None => conns'[connOf[t]] = conns[connOf[t]]
      BY <2>2 DEF IInv, ConnsExclusive, TypeOK
    <3> QED BY <2>2, <3>1, SameKeeps DEF IInv
  <2> QED BY <2>1, <2>2
<1> QED BY <1>1, <1>2, <1>3 DEF IInv

LEMMA FlushToClientFields ==
  ASSUME TypeOK, NEW s \in Sessions, NEW more \in Seq(Replies), FlushToClient(s, more)
  PROVE  /\ got' \in [Sessions -> Seq(Replies)] /\ toClient' \in [Sessions -> Seq(Replies)]
         /\ \A t \in Sessions \ {s} : got'[t] = got[t] /\ toClient'[t] = toClient[t]
         /\ toClient'[s] = << >>
         /\ client[s] = "gone" => got'[s] = got[s]
         /\ client[s] # "gone" => got'[s] = (got[s] \o toClient[s]) \o more
<1>1. (got[s] \o toClient[s]) \o more \in Seq(Replies)
  BY DEF TypeOK
<1> QED BY <1>1, NoSequence DEF TypeOK, FlushToClient

LEMMA FlushToPostgresFields ==
  ASSUME TypeOK, NEW s \in Sessions, connOf[s] # None,
         NEW more \in Seq(Messages), FlushToPostgres(s, more)
  PROVE  /\ conns' \in [Conns -> ConnRecords]
         /\ toPostgres' \in [Sessions -> Seq(Messages)]
         /\ toPostgres[s] \o more \in Seq(Messages)
         /\ toPostgres'[s] = << >>
         /\ conns'[connOf[s]] = Sent(Conn(s), toPostgres[s] \o more)
         /\ \A t \in Sessions \ {s} : toPostgres'[t] = toPostgres[t]
         /\ \A c \in Conns : c # connOf[s] => conns'[c] = conns[c]
<1>1. connOf[s] \in Conns /\ Conn(s) \in ConnRecords /\ toPostgres[s] \in Seq(Messages)
  BY DEF TypeOK, Conn
<1>2. toPostgres[s] \o more \in Seq(Messages)
  BY <1>1
<1>3. Sent(Conn(s), toPostgres[s] \o more) \in ConnRecords
  BY <1>1, <1>2, SentFields
<1>4. conns' = [conns EXCEPT ![connOf[s]] = Sent(Conn(s), toPostgres[s] \o more)]
  BY DEF FlushToPostgres, Conn
<1>5. toPostgres' = [toPostgres EXCEPT ![s] = << >>]
  BY DEF FlushToPostgres
<1> QED BY <1>1, <1>2, <1>3, <1>4, <1>5, NoSequence DEF TypeOK

-----------------------------------------------------------------------------
(* What clients have sent *)

LEMMA RequestStarts ==
  ASSUME NEW doing, NEW in \in Unread(doing), in # << >>
  PROVE  /\ Head(in) \in {"Query", "Copy", "Execute", "Terminate"}
         /\ IsQuery(Head(in)) => Tail(in) = << >> /\ doing \in {"awaiting", "gone"}
         /\ Head(in) = "Execute" => Tail(in) \in Rest(doing)
BY RequestSequences DEF Unread, Rest, Whole, IsQuery

LEMMA RequestGoesOn ==
  ASSUME NEW doing, NEW in \in Rest(doing), in # << >>
  PROVE  /\ Head(in) \in {"Flush", "Sync"}
         /\ Head(in) = "Sync" => Tail(in) = << >> /\ doing \in {"awaiting", "gone"}
         /\ Head(in) = "Flush" => Tail(in) \in Rest(doing)
BY RequestSequences DEF Rest

LEMMA RequestSent ==
  ASSUME NEW step \in MaySend, NEW in
  PROVE  /\ step[2] \in Kinds
         /\ step[3] \in {"awaiting", "batch", "gone", "listening"}
         /\ step[3] = "gone" => step[1] = "ready"
         /\ step[1] \in {"ready", "batch", "flushed"}
         /\ in \in Unread(step[1]) => Append(in, step[2]) \in Unread(step[3])
         /\ in \in Rest(step[1]) => Append(in, step[2]) \in Rest(step[3])
<1>1. PICK a \in {"ready", "batch", "flushed"}, b \in Kinds,
           c \in {"awaiting", "batch", "gone", "listening"} :
        step = <<a, b, c>>
  BY DEF MaySend, Kinds
<1>2. step[1] = a /\ step[2] = b /\ step[3] = c
  BY <1>1
<1>3. <<a, b, c>> \in MaySend
  BY <1>1
<1>4. a = "ready" /\ in \in Unread(a) => Append(in, b) \in Unread(c)
  BY <1>3, RequestsGrow DEF MaySend, Unread, Whole
<1>5. a = "batch" /\ in \in Unread(a) => Append(in, b) \in Unread(c)
  BY <1>3, RequestsGrow DEF MaySend, Unread, Whole
<1>6. a = "flushed" /\ in \in Unread(a) => Append(in, b) \in Unread(c)
  BY <1>3, RequestsGrow DEF MaySend, Unread, Whole
<1>7. in \in Rest(a) => Append(in, b) \in Rest(c)
  BY <1>3, RequestsGrow DEF MaySend, Rest, Kinds
<1> QED BY <1>2, <1>3, <1>4, <1>5, <1>6, <1>7 DEF MaySend

LEMMA GoneFits ==
  ASSUME NEW doing
  PROVE  Unread(doing) \subseteq Unread("gone") /\ Rest(doing) \subseteq Rest("gone")
BY DEF Unread, Rest, Whole

\* What a client reads after a flush.
LEMMA FlushTold ==
  ASSUME IInv, NEW s \in Sessions, NEW more \in Seq(Replies), Own(s, more),
         NoReady(got[s]), NoReady(toClient[s]), FlushToClient(s, more)
  PROVE  /\ Own(s, got'[s])
         /\ NoReady(more) => NoReady(got'[s])
         /\ EndsReady(more) => EndsReady(got'[s]) \/ NoReady(got'[s])
<1>1. /\ got[s] \in Seq(Replies) /\ toClient[s] \in Seq(Replies)
      /\ Own(s, got[s]) /\ Own(s, toClient[s])
  BY DEF IInv, TypeOK, OwnTraffic
<1>2. /\ got[s] \o toClient[s] \in Seq(Replies)
      /\ Own(s, got[s] \o toClient[s]) /\ NoReady(got[s] \o toClient[s])
  BY <1>1, OwnConcat, NoReadyConcat, ConcatAll
<1>3. /\ Own(s, (got[s] \o toClient[s]) \o more)
      /\ NoReady(more) => NoReady((got[s] \o toClient[s]) \o more)
      /\ EndsReady(more) => EndsReady((got[s] \o toClient[s]) \o more)
  BY <1>2, OwnConcat, NoReadyConcat
<1>4. got'[s] \in {got[s], (got[s] \o toClient[s]) \o more}
  BY FlushToClientFields DEF IInv
<1> QED BY <1>1, <1>3, <1>4

LEMMA ErrorReply ==
  ASSUME NEW s \in Sessions
  PROVE  /\ <<Reply(s, "Error")>> \in Seq(Replies)
         /\ Own(s, <<Reply(s, "Error")>>) /\ NoReady(<<Reply(s, "Error")>>)
         /\ \A tx \in TxStatuses \cup {Nil} :
              /\ <<Reply(s, "Error"), Ready(s, tx)>> \in Seq(Replies)
              /\ Own(s, <<Reply(s, "Error"), Ready(s, tx)>>)
              /\ EndsReady(<<Reply(s, "Error"), Ready(s, tx)>>)
<1>1. ASSUME NEW tx \in TxStatuses \cup {Nil}
      PROVE  <<Reply(s, "Error"), Ready(s, tx)>> \in Seq(Replies)
  <2>1. Reply(s, "Error") \in Replies /\ Ready(s, tx) \in Replies
    BY RepliesType
  <2> QED BY <2>1
<1>2. \A tx : /\ Own(s, <<Reply(s, "Error"), Ready(s, tx)>>)
              /\ EndsReady(<<Reply(s, "Error"), Ready(s, tx)>>)
  BY DEF Own, EndsReady, Reply, Ready
<1>3. /\ Reply(s, "Error") \in Replies
      /\ Own(s, <<Reply(s, "Error")>>) /\ NoReady(<<Reply(s, "Error")>>)
  BY RepliesType
<1> QED BY <1>1, <1>2, <1>3

-----------------------------------------------------------------------------
(* Each action keeps the invariant *)

LEMMA ReceiveStep ==
  ASSUME IInv, NEW s \in Sessions, Receive(s)
  PROVE  IInv'
<1>1. /\ inbox[s] \in Seq(Kinds) /\ inbox[s] # << >> /\ at[s] = "receive"
      /\ msg' = [msg EXCEPT ![s] = Head(inbox[s])]
      /\ inbox' = [inbox EXCEPT ![s] = Tail(inbox[s])]
      /\ at' = [at EXCEPT ![s] = "acquire"]
      /\ UNCHANGED <<client, got, toPostgres, toClient, tokens, txStatus, queryInProgress,
                     connOf, conns>>
      /\ Head(inbox[s]) # "Terminate"
  BY DEF Receive, IInv, TypeOK, Go, buffers, state
<1>2. Head(inbox[s]) \in Kinds /\ Tail(inbox[s]) \in Seq(Kinds)
  BY <1>1, TailAll
<1>3. TypeOK'
  BY <1>1, <1>2 DEF IInv, TypeOK
<1>4. /\ at'[s] = "acquire" /\ inbox'[s] = Tail(inbox[s]) /\ msg'[s] = Head(inbox[s])
      /\ \A t \in Sessions \ {s} : Same(t)
  BY <1>1 DEF IInv, TypeOK, Same
<1>5. /\ inbox[s] \in Unread(client[s]) /\ NothingBuffered(s) /\ RequestDone(s) /\ Told(s)
      /\ client[s] # "out" /\ connOf[s] # None
  BY <1>1 DEF IInv, Phase, ConnsExclusive
<1>6. NothingBuffered(s)' /\ RequestDone(s)' /\ Told(s)'
  <2>1. Conn(s)' = Conn(s)
    BY <1>1 DEF Conn
  <2>2. client[s] # "ready" /\ NoReady(got[s])
    BY <1>1, <1>5 DEF Told, Unread
  <2> QED BY <1>1, <1>5, <2>1, <2>2 DEF NothingBuffered, RequestDone, Told
<1>7. Phase(s)'
  <2>1. IF IsQuery(msg'[s]) THEN client[s] \in {"awaiting", "gone"} /\ inbox'[s] = << >>
        ELSE msg'[s] = "Execute" /\ inbox'[s] \in Rest(client[s])
    <3>1. /\ Head(inbox[s]) \in {"Query", "Copy", "Execute", "Terminate"}
          /\ IsQuery(Head(inbox[s])) =>
               Tail(inbox[s]) = << >> /\ client[s] \in {"awaiting", "gone"}
          /\ Head(inbox[s]) = "Execute" => Tail(inbox[s]) \in Rest(client[s])
      BY <1>1, <1>5, RequestStarts
    <3> QED BY <1>1, <1>4, <3>1 DEF IsQuery
  <2> QED BY <1>1, <1>4, <1>5, <1>6, <2>1 DEF Phase
<1>8. OwnTraffic(s)'
  BY <1>1 DEF IInv, OwnTraffic, Conn
<1> QED BY <1>1, <1>3, <1>4, <1>7, <1>8, StepKeeps, TokensKept DEF IInv

LEMMA ConnectStep ==
  ASSUME IInv, NEW s \in Sessions, Connect(s)
  PROVE  IInv'
<1>1. /\ at[s] = "none" /\ client[s] = "out"
      /\ client' = [client EXCEPT ![s] = "ready"]
      /\ at' = [at EXCEPT ![s] = "pool"]
      /\ txStatus' = [txStatus EXCEPT ![s] = Nil]
      /\ queryInProgress' = [queryInProgress EXCEPT ![s] = FALSE]
      /\ UNCHANGED <<inbox, got, msg, toPostgres, toClient, tokens, connOf, conns>>
  BY DEF Connect, Go, SetInProgress, buffers
<1>2. TypeOK'
  BY <1>1 DEF IInv, TypeOK
<1>3. /\ at'[s] = "pool" /\ client'[s] = "ready" /\ txStatus'[s] = Nil
      /\ \A t \in Sessions \ {s} : Same(t)
  BY <1>1 DEF IInv, TypeOK, Same
<1>4. /\ inbox[s] = << >> /\ NothingBuffered(s) /\ tokens[s] = 0 /\ got[s] = << >>
      /\ connOf[s] = None
  BY <1>1 DEF IInv, Phase, ConnsExclusive
<1>5. NothingBuffered(s)' /\ Told(s)'
  BY <1>1, <1>3, <1>4, EmptyFits DEF NothingBuffered, Told
<1>6. Phase(s)'
  BY <1>1, <1>3, <1>4, <1>5 DEF Phase, Unread
<1>7. OwnTraffic(s)'
  BY <1>1, <1>4 DEF IInv, OwnTraffic
<1> QED BY <1>1, <1>2, <1>3, <1>6, <1>7, StepKeeps, TokensKept DEF IInv

LEMMA TakeConnStep ==
  ASSUME IInv, NEW s \in Sessions, TakeConn(s)
  PROVE  IInv'
<1>1. PICK c \in Conns :
        /\ Free(c) /\ connOf' = [connOf EXCEPT ![s] = c]
        /\ at[s] = "pool" /\ at' = [at EXCEPT ![s] = "receive"]
        /\ UNCHANGED <<client, inbox, got, msg, toPostgres, toClient, tokens, txStatus,
                       queryInProgress, conns>>
  BY DEF TakeConn, Go, Free, clientVars, buffers, state
<1>2. TypeOK'
  BY <1>1 DEF IInv, TypeOK
<1>3. /\ at'[s] = "receive" /\ connOf'[s] = c /\ c # None
      /\ \A t \in Sessions \ {s} : Same(t)
  BY <1>1, ConnsAssumption DEF IInv, TypeOK, Same
<1>4. ConnsExclusive'
  BY <1>1, <1>3 DEF IInv, ConnsExclusive, Same, Free
<1>5. FreeConnsQuiet'
  <2>1. connOf[s] = None
    BY <1>1 DEF IInv, ConnsExclusive
  <2>2. ASSUME NEW d \in Conns, Free(d)'
        PROVE  Free(d)
    BY <1>3, <2>1, <2>2, ConnsAssumption DEF Free, Same
  <2> QED BY <1>1, <2>2 DEF IInv, FreeConnsQuiet
<1>6. /\ Quiet(conns[c]) /\ conns[c] \in ConnRecords
      /\ NothingBuffered(s) /\ txStatus[s] = Nil /\ Told(s) /\ client[s] # "out"
      /\ inbox[s] \in Unread(client[s])
  BY <1>1 DEF IInv, FreeConnsQuiet, Phase, TypeOK
<1>7. Conn(s)' = conns[c]
  BY <1>1, <1>3 DEF Conn
<1>8. NothingBuffered(s)' /\ RequestDone(s)' /\ Told(s)'
  BY <1>1, <1>3, <1>6, <1>7 DEF NothingBuffered, RequestDone, Told
<1>9. Phase(s)'
  BY <1>1, <1>3, <1>6, <1>8 DEF Phase
<1>10. OwnTraffic(s)'
  BY <1>1, <1>6, <1>7, QuietCollects DEF IInv, OwnTraffic
<1>11. \A t \in Sessions \ {s} : Phase(t)' /\ OwnTraffic(t)'
  BY <1>1, <1>3, SameKeeps DEF IInv
<1>12. TokensCounted'
  BY <1>1, TokensKept DEF IInv
<1> QED BY <1>2, <1>4, <1>5, <1>9, <1>10, <1>11, <1>12 DEF IInv

LEMMA NoConnStep ==
  ASSUME IInv, NEW s \in Sessions, NoConn(s)
  PROVE  IInv'
<1> DEFINE more == <<Reply(s, "Error"), Ready(s, "I")>>
<1>1. /\ at[s] = "pool" /\ FlushToClient(s, more)
      /\ inbox' = [inbox EXCEPT ![s] = << >>]
      /\ at' = [at EXCEPT ![s] = "none"]
      /\ UNCHANGED <<client, msg, toPostgres, tokens, txStatus, queryInProgress, connOf, conns>>
  BY DEF NoConn, Go, state
<1>2. more \in Seq(Replies) /\ Own(s, more)
  BY ErrorReply DEF TxStatuses
<1> HIDE DEF more
<1>3. /\ got' \in [Sessions -> Seq(Replies)] /\ toClient' \in [Sessions -> Seq(Replies)]
      /\ \A t \in Sessions \ {s} : got'[t] = got[t] /\ toClient'[t] = toClient[t]
      /\ toClient'[s] = << >>
  BY <1>1, <1>2, FlushToClientFields DEF IInv
<1>4. TypeOK'
  <2>1. << >> \in Seq(Kinds)
    OBVIOUS
  <2> QED BY <1>1, <1>3, <2>1 DEF IInv, TypeOK
<1>5. /\ at'[s] = "none" /\ inbox'[s] = << >> /\ \A t \in Sessions \ {s} : Same(t)
  BY <1>1, <1>3 DEF IInv, TypeOK, Same
<1>6. /\ NothingBuffered(s) /\ tokens[s] = 0 /\ Told(s) /\ client[s] # "out"
      /\ NoReady(got[s]) /\ NoReady(toClient[s]) /\ connOf[s] = None
  BY <1>1, EmptyFits DEF IInv, Phase, Told, NothingBuffered, ConnsExclusive
<1>7. Own(s, got'[s])
  BY <1>1, <1>2, <1>6, FlushTold
<1>8. Phase(s)'
  BY <1>1, <1>3, <1>5, <1>6 DEF Phase, NothingBuffered
<1>9. OwnTraffic(s)'
  BY <1>1, <1>3, <1>6, <1>7, EmptyFits DEF IInv, OwnTraffic
<1> QED BY <1>1, <1>4, <1>5, <1>8, <1>9, StepKeeps, TokensKept DEF IInv

LEMMA ReceiveTerminateStep ==
  ASSUME IInv, NEW s \in Sessions, ReceiveTerminate(s)
  PROVE  IInv'
<1> DEFINE more == <<Message(s, "Terminate")>>
<1>1. /\ inbox[s] \in Seq(Kinds) /\ inbox[s] # << >> /\ at[s] = "receive"
      /\ inbox' = [inbox EXCEPT ![s] = Tail(inbox[s])]
      /\ FlushToPostgres(s, more)
      /\ at' = [at EXCEPT ![s] = "unwind"]
      /\ UNCHANGED <<client, got, msg, toClient, tokens, txStatus, queryInProgress, connOf>>
  BY DEF ReceiveTerminate, IInv, TypeOK, Go, state
<1>2. more \in Seq(Messages) /\ Own(s, more)
  BY OneMessage DEF Kinds
<1> HIDE DEF more
<1>3. connOf[s] # None /\ client[s] # "out"
  BY <1>1 DEF IInv, ConnsExclusive, Phase
<1>4. /\ conns' \in [Conns -> ConnRecords] /\ toPostgres' \in [Sessions -> Seq(Messages)]
      /\ toPostgres[s] \o more \in Seq(Messages) /\ toPostgres'[s] = << >>
      /\ conns'[connOf[s]] = Sent(Conn(s), toPostgres[s] \o more)
      /\ \A t \in Sessions \ {s} : toPostgres'[t] = toPostgres[t]
      /\ \A c \in Conns : c # connOf[s] => conns'[c] = conns[c]
  BY <1>1, <1>2, <1>3, FlushToPostgresFields DEF IInv
<1>5. TypeOK'
  <2>1. Tail(inbox[s]) \in Seq(Kinds)
    BY <1>1
  <2> QED BY <1>1, <1>4, <2>1 DEF IInv, TypeOK
<1>6. /\ at'[s] = "unwind" /\ \A t \in Sessions \ {s} : Same(t)
  BY <1>1, <1>4 DEF IInv, TypeOK, Same
<1>7. Phase(s)'
  BY <1>1, <1>3, <1>6 DEF Phase
<1>8. OwnTraffic(s)'
  <2>1. /\ Conn(s) \in ConnRecords /\ toPostgres[s] \in Seq(Messages)
        /\ Own(s, toPostgres[s]) /\ Own(s, Conn(s).todo)
        /\ Own(s, Conn(s).replies) /\ Own(s, Conn(s).held)
    BY <1>3 DEF IInv, TypeOK, OwnTraffic, Conn
  <2>2. Own(s, toPostgres[s] \o more)
    BY <1>2, <2>1, OwnConcat
  <2>3. Conn(s)' = Sent(Conn(s), toPostgres[s] \o more)
    BY <1>1, <1>4 DEF Conn
  <2> QED BY <1>1, <1>4, <2>1, <2>2, <2>3, SentOwn, EmptyFits DEF IInv, OwnTraffic
<1> QED BY <1>1, <1>4, <1>5, <1>6, <1>7, <1>8, StepKeeps, TokensKept DEF IInv

LEMMA ReceiveEndStep ==
  ASSUME IInv, NEW s \in Sessions, ReceiveEnd(s)
  PROVE  IInv'
<1>1. /\ at[s] \in {"receive", "collect"} /\ client[s] = "gone"
      /\ queryInProgress' \in {[queryInProgress EXCEPT ![s] = FALSE], queryInProgress}
      /\ at' = [at EXCEPT ![s] = "unwind"]
      /\ UNCHANGED <<client, inbox, got, msg, toPostgres, toClient, tokens, txStatus,
                     connOf, conns>>
  BY DEF ReceiveEnd, Go, SetInProgress, clientVars, buffers
<1>2. TypeOK'
  BY <1>1 DEF IInv, TypeOK
<1>3. /\ at'[s] = "unwind" /\ \A t \in Sessions \ {s} : Same(t)
  BY <1>1 DEF IInv, TypeOK, Same
<1>4. Phase(s)'
  BY <1>1, <1>3 DEF Phase
<1>5. OwnTraffic(s)'
  BY <1>1 DEF IInv, OwnTraffic, Conn
<1> QED BY <1>1, <1>2, <1>3, <1>4, <1>5, StepKeeps, TokensKept DEF IInv

LEMMA EnqueueStep ==
  ASSUME IInv, NEW s \in Sessions, Enqueue(s)
  PROVE  IInv'
<1>1. PICK place \in {"queued", "overflow"} : at' = [at EXCEPT ![s] = place]
  BY DEF Enqueue, Go
<1>2. /\ at[s] = "acquire"
      /\ UNCHANGED <<client, inbox, got, msg, toPostgres, toClient, tokens, txStatus,
                     queryInProgress, connOf, conns>>
  BY DEF Enqueue, clientVars, buffers, state
<1>3. TypeOK'
  BY <1>1, <1>2 DEF IInv, TypeOK
<1>4. /\ at'[s] = place /\ \A t \in Sessions \ {s} : Same(t)
  BY <1>1, <1>2 DEF IInv, TypeOK, Same
<1>5. /\ NothingBuffered(s) /\ RequestDone(s) /\ Told(s) /\ NoReady(got[s])
      /\ client[s] # "out"
  BY <1>2 DEF IInv, Phase, Told
<1>6. NothingBuffered(s)' /\ RequestDone(s)' /\ Told(s)'
  BY <1>2, <1>5 DEF NothingBuffered, RequestDone, Conn, Told
<1>7. Phase(s)'
  BY <1>1, <1>2, <1>4, <1>5, <1>6 DEF IInv, Phase
<1>8. OwnTraffic(s)'
  BY <1>2 DEF IInv, OwnTraffic, Conn
<1> QED BY <1>1, <1>2, <1>3, <1>4, <1>7, <1>8, StepKeeps, TokensKept DEF IInv

LEMMA RefuseStep ==
  ASSUME IInv, NEW s \in Sessions, Refuse(s)
  PROVE  IInv'
<1> DEFINE more == <<Reply(s, "Error"), Ready(s, txStatus[s])>>
           next == IF IsQuery(msg[s]) THEN "receive" ELSE "unwind"
<1>1. /\ at[s] = "queued" /\ FlushToClient(s, more)
      /\ at' = [at EXCEPT ![s] = next]
      /\ UNCHANGED <<client, inbox, msg, toPostgres, tokens, txStatus, queryInProgress,
                     connOf, conns>>
  BY DEF Refuse, Go, state
<1>2. more \in Seq(Replies) /\ Own(s, more) /\ EndsReady(more)
  BY ErrorReply DEF IInv, TypeOK
<1> HIDE DEF more
<1>3. /\ got' \in [Sessions -> Seq(Replies)] /\ toClient' \in [Sessions -> Seq(Replies)]
      /\ \A t \in Sessions \ {s} : got'[t] = got[t] /\ toClient'[t] = toClient[t]
      /\ toClient'[s] = << >>
  BY <1>1, <1>2, FlushToClientFields DEF IInv
<1>4. TypeOK'
  BY <1>1, <1>3 DEF IInv, TypeOK
<1>5. /\ at'[s] = next /\ \A t \in Sessions \ {s} : Same(t)
  BY <1>1, <1>3 DEF IInv, TypeOK, Same
<1>6. /\ NothingBuffered(s) /\ RequestDone(s) /\ Told(s) /\ client[s] # "out"
      /\ IsQuery(msg[s]) => client[s] \in {"awaiting", "gone"} /\ inbox[s] = << >>
      /\ NoReady(got[s]) /\ NoReady(toClient[s])
  BY <1>1, EmptyFits DEF IInv, Phase, Told, NothingBuffered
<1>7. Own(s, got'[s]) /\ (EndsReady(got'[s]) \/ NoReady(got'[s]))
  BY <1>1, <1>2, <1>6, FlushTold
<1>8. next = "receive" => Told(s)' /\ inbox[s] \in Unread(client[s])
  BY <1>1, <1>5, <1>6, <1>7 DEF Told, Unread
<1>9. NothingBuffered(s)' /\ RequestDone(s)'
  BY <1>1, <1>3, <1>6 DEF NothingBuffered, RequestDone, Conn
<1>10. Phase(s)'
  BY <1>1, <1>5, <1>6, <1>8, <1>9 DEF Phase
<1>11. OwnTraffic(s)'
  BY <1>1, <1>3, <1>7, EmptyFits DEF IInv, OwnTraffic, Conn
<1> QED BY <1>1, <1>4, <1>5, <1>10, <1>11, StepKeeps, TokensKept DEF IInv

LEMMA AdmitQueryStep ==
  ASSUME IInv, NEW s \in Sessions, AdmitQuery(s)
  PROVE  IInv'
<1> DEFINE more == <<Message(s, msg[s])>>
<1>1. /\ at[s] \in {"acquire", "queued"} /\ Admit(s) /\ IsQuery(msg[s]) /\ msg[s] \in Kinds
      /\ queryInProgress' = [queryInProgress EXCEPT ![s] = TRUE]
      /\ FlushToPostgres(s, more)
      /\ at' = [at EXCEPT ![s] = "stream"]
      /\ UNCHANGED <<client, inbox, got, msg, toClient, txStatus, connOf>>
  BY DEF AdmitQuery, Admit, SetInProgress, Go, clientVars, IInv, TypeOK
<1>2. more \in Seq(Messages) /\ Own(s, more)
  BY <1>1, OneMessage
<1>3. /\ connOf[s] # None /\ client[s] \in {"awaiting", "gone"} /\ inbox[s] = << >>
      /\ NothingBuffered(s) /\ RequestDone(s) /\ Told(s)
      /\ Conn(s) \in ConnRecords
  BY <1>1 DEF IInv, ConnsExclusive, Phase, Conn, TypeOK
<1>4. Streaming(Sent(Conn(s), toPostgres[s] \o more))
  BY <1>1, <1>3, QuerySent DEF NothingBuffered, RequestDone
<1> HIDE DEF more
<1>5. /\ conns' \in [Conns -> ConnRecords] /\ toPostgres' \in [Sessions -> Seq(Messages)]
      /\ toPostgres[s] \o more \in Seq(Messages) /\ toPostgres'[s] = << >>
      /\ conns'[connOf[s]] = Sent(Conn(s), toPostgres[s] \o more)
      /\ \A t \in Sessions \ {s} : toPostgres'[t] = toPostgres[t]
      /\ \A c \in Conns : c # connOf[s] => conns'[c] = conns[c]
  BY <1>1, <1>2, <1>3, FlushToPostgresFields DEF IInv
<1>6. /\ TokensCounted' /\ tokens' \in [Sessions -> 0 .. Capacity] /\ tokens'[s] > 0
      /\ \A t \in Sessions \ {s} : tokens'[t] = tokens[t]
  BY <1>1, TokenAdded DEF IInv
<1>7. TypeOK'
  BY <1>1, <1>5, <1>6 DEF IInv, TypeOK
<1>8. /\ at'[s] = "stream" /\ \A t \in Sessions \ {s} : Same(t)
  BY <1>1, <1>5, <1>6 DEF IInv, TypeOK, Same
<1>9. Conn(s)' = Sent(Conn(s), toPostgres[s] \o more)
  BY <1>1, <1>5 DEF Conn
<1>10. NoReady(toClient[s]) /\ Told(s)'
  BY <1>1, <1>3, EmptyFits DEF NothingBuffered, Told
<1>11. Phase(s)'
  BY <1>1, <1>3, <1>4, <1>5, <1>6, <1>8, <1>9, <1>10 DEF Phase
<1>12. OwnTraffic(s)'
  <2>1. /\ toPostgres[s] \in Seq(Messages)
        /\ Own(s, toPostgres[s]) /\ Own(s, Conn(s).todo)
        /\ Own(s, Conn(s).replies) /\ Own(s, Conn(s).held)
    BY <1>3 DEF IInv, TypeOK, OwnTraffic, Conn
  <2>2. Own(s, toPostgres[s] \o more)
    BY <1>2, <2>1, OwnConcat
  <2> QED BY <1>1, <1>3, <1>5, <1>9, <2>1, <2>2, SentOwn, EmptyFits DEF IInv, OwnTraffic
<1> QED BY <1>1, <1>5, <1>6, <1>7, <1>8, <1>11, <1>12, StepKeeps

LEMMA AdmitQueryLostStep ==
  ASSUME IInv, NEW s \in Sessions, AdmitQueryLost(s)
  PROVE  IInv'
<1> DEFINE more == <<Reply(s, "Error")>>
<1>1. /\ at[s] \in {"acquire", "queued"} /\ Admit(s) /\ IsQuery(msg[s])
      /\ queryInProgress' = [queryInProgress EXCEPT ![s] = FALSE]
      /\ FlushToClient(s, more)
      /\ at' = [at EXCEPT ![s] = "release"]
      /\ UNCHANGED <<client, inbox, msg, toPostgres, txStatus, connOf, conns>>
  BY DEF AdmitQueryLost, Admit, SetInProgress, Go
<1>2. more \in Seq(Replies) /\ Own(s, more) /\ NoReady(more)
  BY ErrorReply
<1> HIDE DEF more
<1>3. /\ connOf[s] # None /\ client[s] \in {"awaiting", "gone"} /\ inbox[s] = << >>
      /\ NothingBuffered(s) /\ RequestDone(s) /\ Told(s)
      /\ NoReady(got[s]) /\ NoReady(toClient[s])
  BY <1>1, EmptyFits DEF IInv, ConnsExclusive, Phase, Told, NothingBuffered
<1>4. /\ got' \in [Sessions -> Seq(Replies)] /\ toClient' \in [Sessions -> Seq(Replies)]
      /\ \A t \in Sessions \ {s} : got'[t] = got[t] /\ toClient'[t] = toClient[t]
      /\ toClient'[s] = << >>
  BY <1>1, <1>2, FlushToClientFields DEF IInv
<1>5. Own(s, got'[s]) /\ NoReady(got'[s])
  BY <1>1, <1>2, <1>3, FlushTold
<1>6. /\ TokensCounted' /\ tokens' \in [Sessions -> 0 .. Capacity] /\ tokens'[s] > 0
      /\ \A t \in Sessions \ {s} : tokens'[t] = tokens[t]
  BY <1>1, TokenAdded DEF IInv
<1>7. TypeOK'
  BY <1>1, <1>4, <1>6 DEF IInv, TypeOK
<1>8. /\ at'[s] = "release" /\ \A t \in Sessions \ {s} : Same(t)
  BY <1>1, <1>4, <1>6 DEF IInv, TypeOK, Same
<1>9. NothingBuffered(s)' /\ RequestDone(s)' /\ Told(s)'
  BY <1>1, <1>3, <1>4, <1>5 DEF NothingBuffered, RequestDone, Conn, Told
<1>10. inbox[s] \in Unread(client[s])
  BY <1>3 DEF Unread
<1>11. Phase(s)'
  BY <1>1, <1>3, <1>6, <1>8, <1>9, <1>10 DEF Phase
<1>12. OwnTraffic(s)'
  BY <1>1, <1>4, <1>5, EmptyFits DEF IInv, OwnTraffic, Conn
<1> QED BY <1>1, <1>6, <1>7, <1>8, <1>11, <1>12, StepKeeps

LEMMA AdmitBatchStep ==
  ASSUME IInv, NEW s \in Sessions, AdmitBatch(s)
  PROVE  IInv'
<1> DEFINE first == Message(s, "Execute")
<1>1. at[s] \in {"acquire", "queued"} /\ Admit(s) /\ ~IsQuery(msg[s]) /\ Forward(s, msg[s])
  BY DEF AdmitBatch, Admit
<1>2. msg[s] = "Execute" /\ inbox[s] \in Rest(client[s])
  BY <1>1 DEF IInv, Phase
<1>3. /\ queryInProgress' = [queryInProgress EXCEPT ![s] = TRUE]
      /\ toPostgres' = [toPostgres EXCEPT ![s] = Append(@, first)]
      /\ at' = [at EXCEPT ![s] = "collect"]
      /\ UNCHANGED <<client, inbox, got, msg, toClient, txStatus, connOf, conns>>
  BY <1>1, <1>2 DEF AdmitBatch, Forward, SetInProgress, Go, clientVars
<1>4. /\ connOf[s] # None /\ client[s] # "out" /\ NothingBuffered(s) /\ RequestDone(s)
      /\ Told(s) /\ Conn(s) \in ConnRecords /\ toPostgres[s] = << >> /\ toClient[s] = << >>
  BY <1>1 DEF IInv, ConnsExclusive, Phase, Conn, TypeOK, NothingBuffered
<1>5. /\ first \in Messages /\ Own(s, <<first>>) /\ OpenBatch(<<first>>)
  BY OneMessage DEF Kinds, BatchKinds
<1> HIDE DEF first
<1>6. /\ toPostgres'[s] = <<first>> /\ toPostgres' \in [Sessions -> Seq(Messages)]
      /\ \A t \in Sessions \ {s} : toPostgres'[t] = toPostgres[t]
  <2>1. toPostgres \in [Sessions -> Seq(Messages)]
    BY DEF IInv, TypeOK
  <2>2. Append(toPostgres[s], first) = <<first>> /\ <<first>> \in Seq(Messages)
    BY <1>4, <1>5
  <2> QED BY <1>3, <2>1, <2>2
<1>7. /\ TokensCounted' /\ tokens' \in [Sessions -> 0 .. Capacity] /\ tokens'[s] > 0
      /\ \A t \in Sessions \ {s} : tokens'[t] = tokens[t]
  BY <1>1, TokenAdded DEF IInv
<1>8. TypeOK'
  BY <1>3, <1>6, <1>7 DEF IInv, TypeOK
<1>9. /\ at'[s] = "collect" /\ \A t \in Sessions \ {s} : Same(t)
  BY <1>3, <1>6, <1>7 DEF IInv, TypeOK, Same
<1>10. Conn(s)' = Conn(s) /\ Collecting(Conn(s))
  BY <1>3, <1>4, QuietCollects DEF Conn, RequestDone
<1>11. Told(s)'
  BY <1>1, <1>3, <1>4 DEF Told
<1>12. Phase(s)'
  BY <1>2, <1>3, <1>4, <1>5, <1>6, <1>7, <1>9, <1>10, <1>11 DEF Phase
<1>13. OwnTraffic(s)'
  BY <1>3, <1>5, <1>6, <1>10 DEF IInv, OwnTraffic
<1> QED BY <1>1, <1>3, <1>7, <1>8, <1>9, <1>12, <1>13, StepKeeps

LEMMA CollectStep ==
  ASSUME IInv, NEW s \in Sessions, Collect(s)
  PROVE  IInv'
<1> DEFINE kind == Head(inbox[s])
           more == <<Message(s, kind)>>
<1>1. at[s] = "collect" /\ inbox[s] # << >> /\ Forward(s, kind)
  BY DEF Collect
<1>2. /\ inbox[s] \in Rest(client[s]) /\ OpenBatch(toPostgres[s]) /\ toClient[s] = << >>
      /\ Collecting(Conn(s)) /\ Conn(s) \in ConnRecords /\ tokens[s] > 0 /\ Told(s)
      /\ connOf[s] # None /\ client[s] # "out" /\ toPostgres[s] \in Seq(Messages)
  BY <1>1 DEF IInv, Phase, ConnsExclusive, Conn, TypeOK
<1>3. /\ kind \in {"Flush", "Sync"} /\ kind \in Kinds /\ Tail(inbox[s]) \in Seq(Kinds)
      /\ kind = "Sync" => Tail(inbox[s]) = << >> /\ client[s] \in {"awaiting", "gone"}
      /\ kind = "Flush" => Tail(inbox[s]) \in Rest(client[s])
  <2>1. Tail(inbox[s]) \in Seq(Kinds)
    BY <1>1 DEF IInv, TypeOK
  <2> QED BY <1>1, <1>2, <2>1, RequestGoesOn DEF Kinds
<1>4. /\ inbox' = [inbox EXCEPT ![s] = Tail(inbox[s])]
      /\ FlushToPostgres(s, more)
      /\ at' = [at EXCEPT ![s] = IF kind = "Sync" THEN "relay" ELSE "collect"]
      /\ UNCHANGED <<client, got, msg, toClient, tokens, txStatus, queryInProgress, connOf>>
  BY <1>3 DEF Collect, Forward, Go, state
<1>5. more \in Seq(Messages) /\ Own(s, more)
  BY <1>3, OneMessage
<1>6. /\ kind = "Flush" => Collecting(Sent(Conn(s), toPostgres[s] \o more))
      /\ kind = "Sync" => Relaying(Sent(Conn(s), toPostgres[s] \o more))
  BY <1>2, <1>3, BatchSent
<1> HIDE DEF more, kind
<1>7. /\ conns' \in [Conns -> ConnRecords] /\ toPostgres' \in [Sessions -> Seq(Messages)]
      /\ toPostgres[s] \o more \in Seq(Messages) /\ toPostgres'[s] = << >>
      /\ conns'[connOf[s]] = Sent(Conn(s), toPostgres[s] \o more)
      /\ \A t \in Sessions \ {s} : toPostgres'[t] = toPostgres[t]
      /\ \A c \in Conns : c # connOf[s] => conns'[c] = conns[c]
  BY <1>2, <1>4, <1>5, FlushToPostgresFields DEF IInv
<1>8. TypeOK'
  BY <1>3, <1>4, <1>7 DEF IInv, TypeOK
<1>9. /\ at'[s] = IF kind = "Sync" THEN "relay" ELSE "collect"
      /\ inbox'[s] = Tail(inbox[s])
      /\ \A t \in Sessions \ {s} : Same(t)
  BY <1>4, <1>7 DEF IInv, TypeOK, Same
<1>10. Conn(s)' = Sent(Conn(s), toPostgres[s] \o more)
  BY <1>4, <1>7 DEF Conn
<1>11. NoReady(toClient[s]) /\ Told(s)'
  BY <1>1, <1>2, <1>4, <1>9, EmptyFits DEF Told
<1>12. Phase(s)'
  <2>1. CASE kind = "Sync"
    <3>1. /\ at'[s] = "relay" /\ client[s] \in {"awaiting", "gone"} /\ inbox'[s] = << >>
          /\ Relaying(Conn(s)')
      BY <1>3, <1>6, <1>9, <1>10, <2>1
    <3>2. Relaying(Conn(s))'
      BY <3>1
    <3> QED BY <1>2, <1>4, <1>7, <1>11, <3>1, <3>2 DEF Phase
  <2>2. CASE kind = "Flush"
    <3>1. at'[s] = "collect" /\ inbox'[s] \in Rest(client[s]) /\ Collecting(Conn(s)')
      BY <1>3, <1>6, <1>9, <1>10, <2>2
    <3>2. Collecting(Conn(s))' /\ OpenBatch(toPostgres'[s])
      BY <1>7, <3>1, EmptyFits
    <3> QED BY <1>2, <1>4, <1>7, <1>11, <3>1, <3>2 DEF Phase
  <2> QED BY <1>3, <2>1, <2>2
<1>13. OwnTraffic(s)'
  <2>1. /\ Own(s, toPostgres[s]) /\ Own(s, Conn(s).todo)
        /\ Own(s, Conn(s).replies) /\ Own(s, Conn(s).held)
    BY <1>2 DEF IInv, OwnTraffic
  <2>2. Own(s, toPostgres[s] \o more)
    BY <1>2, <1>5, <2>1, OwnConcat
  <2> QED BY <1>2, <1>4, <1>7, <1>10, <2>1, <2>2, SentOwn, EmptyFits DEF IInv, OwnTraffic
<1>14. at'[s] \notin {"none", "pool"} /\ TokensCounted'
  BY <1>4, <1>9, TokensKept DEF IInv
<1> QED BY <1>1, <1>4, <1>7, <1>8, <1>9, <1>12, <1>13, <1>14, StepKeeps

LEMMA CollectLostStep ==
  ASSUME IInv, NEW s \in Sessions, CollectLost(s)
  PROVE  IInv'
<1> DEFINE more == <<Reply(s, "Error")>>
<1>1. /\ at[s] = "collect" /\ inbox[s] # << >>
      /\ inbox' = [inbox EXCEPT ![s] = Tail(inbox[s])]
      /\ FlushToClient(s, more)
      /\ queryInProgress' = [queryInProgress EXCEPT ![s] = FALSE]
      /\ at' = [at EXCEPT ![s] = "unwind"]
      /\ UNCHANGED <<client, msg, toPostgres, tokens, txStatus, connOf, conns>>
  BY DEF CollectLost, SetInProgress, Go
<1>2. more \in Seq(Replies) /\ Own(s, more)
  BY ErrorReply
<1> HIDE DEF more
<1>3. /\ connOf[s] # None /\ client[s] # "out" /\ Told(s)
      /\ NoReady(got[s]) /\ NoReady(toClient[s])
  BY <1>1, EmptyFits DEF IInv, ConnsExclusive, Phase, Told
<1>4. /\ got' \in [Sessions -> Seq(Replies)] /\ toClient' \in [Sessions -> Seq(Replies)]
      /\ \A t \in Sessions \ {s} : got'[t] = got[t] /\ toClient'[t] = toClient[t]
      /\ toClient'[s] = << >>
  BY <1>1, <1>2, FlushToClientFields DEF IInv
<1>5. Own(s, got'[s])
  BY <1>1, <1>2, <1>3, FlushTold
<1>6. TypeOK'
  <2>1. Tail(inbox[s]) \in Seq(Kinds)
    BY <1>1 DEF IInv, TypeOK
  <2> QED BY <1>1, <1>4, <2>1 DEF IInv, TypeOK
<1>7. /\ at'[s] = "unwind" /\ \A t \in Sessions \ {s} : Same(t)
  BY <1>1, <1>4 DEF IInv, TypeOK, Same
<1>8. Phase(s)'
  BY <1>1, <1>3, <1>7 DEF Phase
<1>9. OwnTraffic(s)'
  BY <1>1, <1>4, <1>5, EmptyFits DEF IInv, OwnTraffic, Conn
<1> QED BY <1>1, <1>6, <1>7, <1>8, <1>9, StepKeeps, TokensKept DEF IInv

\* The session reads the next reply of its connection.
LEMMA ReplyRead ==
  ASSUME NEW c \in ConnRecords, c.replies # << >>, NEW d,
         d = [c EXCEPT !.replies = Tail(c.replies)]
  PROVE  /\ d \in ConnRecords /\ Head(c.replies) \in Replies
         /\ Head(c.replies).what # "Ready" /\ Streaming(c) => Streaming(d)
         /\ Head(c.replies).what # "Ready" /\ Relaying(c) => Relaying(d)
         /\ Head(c.replies).what = "Ready" /\ (Streaming(c) \/ Relaying(c)) =>
              Quiet(d) /\ (d.alive => Head(c.replies).tx = d.tx)
<1>1. /\ c.replies \in Seq(Replies) /\ Head(c.replies) \in Replies
      /\ Tail(c.replies) \in Seq(Replies)
  BY ConnParts, TailAll
<1>2. d \in ConnRecords
  BY <1>1 DEF ConnRecords
<1>3. /\ d.todo = c.todo /\ d.held = c.held /\ d.tx = c.tx /\ d.alive = c.alive
      /\ d.copying = c.copying /\ d.replies = Tail(c.replies)
  BY DEF ConnRecords
<1>5. NoReady(c.replies) => NoReady(d.replies) /\ Head(c.replies).what # "Ready"
  BY <1>1, <1>3, ReplyTaken
<1>6. ASSUME Answering(c), Head(c.replies).what # "Ready"
      PROVE  Answering(d)
  <2>1. EndsReady(c.replies)
    BY <1>6 DEF Answering
  <2>2. /\ EndsReady(Tail(c.replies))
        /\ Tail(c.replies)[Len(Tail(c.replies))] = c.replies[Len(c.replies)]
    BY <1>1, <1>6, <2>1, ReplyTaken
  <2>3. EndsReady(d.replies) /\ d.replies[Len(d.replies)] = c.replies[Len(c.replies)]
    BY <1>3, <2>2
  <2> QED BY <1>3, <1>6, <2>3 DEF Answering
<1>7. ASSUME Answering(c), Head(c.replies).what = "Ready"
      PROVE  Quiet(d) /\ (d.alive => Head(c.replies).tx = d.tx)
  <2>1. d.replies = << >> /\ Head(c.replies) = c.replies[Len(c.replies)]
    BY <1>1, <1>3, <1>7, ReplyTaken DEF Answering
  <2> QED BY <1>3, <1>7, <2>1 DEF Answering, Quiet
<1>8. Broken(c) => Broken(d)
  BY <1>3, <1>5 DEF Broken
<1>9. Head(c.replies).what # "Ready" /\ Streaming(c) => Streaming(d)
  BY <1>3, <1>5, <1>6, <1>8 DEF Streaming
<1>10. Head(c.replies).what # "Ready" /\ Relaying(c) => Relaying(d)
  BY <1>3, <1>5, <1>6, <1>8 DEF Relaying
<1>11. Head(c.replies).what = "Ready" /\ (Streaming(c) \/ Relaying(c)) => Answering(c)
  BY <1>5 DEF Streaming, Relaying, Broken
<1> QED BY <1>1, <1>2, <1>7, <1>9, <1>10, <1>11

LEMMA OwnReplyRead ==
  ASSUME NEW c \in ConnRecords, c.replies # << >>, NEW d,
         d = [c EXCEPT !.replies = Tail(c.replies)],
         NEW s, Own(s, c.todo), Own(s, c.replies), Own(s, c.held)
  PROVE  /\ Own(s, d.todo) /\ Own(s, d.replies) /\ Own(s, d.held)
         /\ Head(c.replies).of = s
<1>1. Own(s, Tail(c.replies)) /\ Head(c.replies).of = s
  BY ReplyTaken, ConnParts
<1>2. d.todo = c.todo /\ d.held = c.held /\ d.replies = Tail(c.replies)
  BY DEF ConnRecords
<1> QED BY <1>1, <1>2

LEMMA TakeReplyFields ==
  ASSUME TypeOK, NEW s \in Sessions, connOf[s] # None, Conn(s).replies # << >>,
         TakeReply(s), connOf' = connOf
  PROVE  /\ conns' \in [Conns -> ConnRecords] /\ Conn(s) \in ConnRecords
         /\ Conn(s)' = [Conn(s) EXCEPT !.replies = Tail(Conn(s).replies)]
         /\ \A c \in Conns : c # connOf[s] => conns'[c] = conns[c]
<1>1. connOf[s] \in Conns /\ Conn(s) \in ConnRecords /\ conns \in [Conns -> ConnRecords]
  BY DEF TypeOK, Conn
<1> DEFINE d == [Conn(s) EXCEPT !.replies = Tail(Conn(s).replies)]
<1>2. d \in ConnRecords
  BY <1>1, ReplyRead
<1>3. conns' = [conns EXCEPT ![connOf[s]] = d]
  BY DEF TakeReply, Conn
<1> HIDE DEF d
<1>4. conns'[connOf[s]] = d /\ Conn(s)' = d
  BY <1>1, <1>3 DEF Conn
<1>5. conns' \in [Conns -> ConnRecords] /\ \A c \in Conns : c # connOf[s] => conns'[c] = conns[c]
  BY <1>1, <1>2, <1>3
<1> QED BY <1>1, <1>4, <1>5 DEF d

LEMMA BufferStep ==
  ASSUME IInv, NEW s \in Sessions, Stream(s) \/ Relay(s)
  PROVE  IInv'
<1> DEFINE r == Head(Conn(s).replies)
<1>1. /\ at[s] \in {"stream", "relay"} /\ Conn(s).replies # << >>
      /\ r.what # "Ready" /\ TakeReply(s)
      /\ toClient' = [toClient EXCEPT ![s] = Append(@, r)]
      /\ UNCHANGED <<client, inbox, got, at, msg, toPostgres, tokens, txStatus,
                     queryInProgress, connOf>>
  BY DEF Stream, Relay, Buffer, NextReply, clientVars, state
<1>2. connOf[s] # None /\ TypeOK
  BY <1>1 DEF IInv, ConnsExclusive
<1>3. /\ conns' \in [Conns -> ConnRecords] /\ Conn(s) \in ConnRecords
      /\ Conn(s)' = [Conn(s) EXCEPT !.replies = Tail(Conn(s).replies)]
      /\ \A c \in Conns : c # connOf[s] => conns'[c] = conns[c]
  BY <1>1, <1>2, TakeReplyFields
<1>4. /\ Own(s, Conn(s).todo) /\ Own(s, Conn(s).replies) /\ Own(s, Conn(s).held)
      /\ Own(s, toClient[s]) /\ Own(s, got[s]) /\ Own(s, toPostgres[s])
      /\ toClient[s] \in Seq(Replies)
  BY <1>2 DEF IInv, OwnTraffic, TypeOK
<1>5. /\ r \in Replies /\ r.of = s
      /\ Own(s, Conn(s)'.todo) /\ Own(s, Conn(s)'.replies) /\ Own(s, Conn(s)'.held)
      /\ Streaming(Conn(s)) => Streaming(Conn(s)')
      /\ Relaying(Conn(s)) => Relaying(Conn(s)')
  <2> DEFINE c == Conn(s)
             d == Conn(s)'
  <2>1. c \in ConnRecords /\ c.replies # << >> /\ d = [c EXCEPT !.replies = Tail(c.replies)]
    BY <1>1, <1>3
  <2>2. Own(s, c.todo) /\ Own(s, c.replies) /\ Own(s, c.held) /\ r = Head(c.replies)
    BY <1>4
  <2>3. r.what # "Ready"
    BY <1>1
  <2> HIDE DEF c, d, r
  <2>4. /\ r \in Replies /\ r.of = s
        /\ Own(s, d.todo) /\ Own(s, d.replies) /\ Own(s, d.held)
    <3>1. Head(c.replies) \in Replies
      BY <2>1, ReplyRead
    <3>2. Own(s, d.todo) /\ Own(s, d.replies) /\ Own(s, d.held) /\ Head(c.replies).of = s
      BY <2>1, <2>2, OwnReplyRead
    <3> QED BY <2>2, <3>1, <3>2
  <2>5. (Streaming(c) => Streaming(d)) /\ (Relaying(c) => Relaying(d))
    BY <2>1, <2>2, <2>3, ReplyRead
  <2> QED BY <2>4, <2>5 DEF c, d
<1> HIDE DEF r
<1>6. /\ toClient'[s] = Append(toClient[s], r) /\ toClient' \in [Sessions -> Seq(Replies)]
      /\ \A t \in Sessions \ {s} : toClient'[t] = toClient[t]
  <2>1. Append(toClient[s], r) \in Seq(Replies) /\ toClient \in [Sessions -> Seq(Replies)]
    BY <1>2, <1>4, <1>5, AppendAll DEF TypeOK
  <2> QED BY <1>1, <2>1
<1>7. TypeOK'
  BY <1>1, <1>2, <1>3, <1>6 DEF TypeOK
<1>8. \A t \in Sessions \ {s} : Same(t)
  BY <1>1, <1>6 DEF Same
<1>9. /\ NoReady(toClient[s]) /\ toPostgres[s] = << >> /\ client[s] \in {"awaiting", "gone"}
      /\ inbox[s] = << >> /\ tokens[s] > 0 /\ Told(s)
      /\ at[s] = "stream" => Streaming(Conn(s))
      /\ at[s] = "relay" => Relaying(Conn(s))
  BY <1>1 DEF IInv, Phase
<1>10. NoReady(toClient'[s]) /\ Own(s, toClient'[s])
  BY <1>1, <1>4, <1>5, <1>6, <1>9, OwnAppend, NoReadyAppend
<1>11. Told(s)'
  BY <1>1, <1>9 DEF Told
<1>12. /\ at[s] = "stream" => Streaming(Conn(s))'
       /\ at[s] = "relay" => Relaying(Conn(s))'
  BY <1>5, <1>9
<1>13. Phase(s)'
  BY <1>1, <1>9, <1>10, <1>11, <1>12 DEF Phase
<1>14. OwnTraffic(s)'
  BY <1>1, <1>4, <1>5, <1>10 DEF OwnTraffic
<1> QED BY <1>1, <1>3, <1>7, <1>8, <1>13, <1>14, StepKeeps, TokensKept DEF IInv

\* ReadyForQuery: the response is over, and its status is that of the connection.
LEMMA FinishStep ==
  ASSUME IInv, NEW s \in Sessions, StreamReady(s) \/ RelayReady(s)
  PROVE  IInv'
<1> DEFINE r == Head(Conn(s).replies)
           more == <<r>>
<1>1. /\ at[s] \in {"stream", "relay"} /\ Conn(s).replies # << >>
      /\ r.what = "Ready" /\ TakeReply(s)
      /\ txStatus' = [txStatus EXCEPT ![s] = r.tx]
      /\ FlushToClient(s, more)
      /\ at' \in {[at EXCEPT ![s] = "release"], [at EXCEPT ![s] = "receive"]}
      /\ queryInProgress' \in {[queryInProgress EXCEPT ![s] = FALSE], queryInProgress}
      /\ UNCHANGED <<client, inbox, msg, toPostgres, tokens, connOf>>
  BY DEF StreamReady, RelayReady, Finish, NextReply, SetInProgress, Go
<1>2. connOf[s] # None /\ TypeOK
  BY <1>1 DEF IInv, ConnsExclusive
<1>3. /\ conns' \in [Conns -> ConnRecords] /\ Conn(s) \in ConnRecords
      /\ Conn(s)' = [Conn(s) EXCEPT !.replies = Tail(Conn(s).replies)]
      /\ \A c \in Conns : c # connOf[s] => conns'[c] = conns[c]
  BY <1>1, <1>2, TakeReplyFields
<1>4. /\ Own(s, Conn(s).todo) /\ Own(s, Conn(s).replies) /\ Own(s, Conn(s).held)
      /\ Own(s, toPostgres[s])
      /\ NoReady(toClient[s]) /\ toPostgres[s] = << >> /\ client[s] \in {"awaiting", "gone"}
      /\ inbox[s] = << >> /\ tokens[s] > 0 /\ Told(s)
      /\ Streaming(Conn(s)) \/ Relaying(Conn(s))
  BY <1>1, <1>2 DEF IInv, OwnTraffic, Phase
<1>5. /\ r \in Replies /\ r.of = s
      /\ Own(s, Conn(s)'.todo) /\ Own(s, Conn(s)'.replies) /\ Own(s, Conn(s)'.held)
      /\ Quiet(Conn(s)') /\ (Conn(s)'.alive => r.tx = Conn(s)'.tx)
  <2>1. /\ r.of = s /\ Own(s, Conn(s)'.todo) /\ Own(s, Conn(s)'.replies)
        /\ Own(s, Conn(s)'.held)
    BY <1>1, <1>3, <1>4, OwnReplyRead
  <2> QED BY <1>1, <1>3, <1>4, <2>1, ReplyRead
<1>6. r.tx \in TxStatuses \cup {Nil}
  BY <1>1, <1>5 DEF Replies
<1> HIDE DEF r
<1>7. more \in Seq(Replies) /\ Own(s, more) /\ EndsReady(more)
  BY <1>1, <1>5 DEF Own, EndsReady
<1> HIDE DEF more
<1>8. /\ got' \in [Sessions -> Seq(Replies)] /\ toClient' \in [Sessions -> Seq(Replies)]
      /\ \A t \in Sessions \ {s} : got'[t] = got[t] /\ toClient'[t] = toClient[t]
      /\ toClient'[s] = << >>
  BY <1>1, <1>2, <1>7, FlushToClientFields
<1>9. TypeOK'
  BY <1>1, <1>2, <1>3, <1>6, <1>8 DEF TypeOK
<1>10. /\ at'[s] \in {"release", "receive"} /\ txStatus'[s] = r.tx
       /\ \A t \in Sessions \ {s} : Same(t)
  BY <1>1, <1>2, <1>8 DEF TypeOK, Same
<1>11. NoReady(got[s])
  BY <1>1, <1>4 DEF Told
<1>12. Own(s, got'[s]) /\ (EndsReady(got'[s]) \/ NoReady(got'[s]))
  BY <1>1, <1>4, <1>7, <1>11, FlushTold
<1>13. NothingBuffered(s)' /\ Told(s)'
  BY <1>1, <1>4, <1>8, <1>10, <1>12 DEF NothingBuffered, Told
<1>14. RequestDone(s)'
  BY <1>5, <1>10 DEF RequestDone
<1>15. inbox[s] \in Unread(client[s])
  BY <1>4 DEF Unread
<1>16. Phase(s)'
  BY <1>1, <1>4, <1>10, <1>13, <1>14, <1>15 DEF Phase
<1>17. OwnTraffic(s)'
  BY <1>1, <1>4, <1>5, <1>8, <1>12, EmptyFits DEF OwnTraffic
<1> QED BY <1>1, <1>3, <1>9, <1>10, <1>16, <1>17, StepKeeps, TokensKept DEF IInv

\* The response of a query breaks off.
LEMMA StreamLostStep ==
  ASSUME IInv, NEW s \in Sessions, StreamLost(s)
  PROVE  IInv'
<1> DEFINE more == <<Reply(s, "Error")>>
<1>1. /\ at[s] = "stream" /\ ~Conn(s).alive /\ Conn(s).replies = << >>
      /\ FlushToClient(s, more)
      /\ queryInProgress' = [queryInProgress EXCEPT ![s] = FALSE]
      /\ at' = [at EXCEPT ![s] = "release"]
      /\ UNCHANGED <<client, inbox, msg, toPostgres, tokens, txStatus, connOf, conns>>
  BY DEF StreamLost, ReadLost, SetInProgress, Go
<1>2. more \in Seq(Replies) /\ Own(s, more) /\ NoReady(more)
  BY ErrorReply
<1> HIDE DEF more
<1>3. /\ connOf[s] # None /\ client[s] \in {"awaiting", "gone"} /\ inbox[s] = << >>
      /\ toPostgres[s] = << >> /\ NoReady(toClient[s]) /\ Told(s) /\ NoReady(got[s])
      /\ tokens[s] > 0 /\ Streaming(Conn(s))
  BY <1>1 DEF IInv, ConnsExclusive, Phase, Told
<1>4. Quiet(Conn(s))
  BY <1>1, <1>3 DEF Streaming, Answering, Broken, EndsReady, Quiet
<1>5. /\ got' \in [Sessions -> Seq(Replies)] /\ toClient' \in [Sessions -> Seq(Replies)]
      /\ \A t \in Sessions \ {s} : got'[t] = got[t] /\ toClient'[t] = toClient[t]
      /\ toClient'[s] = << >>
  BY <1>1, <1>2, FlushToClientFields DEF IInv
<1>6. Own(s, got'[s]) /\ NoReady(got'[s])
  BY <1>1, <1>2, <1>3, FlushTold
<1>7. TypeOK'
  BY <1>1, <1>5 DEF IInv, TypeOK
<1>8. /\ at'[s] = "release" /\ \A t \in Sessions \ {s} : Same(t)
  BY <1>1, <1>5 DEF IInv, TypeOK, Same
<1>9. NothingBuffered(s)' /\ RequestDone(s)' /\ Told(s)'
  BY <1>1, <1>3, <1>4, <1>5, <1>6 DEF NothingBuffered, RequestDone, Conn, Told
<1>10. inbox[s] \in Unread(client[s])
  BY <1>3 DEF Unread
<1>11. Phase(s)'
  BY <1>1, <1>3, <1>8, <1>9, <1>10 DEF Phase
<1>12. OwnTraffic(s)'
  BY <1>1, <1>5, <1>6, EmptyFits DEF IInv, OwnTraffic, Conn
<1> QED BY <1>1, <1>7, <1>8, <1>11, <1>12, StepKeeps, TokensKept DEF IInv

LEMMA RelayLostStep ==
  ASSUME IInv, NEW s \in Sessions, RelayLost(s)
  PROVE  IInv'
<1>1. /\ at[s] = "relay" /\ at' = [at EXCEPT ![s] = "unwind"]
      /\ UNCHANGED <<client, inbox, got, msg, toPostgres, toClient, tokens, txStatus,
                     queryInProgress, connOf, conns>>
  BY DEF RelayLost, ReadLost, Go, clientVars, buffers, state
<1>2. TypeOK'
  BY <1>1 DEF IInv, TypeOK
<1>3. /\ at'[s] = "unwind" /\ \A t \in Sessions \ {s} : Same(t)
  BY <1>1 DEF IInv, TypeOK, Same
<1>4. Phase(s)'
  BY <1>1, <1>3 DEF IInv, Phase
<1>5. OwnTraffic(s)'
  BY <1>1 DEF IInv, OwnTraffic, Conn
<1> QED BY <1>1, <1>2, <1>3, <1>4, <1>5, StepKeeps, TokensKept DEF IInv

LEMMA ReleaseStep ==
  ASSUME IInv, NEW s \in Sessions, Release(s)
  PROVE  IInv'
<1>1. /\ at[s] = "release" /\ tokens' = [tokens EXCEPT ![s] = @ - 1]
      /\ at' = [at EXCEPT ![s] = "receive"]
      /\ UNCHANGED <<client, inbox, got, msg, toPostgres, toClient, txStatus,
                     queryInProgress, connOf, conns>>
  BY DEF Release, Go, clientVars, buffers, state
<1>2. /\ tokens[s] > 0 /\ NothingBuffered(s) /\ RequestDone(s) /\ Told(s)
      /\ client[s] # "out" /\ inbox[s] \in Unread(client[s])
  BY <1>1 DEF IInv, Phase
<1>3. /\ TokensCounted' /\ tokens' \in [Sessions -> 0 .. Capacity]
      /\ \A t \in Sessions \ {s} : tokens'[t] = tokens[t]
  BY <1>1, <1>2, TokenReturned DEF IInv
<1>4. TypeOK'
  BY <1>1, <1>3 DEF IInv, TypeOK
<1>5. /\ at'[s] = "receive" /\ \A t \in Sessions \ {s} : Same(t)
  BY <1>1, <1>3 DEF IInv, TypeOK, Same
<1>6. NothingBuffered(s)' /\ RequestDone(s)' /\ Told(s)'
  BY <1>1, <1>2, <1>5 DEF NothingBuffered, RequestDone, Conn, Told
<1>7. Phase(s)'
  BY <1>1, <1>2, <1>5, <1>6 DEF Phase
<1>8. OwnTraffic(s)'
  BY <1>1 DEF IInv, OwnTraffic, Conn
<1> QED BY <1>1, <1>3, <1>4, <1>5, <1>7, <1>8, StepKeeps

LEMMA UnwindStep ==
  ASSUME IInv, NEW s \in Sessions, Unwind(s)
  PROVE  IInv'
<1>1. /\ at[s] = "unwind" /\ tokens[s] > 0 /\ tokens' = [tokens EXCEPT ![s] = @ - 1]
      /\ UNCHANGED <<client, inbox, got, at, msg, toPostgres, toClient, txStatus,
                     queryInProgress, connOf, conns>>
  BY DEF Unwind, clientVars, buffers, state
<1>2. /\ TokensCounted' /\ tokens' \in [Sessions -> 0 .. Capacity]
      /\ \A t \in Sessions \ {s} : tokens'[t] = tokens[t]
  BY <1>1, TokenReturned DEF IInv
<1>3. TypeOK'
  BY <1>1, <1>2 DEF IInv, TypeOK
<1>4. \A t \in Sessions \ {s} : Same(t)
  BY <1>1, <1>2 DEF IInv, TypeOK, Same
<1>5. Phase(s)'
  BY <1>1 DEF IInv, Phase
<1>6. OwnTraffic(s)'
  BY <1>1 DEF IInv, OwnTraffic, Conn
<1> QED BY <1>1, <1>2, <1>3, <1>4, <1>5, <1>6, StepKeeps

\* Whatever is under way over the connection when a session ends, the pool
\* drains it or replaces it.
LEMMA ReleaseConnStep ==
  ASSUME IInv, NEW s \in Sessions, ReleaseConn(s)
  PROVE  IInv'
<1>1. connOf[s] \in Conns /\ Conn(s) \in ConnRecords
  BY DEF ReleaseConn, IInv, ConnsExclusive, TypeOK, Conn
<1>2. PICK d \in AfterRelease(Conn(s)) : conns' = [conns EXCEPT ![connOf[s]] = d]
  BY DEF ReleaseConn
<1>3. d \in ConnRecords /\ Quiet(d)
  BY <1>1, <1>2, ReleasedQuiet
<1>4. /\ at[s] = "unwind" /\ tokens[s] = 0
      /\ connOf' = [connOf EXCEPT ![s] = None]
      /\ inbox' = [inbox EXCEPT ![s] = << >>]
      /\ toPostgres' = [toPostgres EXCEPT ![s] = << >>]
      /\ toClient' = [toClient EXCEPT ![s] = << >>]
      /\ at' = [at EXCEPT ![s] = "none"]
      /\ UNCHANGED <<client, got, msg, tokens, txStatus, queryInProgress>>
  BY DEF ReleaseConn, Go, state
<1>5. TypeOK'
  <2>1. << >> \in Seq(Kinds)
    OBVIOUS
  <2> QED BY <1>2, <1>3, <1>4, <2>1, NoSequence DEF IInv, TypeOK
<1>6. /\ at'[s] = "none" /\ inbox'[s] = << >> /\ toPostgres'[s] = << >>
      /\ toClient'[s] = << >> /\ connOf'[s] = None
      /\ \A t \in Sessions \ {s} : Same(t)
  BY <1>4 DEF IInv, TypeOK, Same
<1>7. ConnsExclusive'
  BY <1>6 DEF IInv, ConnsExclusive, Same
<1>8. FreeConnsQuiet'
  <2>1. ASSUME NEW c \in Conns, Free(c)'
        PROVE  Quiet(conns'[c])
    <3>1. CASE c = connOf[s]
      BY <1>1, <1>2, <1>3, <3>1 DEF IInv, TypeOK
    <3>2. CASE c # connOf[s]
      <4>1. conns'[c] = conns[c]
        BY <1>2, <3>2 DEF IInv, TypeOK
      <4>2. Free(c)
        BY <1>6, <2>1, <3>2 DEF Free, Same
      <4> QED BY <4>1, <4>2 DEF IInv, FreeConnsQuiet
    <3> QED BY <3>1, <3>2
  <2>2. \A c \in Conns : Free(c)' => Quiet(conns[c])'
    BY <2>1
  <2> QED BY <2>2 DEF FreeConnsQuiet
<1>9. ASSUME NEW t \in Sessions
      PROVE  Phase(t)' /\ OwnTraffic(t)'
  <2>1. CASE t = s
    <3>1. client[s] # "out"
      BY <1>4 DEF IInv, Phase
    <3>2. Phase(s)'
      BY <1>4, <1>6, <3>1 DEF Phase, NothingBuffered
    <3>3. OwnTraffic(s)'
      BY <1>4, <1>6, EmptyFits DEF IInv, OwnTraffic
    <3> QED BY <2>1, <3>2, <3>3
  <2>2. CASE t # s
    <3>1. connOf[t] # None => conns'[connOf[t]] = conns[connOf[t]]
      BY <1>1, <1>2, <2>2 DEF IInv, ConnsExclusive, TypeOK
    <3> QED BY <1>6, <2>2, <3>1, SameKeeps DEF IInv
  <2> QED BY <2>1, <2>2
<1> QED BY <1>4, <1>5, <1>7, <1>8, <1>9, TokensKept DEF IInv

\* What the client does next fits what the goroutine has read.
LEMMA SendStep ==
  ASSUME IInv, NEW s \in Sessions, Send(s)
  PROVE  IInv'
<1>1. /\ at[s] # "none"
      /\ UNCHANGED <<got, at, msg, toPostgres, toClient, tokens, txStatus, queryInProgress,
                     connOf, conns>>
  BY DEF Send, buffers, state
<1>2. PICK step \in MaySend :
        /\ step[1] = client[s]
        /\ inbox' = [inbox EXCEPT ![s] = Append(@, step[2])]
        /\ client' = [client EXCEPT ![s] = step[3]]
  BY DEF Send
<1>3. inbox[s] \in Seq(Kinds) /\ client \in [Sessions -> {"out", "ready", "batch",
                                  "listening", "flushed", "awaiting", "gone"}]
      /\ inbox \in [Sessions -> Seq(Kinds)]
  BY DEF IInv, TypeOK
<1>4. /\ step[2] \in Kinds
      /\ step[3] \in {"awaiting", "batch", "gone", "listening"}
      /\ client[s] \in {"ready", "batch", "flushed"}
      /\ inbox[s] \in Unread(client[s]) => Append(inbox[s], step[2]) \in Unread(step[3])
      /\ inbox[s] \in Rest(client[s]) => Append(inbox[s], step[2]) \in Rest(step[3])
  BY <1>2, RequestSent
<1>5. /\ inbox'[s] = Append(inbox[s], step[2]) /\ client'[s] = step[3]
      /\ \A t \in Sessions \ {s} : inbox'[t] = inbox[t] /\ client'[t] = client[t]
      /\ inbox' \in [Sessions -> Seq(Kinds)]
      /\ client' \in [Sessions -> {"out", "ready", "batch", "listening", "flushed",
                                   "awaiting", "gone"}]
  BY <1>2, <1>3, <1>4
<1>6. TypeOK'
  BY <1>1, <1>5 DEF IInv, TypeOK
<1>7. \A t \in Sessions \ {s} : Same(t)
  BY <1>1, <1>5 DEF Same
<1>8. at[s] \notin {"none", "unwind"} => Told(s)'
  <2>1. at[s] \notin {"none", "unwind"} => Told(s)
    BY DEF IInv, Phase
  <2>2. Told(s) => NoReady(got[s])
    BY <1>4 DEF Told
  <2> QED BY <1>1, <1>4, <1>5, <2>1, <2>2 DEF Told
<1>9. NothingBuffered(s)' = NothingBuffered(s) /\ RequestDone(s)' = RequestDone(s)
  BY <1>1 DEF NothingBuffered, RequestDone, Conn
<1>10. at[s] \notin {"stream", "relay"} 
       /\ ~(at[s] \in {"acquire", "queued", "overflow"} /\ IsQuery(msg[s]))
  BY <1>4 DEF IInv, Phase
<1>11. Phase(s)'
  <2>1. Phase(s) /\ Conn(s)' = Conn(s)
    BY <1>1 DEF IInv, Conn
  <2> QED BY <1>1, <1>4, <1>5, <1>8, <1>9, <1>10, <2>1 DEF Phase
<1>12. OwnTraffic(s)'
  BY <1>1 DEF IInv, OwnTraffic, Conn
<1> QED BY <1>1, <1>6, <1>7, <1>11, <1>12, StepKeeps, TokensKept DEF IInv

LEMMA ReadStep ==
  ASSUME IInv, NEW s \in Sessions, Read(s)
  PROVE  IInv'
<1> DEFINE next == CASE client[s] = "awaiting" /\ Head(got[s]).what = "Ready" -> "ready"
                     [] client[s] = "listening" /\ Head(got[s]).what = "Result" -> "flushed"
                     [] OTHER -> client[s]
<1>1. /\ got[s] # << >> /\ got' = [got EXCEPT ![s] = Tail(got[s])]
      /\ client' = [client EXCEPT ![s] = next]
      /\ UNCHANGED <<inbox, at, msg, toPostgres, toClient, tokens, txStatus, queryInProgress,
                     connOf, conns>>
  BY DEF Read, buffers, state
<1>2. /\ got[s] \in Seq(Replies) /\ got \in [Sessions -> Seq(Replies)]
      /\ client \in [Sessions -> {"out", "ready", "batch", "listening", "flushed",
                                  "awaiting", "gone"}]
  BY DEF IInv, TypeOK
<1>3. \/ next = client[s] /\ ~(client[s] = "awaiting" /\ Head(got[s]).what = "Ready")
      \/ client[s] = "awaiting" /\ next = "ready" /\ Head(got[s]).what = "Ready"
      \/ client[s] = "listening" /\ next = "flushed"
  OBVIOUS
<1> HIDE DEF next
<1>4. Tail(got[s]) \in Seq(Replies)
  BY <1>1, <1>2
<1>5. next \in {"out", "ready", "batch", "listening", "flushed", "awaiting", "gone"}
  BY <1>2, <1>3
<1>6. TypeOK'
  BY <1>1, <1>4, <1>5 DEF IInv, TypeOK
<1>7. /\ got'[s] = Tail(got[s]) /\ client'[s] = next
      /\ \A t \in Sessions \ {s} : Same(t)
  BY <1>1, <1>2 DEF Same
<1>8. Own(s, got'[s])
  BY <1>1, <1>2, <1>7, ReplyTaken DEF IInv, OwnTraffic
<1>9. OwnTraffic(s)'
  BY <1>1, <1>8 DEF IInv, OwnTraffic, Conn
<1>10. client[s] # "out"
  BY <1>1 DEF IInv, Phase
<1>11. ASSUME at[s] \notin {"none", "unwind"}
       PROVE  /\ Told(s)'
              /\ inbox[s] \in Unread(client[s]) => inbox[s] \in Unread(next)
              /\ inbox[s] \in Rest(client[s]) => inbox[s] \in Rest(next)
              /\ client[s] \in {"awaiting", "gone"} /\ inbox[s] = << >> =>
                   next \in {"awaiting", "gone"} \/ at[s] \in {"receive", "release"}
  <2>1. Told(s)
    BY <1>11 DEF IInv, Phase
  <2>2. CASE NoReady(got[s])
    <3>1. NoReady(Tail(got[s])) /\ Head(got[s]).what # "Ready"
      BY <1>1, <1>2, <2>2, ReplyTaken
    <3>2. next = client[s] \/ (client[s] = "listening" /\ next = "flushed")
      BY <1>3, <3>1
    <3>3. next # "ready"
      BY <1>1, <2>1, <3>2 DEF Told
    <3>4. Unread(client[s]) \subseteq Unread(next) /\ Rest(client[s]) \subseteq Rest(next)
      BY <3>2 DEF Unread, Rest
    <3> QED BY <1>7, <3>1, <3>2, <3>3, <3>4 DEF Told
  <2>3. CASE EndsReady(got[s]) /\ ~NoReady(got[s])
    <3>1. /\ client[s] \in {"awaiting", "gone"} /\ at[s] \in {"receive", "release"}
          /\ inbox[s] = << >>
      BY <2>1, <2>3 DEF Told
    <3>2. CASE Head(got[s]).what = "Ready"
      <4>1. Tail(got[s]) = << >>
        BY <1>1, <1>2, <2>3, <3>2, ReplyTaken
      <4>2. next \in {"ready", "gone"}
        BY <1>3, <3>1, <3>2
      <4>3. Told(s)'
        BY <1>7, <4>1, EmptyFits DEF Told
      <4>4. inbox[s] \in Unread(next)
        BY <3>1, <4>2 DEF Unread
      <4>5. inbox[s] \in Rest(client[s]) => inbox[s] \in Rest(next)
        <5>1. CASE client[s] = "gone"
          BY <1>3, <5>1
        <5>2. CASE client[s] = "awaiting"
          BY <3>1, <5>2 DEF Rest
        <5> QED BY <3>1, <5>1, <5>2
      <4> QED BY <3>1, <4>3, <4>4, <4>5
    <3>3. CASE Head(got[s]).what # "Ready"
      <4>1. EndsReady(Tail(got[s]))
        BY <1>1, <1>2, <2>3, <3>3, ReplyTaken
      <4>2. next = client[s]
        BY <1>3, <3>1, <3>3
      <4> QED BY <1>1, <1>7, <3>1, <4>1, <4>2 DEF Told
    <3> QED BY <3>2, <3>3
  <2> QED BY <2>1, <2>2, <2>3 DEF Told
<1>12. NothingBuffered(s)' = NothingBuffered(s) /\ RequestDone(s)' = RequestDone(s)
       /\ Conn(s)' = Conn(s)
  BY <1>1 DEF NothingBuffered, RequestDone, Conn
<1>13. next # "out"
  BY <1>3, <1>10
<1>14. Phase(s)'
  <2>1. Phase(s)
    BY DEF IInv
  <2> QED BY <1>1, <1>7, <1>11, <1>12, <1>13, <2>1 DEF Phase
<1> QED BY <1>1, <1>6, <1>7, <1>9, <1>14, StepKeeps, TokensKept DEF IInv

LEMMA VanishStep ==
  ASSUME IInv, NEW s \in Sessions, Vanish(s)
  PROVE  IInv'
<1>1. /\ client[s] \notin {"out", "gone"}
      /\ client' = [client EXCEPT ![s] = "gone"] /\ got' = [got EXCEPT ![s] = << >>]
      /\ UNCHANGED <<inbox, at, msg, toPostgres, toClient, tokens, txStatus,
                     queryInProgress, connOf, conns>>
  BY DEF Vanish, buffers, state
<1>2. TypeOK'
  BY <1>1, NoSequence DEF IInv, TypeOK
<1>3. /\ got'[s] = << >> /\ client'[s] = "gone"
      /\ \A t \in Sessions \ {s} : Same(t)
  BY <1>1 DEF IInv, TypeOK, Same
<1>4. OwnTraffic(s)'
  BY <1>1, <1>3, EmptyFits DEF IInv, OwnTraffic, Conn
<1>5. Told(s)'
  BY <1>3, EmptyFits DEF Told
<1>6. NothingBuffered(s)' = NothingBuffered(s) /\ RequestDone(s)' = RequestDone(s)
       /\ Conn(s)' = Conn(s)
  BY <1>1 DEF NothingBuffered, RequestDone, Conn
<1>7. /\ inbox[s] \in Unread(client[s]) => inbox[s] \in Unread("gone")
      /\ inbox[s] \in Rest(client[s]) => inbox[s] \in Rest("gone")
  BY GoneFits
<1>8. Phase(s)'
  <2>1. Phase(s)
    BY DEF IInv
  <2> QED BY <1>1, <1>3, <1>5, <1>6, <1>7, <2>1 DEF Phase
<1> QED BY <1>1, <1>2, <1>3, <1>4, <1>8, StepKeeps, TokensKept DEF IInv

LEMMA SeeClosedStep ==
  ASSUME IInv, NEW s \in Sessions, SeeClosed(s)
  PROVE  IInv'
<1>1. /\ at[s] = "none" /\ got[s] = << >> /\ client' = [client EXCEPT ![s] = "out"]
      /\ UNCHANGED <<inbox, got, at, msg, toPostgres, toClient, tokens, txStatus,
                     queryInProgress, connOf, conns>>
  BY DEF SeeClosed, buffers, state
<1>2. TypeOK'
  BY <1>1 DEF IInv, TypeOK
<1>3. client'[s] = "out" /\ \A t \in Sessions \ {s} : Same(t)
  BY <1>1 DEF IInv, TypeOK, Same
<1>4. OwnTraffic(s)'
  BY <1>1 DEF IInv, OwnTraffic, Conn
<1>5. Phase(s)'
  BY <1>1, <1>3 DEF IInv, Phase, NothingBuffered
<1> QED BY <1>1, <1>2, <1>3, <1>4, <1>5, StepKeeps, TokensKept DEF IInv

\* A step of Postgres on a connection, which its session keeps as it is.
LEMMA ConnStep ==
  ASSUME IInv, NEW c \in Conns, NEW d \in ConnRecords,
         conns' = [conns EXCEPT ![c] = d],
         UNCHANGED <<client, inbox, got, at, msg, toPostgres, toClient, tokens, txStatus,
                     queryInProgress, connOf>>,
         Quiet(conns[c]) => Quiet(d) /\ ~d.alive,
         Streaming(conns[c]) => Streaming(d),
         Relaying(conns[c]) => Relaying(d),
         Collecting(conns[c]) => Collecting(d),
         \A s \in Sessions :
           Own(s, conns[c].todo) /\ Own(s, conns[c].replies) /\ Own(s, conns[c].held) =>
             Own(s, d.todo) /\ Own(s, d.replies) /\ Own(s, d.held)
  PROVE  IInv'
<1>1. conns'[c] = d /\ \A b \in Conns \ {c} : conns'[b] = conns[b]
  BY DEF IInv, TypeOK
<1>2. TypeOK'
  BY DEF IInv, TypeOK
<1>3. ConnsExclusive'
  BY DEF IInv, ConnsExclusive
<1>4. FreeConnsQuiet'
  BY <1>1 DEF IInv, FreeConnsQuiet, Free
<1>5. TokensCounted'
  BY TokensKept DEF IInv
<1>6. ASSUME NEW s \in Sessions
      PROVE  Phase(s)' /\ OwnTraffic(s)'
  <2>1. CASE connOf[s] # c
    <3>1. connOf[s] # None => conns'[connOf[s]] = conns[connOf[s]]
      BY <1>1, <2>1 DEF IInv, TypeOK
    <3> QED BY <3>1, SameKeeps DEF IInv, Same
  <2>2. CASE connOf[s] = c
    <3>1. Conn(s) = conns[c] /\ Conn(s)' = d
      BY <1>1, <2>2 DEF Conn
    <3>2. Phase(s) /\ OwnTraffic(s)
      BY DEF IInv
    <3>3. connOf[s] # None
      BY <2>2, ConnsAssumption
    <3>4. OwnTraffic(s)'
      BY <3>1, <3>2, <3>3 DEF OwnTraffic
    <3>5. RequestDone(s) => RequestDone(s)'
      BY <3>1 DEF RequestDone
    <3>6. NothingBuffered(s)' = NothingBuffered(s) /\ Told(s)' = Told(s)
      BY DEF NothingBuffered, Told
    <3>7. /\ Streaming(Conn(s)) => Streaming(Conn(s))'
          /\ Relaying(Conn(s)) => Relaying(Conn(s))'
          /\ Collecting(Conn(s)) => Collecting(Conn(s))'
      BY <3>1
    <3>8. Phase(s)'
      BY <3>2, <3>5, <3>6, <3>7 DEF Phase
    <3> QED BY <3>4, <3>8
  <2> QED BY <2>1, <2>2
<1> QED BY <1>2, <1>3, <1>4, <1>5, <1>6 DEF IInv

LEMMA PostgresStep ==
  ASSUME IInv, NEW c \in Conns, Postgres(c)
  PROVE  IInv'
<1>1. conns[c] \in ConnRecords
  BY DEF IInv, TypeOK
<1>2. CASE Handle(c)
  <2>1. PICK d \in Handled(conns[c]) : conns' = [conns EXCEPT ![c] = d]
    BY <1>2 DEF Handle
  <2>2. /\ conns[c].alive /\ conns[c].todo # << >>
        /\ UNCHANGED <<client, inbox, got, at, msg, toPostgres, toClient, tokens, txStatus,
                       queryInProgress, connOf>>
    BY <1>2 DEF Handle, clientVars, buffers, state
  <2>3. d \in ConnRecords
    BY <1>1, <2>1, <2>2, HandledFields DEF HandledAs
  <2>4. /\ Streaming(conns[c]) => Streaming(d)
        /\ Relaying(conns[c]) => Relaying(d)
        /\ Collecting(conns[c]) => Collecting(d)
    BY <1>1, <2>1, <2>2, HandledKeepsPhase
  <2>5. ~Quiet(conns[c])
    BY <2>2 DEF Quiet
  <2>6. \A s \in Sessions :
           Own(s, conns[c].todo) /\ Own(s, conns[c].replies) /\ Own(s, conns[c].held) =>
             Own(s, d.todo) /\ Own(s, d.replies) /\ Own(s, d.held)
    BY <1>1, <2>1, <2>2, HandledOwn
  <2> QED BY <2>1, <2>2, <2>3, <2>4, <2>5, <2>6, ConnStep
<1>3. CASE Lose(c)
  <2> DEFINE d == Lost(conns[c])
  <2>1. /\ conns' = [conns EXCEPT ![c] = d]
        /\ UNCHANGED <<client, inbox, got, at, msg, toPostgres, toClient, tokens, txStatus,
                       queryInProgress, connOf>>
    BY <1>3 DEF Lose, clientVars, buffers, state
  <2>2. /\ d \in ConnRecords
        /\ Quiet(conns[c]) => Quiet(d)
        /\ ~d.alive
        /\ Streaming(conns[c]) => Streaming(d)
        /\ Relaying(conns[c]) => Relaying(d)
        /\ Collecting(conns[c]) => Collecting(d)
    BY <1>1, LostKeeps
  <2>3. \A s \in Sessions :
           Own(s, conns[c].todo) /\ Own(s, conns[c].replies) /\ Own(s, conns[c].held) =>
             Own(s, d.todo) /\ Own(s, d.replies) /\ Own(s, d.held)
    BY <1>1, LostKeeps
  <2> HIDE DEF d
  <2> QED BY <2>1, <2>2, <2>3, ConnStep
<1> QED BY <1>2, <1>3 DEF Postgres

-----------------------------------------------------------------------------
(* Theorems of the specification *)

LEMMA InitHolds == Init => IInv
<1> SUFFICES ASSUME Init
             PROVE  IInv
  OBVIOUS
<1> USE CapacityAssumption, ConnsAssumption
<1>1. << >> \in Seq(Kinds)
  OBVIOUS
<1>2. TypeOK
  BY <1>1, NoSequence, NewConnType DEF Init, TypeOK, Kinds
<1>3. ConnsExclusive /\ FreeConnsQuiet
  BY NewConnType DEF Init, ConnsExclusive, FreeConnsQuiet
<1>4. TokensCounted
  <2>1. TakenCalls = {}
    BY DEF Init, TakenCalls, Calls
  <2>2. IsFiniteSet({}) /\ Cardinality({}) = 0
    BY FS_EmptySet
  <2> QED BY <2>1, <2>2 DEF TokensCounted, Taken
<1>5. ASSUME NEW s \in Sessions
      PROVE  Phase(s) /\ OwnTraffic(s)
  BY EmptyFits DEF Init, Phase, NothingBuffered, OwnTraffic
<1> QED BY <1>2, <1>3, <1>4, <1>5 DEF IInv

LEMMA StutterHolds ==
  ASSUME IInv, UNCHANGED vars
  PROVE  IInv'
<1>1. /\ UNCHANGED <<client, inbox, got, at, msg, toPostgres, toClient, tokens, txStatus>>
      /\ UNCHANGED <<queryInProgress, connOf, conns>>
  BY DEF vars, clientVars, buffers, state
<1>2. TypeOK' /\ ConnsExclusive' /\ FreeConnsQuiet'
  BY <1>1 DEF IInv, TypeOK, ConnsExclusive, FreeConnsQuiet, Free
<1>3. TokensCounted'
  BY <1>1, TokensKept DEF IInv
<1>4. \A s \in Sessions : Phase(s)' /\ OwnTraffic(s)'
  BY <1>1, SameKeeps DEF IInv, Same
<1> QED BY <1>2, <1>3, <1>4 DEF IInv

LEMMA NextHolds ==
  ASSUME IInv, Next
  PROVE  IInv'
<1>1. ASSUME NEW s \in Sessions, Proxy(s)
      PROVE  IInv'
  BY <1>1, TakeConnStep, NoConnStep, ReceiveStep, ReceiveTerminateStep, ReceiveEndStep,
     EnqueueStep, RefuseStep, AdmitQueryStep, AdmitQueryLostStep, AdmitBatchStep, CollectStep,
     CollectLostStep, BufferStep, FinishStep, StreamLostStep, RelayLostStep, ReleaseStep,
     UnwindStep, ReleaseConnStep DEF Proxy
<1>2. ASSUME NEW s \in Sessions, Client(s)
      PROVE  IInv'
  BY <1>2, ConnectStep, SendStep, ReadStep, VanishStep, SeeClosedStep DEF Client
<1>3. ASSUME NEW c \in Conns, Postgres(c)
      PROVE  IInv'
  BY <1>3, PostgresStep
<1> QED BY <1>1, <1>2, <1>3 DEF Next

\* IInv is an inductive invariant of the sessions.
THEOREM SessionInvariant == Spec => []IInv
<1>1. IInv /\ [Next]_vars => IInv'
  BY NextHolds, StutterHolds
<1> QED BY InitHolds, <1>1, PTL DEF Spec

\* clientState, the buffers and the locals of the goroutines keep their types,
\* and no session ever holds more tokens than the semaphore has.
THEOREM SessionTypes == Spec => []TypeOK
<1>1. IInv => TypeOK
  BY DEF IInv
<1> QED BY SessionInvariant, <1>1, PTL

\* clientLoop: when a session takes the next request, the connection owes it
\* nothing, whatever was refused, lost or abandoned before.
THEOREM RepliesInStep == Spec => []InStep
<1>1. IInv => InStep
  <2> SUFFICES ASSUME IInv, NEW s \in Sessions, Between(s)
               PROVE  /\ toPostgres[s] = << >> /\ toClient[s] = << >>
                      /\ Conn(s).alive => Quiet(Conn(s))
    BY DEF InStep
  <2>1. NothingBuffered(s) /\ RequestDone(s)
    BY DEF IInv, Phase, Between, InAcquire
  <2> QED BY <2>1 DEF NothingBuffered, RequestDone
<1> QED BY SessionInvariant, <1>1, PTL

\* handleQuery and relayUntilReady: a client that was told ReadyForQuery has
\* no request under way.
THEOREM OneReadyPerRequest == Spec => []ReadyMeansReady
<1>1. IInv => ReadyMeansReady
  <2> SUFFICES ASSUME IInv, NEW s \in Sessions, client[s] = "ready",
                      at[s] \notin {"none", "unwind"}
               PROVE  /\ at[s] \in {"pool", "receive", "release"}
                      /\ inbox[s] = << >> /\ got[s] = << >>
    BY DEF ReadyMeansReady
  <2>1. Phase(s) /\ Rest(client[s]) = {} /\ Unread(client[s]) = {<< >>}
    BY DEF IInv, Rest, Unread
  <2>2. at[s] \notin {"acquire", "queued", "overflow", "collect", "stream", "relay"}
    BY <2>1 DEF Phase
  <2>3. at[s] \in {"pool", "receive", "release"}
    BY <2>2 DEF IInv, TypeOK
  <2> QED BY <2>1, <2>3 DEF Phase, Told
<1> QED BY SessionInvariant, <1>1, PTL

\* afterRelease, streamResponse and relayUntilReady: no client ever reads what
\* was meant for the previous user of its connection.
THEOREM OwnRepliesOnly == Spec => []NoForeignReplies
<1>1. IInv => NoForeignReplies
  BY DEF IInv, OwnTraffic, Own, NoForeignReplies
<1> QED BY SessionInvariant, <1>1, PTL

\* handleQuery: whenever a refusal reports a transaction status, it is that of
\* the connection.
THEOREM StatusReported == Spec => []TxStatusTrue
<1>1. IInv => TxStatusTrue
  BY DEF IInv, Phase, RequestDone, Between, InAcquire, TxStatusTrue
<1> QED BY SessionInvariant, <1>1, PTL

\* Acquire and its deferred Release: Postgres works for a client only while
\* the session holds a token.
THEOREM WorkUnderToken == Spec => []CoveredByToken
<1>1. IInv => CoveredByToken
  <2> SUFFICES ASSUME IInv, NEW s \in Sessions, connOf[s] # None, at[s] # "unwind",
                      ~Quiet(Conn(s))
               PROVE  tokens[s] > 0
    BY DEF CoveredByToken
  <2>1. Phase(s) /\ at[s] \notin {"none", "pool"}
    BY DEF IInv, ConnsExclusive
  <2>2. at[s] \notin {"receive", "acquire", "queued", "overflow", "release"}
    BY <2>1 DEF Phase, RequestDone
  <2>3. at[s] \in {"collect", "stream", "relay"}
    BY <2>1, <2>2 DEF IInv, TypeOK
  <2> QED BY <2>1, <2>3 DEF Phase
<1> QED BY SessionInvariant, <1>1, PTL

-----------------------------------------------------------------------------
(* The sessions use the semaphore as AdmissionControl wants it *)

LEMMA SameCardinality == \A S : Control!Cardinality(S) = Cardinality(S)
BY DEF Control!Cardinality, Cardinality

LEMMA CallCases ==
  ASSUME TypeOK, NEW call \in Calls
  PROVE  /\ CallStatus[call] = "granted" <=> call[2] <= tokens[call[1]]
         /\ CallStatus[call] = "waiting" <=>
              call[2] = tokens[call[1]] + 1 /\ at[call[1]] = "queued"
         /\ CallStatus[call] \in {"granted", "waiting", "refused", "idle"}
         /\ call[1] \in Sessions /\ call[2] \in 1 .. Capacity + 1
         /\ call = <<call[1], call[2]>> /\ tokens[call[1]] \in 0 .. Capacity
<1>1. /\ call[1] \in Sessions /\ call[2] \in 1 .. Capacity + 1
      /\ call = <<call[1], call[2]>> /\ tokens[call[1]] \in 0 .. Capacity
  BY DEF Calls, TypeOK
<1> QED BY <1>1, CapacityAssumption DEF CallStatus

\* Where a call of Acquire has asked and has no answer.
Pending == {"queued", "overflow"}

LEMMA GrantedAreTaken == ASSUME TypeOK PROVE Control!Granted = TakenCalls
BY CallCases DEF Control!Granted, TakenCalls

\* Steps that neither ask for a token nor get or return one.
LEMMA CallsUnchanged ==
  ASSUME TypeOK, tokens' = tokens,
         \A s \in Sessions : at'[s] = at[s] \/ {at[s], at'[s]} \cap Pending = {}
  PROVE  UNCHANGED CallStatus
<1>1. \A call \in Calls :
        /\ call[1] \in Sessions
        /\ at'[call[1]] = "queued" <=> at[call[1]] = "queued"
        /\ at'[call[1]] = "overflow" <=> at[call[1]] = "overflow"
  BY DEF Calls, Pending
<1> QED BY <1>1 DEF CallStatus, Calls

\* Of the calls of s, one changes.
LEMMA CallChanges ==
  ASSUME TypeOK, TypeOK', NEW s \in Sessions, NEW k \in 1 .. Capacity + 1, NEW st,
         \A t \in Sessions \ {s} : tokens'[t] = tokens[t] /\ at'[t] = at[t],
         CallStatus'[<<s, k>>] = st,
         \A n \in 1 .. Capacity + 1 : n # k => CallStatus'[<<s, n>>] = CallStatus[<<s, n>>]
  PROVE  /\ <<s, k>> \in Calls
         /\ CallStatus' = [CallStatus EXCEPT ![<<s, k>>] = st]
         /\ {} \in SUBSET Control!Waiting
         /\ CallStatus' = [Control!Refusing({}) EXCEPT ![<<s, k>>] = st]
<1>1. <<s, k>> \in Calls
  BY DEF Calls
<1>2. ASSUME NEW call \in Calls, call # <<s, k>>
      PROVE  CallStatus'[call] = CallStatus[call]
  <2>1. call[1] \in Sessions /\ call[2] \in 1 .. Capacity + 1 /\ call = <<call[1], call[2]>>
    BY DEF Calls
  <2>2. CASE call[1] = s
    BY <1>2, <2>1, <2>2
  <2>3. CASE call[1] # s
    <3>1. tokens'[call[1]] = tokens[call[1]] /\ at'[call[1]] = at[call[1]]
      BY <2>1, <2>3
    <3> QED BY <3>1 DEF CallStatus, Calls
  <2> QED BY <2>2, <2>3
<1>3. CallStatus' = [CallStatus EXCEPT ![<<s, k>>] = st]
  <2> DEFINE f == CallStatus
             g == CallStatus'
  <2>1. f = [call \in Calls |-> f[call]] /\ g = [call \in Calls |-> g[call]]
    BY DEF CallStatus, Calls
  <2>2. g[<<s, k>>] = st /\ \A call \in Calls : call # <<s, k>> => g[call] = f[call]
    BY <1>2
  <2> HIDE DEF f, g
  <2>3. g = [f EXCEPT ![<<s, k>>] = st]
    BY <1>1, <2>1, <2>2
  <2> QED BY <2>3 DEF f, g
<1>4. Control!Refusing({}) = CallStatus
  BY DEF Control!Refusing, CallStatus
<1> QED BY <1>1, <1>3, <1>4

LEMMA EnqueueAsks ==
  ASSUME TypeOK, TypeOK', NEW s \in Sessions, Enqueue(s)
  PROVE  \E call \in Calls : Control!Ask(call)
<1> DEFINE k == tokens[s] + 1
<1>1. /\ at[s] = "acquire" /\ at'[s] \in Pending /\ tokens' = tokens
      /\ \A t \in Sessions \ {s} : at'[t] = at[t]
  BY DEF Enqueue, Go, TypeOK, Pending
<1>2. k \in 1 .. Capacity + 1
  BY CapacityAssumption DEF TypeOK
<1>3. /\ CallStatus[<<s, k>>] = "idle" /\ CallStatus'[<<s, k>>] \in {"waiting", "refused"}
      /\ \A n \in 1 .. Capacity + 1 : n # k => CallStatus'[<<s, n>>] = CallStatus[<<s, n>>]
  BY <1>1, <1>2, CapacityAssumption DEF CallStatus, Calls, TypeOK, Pending
<1> HIDE DEF k
<1>4. PICK st \in {"waiting", "refused"} : CallStatus'[<<s, k>>] = st
  BY <1>3
<1>5. /\ <<s, k>> \in Calls /\ {} \in SUBSET Control!Waiting
      /\ CallStatus' = [Control!Refusing({}) EXCEPT ![<<s, k>>] = st]
  BY <1>1, <1>2, <1>3, <1>4, CallChanges
<1> QED BY <1>3, <1>5 DEF Control!Ask

LEMMA RefuseLeaves ==
  ASSUME TypeOK, TypeOK', NEW s \in Sessions, Refuse(s)
  PROVE  \E call \in Calls : Control!Leave(call)
<1> DEFINE k == tokens[s] + 1
<1>1. /\ at[s] = "queued" /\ at'[s] \notin Pending /\ tokens' = tokens
      /\ \A t \in Sessions \ {s} : at'[t] = at[t]
  BY DEF Refuse, Go, TypeOK, Pending
<1>2. k \in 1 .. Capacity + 1
  BY CapacityAssumption DEF TypeOK
<1>3. /\ CallStatus[<<s, k>>] = "waiting" /\ CallStatus'[<<s, k>>] = "idle"
      /\ \A n \in 1 .. Capacity + 1 : n # k => CallStatus'[<<s, n>>] = CallStatus[<<s, n>>]
  BY <1>1, <1>2, CapacityAssumption DEF CallStatus, Calls, TypeOK, Pending
<1> HIDE DEF k
<1>4. /\ <<s, k>> \in Calls
      /\ CallStatus' = [CallStatus EXCEPT ![<<s, k>>] = "idle"]
  BY <1>1, <1>2, <1>3, CallChanges
<1> QED BY <1>3, <1>4 DEF Control!Leave

\* At once if nobody is queued, or from the queue.
LEMMA AdmitGrants ==
  ASSUME TypeOK, TypeOK', TokensCounted, NEW s \in Sessions, Admit(s), at'[s] \notin Pending,
         \A t \in Sessions \ {s} : at'[t] = at[t]
  PROVE  \E call \in Calls : Control!Grant(call) \/ Control!GrantAtOnce(call)
<1> DEFINE k == tokens[s] + 1
<1>1. /\ at[s] \in {"acquire", "queued"} /\ Taken < Capacity
      /\ at[s] = "acquire" => Queued = {}
      /\ tokens'[s] = tokens[s] + 1 /\ \A t \in Sessions \ {s} : tokens'[t] = tokens[t]
  BY TokenAdded DEF Admit
<1>2. k \in 1 .. Capacity + 1
  BY CapacityAssumption DEF TypeOK
<1>3. /\ CallStatus[<<s, k>>] = (IF at[s] = "queued" THEN "waiting" ELSE "idle")
      /\ CallStatus'[<<s, k>>] = "granted"
      /\ \A n \in 1 .. Capacity + 1 : n # k => CallStatus'[<<s, n>>] = CallStatus[<<s, n>>]
  BY <1>1, <1>2, CapacityAssumption DEF CallStatus, Calls, TypeOK, Pending
<1> HIDE DEF k
<1>4. /\ <<s, k>> \in Calls
      /\ CallStatus' = [CallStatus EXCEPT ![<<s, k>>] = "granted"]
  BY <1>1, <1>2, <1>3, CallChanges
<1>5. Control!Cardinality(Control!Granted) < Capacity
  BY <1>1, GrantedAreTaken, SameCardinality DEF Taken
<1>6. CASE at[s] = "queued"
  <2>1. \A call \in Control!Waiting :
          [c \in Calls |-> 0][call] >= [c \in Calls |-> 0][<<s, k>>]
    BY <1>4 DEF Control!Waiting
  <2> QED BY <1>3, <1>4, <1>5, <1>6, <2>1 DEF Control!Grant
<1>7. CASE at[s] = "acquire"
  <2>1. Control!Waiting = {}
    BY <1>1, <1>7, CallCases DEF Control!Waiting, Queued
  <2> QED BY <1>3, <1>4, <1>5, <1>7, <2>1 DEF Control!GrantAtOnce
<1> QED BY <1>1, <1>6, <1>7

LEMMA TokenReturns ==
  ASSUME TypeOK, TypeOK', TokensCounted, NEW s \in Sessions, tokens[s] > 0,
         tokens' = [tokens EXCEPT ![s] = @ - 1], at[s] \notin Pending, at'[s] \notin Pending,
         \A t \in Sessions \ {s} : at'[t] = at[t]
  PROVE  \E call \in Calls : Control!Return(call)
<1> DEFINE k == tokens[s]
<1>1. tokens'[s] = tokens[s] - 1 /\ \A t \in Sessions \ {s} : tokens'[t] = tokens[t]
  BY TokenReturned
<1>2. k \in 1 .. Capacity + 1
  BY CapacityAssumption DEF TypeOK
<1>3. /\ CallStatus[<<s, k>>] = "granted" /\ CallStatus'[<<s, k>>] = "idle"
      /\ \A n \in 1 .. Capacity + 1 : n # k => CallStatus'[<<s, n>>] = CallStatus[<<s, n>>]
  BY <1>1, <1>2, CapacityAssumption DEF CallStatus, Calls, TypeOK, Pending
<1> HIDE DEF k
<1>4. /\ <<s, k>> \in Calls /\ {} \in SUBSET Control!Waiting
      /\ CallStatus' = [Control!Refusing({}) EXCEPT ![<<s, k>>] = "idle"]
  BY <1>1, <1>2, <1>3, CallChanges
<1> QED BY <1>3, <1>4 DEF Control!Return

LEMMA ControlStep ==
  ASSUME IInv, IInv', [Next]_vars
  PROVE  [Control!Next]_CallStatus
<1> USE DEF IInv
<1>1. CASE UNCHANGED vars
  BY <1>1, CallsUnchanged DEF vars
<1>2. ASSUME NEW s \in Sessions, Proxy(s)
      PROVE  [Control!Next]_CallStatus
  <2>1. CASE Enqueue(s)
    BY <2>1, EnqueueAsks DEF Control!Next
  <2>2. CASE Refuse(s)
    BY <2>2, RefuseLeaves DEF Control!Next
  <2>3. CASE AdmitQuery(s) \/ AdmitQueryLost(s) \/ AdmitBatch(s)
    <3>1. /\ Admit(s) /\ at'[s] \notin Pending /\ \A t \in Sessions \ {s} : at'[t] = at[t]
      BY <2>3 DEF AdmitQuery, AdmitQueryLost, AdmitBatch, Forward, Go, TypeOK, Pending
    <3> QED BY <3>1, AdmitGrants DEF Control!Next
  <2>4. CASE Release(s) \/ Unwind(s)
    <3>1. /\ tokens[s] > 0 /\ tokens' = [tokens EXCEPT ![s] = @ - 1]
          /\ at[s] \notin Pending /\ at'[s] \notin Pending
          /\ \A t \in Sessions \ {s} : at'[t] = at[t]
      BY <2>4 DEF Release, Unwind, Phase, Go, TypeOK, Pending
    <3> QED BY <3>1, TokenReturns DEF Control!Next
  <2>5. CASE \/ TakeConn(s) \/ NoConn(s) \/ Receive(s) \/ ReceiveTerminate(s)
             \/ ReceiveEnd(s) \/ Collect(s)
    <3>1. /\ tokens' = tokens
          /\ \A t \in Sessions : at'[t] = at[t] \/ {at[t], at'[t]} \cap Pending = {}
      BY <2>5
      DEF TakeConn, NoConn, Receive, ReceiveTerminate, ReceiveEnd, Collect, Forward,
          Go, TypeOK, Pending
    <3> QED BY <3>1, CallsUnchanged
  <2>6. CASE CollectLost(s) \/ Stream(s) \/ StreamReady(s) \/ StreamLost(s)
    <3>1. /\ tokens' = tokens
          /\ \A t \in Sessions : at'[t] = at[t] \/ {at[t], at'[t]} \cap Pending = {}
      BY <2>6
      DEF CollectLost, Stream, Buffer, StreamReady, Finish, StreamLost, NextReply, ReadLost,
          Go, TypeOK, Pending
    <3> QED BY <3>1, CallsUnchanged
  <2>7. CASE Relay(s) \/ RelayReady(s) \/ RelayLost(s) \/ ReleaseConn(s)
    <3>1. /\ tokens' = tokens
          /\ \A t \in Sessions : at'[t] = at[t] \/ {at[t], at'[t]} \cap Pending = {}
      BY <2>7
      DEF Relay, Buffer, RelayReady, Finish, RelayLost, NextReply, ReadLost, ReleaseConn,
          Go, TypeOK, Pending
    <3> QED BY <3>1, CallsUnchanged
  <2> QED BY <1>2, <2>1, <2>2, <2>3, <2>4, <2>5, <2>6, <2>7 DEF Proxy
<1>3. ASSUME NEW s \in Sessions, Client(s)
      PROVE  UNCHANGED CallStatus
  <2>1. /\ tokens' = tokens
        /\ \A t \in Sessions : at'[t] = at[t] \/ {at[t], at'[t]} \cap Pending = {}
    BY <1>3 DEF Client, Connect, Send, Read, Vanish, SeeClosed, Go, TypeOK, Pending
  <2> QED BY <2>1, CallsUnchanged
<1>4. ASSUME NEW c \in Conns, Postgres(c)
      PROVE  UNCHANGED CallStatus
  <2>1. tokens' = tokens /\ at' = at
    BY <1>4 DEF Postgres, Handle, Lose
  <2> QED BY <2>1, CallsUnchanged
<1> QED BY <1>1, <1>2, <1>3, <1>4 DEF Next

\* handleQuery and relayUntilReady use Acquire and Release as the semaphore
\* requires: whatever path a request takes, its token is given back once, and
\* only after it was granted.
THEOREM SemaphoreUsedRight == Spec => FollowsAdmissionControl
<1>1. Init => Control!Init
  <2> SUFFICES ASSUME Init
               PROVE  Control!Init
    OBVIOUS
  <2>1. ASSUME NEW call \in Calls
        PROVE  CallStatus[call] = "idle"
    BY DEF Init, CallStatus, Calls
  <2>2. CallStatus = [call \in Calls |-> "idle"]
    BY <2>1 DEF CallStatus
  <2> QED BY <2>2 DEF Control!Init
<1>2. IInv /\ IInv' /\ [Next]_vars => [Control!Next]_CallStatus
  BY ControlStep
<1> QED BY SessionInvariant, <1>1, <1>2, PTL
        DEF Spec, FollowsAdmissionControl, Control!Spec
=============================================================================
