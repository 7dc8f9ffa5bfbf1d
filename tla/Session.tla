------------------------------ MODULE Session ------------------------------
(***************************************************************************)
(* proxy/proxy.go: the goroutine of each client after its authentication   *)
(* (the rest of handleClient, clientLoop, handleQuery, relayUntilReady and *)
(* streamResponse), between the client and a connection of one pool.       *)
(*                                                                         *)
(* The semaphore is what AdmissionControl promises, seen from one tier,    *)
(* that of the user of the pool: at most Capacity tokens, a queue that may *)
(* be full, and a request that is queued may be refused at any time.       *)
(* Client and Postgres are external.  A client keeps to the protocol: it   *)
(* sends a request, a simple query or a batch of extended messages that    *)
(* ends in Sync, when it was told ReadyForQuery; it may vanish any time.   *)
(***************************************************************************)
EXTENDS PooledConn, FiniteSets

CONSTANTS
  Conns,     \* the connections of the pool (max_conns)
  Capacity,  \* tokens of the semaphore (max_concurrent)
  QueueSize, \* queue_size of the tier
  Sends,     \* bound: the kinds of message that the clients send
  MayLose,   \* bound: whether connections to Postgres may be lost
  None       \* no connection

ASSUME ConnsAssumption == None \notin Conns
ASSUME CapacityAssumption == Capacity \in Nat \ {0}
ASSUME QueueSizeAssumption == QueueSize \in Nat \ {0}
ASSUME SendsAssumption == Sends \subseteq Kinds
ASSUME MayLoseAssumption == MayLose \in BOOLEAN

VARIABLES
  client,      \* what each client is doing
  inbox,       \* what it sent and the proxy has not read
  got,         \* what was flushed to it and it has not read
  at,          \* where the goroutine of the client is
  msg,         \* the message it is handling
  toPostgres,  \* write buffer of `frontend'
  toClient,    \* write buffer of `backend'
  tokens,      \* tokens it has acquired and not released
  txStatus, queryInProgress,  \* of clientState
  connOf,      \* the connection it holds
  conns        \* the connections

clientVars == <<client, inbox, got>>
buffers == <<toPostgres, toClient>>
state == <<txStatus, queryInProgress>>
vars == <<clientVars, at, msg, buffers, tokens, state, connOf, conns>>

Conn(s) == conns[connOf[s]]

IsQuery(kind) == kind \in {"Query", "Copy"}

\* The k-th token of a session is the k-th call of Acquire not yet released.
Calls == Sessions \X (1 .. Capacity + 1)

TakenCalls == {call \in Calls : call[2] <= tokens[call[1]]}

Taken == Cardinality(TakenCalls)

\* In Acquire: called, in the queue of the tier, or pushed on it when full.
InAcquire(s) == at[s] \in {"acquire", "queued", "overflow"}

Queued == {s \in Sessions : at[s] = "queued"}

Init ==
  /\ client = [s \in Sessions |-> "out"]
  /\ inbox = [s \in Sessions |-> << >>]
  /\ got = [s \in Sessions |-> << >>]
  /\ at = [s \in Sessions |-> "none"]
  /\ msg = [s \in Sessions |-> "Query"]
  /\ toPostgres = [s \in Sessions |-> << >>]
  /\ toClient = [s \in Sessions |-> << >>]
  /\ tokens = [s \in Sessions |-> 0]
  /\ txStatus = [s \in Sessions |-> Nil]
  /\ queryInProgress = [s \in Sessions |-> FALSE]
  /\ connOf = [s \in Sessions |-> None]
  /\ conns = [c \in Conns |-> NewConn]

\* Frequent effects.
Go(s, place) == at' = [at EXCEPT ![s] = place]
SetInProgress(s, b) == queryInProgress' = [queryInProgress EXCEPT ![s] = b]

\* Send more and flush: the client gets it unless it is gone.
FlushToClient(s, more) ==
  /\ got' = IF client[s] = "gone" THEN got
            ELSE [got EXCEPT ![s] = @ \o toClient[s] \o more]
  /\ toClient' = [toClient EXCEPT ![s] = << >>]

FlushToPostgres(s, more) ==
  /\ conns' = [conns EXCEPT ![connOf[s]] = Sent(@, toPostgres[s] \o more)]
  /\ toPostgres' = [toPostgres EXCEPT ![s] = << >>]

-----------------------------------------------------------------------------
(* handleClient *)

\* A client is accepted and authenticated, and told ReadyForQuery, before it
\* has a connection.
Connect(s) ==
  /\ at[s] = "none" /\ client[s] = "out"
  /\ client' = [client EXCEPT ![s] = "ready"]
  /\ Go(s, "pool")
  /\ txStatus' = [txStatus EXCEPT ![s] = Nil]
  /\ SetInProgress(s, FALSE)
  /\ UNCHANGED <<inbox, got, msg, buffers, tokens, connOf, conns>>

\* WithConn: the session keeps the connection until it ends.
TakeConn(s) ==
  /\ at[s] = "pool"
  /\ \E c \in Conns :
       /\ \A t \in Sessions : connOf[t] # c
       /\ connOf' = [connOf EXCEPT ![s] = c]
  /\ Go(s, "receive")
  /\ UNCHANGED <<clientVars, msg, buffers, tokens, state, conns>>

\* Acquire of the pool fails: it can make no connection.
NoConn(s) ==
  /\ MayLose
  /\ at[s] = "pool"
  /\ FlushToClient(s, <<Reply(s, "Error"), Ready(s, "I")>>)
  /\ inbox' = [inbox EXCEPT ![s] = << >>]
  /\ Go(s, "none")
  /\ UNCHANGED <<client, msg, toPostgres, tokens, state, connOf, conns>>

-----------------------------------------------------------------------------
(* clientLoop and handleQuery *)

Receive(s) ==
  /\ at[s] = "receive"
  /\ inbox[s] # << >> /\ Head(inbox[s]) # "Terminate"
  /\ msg' = [msg EXCEPT ![s] = Head(inbox[s])]
  /\ inbox' = [inbox EXCEPT ![s] = Tail(@)]
  /\ Go(s, "acquire")
  /\ UNCHANGED <<client, got, buffers, tokens, state, connOf, conns>>

ReceiveTerminate(s) ==
  /\ at[s] = "receive"
  /\ inbox[s] # << >> /\ Head(inbox[s]) = "Terminate"
  /\ inbox' = [inbox EXCEPT ![s] = Tail(@)]
  /\ FlushToPostgres(s, <<Message(s, "Terminate")>>)
  /\ Go(s, "unwind")
  /\ UNCHANGED <<client, got, msg, toClient, tokens, state, connOf>>

\* Mutant of ReceiveEnd: the loop inside a batch ignores the error.
ReceiveEndBetween(s) ==
  /\ at[s] = "receive"
  /\ client[s] = "gone" /\ inbox[s] = << >>
  /\ Go(s, "unwind")
  /\ UNCHANGED <<clientVars, msg, buffers, tokens, state, connOf, conns>>

\* The client is gone: noticed only where the goroutine reads from it.
ReceiveEnd(s) ==
  /\ at[s] \in {"receive", "collect"}
  /\ client[s] = "gone" /\ inbox[s] = << >>
  /\ IF at[s] = "collect" THEN SetInProgress(s, FALSE) ELSE UNCHANGED queryInProgress
  /\ Go(s, "unwind")
  /\ UNCHANGED <<clientVars, msg, buffers, tokens, txStatus, connOf, conns>>

\* Acquire finds no token, or finds debts or requests of other tiers before its
\* own.  The waiter that finds the queue full is in no queue, and nobody will
\* answer it: no action leaves "overflow", since the context ends only when
\* handleClient returns.
Enqueue(s) ==
  /\ at[s] = "acquire"
  /\ Go(s, IF Cardinality(Queued) < QueueSize THEN "queued" ELSE "overflow")
  /\ UNCHANGED <<clientVars, msg, buffers, tokens, state, connOf, conns>>

\* Mutant of Refuse: the return is missing.
RefuseWithoutReturn(s) ==
  /\ at[s] = "queued"
  /\ FlushToClient(s, <<Reply(s, "Error"), Ready(s, txStatus[s])>>)
  /\ FlushToPostgres(s, <<Message(s, msg[s])>>)
  /\ Go(s, IF IsQuery(msg[s]) THEN "stream" ELSE "unwind")
  /\ UNCHANGED <<client, inbox, msg, tokens, state, connOf>>

\* The waiter is reaped, and Acquire returns ErrRejected.
Refuse(s) ==
  /\ at[s] = "queued"
  /\ FlushToClient(s, <<Reply(s, "Error"), Ready(s, txStatus[s])>>)
  /\ Go(s, IF IsQuery(msg[s]) THEN "receive" ELSE "unwind")
  /\ UNCHANGED <<client, inbox, msg, toPostgres, tokens, state, connOf, conns>>

\* Mutant of Admit: a newcomer gets a token before those who are queued.
AdmitOvertaking(s) ==
  /\ at[s] \in {"acquire", "queued"}
  /\ Taken < Capacity
  /\ tokens' = [tokens EXCEPT ![s] = @ + 1]

\* Acquire returns nil: at once if nobody is queued, or when the waiter is popped.
Admit(s) ==
  /\ at[s] \in {"acquire", "queued"}
  /\ at[s] = "acquire" => Queued = {}
  /\ Taken < Capacity
  /\ tokens' = [tokens EXCEPT ![s] = @ + 1]

\* Mutant of AdmitQuery: the query goes out without a token.
AdmitQueryWithoutToken(s) ==
  /\ at[s] \in {"acquire", "queued"} /\ IsQuery(msg[s])
  /\ SetInProgress(s, TRUE)
  /\ FlushToPostgres(s, <<Message(s, msg[s])>>)
  /\ Go(s, "stream")
  /\ UNCHANGED <<clientVars, msg, toClient, tokens, txStatus, connOf>>

\* The flush to a lost connection may fail, or succeed in vain.
AdmitQuery(s) ==
  /\ Admit(s) /\ IsQuery(msg[s])
  /\ SetInProgress(s, TRUE)
  /\ FlushToPostgres(s, <<Message(s, msg[s])>>)
  /\ Go(s, "stream")
  /\ UNCHANGED <<clientVars, msg, toClient, txStatus, connOf>>

AdmitQueryLost(s) ==
  /\ Admit(s) /\ IsQuery(msg[s])
  /\ ~Conn(s).alive
  /\ SetInProgress(s, FALSE)
  /\ FlushToClient(s, <<Reply(s, "Error")>>)
  /\ Go(s, "release")
  /\ UNCHANGED <<client, inbox, msg, toPostgres, txStatus, connOf, conns>>

\* One round of the loop that forwards a batch up to its Sync.
Forward(s, kind) ==
  /\ IF kind \in {"Flush", "Sync"}
     THEN FlushToPostgres(s, <<Message(s, kind)>>)
     ELSE /\ toPostgres' = [toPostgres EXCEPT ![s] = Append(@, Message(s, kind))]
          /\ UNCHANGED conns
  /\ Go(s, IF kind = "Sync" THEN "relay" ELSE "collect")

AdmitBatch(s) ==
  /\ Admit(s) /\ ~IsQuery(msg[s])
  /\ SetInProgress(s, TRUE)
  /\ Forward(s, msg[s])
  /\ UNCHANGED <<clientVars, msg, toClient, txStatus, connOf>>

Collect(s) ==
  /\ at[s] = "collect"
  /\ inbox[s] # << >>
  /\ inbox' = [inbox EXCEPT ![s] = Tail(@)]
  /\ Forward(s, Head(inbox[s]))
  /\ UNCHANGED <<client, got, msg, toClient, tokens, state, connOf>>

\* The flush of a Sync fails.
CollectLost(s) ==
  /\ at[s] = "collect"
  /\ inbox[s] # << >> /\ Head(inbox[s]) = "Sync"
  /\ ~Conn(s).alive
  /\ inbox' = [inbox EXCEPT ![s] = Tail(@)]
  /\ FlushToClient(s, <<Reply(s, "Error")>>)
  /\ SetInProgress(s, FALSE)
  /\ Go(s, "unwind")
  /\ UNCHANGED <<client, msg, toPostgres, tokens, txStatus, connOf, conns>>

\* Mutant of Release: handleQuery releases by hand as well.
ReleaseTwice(s) ==
  /\ at[s] = "release"
  /\ tokens' = [tokens EXCEPT ![s] = @ - 2]
  /\ Go(s, "receive")
  /\ UNCHANGED <<clientVars, msg, buffers, state, connOf, conns>>

\* The deferred Release of handleQuery.
Release(s) ==
  /\ at[s] = "release"
  /\ tokens' = [tokens EXCEPT ![s] = @ - 1]
  /\ Go(s, "receive")
  /\ UNCHANGED <<clientVars, msg, buffers, state, connOf, conns>>

\* clientLoop returns: the Releases that its batches have deferred, ...
Unwind(s) ==
  /\ at[s] = "unwind"
  /\ tokens[s] > 0
  /\ tokens' = [tokens EXCEPT ![s] = @ - 1]
  /\ UNCHANGED <<clientVars, at, msg, buffers, state, connOf, conns>>

\* ... then the Release of the connection, and appConn.Close.
ReleaseConn(s) ==
  /\ at[s] = "unwind"
  /\ tokens[s] = 0
  /\ \E c \in AfterRelease(Conn(s)) : conns' = [conns EXCEPT ![connOf[s]] = c]
  /\ connOf' = [connOf EXCEPT ![s] = None]
  /\ inbox' = [inbox EXCEPT ![s] = << >>]
  /\ toPostgres' = [toPostgres EXCEPT ![s] = << >>]
  /\ toClient' = [toClient EXCEPT ![s] = << >>]
  /\ Go(s, "none")
  /\ UNCHANGED <<client, got, msg, tokens, state>>

-----------------------------------------------------------------------------
(* streamResponse and relayUntilReady *)

NextReply(s, place) == at[s] = place /\ Conn(s).replies # << >>

TakeReply(s) == conns' = [conns EXCEPT ![connOf[s]].replies = Tail(@)]

\* Any reply but the last one is buffered.
Buffer(s, place) ==
  /\ NextReply(s, place)
  /\ Head(Conn(s).replies).what # "Ready"
  /\ TakeReply(s)
  /\ toClient' = [toClient EXCEPT ![s] = Append(@, Head(Conn(s).replies))]
  /\ UNCHANGED <<clientVars, at, msg, toPostgres, tokens, state, connOf>>

\* Mutants of Finish: only handleQuery keeps the status, nothing is flushed.
FinishForgettingBatches(s, place) ==
  /\ NextReply(s, place)
  /\ Head(Conn(s).replies).what = "Ready"
  /\ TakeReply(s)
  /\ txStatus' = IF place = "stream"
                 THEN [txStatus EXCEPT ![s] = Head(Conn(s).replies).tx]
                 ELSE txStatus
  /\ FlushToClient(s, <<Head(Conn(s).replies)>>)
  /\ UNCHANGED <<client, inbox, msg, toPostgres, tokens, connOf>>

FinishWithoutFlush(s, place) ==
  /\ NextReply(s, place)
  /\ Head(Conn(s).replies).what = "Ready"
  /\ TakeReply(s)
  /\ txStatus' = [txStatus EXCEPT ![s] = Head(Conn(s).replies).tx]
  /\ toClient' = [toClient EXCEPT ![s] = Append(@, Head(Conn(s).replies))]
  /\ UNCHANGED <<clientVars, msg, toPostgres, tokens, connOf>>

\* ReadyForQuery ends the response: everything is flushed.
Finish(s, place) ==
  /\ NextReply(s, place)
  /\ Head(Conn(s).replies).what = "Ready"
  /\ TakeReply(s)
  /\ txStatus' = [txStatus EXCEPT ![s] = Head(Conn(s).replies).tx]
  /\ FlushToClient(s, <<Head(Conn(s).replies)>>)
  /\ UNCHANGED <<client, inbox, msg, toPostgres, tokens, connOf>>

ReadLost(s, place) == at[s] = place /\ ~Conn(s).alive /\ Conn(s).replies = << >>

Stream(s) == Buffer(s, "stream")

\* Mutant of StreamReady: CommandComplete is taken for the end.
StreamComplete(s) ==
  /\ NextReply(s, "stream")
  /\ Head(Conn(s).replies).what = "Result"
  /\ TakeReply(s)
  /\ FlushToClient(s, <<Head(Conn(s).replies)>>)
  /\ SetInProgress(s, FALSE)
  /\ Go(s, "release")
  /\ UNCHANGED <<client, inbox, msg, toPostgres, tokens, txStatus, connOf>>

StreamReady(s) ==
  /\ Finish(s, "stream")
  /\ SetInProgress(s, FALSE)
  /\ Go(s, "release")

StreamLost(s) ==
  /\ ReadLost(s, "stream")
  /\ FlushToClient(s, <<Reply(s, "Error")>>)
  /\ SetInProgress(s, FALSE)
  /\ Go(s, "release")
  /\ UNCHANGED <<client, inbox, msg, toPostgres, tokens, txStatus, connOf, conns>>

Relay(s) == Buffer(s, "relay")

RelayReady(s) ==
  /\ Finish(s, "relay")
  /\ Go(s, "receive")
  /\ UNCHANGED queryInProgress

RelayLost(s) ==
  /\ ReadLost(s, "relay")
  /\ Go(s, "unwind")
  /\ UNCHANGED <<clientVars, msg, buffers, tokens, state, connOf, conns>>

-----------------------------------------------------------------------------
(* The clients and Postgres *)

\* What a client may send next, and what it does then.
MaySend ==
  {<<"ready", "Query", "awaiting">>, <<"ready", "Copy", "awaiting">>,
   <<"ready", "Execute", "batch">>, <<"ready", "Terminate", "gone">>,
   <<"batch", "Flush", "listening">>, <<"batch", "Sync", "awaiting">>,
   <<"flushed", "Sync", "awaiting">>}

Send(s) ==
  /\ at[s] # "none"
  /\ \E step \in MaySend :
       /\ step[1] = client[s] /\ step[2] \in Sends
       /\ inbox' = [inbox EXCEPT ![s] = Append(@, step[2])]
       /\ client' = [client EXCEPT ![s] = step[3]]
  /\ UNCHANGED <<got, at, msg, buffers, tokens, state, connOf, conns>>

\* A client that awaits the end of a request is ready for the next one; one
\* that sent Flush to see a result goes on with its batch.
Read(s) ==
  /\ got[s] # << >>
  /\ got' = [got EXCEPT ![s] = Tail(@)]
  /\ client' = [client EXCEPT ![s] =
       CASE @ = "awaiting" /\ Head(got[s]).what = "Ready" -> "ready"
         [] @ = "listening" /\ Head(got[s]).what = "Result" -> "flushed"
         [] OTHER -> @]
  /\ UNCHANGED <<inbox, at, msg, buffers, tokens, state, connOf, conns>>

Vanish(s) ==
  /\ client[s] \notin {"out", "gone"}
  /\ client' = [client EXCEPT ![s] = "gone"]
  /\ got' = [got EXCEPT ![s] = << >>]
  /\ UNCHANGED <<inbox, at, msg, buffers, tokens, state, connOf, conns>>

\* The client sees that its connection is closed; another one may come.
SeeClosed(s) ==
  /\ at[s] = "none"
  /\ client[s] # "out" /\ got[s] = << >>
  /\ client' = [client EXCEPT ![s] = "out"]
  /\ UNCHANGED <<inbox, got, at, msg, buffers, tokens, state, connOf, conns>>

Handle(c) ==
  /\ conns[c].alive /\ conns[c].todo # << >>
  /\ \E d \in Handled(conns[c]) : conns' = [conns EXCEPT ![c] = d]
  /\ UNCHANGED <<clientVars, at, msg, buffers, tokens, state, connOf>>

Lose(c) ==
  /\ MayLose
  /\ conns[c].alive
  /\ conns' = [conns EXCEPT ![c] = Lost(@)]
  /\ UNCHANGED <<clientVars, at, msg, buffers, tokens, state, connOf>>

-----------------------------------------------------------------------------

Proxy(s) ==
  \/ TakeConn(s) \/ NoConn(s)
  \/ Receive(s) \/ ReceiveTerminate(s) \/ ReceiveEnd(s)
  \/ Enqueue(s) \/ Refuse(s) \/ AdmitQuery(s) \/ AdmitQueryLost(s) \/ AdmitBatch(s)
  \/ Collect(s) \/ CollectLost(s)
  \/ Stream(s) \/ StreamReady(s) \/ StreamLost(s)
  \/ Relay(s) \/ RelayReady(s) \/ RelayLost(s)
  \/ Release(s) \/ Unwind(s) \/ ReleaseConn(s)

Client(s) == Connect(s) \/ Send(s) \/ Read(s) \/ Vanish(s) \/ SeeClosed(s)

Postgres(c) == Handle(c) \/ Lose(c)

Next ==
  \/ \E s \in Sessions : Proxy(s) \/ Client(s)
  \/ \E c \in Conns : Postgres(c)

Spec == Init /\ [][Next]_vars

\* Goroutines that can go on do, clients read what they get, and Postgres
\* handles what it is sent.  Nobody has to send anything or to disconnect.  A
\* request that is queued is answered (QueuedCallersAnswered of Semaphore); one
\* that has overflowed the queue has no step to be fair to.
Fairness ==
  /\ \A s \in Sessions : WF_vars(Proxy(s)) /\ WF_vars(Read(s)) /\ WF_vars(SeeClosed(s))
  /\ \A c \in Conns : WF_vars(Handle(c))

FairSpec == Spec /\ Fairness

-----------------------------------------------------------------------------
(* Properties *)

\* Types of clientState, of the buffers and of the locals of the goroutines.
TypeOK ==
  /\ client \in [Sessions -> {"out", "ready", "batch", "listening", "flushed",
                              "awaiting", "gone"}]
  /\ inbox \in [Sessions -> Seq(Kinds)]
  /\ got \in [Sessions -> Seq(Replies)]
  /\ at \in [Sessions -> {"none", "pool", "receive", "acquire", "queued", "overflow",
                          "collect", "stream", "relay", "release", "unwind"}]
  /\ msg \in [Sessions -> Kinds]
  /\ toPostgres \in [Sessions -> Seq(Messages)]
  /\ toClient \in [Sessions -> Seq(Replies)]
  /\ tokens \in [Sessions -> 0 .. Capacity]
  /\ txStatus \in [Sessions -> TxStatuses \cup {Nil}]
  /\ queryInProgress \in [Sessions -> BOOLEAN]
  /\ connOf \in [Sessions -> Conns \cup {None}]
  /\ conns \in [Conns -> ConnRecords]

\* The session is between two requests of its client.
Between(s) == at[s] = "receive" \/ InAcquire(s)

\* Between two requests Postgres has nothing to say any more, whatever was
\* refused, lost or abandoned before: no reply is left over that the next
\* request would take for its own.
InStep ==
  \A s \in Sessions : Between(s) =>
    /\ toPostgres[s] = << >> /\ toClient[s] = << >>
    /\ Conn(s).alive => Quiet(Conn(s))

\* While a session lasts, a client that was told ReadyForQuery has no request
\* under way: each request is answered by one ReadyForQuery, at its end.
ReadyMeansReady ==
  \A s \in Sessions : client[s] = "ready" /\ at[s] \notin {"none", "unwind"} =>
    at[s] \in {"pool", "receive", "release"} /\ inbox[s] = << >> /\ got[s] = << >>

\* README.md:69: the next user of a connection never reads what is left over
\* from the previous one, even of a client that vanished in mid-batch.
NoForeignReplies ==
  \A s \in Sessions :
    \A seq \in {got[s], toClient[s]} : \A i \in DOMAIN seq : seq[i].of = s

\* Postgres works for a session only under a token of the semaphore, until the
\* session ends.
CoveredByToken ==
  \A s \in Sessions :
    connOf[s] # None /\ at[s] # "unwind" /\ ~Quiet(Conn(s)) => tokens[s] > 0

\* The status that a refusal will report is the one of the connection.
TxStatusTrue ==
  \A s \in Sessions : Between(s) /\ Conn(s).alive /\ txStatus[s] # Nil =>
    txStatus[s] = Conn(s).tx

CallStatus ==
  [call \in Calls |->
     IF call[2] <= tokens[call[1]] THEN "granted"
     ELSE IF call[2] = tokens[call[1]] + 1 /\ at[call[1]] = "queued" THEN "waiting"
     ELSE IF call[2] = tokens[call[1]] + 1 /\ at[call[1]] = "overflow" THEN "refused"
     ELSE "idle"]

Control ==
  INSTANCE AdmissionControl
    WITH Requests <- Calls, TierOf <- [call \in Calls |-> 0], status <- CallStatus

\* The sessions use the semaphore as AdmissionControl wants it: a token is
\* given back once and only after it was granted, and a newcomer never gets one
\* before a request that is queued.
FollowsAdmissionControl == Control!Spec

\* The session waits for the end of a COPY FROM STDIN whose data it never asked
\* the client for: the CopyInResponse is in its buffer (proxy.go:485).
InCopy(s) == at[s] = "stream" /\ connOf[s] # None /\ Conn(s).copying

\* The session overflowed the queue (codel.go:137).
Overflowed(s) == at[s] = "overflow"

\* The session goes on with a connection that is lost: the error it reported
\* was followed by no ReadyForQuery (proxy.go:479).
OnLostConn(s) == connOf[s] # None /\ ~Conn(s).alive

\* A request is answered, whatever others leave unfinished: only a COPY FROM
\* STDIN, a full queue and a lost connection make their own client wait for ever.
RequestsAnswered ==
  \A s \in Sessions :
    client[s] = "awaiting" ~>
      client[s] # "awaiting" \/ InCopy(s) \/ Overflowed(s) \/ OnLostConn(s)

\* What a client held when it vanished comes back, in mid-batch and after a Flush
\* as well, unless it vanished in a COPY FROM STDIN or from a full queue.
TokensComeBack ==
  \A s \in Sessions :
    client[s] = "gone" ~>
      (tokens[s] = 0 /\ connOf[s] = None) \/ InCopy(s) \/ Overflowed(s)

\* README.md:212: "Each query occupies exactly one concurrency token".
OneTokenPerQuery == \A s \in Sessions : tokens[s] <= 1

\* README.md:66: "If the previous query left an unfinished transaction [...],
\* it issues a ROLLBACK" before a released connection is returned to the pool.
NoInheritedTransaction ==
  \A c \in Conns : (\A s \in Sessions : connOf[s] # c) /\ conns[c].alive =>
    conns[c].tx = "I"
=============================================================================
