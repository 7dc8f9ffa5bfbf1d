----------------------------- MODULE PooledConn -----------------------------
(***************************************************************************)
(* A Postgres connection of pool.Pool: Postgres at its far end (external,  *)
(* as proxy.go uses it), and what the pool does with it when a session     *)
(* gives it back, as operators on a record                                 *)
(*   [todo    : messages sent to Postgres that it has not handled,         *)
(*    replies : replies that it has sent and nobody has read,              *)
(*    held    : replies that it keeps until the next Flush or Sync,        *)
(*    tx      : its transaction status,                                    *)
(*    known   : the transaction status that pgconn remembers,              *)
(*    copying : it waits for the data of a COPY FROM STDIN,                *)
(*    alive].                                                              *)
(* Messages and replies name the session they belong to.                   *)
(***************************************************************************)
EXTENDS Integers, Sequences

CONSTANTS
  Sessions,
  Outcomes,  \* transaction statuses a command may end in, out of TxStatuses
  Nil        \* the zero value of txStatus

TxStatuses == {"I", "T", "E"}

ASSUME OutcomesAssumption == Outcomes \subseteq TxStatuses /\ Outcomes # {}
ASSUME NilAssumption == Nil \notin TxStatuses

\* "Query" is a simple query, "Copy" one that is a COPY FROM STDIN; "Execute"
\* stands for Parse, Bind, Describe, Execute and Close.
Kinds == {"Query", "Copy", "Execute", "Flush", "Sync", "Terminate"}

Messages == [of : Sessions, kind : Kinds]

Replies ==
  [of : Sessions, what : {"Result", "CopyIn", "Error"}, tx : {Nil}]
  \cup [of : Sessions, what : {"Ready"}, tx : TxStatuses \cup {Nil}]

Message(s, kind) == [of |-> s, kind |-> kind]
Reply(s, what) == [of |-> s, what |-> what, tx |-> Nil]
Ready(s, tx) == [of |-> s, what |-> "Ready", tx |-> tx]

ConnRecords ==
  [todo : Seq(Messages), replies : Seq(Replies), held : Seq(Replies),
   tx : TxStatuses, known : TxStatuses, copying : BOOLEAN, alive : BOOLEAN]

NewConn ==
  [todo |-> << >>, replies |-> << >>, held |-> << >>,
   tx |-> "I", known |-> "I", copying |-> FALSE, alive |-> TRUE]

\* Nothing is under way on the connection.
Quiet(c) == c.todo = << >> /\ c.replies = << >> /\ c.held = << >> /\ ~c.copying

\* frontend.Flush: the messages are lost if the connection is.
Sent(c, msgs) == IF c.alive THEN [c EXCEPT !.todo = @ \o msgs] ELSE c

-----------------------------------------------------------------------------
(* Postgres *)

Lost(c) == [c EXCEPT !.todo = << >>, !.held = << >>, !.copying = FALSE, !.alive = FALSE]

\* What Postgres may make of the next message.
Handled(c) ==
  LET s == Head(c.todo).of
      kind == Head(c.todo).kind
      rest == [c EXCEPT !.todo = Tail(@)]
  IN  CASE kind = "Query" ->
             {[rest EXCEPT !.tx = t, !.replies = @ \o <<Reply(s, "Result"), Ready(s, t)>>]
                : t \in Outcomes}
        [] kind = "Copy" ->
             {[rest EXCEPT !.copying = TRUE, !.replies = Append(@, Reply(s, "CopyIn"))]}
        [] kind = "Execute" -> {[rest EXCEPT !.held = Append(@, Reply(s, "Result"))]}
        [] kind = "Flush" -> {[rest EXCEPT !.replies = @ \o c.held, !.held = << >>]}
        [] kind = "Sync" ->
             {[rest EXCEPT !.tx = t, !.held = << >>,
                           !.replies = @ \o c.held \o <<Ready(s, t)>>] : t \in Outcomes}
        [] kind = "Terminate" -> {Lost(c)}

-----------------------------------------------------------------------------
(* The hook AfterRelease.  The session used the raw connection, so pgconn    *)
(* did not see what went over it: `known' is what it was when the session    *)
(* got the connection.                                                       *)

\* Mutant of Drained: replies are left unread.
Undrained(c) == {[c EXCEPT !.known = c.tx]}

\* The probe of drainRows: Postgres handles it after all that was sent before,
\* and pgconn reads all replies up to the ReadyForQuery of the probe, which
\* tells it the true status.  In a failed transaction the probe fails.
Drained(c) ==
  {[NewConn EXCEPT !.tx = t, !.known = t]
     : t \in (IF c.todo = << >> /\ c.held = << >> THEN {c.tx} ELSE Outcomes) \ {"E"}}

\* What becomes of a connection that is given back: pgxpool destroys one that
\* it knows to be in a transaction; the hook may fail (a dead connection, an
\* aborted transaction, its two seconds are over, too many rows); a new
\* connection takes the place of one that is destroyed.  rollbackIfNeeded goes
\* by `known' too, so it never has anything to do.
AfterRelease(c) ==
  {NewConn} \cup
  IF c.known = "I" /\ c.alive /\ ~c.copying THEN Drained(c) ELSE {}
=============================================================================
