-------------------------- MODULE AdmissionControl --------------------------
(***************************************************************************)
(* What backpressure.Semaphore promises the proxy, with no lock, queue,    *)
(* clock or goroutine in sight.  A request asks, and is either granted a   *)
(* token, or waits, or is refused; one that waits is later granted or      *)
(* refused, or goes away.  At most Capacity requests hold a token; a       *)
(* verdict is final; and a token never goes to a request while a more      *)
(* important one waits, nor to a newcomer while one of its own tier waits. *)
(***************************************************************************)
EXTENDS Integers, FiniteSets

CONSTANTS
  Requests,  \* calls of Acquire
  TierOf,    \* the tier of each; 0 is the most important one
  Capacity   \* the tokens

VARIABLE status

Idle == {r \in Requests : status[r] = "idle"}
Waiting == {r \in Requests : status[r] = "waiting"}
Granted == {r \in Requests : status[r] = "granted"}

Init == status = [r \in Requests |-> "idle"]

\* Requests whose time is up are refused whenever the semaphore is touched.
Refusing(S) == [s \in Requests |-> IF s \in S THEN "refused" ELSE status[s]]

\* r asks and must wait, or finds the queue full and is turned away.
Ask(r) ==
  /\ status[r] = "idle"
  /\ \E S \in SUBSET Waiting, s \in {"waiting", "refused"} :
       status' = [Refusing(S) EXCEPT ![r] = s]

\* r asks and gets a token at once.
GrantAtOnce(r) ==
  /\ status[r] = "idle"
  /\ Cardinality(Granted) < Capacity
  /\ \A s \in Waiting : TierOf[s] > TierOf[r]
  /\ status' = [status EXCEPT ![r] = "granted"]

\* A waiting r gets a token.
Grant(r) ==
  /\ status[r] = "waiting"
  /\ Cardinality(Granted) < Capacity
  /\ \A s \in Waiting : TierOf[s] >= TierOf[r]
  /\ status' = [status EXCEPT ![r] = "granted"]

\* r gives its token back.
Return(r) ==
  /\ status[r] = "granted"
  /\ \E S \in SUBSET Waiting : status' = [Refusing(S) EXCEPT ![r] = "idle"]

\* r learns that it was refused, or stops waiting.
Leave(r) ==
  /\ status[r] \in {"waiting", "refused"}
  /\ status' = [status EXCEPT ![r] = "idle"]

Expire == \E S \in SUBSET Waiting : status' = Refusing(S)

Next ==
  \/ Expire
  \/ \E r \in Requests : Ask(r) \/ GrantAtOnce(r) \/ Grant(r) \/ Return(r) \/ Leave(r)

Spec == Init /\ [][Next]_status
=============================================================================
