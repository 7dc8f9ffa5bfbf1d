# A TLA+ model of catfish

Catfish is a proxy between applications and Postgres. Every query has to get a
token from a prioritised semaphore; queries that find no token wait in the CoDel
queue of their tier. This directory models the code that decides who runs, who
waits and who is refused, the sessions that use it, and the server around them:
configuration, pools, authentication, start and shutdown. Line numbers refer to
the Go sources one directory up, in `src/`.

Contents: [the system](#the-system) · [modules](#modules) · [runs](#runs) ·
[findings](#where-code-and-documentation-disagree) · [fairness](#fairness) ·
[proofs](#proofs) · [not modelled](#not-modelled) · [plan](#plan)

## The system

| Component | Source | State | Operations |
|---|---|---|---|
| Deque | `utils/deque/deque.go` | circular slice, `front`, `back`, `initialised` | push, pop, read at both ends |
| Tier debt | `backpressure/decay.go` | per tier: `x` as of `last`, `max`, rate | `add`, `setMax`, `floor`, `get` |
| CoDel queue | `backpressure/codel.go` | `items`, `mode`, `lastEmptied`; per waiter `state`, `enqueued`, channel | `Push`, `peek`, `pop`, `reap`, `setMode`; `wait`, `admit`, `drop` |
| Semaphore | `backpressure/semaphore.go` | `outstanding`, queues, debts, `hasWaiters`, `reapTicker`, `isClosed` | `Acquire`, `Release`, `Close`, `background` |
| Session | `proxy/proxy.go` | `clientState`, write buffers, the tokens and the connection it holds | `handleClient`, `clientLoop`, `handleQuery`, `streamResponse`, `relayUntilReady` |
| Connection pool | `pool/pool.go` | connections, and what pgconn knows of each | `New`, `warm`, `WithConn`, the hook `AfterRelease`, `Close` |
| Server lifecycle | `cmd/main.go`, `proxy/proxy.go` | `pools`, `userIndex`, `tierIndex`, `done`, listener, wait group | `New`, `Listen`, `Close`, `handleClient`, the signal handler |
| Authentication | `proxy/clientAuth.go` | `clientState` | `doAuth` and three methods |
| Configuration | `config/config.go` | the resolved `Config` | `Load`, `validate` |

How they interact. A TCP client is one goroutine, `handleClient`: it
authenticates, takes a connection from the pool of its (user, database) pair for
the whole session, and handles one request after the other. For each simple
query, and for each batch of the extended protocol, it calls
`Semaphore.Acquire` with the tier of its user. `Acquire` either takes a token at
once or queues a `coDelWaiter` and blocks in `wait` on a channel and a context.
Whoever holds the semaphore's lock next, to acquire, to release or from the
background goroutine, runs `admit`: it reaps stale waiters from every queue and
admits others while there are tokens.

What is hard about it:

* **races**: admission and the end of a context decide about one waiter with two
  compare-and-swaps and a channel; only the second needs no lock;
* **time**: the CoDel mode, the stale waiters and the debt depend on clocks that
  are read only when something else happens;
* **cached state**: `hasWaiters`, the ticker, `txStatus`, `queryInProgress` and
  what pgconn remembers of a connection are copies of something else;
* **protocol**: replies are matched to requests by counting `ReadyForQuery`, on a
  connection that is used by one client after another;
* **start and shutdown**: three kinds of goroutine (main, the one that waits for
  the signal, one per client) share the listener, the semaphore and the pools, and
  the process may end under any of them;
* **names**: an entry of the configuration is found by user, its pool by a string
  made of user and database, its tier by name;
* **limits**: the queue, the pool, the tokens and the debt all have one.

What makes each component correct: the deque behaves as a bounded sequence; the
debts stay ordered by tier however lazily they are updated; a queue serves in
order of arrival while healthy and never admits a stale waiter; the semaphore
never loses or duplicates a token, answers whoever is queued, and keeps strict
priority; a session keeps requests and replies in step, runs Postgres only under
a token and gives everything back; the server lets a client in as the user it
has shown to be, gives it that user's pool and tier, comes up if it can and ends
on a signal without a failure. `PROJECT.json` lists under "hazards" each place
where one of these could go wrong, with the property that would show it.

## Modules

Each box composes what is below it; `A => B` means that A is shown to implement B.

    MCServer     Server    EXTENDS Login, which EXTENDS Config
    MCSession    Session   => AdmissionControl      PooledConn (operators)
    MCSemaphore  Semaphore => AdmissionControl      CoDel, TierDebt (operators)
    MCLinearDecay  LinearDecay => DebtLedger        TierDebt (operators)
    MCDeque      Deque     => BoundedDeque

`AdmissionControl` is the seam. It says what a semaphore promises to the proxy:
the bound, one final verdict per request, strict priority between tiers. The
detailed `Semaphore` implements it, and `Session` uses it, so that sessions need
not be multiplied with locks, queues and clocks. In the same way `Deque` allows
`CoDel` to keep a sequence, and `LinearDecay` allows `Semaphore` to keep one table
of debts.

**Deque.** One variable per field and `out`, what the last call answered (`Full`
for `errDequeFull`, `Empty` for the panic). Both `New` and the zero value, whose
slice `ensureInit` allocates, are initial states.

**TierDebt, DebtLedger, LinearDecay.** `LinearDecay` translates the methods
literally on records `[x, last]`; `Penalise` and `Pardon` are the two loops of
`Acquire` (lines 224-232 and 239-246). `TierDebt` has the same effects on a table
of current values. Amounts are whole units, `DebtUnit` of them per token, so that
the 0.1 forgiven per success is whole.

**CoDel.** The queue of a tier as a record and operators named after the methods.
`lastEmptied` and `enqueued` are kept as the time passed since, counted up to just
beyond the longest timeout, because the code only ever compares them with the
timeouts. `Push` drops a waiter on a full queue, because line 137 ignores the
error.

**Semaphore.** Processes: the callers, one request each at a time, and the
background goroutine. A critical section begins with the lock (`AcquireSlow`,
`Release`, `BackgroundLock`: everything up to the end of the reaping loop), goes on
with one `AdmitPop` for each pop of the second loop, because each pop races with a
context, and ends with `AdmitReturn`, which turns the ticker off if nobody is left
and unlocks. `wait` is `WaitReceive` (the channel), `ContextDone` (the other branch
of select, even if a verdict is there as well) and `Expire` (its compare-and-swap).
The ticker is a record: armed, time since it fired, a tick in its channel. With go
1.25 `Reset` and `Stop` leave no tick behind. Every caller passes
`tokenDemand` 1 and a valid priority, so the errors for other values are left
out. A caller may ask again when no queue holds its previous waiter: a waiter is
named by its caller.

**PooledConn, Session.** A connection is a record with what Postgres has not
handled, what it answered, what it holds back until Flush or Sync, its
transaction status and the one that pgconn remembers. Postgres and the clients are
external: clients keep to the protocol and may vanish at any time. `at` is where a
session's goroutine is; each action is the code between two points where
another party can interfere. `Acquire` is a place of its own: a request that gets no
token at once is pushed on the queue of its tier (`Enqueue`), where it is admitted
or refused (`Refuse`: its waiter was reaped), or, if the queue is full, is in no
queue (`overflow`) and has no further step, as in `Semaphore`.

**Config.** `validate` and `Load` as operators on a parsed file and the
environment: `Loads` says whether there is an error, `Load` what is returned.

**Login.** `doAuth` for each client. Proxy and client take turns, so an action
is one message of the client with all that the proxy does up to its next
`Receive`. Clients have credentials, right or wrong, and send any message the
protocol has at any time: a second SSLRequest, a message of the wrong type, a SASL
answer with a missing nonce or a garbled proof. A digest is the tuple it is
computed from, and the number of the client stands for the salts and nonces
that are fresh in each login. Clients may leave at any point.

**Server.** From the file to the end of the process. `main`, `closer` and `at[c]`
say where main, the goroutine of the signal and that of client `c` are; `exit` says
how the process ended, after which nothing happens. A pool is an entry of
`cfg.users` with a state; `pools` and `userIndex` are the maps of `CatfishServer`,
filled entry by entry, later ones over earlier ones. The key of a pool is the pair
of its names, which the string in the code tells too (`NamesAssumption`). The actions are the code
between the points where another goroutine can interfere: `Accept` and `AddClient`
are two, because `Close` may come between; `CloseDone` and `CloseListener` are two,
because `Listen` may. `Ask` and `Answered` stand for what `Session` shows in detail,
with the one thing that matters here: `Acquire` panics on a closed semaphore.
How many connections pgxpool comes to have, and that its `Close` waits for those
in use, is external.

Definitions commented as a *mutant* are not part of the model: each is a
plausible bug, and putting it in place of the named definition makes a property
fail. They show that the property depends on the code.

## Runs

| Run | What it shows | Instance |
|---|---|---|
| `deque` | refinement of a bounded sequence; freed slots are zero | 4 slots, 3 elements: all wrap-arounds of both ends |
| `linear_decay` | range and order of the debts; refinement of an eager table | 3 tiers (the floor is carried on once), 2 tokens, clock to 6 |
| `semaphore_tiers` | tokens conserved, none idle beside a waiter of tier 0, expired ones in front of it included; order of queues, both modes, overload noticed, timeouts, ticker, empty channels; refinement of `AdmissionControl` | 3 callers of tier 0 and 1 of tier 1, 1 token, queues of 2, timeouts of 1 and 2 |
| `semaphore_live` | privilege ordered by tier; queued callers are answered, expired waiters collected, debts run out | 3 tiers with a caller each, 2 tokens, queues of 1, fair |
| `session_share` | replies in step, none for another client, true status; work only under a token | 2 sessions, 1 connection that may be lost, 2 tokens, with COPY and Flush |
| `session_live` | proper use of the semaphore, requests answered, everything given back | 2 sessions, 2 connections, 1 token, a queue of 1, with COPY and Flush, fair |
| `server` | entry, pool and tier belong together; heavier tiers first; no pool lost but to a repeated entry; shutdown and start | 2 clients, 9 files, fair |
| `semaphore_full`, `session_batches`, `session_transaction`, `server_grace`, `server_pairs` | each a disagreement between code and documentation, see below | smallest |

Why the bounds suffice. One token makes every second caller wait. While the
caller of tier 1 holds it, three callers on a queue of two are two that wait and
one that overflows; while one of the three holds it, two waiters of tier 0, a live one
behind one whose context has ended among them, are beside the one of tier 1. Only
the order of the timeouts matters and the ages on either side of them: 1 and 2
leave two ages that an overloaded queue may serve, which is what its order shows on,
and an age beyond `LongTimeout` is one value (`Long`). That a newcomer queues behind its
own tier shows only with debts and two callers of a lower tier; the proof of
`Refinement` has it for any number. Two tiers are enough for priority, three for the floor between debts.
In `linear_decay` the clock stops at `MaxTime`, after which a full debt has decayed. Two sessions are the least
for tokens and for handing on a connection; `Sends` bounds what their clients
send (a batch is one message, possibly Flush, and Sync), `Outcomes` the transaction
statuses that commands end in, `MayLose` whether connections are lost. Callers of
one tier, sessions and connections are symmetric sets in the runs without liveness.
`session_share` has two tokens, so that batches can pile them up, `session_live` one, so
that sessions compete for it and for the one place in the queue: a session that
sends a second batch waits there for its own token, and the other overflows.

In `server` two clients are enough for one to hold what the other waits for (a pool
of one connection), to be between `Accept` and `wg.Add` while the other is served,
and to query in different tiers. The nine files (`MCServer`) are one that is in
order, one with two entries of one user, one with two for the same user and
database, one with an unknown method, three that
`Load` refuses, one that `NewSemaphore` panics on, and one whose `max_conns` is below
the default of `min_conns`; the first has a tier without a weight. Deadlock is not
checked: the process ends, and it may wait for ever for a client or for a pool.

## Where code and documentation disagree

* **A full queue blocks its caller for ever** (`semaphore_full`). `coDel.Push`
  ignores `errDequeFull`; the waiter is in no queue and nobody will ever answer it.
  The comment at proxy.go:362 expects an error. The push also comes before the
  reap, so waiters that are about to be dropped keep a newcomer out.
* **One token per batch, until the session ends** (`session_batches`): a `defer`
  inside the loop of `clientLoop`, line 298. README.md:212 says that a query
  occupies exactly one token. With `max_concurrent` batches a client waits for a
  token that it holds itself.
* **No grace period** (`server_grace`): `Close` closes the listener before it waits,
  `Listen` returns nil at once, main returns and the process exits under the
  queries in flight. README.md:167 calls `shutdown_timeout` the grace period for
  them. For the same reason the deferred `sem.Close` is harmless, and a pool whose
  `Close` would wait for ever does not show.
* **The first database of a user is refused** (`server_pairs`): `userIndex` is keyed
  by user alone. Of two entries for one user the last one wins, although `New`
  warms a pool for each (README.md:205) and the first client is told that it is not
  configured (errors.go:13).
* **Transactions survive their client** (`session_transaction`): the session
  writes to the raw connection, so pgconn remembers status I and
  `rollbackIfNeeded` does nothing. The drain probe then tells pgconn the truth, but
  the connection is already going back to the pool; the next client runs in
  the open transaction.

More are in the model as in the code, without a run of their own. `validate`
compares weights before defaults: a first tier without `weight`, which
README.md:184 says is 1, cannot be followed by one with weight 1. The defaults of
`max_conns` (20, README.md:175 says 25) and of `max_concurrent` (20, README.md:168 says
required) are the code's. The pool of a single user (README.md:198) cannot be
configured. With `max_conns` below 5 and no `min_conns`, `warm` waits for
connections that the pool may not have, without end. `ErrPoolNotFound` and
`ErrWarmCancelled` cannot happen: the first is part of `OwnEntry`, the second since
nobody cancels the context while `New` runs. A client that leaves while its request
is queued is not noticed there, although proxy.go:361 says that the context is
cancelled: only the return of `handleClient` does that (line 213). A waiter in the
queue is reaped in the end; one that overflowed it keeps its connection and the tokens
of its batches for good. `Load` accepts an entry for a pair that is listed already;
then the second pool takes the place of the first (line 74), which `Close` never
closes. A signal between `signal.Notify` and `net.Listen` makes `Close` panic on a nil
listener (line 160). A refusal
before the first completed query sends ReadyForQuery with status 0, the zero value
of `txStatus`, which is none of the three of proxy.go:192. After a batch
`queryInProgress` stays true, because `relayUntilReady` does not clear it
(proxy.go:191 says "not finished yet"). And COPY FROM STDIN stops a session
for ever, although proxy.go:467 says that each message is forwarded: replies are
flushed only at `ReadyForQuery`; the token and the connection are gone with it.

## Fairness

`Semaphore!FairSpec`: goroutines that can go on do (weak fairness of `Admit`,
`BackgroundTick`, `WaitReceive`, `Expire`). The background goroutine gets the lock
although callers keep taking it (strong fairness of `BackgroundLock`): sync.Mutex
hands the lock to a goroutine that has waited for a millisecond. Time passes
(strong fairness of `Tick`, which the model disables while the lock is held).
Callers are not assumed to ask, to release or to have their context cancelled, so
answers do not depend on a release. `semaphore_live` lets `Close` happen and
promises nothing after it, as the code does not.

`Session!FairSpec`: a session's goroutine goes on when it can, clients read what
they are sent, and Postgres handles what it is sent. Clients need not send or
disconnect. A request in the queue is answered, which is `QueuedCallersAnswered` of
`Semaphore`; one that overflowed it has no step, so fairness does nothing for it.

`Server!FairSpec`: main, the closer and the sessions go on when they can; Accept
fails once its listener is closed; Postgres accepts the connections of the pools;
the shutdown timeout passes. Nobody has to come, to log in, to ask, to leave or
to send a signal, and no query has to end. So `ShutdownEnds` holds with clients that
never leave, and `PoolWaitersServed` says only that a client waits for sessions that
somebody still uses.

What the fair sessions promise names its exceptions. A COPY FROM STDIN stops its
own session (`InCopy`), and so does a full queue (`Overflowed`). With a lost
connection a client may be told of an error and never of ReadyForQuery
(`OnLostConn`): lost connections are in `session_share`, not in `session_live`, which
gives each session a connection, because a session waits without bound for one. A client
that sent Flush waits for a result that the proxy does not read before Sync, as long
as it stays; what it holds comes back when it leaves. Deadlock is not checked
there, since such sessions really stop.

## Proofs

The modules named `...Proofs` are checked by TLAPS, for every value of the constants
allowed by the assumptions in the modules: positive capacity, queue size and number
of tiers, `ShortTimeout <= LongTimeout`, a finite set of callers, natural
debt rates; sessions and connections of any number; for `Server`, files that have the fields of the Go types
(`FilesAssumption`), clients with credentials of strings, and names that the key of a
pool tells (`NamesAssumption`): only a user name with a slash in it could collide with
another, and the DSN made of such a name ends its host there (proxy.go:46), so that
its pool would not warm. Entries may be repeated, as `Load` allows.

Every invariant, every action property and every refinement that a passing run
checks is a theorem. Each inductive invariant was first checked by TLC, on the
constants of the runs.

* `DequeProofs`: `TypeCorrect`, `SlotsCleared`, and `Refinement` (a circular slice
  of any capacity implements `BoundedDeque`). The invariant is the type invariant
  with `NoStaleSlots`; each push and pop is followed slot by slot through
  `SlotOf`.

* `LinearDecayProofs`: `DebtTypes`, `LessImportantOwesMore` (`DebtOrdered`),
  and `LazyDecayIsExact` (`ImplementsDebtLedger`). `IInv` adds
  to the types that no debt was read later than now, and that the debts as they
  would be read are `Sound`. Two readings of one tier are then the same as one, and a
  tick takes the same from a debt whenever it was read last. A penalty treats each tier alone, but a
  pardon carries a floor from tier to tier, as a recursive function. `Pardoned` is
  its closed form: each tier comes to what `Forgiven` says of it alone, because the
  debts are ordered and the same amount is taken from each. That the loop computes
  it is shown by the least tier at which the two would differ (< is well-founded),
  since induction is not available.

* `CoDelProofs` says what push, pop and reap do to the items of a queue, and that what
  they leave is a slice of it (`Slice`); that `setMode` twice is `setMode` once and
  keeps the mode of a queue that stays non-empty; and that of a queue in order of
  arrival `reap`, which stops at the first waiter that is not stale, leaves no stale
  one. `TierDebtProofs`: penalty, pardon and decay keep the debts ordered.

* `SemaphoreProofs`, tokens and verdicts: `TypeCorrect`, `TokenSafety`,
  `SendsNeverBlock`, `PrivilegeSafety` and `Refinement` (`AdmissionControl`). The number
  of owners alone is not inductive: a pop could admit a waiter twice, a send could
  meet a full channel. `IInv` adds that the lock is held exactly inside critical
  sections (`LockHeld`), that queues hold waiters of their own tier once
  (`QueuesDisjoint`), that each waiter is in one of a few situations
  (`WaitersCoherent`), and that debts are ordered (`Sound`). There is one lemma per
  action; it shows at once that the action keeps `IInv` and that it is a step of
  `AdmissionControl` or none. Lemmas about counting owners use the library's facts on
  cardinality.

* `SemaphoreProofs`, queues and reaper: `QueuesInOrder` (`QueueOrder`),
  `ReaperRunsWhenNeeded` (`ReaperArmed`), `NoTokenIdles` (`NoIdleToken`), and the action
  properties `DelayIsBounded` (`BoundedQueueingDelay`), `ServedInTurn`
  (`FirstComeFirstServed`), `BacklogForgotten` (`BacklogStartsAfresh`) and
  `OverloadIsNoticed` (`OverloadNoticed`). None of them is
  inductive, because each is about the moments when the lock is free or about one
  pop; `QInv` says what holds inside a critical section. `Reaped`: as long as the
  lock is held, every queue is as its reap left it, without stale waiters
  and in the mode that `setMode` would choose again. Time does not pass then, and
  pops only take away. So whoever is popped is in time. `Watched`: inside a critical
  section `hasWaiters` may be true of queues that are already empty, never false of
  one that is not, and the ticker always follows it. `NoIdleToken` is re-established
  where admit's loop ends: the first tier owes nothing, so only a lack of tokens
  can keep its waiter. `OverloadNoticed` has two halves: no push, pop, reap or tick
  takes from the age of a queue that stays non-empty (`Remembered`), and whoever is popped
  from an overloaded queue is its `Youngest`, since the reap has left it in LIFO mode
  and in order of arrival.

* `SessionProofs`: `SessionTypes`, `RepliesInStep` (`InStep`), `OneReadyPerRequest`
  (`ReadyMeansReady`), `OwnRepliesOnly` (`NoForeignReplies`), `StatusReported`
  (`TxStatusTrue`), `WorkUnderToken` (`CoveredByToken`) and `SemaphoreUsedRight`
  (`FollowsAdmissionControl`). That a session is in step between requests depends on
  what its connection may hold in the middle of one. `Phase` says it for each place
  of the goroutine: while a response is streamed there is exactly one ReadyForQuery
  to come and it comes last (`Answering`), or the connection is lost (`Broken`), or
  Postgres still has the request, or it is in a COPY; in a batch what is under way
  is closed by one Sync. It also relates the inbox to what the client believes
  (`Unread`, `Rest`): that ties a ReadyForQuery to one request. `OwnTraffic` says who all
  that belongs to; it passes from client to client because a connection has
  one owner (`ConnsExclusive`) and the pool has only those with nothing under way
  (`FreeConnsQuiet`), which is what the drain of `AfterRelease` is for.
  `TokensCounted` keeps the sum of the tokens of all sessions within the capacity.

* `ConfigProofs`: `LoadKeepsOrder`. `validate` compares neighbours; that any two tiers
  are in order is shown by a least counterexample, as above.

* `ServerProofs`, entries: `SessionsRunForTheirEntry` (`OwnEntry`),
  `PoolsLostOnlyToTwins` (`PoolLostOnlyToTwin`) and `HeavierTiersGoFirst`
  (`PriorityByWeight`). The invariant `Entries` says where the configuration comes from
  and how far `New` has come (`Loaded`), that each key leads to the pool of its own
  entry or of the last that repeats it (`Stored`, `Latest`), and for each client what has been shown at each place of its
  goroutine (`Client`): after the lookup that it named an entry, after its answer
  that the password matches, and from then on that state, pool and priority are
  those of that entry. `Creation` sorts the steps by what they change of it.

* `ServerProofs`, start and shutdown: `NoPanicInSessions` (`SessionsNeverPanic`) and
  `ShutdownIsClean` (`CleanShutdown`), from `Lifecycle`: the listener is there only
  after `Bind` and closed only after `done`, and only a main that has left `Listen`
  closes the semaphore. `ServerTypes`: `TypeOK` needs `Entries`, which gives the types
  of what a client takes out of the maps of `New`. `LateClientIsAlone`
  (`ShutdownSparesClients`): `Spared` says that pools are open until `Close` closes them,
  which it does once nobody is counted or the time is up, and that the listener is
  closed by then; so the only client that can still meet a closed pool is the one
  that `Listen` had accepted and not yet counted (`Late`), and there is one of these.

Only model-checked: the liveness properties `QueuedCallersAnswered`,
`ExpiredWaitersCollected`, `DebtRunsOut`, `RequestsAnswered`, `TokensComeBack`,
`ShutdownEnds`, `ComesUp` and `PoolWaitersServed` (fairness and ENABLED are beyond
the prover), and the disagreements above, which are counterexamples.

## Not modelled

* `pool.Exec`, `Query`, `QueryRow`, `BeginTx` and their wrappers: nothing calls them.
  `ParameterStatuses` only fetches data that the client is shown.
* The weights of tiers beyond their order: `config` reads them, but the semaphore
  knows only the order of the tiers. README.md:42 says that a query of weight 3 is
  picked three times as often; the code has strict priority.
* Reading and parsing the YAML file, addresses, durations, and the text of a DSN,
  into which names and passwords go as they are.
* Floating-point rounding of debts, lengths of messages, logging, error texts.
* What a batch does to the database: the Sync of the drain probe commits a batch
  that its client abandoned after Flush; the model has no contents to show it on.
* The digests themselves, and how pgproto3 tells the answers of the methods apart:
  no method calls `SetAuthType`, so what a SASL answer is decoded as depends on the
  library, which is not part of the repository. `Login` has both outcomes
  (`SASLInitialResponse` and `OtherMessage`).
* What the Go runtime does when `wg.Add` races with `wg.Wait`, beyond the order of the
  two.
* Limits on the time of a login or of a wait for a connection: there are none in
  the code, so no property bounds them.

## Plan

1. *Done*: `Deque`, `LinearDecay`, `CoDel`, `Semaphore` with their abstractions;
   `Session` and `PooledConn`; `Config`, `Login` and `Server`; proofs of every
   invariant, action property and refinement of the runs.
2. `LoadKeepsOrder` as a fact about every state of `Server`.
3. The weights: a run for what README.md says of relative weights.
