------------------------------- MODULE Server -------------------------------
(***************************************************************************)
(* cmd/main.go with New, Listen, Close and handleClient of proxy/proxy.go: *)
(* a run of catfish from its configuration file to the end of the process. *)
(* Three kinds of goroutine interleave: main, the one that waits for a     *)
(* signal, and one per client.  What a session does between two queries is *)
(* in Session.tla; here it is idle or in a query.  Postgres, pgxpool and   *)
(* the operating system are external.                                      *)
(***************************************************************************)
EXTENDS Login, FiniteSets, Functions

CONSTANTS
  Files,  \* bound: the configuration files considered
  Env     \* the environment, a function of the names of its variables

ASSUME FilesAssumption ==
  \A f \in Files : f.tiers \in Seq(TierFiles) /\ f.users \in Seq(UserFiles)

\* bound: what PoolKey makes of an entry tells its two names.  Only a user name
\* with a slash in it could spoil that, and such a name would end the host part
\* of the DSN that New makes of it (proxy.go:46): its pool would not warm.
\* Several entries for one user and database are allowed, as Load allows them.
ASSUME NamesAssumption ==
  \A f \in Files : \A i, j \in DOMAIN f.users :
    f.users[i].username \o "/" \o f.users[i].database
      = f.users[j].username \o "/" \o f.users[j].database
    => /\ f.users[i].username = f.users[j].username
       /\ f.users[i].database = f.users[j].database

VARIABLES
  file, cfg,  \* the file, and what Load made of it
  exit,       \* how the process ended, or "no"
  main,       \* where main is
  made,       \* how many pools New has made
  pool,       \* the state of the pool of each entry of cfg.users
  pools,      \* of CatfishServer: the pool of a key, by its entry
  sem,        \* whether the semaphore is open
  listener,   \* clientListener
  done,       \* whether the channel is closed
  closer,     \* where the goroutine is that waits for a signal
  timedOut,   \* whether ShutdownTimeout has passed
  poolOf,     \* the pool that a client holds a connection of, 0 for none
  priority    \* the priority of its query

created == <<file, cfg, made, pools, userIndex>>
closeVars == <<listener, done, closer, timedOut>>
serverVars == <<created, closeVars, main, sem, pool, exit>>
clientVars == <<poolOf, priority, loginVars>>
vars == <<serverVars, clientVars>>

NoConfig ==
  [tiers |-> << >>, users |-> << >>, minConns |-> 0, maxConns |-> 0, maxConcurrent |-> 0]

\* The map f with y at x.
Put(f, x, y) == [z \in DOMAIN f \cup {x} |-> IF z = x THEN y ELSE f[z]]

\* Mutant of PoolKey: a pool per user.
PoolKeyOfUser(username, database) == username

PoolKey(username, database) == username \o "/" \o database

\* The clients that the wait group counts.
Running == {c \in Clients : at[c] \notin {"free", "accepted", "closed"}}

Holders(i) == {c \in Clients : poolOf[c] = i}

\* Mutant of TierIndex: counted from one.
TierNumber(name) ==
  LET named == {i \in DOMAIN cfg.tiers : cfg.tiers[i].name = name}
  IN  CHOOSE i \in named : \A j \in named : j <= i

\* The map tierIndex: the last tier of that name, counted from zero.
TierIndex(name) ==
  LET named == {i \in DOMAIN cfg.tiers : cfg.tiers[i].name = name}
  IN  (CHOOSE i \in named : \A j \in named : j <= i) - 1

Init ==
  /\ LoginInit
  /\ userIndex = << >>
  /\ file \in Files
  /\ cfg = NoConfig
  /\ exit = "no" /\ main = "load" /\ made = 0
  /\ pool = << >> /\ pools = << >>
  /\ sem = "none"
  /\ listener = "nil" /\ done = FALSE /\ closer = "off" /\ timedOut = FALSE
  /\ poolOf = [c \in Clients |-> 0]
  /\ priority = [c \in Clients |-> 0]

-----------------------------------------------------------------------------
(* main and New *)

LoadConfig ==
  /\ main = "load"
  /\ IF Loads(file, Env)
     THEN /\ cfg' = Load(file, Env)
          /\ pool' = [i \in DOMAIN file.users |-> "none"]
          /\ main' = "semaphore"
          /\ UNCHANGED exit
     ELSE exit' = "fatal" /\ UNCHANGED <<cfg, pool, main>>
  /\ UNCHANGED <<clientVars, closeVars, file, made, pools, userIndex, sem>>

\* A negative limit is a panic here: of NewSemaphore or of the deque's New.
NewSemaphore ==
  /\ main = "semaphore"
  /\ IF cfg.maxConcurrent < 0 \/ \E i \in DOMAIN cfg.tiers : cfg.tiers[i].queueSize < 0
     THEN exit' = "panic" /\ UNCHANGED <<main, sem>>
     ELSE main' = "pools" /\ sem' = "open" /\ UNCHANGED exit
  /\ UNCHANGED <<clientVars, created, closeVars, pool>>

\* pgxpool makes a pool, and connects in the background.
NewPool ==
  /\ main = "pools" /\ made < Len(cfg.users)
  /\ pool' = [pool EXCEPT ![made + 1] = "open"]
  /\ main' = "warm"
  /\ UNCHANGED <<clientVars, created, closeVars, sem, exit>>

NewPoolFails ==
  /\ main = "pools" /\ made < Len(cfg.users)
  /\ pool' = [i \in DOMAIN pool |-> IF i \in Range(pools) THEN "closed" ELSE pool[i]]
  /\ exit' = "fatal"
  /\ UNCHANGED <<clientVars, created, closeVars, main, sem>>

\* How many idle connections a pool comes to have when Postgres answers.
IdleConns == IF cfg.minConns < cfg.maxConns THEN cfg.minConns ELSE cfg.maxConns

\* Mutant of Warm: more than min_conns.
WarmMore ==
  /\ main = "warm"
  /\ IdleConns > cfg.minConns
  /\ LET u == cfg.users[made + 1]
     IN  /\ pools' = Put(pools, PoolKey(u.username, u.database), made + 1)
         /\ userIndex' = Put(userIndex, u.username, u)
  /\ made' = made + 1
  /\ main' = "pools"
  /\ UNCHANGED <<clientVars, closeVars, file, cfg, sem, pool, exit>>

\* warm returns, and New stores the pool; a later entry replaces an earlier one.
\* Nobody cancels the context of warm: the closer does not run yet.
Warm ==
  /\ main = "warm"
  /\ IdleConns >= cfg.minConns
  /\ LET u == cfg.users[made + 1]
     IN  /\ pools' = Put(pools, PoolKey(u.username, u.database), made + 1)
         /\ userIndex' = Put(userIndex, u.username, u)
  /\ made' = made + 1
  /\ main' = "pools"
  /\ UNCHANGED <<clientVars, closeVars, file, cfg, sem, pool, exit>>

\* signal.Notify, and the goroutine that waits for the signal.
Notify ==
  /\ main = "pools" /\ made = Len(cfg.users)
  /\ closer' = "waiting"
  /\ main' = "listen"
  /\ UNCHANGED <<clientVars, created, listener, done, timedOut, sem, pool, exit>>

-----------------------------------------------------------------------------
(* Listen *)

Bind ==
  /\ main = "listen"
  /\ listener' = "open"
  /\ main' = "accept"
  /\ UNCHANGED <<clientVars, created, done, closer, timedOut, sem, pool, exit>>

BindFails ==
  /\ main = "listen"
  /\ exit' = "fatal"
  /\ UNCHANGED <<clientVars, created, closeVars, main, sem, pool>>

Accept(c) ==
  /\ main = "accept" /\ listener = "open"
  /\ at[c] = "free"
  /\ Go(c, "accepted")
  /\ here' = [here EXCEPT ![c] = TRUE]
  /\ main' = "add"
  /\ UNCHANGED <<created, closeVars, sem, pool, exit, poolOf, priority, who, entry, state, told>>

\* wg.Add and the goroutine of the client.
AddClient(c) ==
  /\ main = "add" /\ at[c] = "accepted"
  /\ Go(c, "startup")
  /\ main' = "accept"
  /\ UNCHANGED <<created, closeVars, sem, pool, exit, poolOf, priority, here, who, entry, state, told>>

\* Mutant of AcceptFails: Listen goes on until the next error.
AcceptRetries ==
  /\ main = "accept"
  /\ IF done THEN UNCHANGED <<main, exit>> ELSE exit' = "fatal" /\ UNCHANGED main
  /\ UNCHANGED <<clientVars, created, closeVars, sem, pool>>

\* Accept fails because the listener was closed, or for reasons of its own
\* (no file descriptor is left, say).
AcceptFails ==
  /\ main = "accept"
  /\ IF done THEN main' = "deferred" /\ UNCHANGED exit
     ELSE exit' = "fatal" /\ UNCHANGED main
  /\ UNCHANGED <<clientVars, created, closeVars, sem, pool>>

\* The deferred Close of the semaphore, then the end of main.
CloseSemaphore ==
  /\ main = "deferred"
  /\ sem' = "closed"
  /\ main' = "returned"
  /\ UNCHANGED <<clientVars, created, closeVars, pool, exit>>

Exit ==
  /\ main = "returned"
  /\ exit' = "stopped"
  /\ UNCHANGED <<clientVars, created, closeVars, main, sem, pool>>

-----------------------------------------------------------------------------
(* The signal and Close *)

Signal ==
  /\ closer \in {"off", "waiting"}
  /\ IF closer = "off" THEN exit' = "killed" /\ UNCHANGED closer
     ELSE closer' = "done" /\ UNCHANGED exit
  /\ UNCHANGED <<clientVars, created, listener, done, timedOut, main, sem, pool>>

\* Mutant of CloseDone: the channel is not closed.
CloseDoneForgotten ==
  /\ closer = "done"
  /\ closer' = "listener"
  /\ UNCHANGED <<created, clientVars, listener, done, timedOut, main, sem, pool, exit>>

\* Mutant of CloseDone: Close closes the semaphore, not main.
CloseDoneAndSemaphore ==
  /\ closer = "done"
  /\ done' = TRUE /\ sem' = "closed"
  /\ closer' = "listener"
  /\ UNCHANGED <<created, clientVars, listener, timedOut, main, pool, exit>>

\* The context that is cancelled first was for New only.
CloseDone ==
  /\ closer = "done"
  /\ done' = TRUE
  /\ closer' = "listener"
  /\ UNCHANGED <<clientVars, created, listener, timedOut, main, sem, pool, exit>>

\* Listen may not have set the listener yet: a nil dereference.
CloseListener ==
  /\ closer = "listener"
  /\ IF listener = "nil" THEN exit' = "panic" /\ UNCHANGED <<listener, closer>>
     ELSE listener' = "closed" /\ closer' = "drain" /\ UNCHANGED exit
  /\ UNCHANGED <<clientVars, created, done, timedOut, main, sem, pool>>

\* Mutant of Drained: the pools are closed without a wait.
DrainedAtOnce ==
  /\ closer = "drain"
  /\ closer' = "pools"
  /\ UNCHANGED <<clientVars, created, listener, done, timedOut, main, sem, pool, exit>>

\* wg.Wait returns.
Drained ==
  /\ closer = "drain" /\ Running = {}
  /\ closer' = "pools"
  /\ UNCHANGED <<clientVars, created, listener, done, timedOut, main, sem, pool, exit>>

DrainTimeout ==
  /\ closer = "drain"
  /\ timedOut' = TRUE
  /\ closer' = "pools"
  /\ UNCHANGED <<clientVars, created, listener, done, main, sem, pool, exit>>

\* The pools are closed one after the other, in any order.  Close of a pool
\* refuses new sessions at once, and returns when it has its connections back.
ClosePool ==
  /\ closer = "pools" /\ \A i \in DOMAIN pool : pool[i] # "closing"
  /\ \E i \in Range(pools) :
       /\ pool[i] = "open"
       /\ pool' = [pool EXCEPT ![i] = "closing"]
  /\ UNCHANGED <<clientVars, created, closeVars, main, sem, exit>>

PoolClosed ==
  /\ \E i \in DOMAIN pool :
       /\ pool[i] = "closing" /\ Holders(i) = {}
       /\ pool' = [pool EXCEPT ![i] = "closed"]
  /\ UNCHANGED <<clientVars, created, closeVars, main, sem, exit>>

-----------------------------------------------------------------------------
(* handleClient after doAuth *)

FindPool(c) ==
  /\ at[c] = "pool"
  /\ IF PoolKey(state[c].username, state[c].database) \in DOMAIN pools
     THEN Go(c, "acquire") /\ UNCHANGED told
     ELSE Refuse(c, "ErrPoolNotFound")
  /\ UNCHANGED <<serverVars, poolOf, priority, here, who, entry, state>>

PoolFor(c) == pools[PoolKey(state[c].username, state[c].database)]

\* WithConn: the session holds the connection to its end.
TakeConn(c) ==
  /\ at[c] = "acquire"
  /\ pool[PoolFor(c)] = "open"
  /\ Cardinality(Holders(PoolFor(c))) < cfg.maxConns
  /\ poolOf' = [poolOf EXCEPT ![c] = PoolFor(c)]
  /\ Go(c, "idle")
  /\ UNCHANGED <<serverVars, priority, here, who, entry, state, told>>

TakeConnClosed(c) ==
  /\ at[c] = "acquire"
  /\ pool[PoolFor(c)] # "open"
  /\ Refuse(c, "ErrClosedPool")
  /\ UNCHANGED <<serverVars, poolOf, priority, here, who, entry, state>>

\* The pool has no connection for it and can make none.
TakeConnFails(c) ==
  /\ at[c] = "acquire"
  /\ pool[PoolFor(c)] = "open"
  /\ Refuse(c, "ErrPoolAcquire")
  /\ UNCHANGED <<serverVars, poolOf, priority, here, who, entry, state>>

\* The semaphore panics if it is closed.
Ask(c) ==
  /\ Receives(c, "idle")
  /\ IF sem = "closed" THEN exit' = "panic" /\ UNCHANGED <<at, priority>>
     ELSE /\ priority' = [priority EXCEPT ![c] = TierIndex(state[c].tier)]
          /\ Go(c, "query")
          /\ UNCHANGED exit
  /\ UNCHANGED <<created, closeVars, main, sem, pool, poolOf, here, who, entry, state, told>>

\* The query was answered, or refused.
Answered(c) ==
  /\ at[c] = "query"
  /\ Go(c, "idle")
  /\ UNCHANGED <<serverVars, poolOf, priority, here, who, entry, state, told>>

\* Mutant of EndSession: the connection is not released.
EndSessionKeepingConn(c) ==
  /\ at[c] = "idle" /\ ~here[c]
  /\ Go(c, "closed")
  /\ UNCHANGED <<serverVars, poolOf, priority, here, who, entry, state, told>>

EndSession(c) ==
  /\ at[c] = "idle" /\ ~here[c]
  /\ poolOf' = [poolOf EXCEPT ![c] = 0]
  /\ Go(c, "closed")
  /\ UNCHANGED <<serverVars, priority, here, who, entry, state, told>>

LogsIn(c) ==
  /\ LoginStep(c)
  /\ UNCHANGED <<serverVars, poolOf, priority>>

-----------------------------------------------------------------------------

MainStep ==
  \/ LoadConfig \/ NewSemaphore \/ NewPool \/ Warm \/ Notify \/ Bind
  \/ CloseSemaphore \/ Exit \/ \E c \in Clients : AddClient(c)

CloserStep ==
  \/ CloseDone \/ CloseListener \/ Drained \/ DrainTimeout \/ ClosePool \/ PoolClosed

SessionStep(c) ==
  FindPool(c) \/ TakeConn(c) \/ TakeConnClosed(c) \/ EndSession(c)

Next ==
  /\ exit = "no"
  /\ \/ MainStep \/ CloserStep
     \/ NewPoolFails \/ BindFails \/ AcceptFails \/ Signal
     \/ \E c \in Clients :
          \/ Accept(c) \/ LogsIn(c) \/ SessionStep(c)
          \/ TakeConnFails(c) \/ Ask(c) \/ Answered(c)

Spec == Init /\ [][Next]_vars

\* Goroutines that can go on do, Accept notices that its listener is closed,
\* Postgres accepts the connections of the pools, time passes.  Nobody has to
\* come, to speak, to leave or to send a signal, and no query has to end.
Fairness ==
  /\ WF_vars(exit = "no" /\ MainStep)
  /\ WF_vars(exit = "no" /\ listener = "closed" /\ AcceptFails)
  /\ WF_vars(exit = "no" /\ CloserStep)
  /\ \A c \in Clients : WF_vars(exit = "no" /\ SessionStep(c))

FairSpec == Spec /\ Fairness

-----------------------------------------------------------------------------
(* Properties *)

\* Types of the fields of CatfishServer and of the places of the goroutines.
TypeOK ==
  /\ LoginTypeOK
  /\ file \in Files
  /\ exit \in {"no", "fatal", "panic", "killed", "stopped"}
  /\ main \in {"load", "semaphore", "pools", "warm", "listen", "accept", "add",
               "deferred", "returned"}
  /\ made \in 0 .. Len(cfg.users)
  /\ \A i \in DOMAIN pool : pool[i] \in {"none", "open", "closing", "closed"}
  /\ Range(pools) \subseteq 1 .. made
  /\ sem \in {"none", "open", "closed"}
  /\ listener \in {"nil", "open", "closed"}
  /\ closer \in {"off", "waiting", "done", "listener", "drain", "pools"}
  /\ done \in BOOLEAN /\ timedOut \in BOOLEAN
  /\ \A c \in Clients :
       /\ poolOf[c] \in 0 .. made
       /\ priority[c] \in {0} \cup 0 .. Len(cfg.tiers) - 1

\* The connection that a session holds, and the tier that it queues in, are
\* those of the entry whose user, database and password its client presented,
\* although doAuth looks the entry up by user alone and handleClient the pool
\* by a string made of both names.  No client that logs in lacks a pool.
OwnEntry ==
  \A c \in Clients : told[c] # "ErrPoolNotFound" /\ (poolOf[c] # 0 =>
    LET u == cfg.users[poolOf[c]]
    IN  /\ who[c] = [username |-> u.username, database |-> u.database,
                     password |-> u.password]
        /\ state[c].tier = u.tier)

\* README.md:184: a heavier tier has the higher priority, from the order that
\* validate demands of the file, before defaults, to the index in the query.
PriorityByWeight ==
  \A c, d \in Clients :
    /\ at[c] = "query" /\ at[d] = "query"
    /\ \A t, u \in Range(cfg.tiers) :
         t.name = state[c].tier /\ u.name = state[d].tier => t.weight > u.weight
    => priority[c] < priority[d]

\* Close reaches every pool that New has made, except those that a later entry
\* for the same user and database has replaced.
PoolLostOnlyToTwin ==
  \A i \in 1 .. made :
    \/ i \in Range(pools)
    \/ \E j \in i + 1 .. made :
         /\ cfg.users[j].username = cfg.users[i].username
         /\ cfg.users[j].database = cfg.users[i].database

\* A session panics only while the process is about to end anyway: no query
\* meets a closed semaphore before Listen has returned.
SessionsNeverPanic ==
  exit = "panic" => main \in {"semaphore", "listen", "returned"}

\* As long as Close waits, no client finds its pool closed, except for one that
\* was accepted and not yet counted when Close saw nobody left (wg.Add races
\* with wg.Wait).
ShutdownSparesClients ==
  timedOut \/ Cardinality({c \in Clients : told[c] = "ErrClosedPool"}) <= 1

\* Once Close has closed the listener, Listen does not take the error of Accept
\* for a failure.
CleanShutdown ==
  [][listener = "closed" => exit' # "fatal"]_vars

\* A signal ends the process, whatever the clients do.
ShutdownEnds == closer = "done" ~> exit # "no"

\* New waits until each pool is warm: with min_conns <= max_conns and Postgres
\* at work the server comes up, or says why not.
ComesUp ==
  main = "pools" /\ cfg.minConns <= cfg.maxConns ~> main = "accept" \/ exit # "no"

\* A client that waits for a connection waits only for sessions whose client is
\* still there or whose query is still running.
PoolWaitersServed ==
  \A c \in Clients :
    at[c] = "acquire" ~>
      \/ at[c] # "acquire" \/ exit # "no"
      \/ Cardinality({d \in Holders(PoolFor(c)) : here[d] \/ at[d] = "query"}) = cfg.maxConns

\* README.md:167: "Grace period for in-flight queries on shutdown".
GracePeriod ==
  exit = "stopped" => timedOut \/ \A c \in Clients : at[c] # "query"

\* proxy/errors.go:13: a client is told "user not configured to connect to this
\* database" only if the configuration has no such pair.
PairsAdmitted ==
  \A c \in Clients : told[c] = "ErrDatabaseConnectionNotConfigured" =>
    \A u \in Range(cfg.users) : ~(u.username = who[c].username /\ u.database = who[c].database)
=============================================================================
