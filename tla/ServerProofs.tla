---------------------------- MODULE ServerProofs ----------------------------
(***************************************************************************)
(* Proofs about Server, for any clients and credentials, any environment   *)
(* and any files that satisfy the assumptions: which entry of the          *)
(* configuration a session runs for, and how the process ends.             *)
(***************************************************************************)
EXTENDS Server, ConfigProofs, FiniteSetTheorems

-----------------------------------------------------------------------------
(* The inductive invariant *)

Starting == {"load", "semaphore", "pools", "warm", "listen"}
Challenged == {"cleartext", "md5", "scram-sha-256", "final", "verified"}
Admitted == {"pool", "acquire", "idle", "query"}

Key(i) == PoolKey(cfg.users[i].username, cfg.users[i].database)

\* Where the configuration comes from, and how far New has come.
Loaded ==
  /\ file \in Files
  /\ \/ main = "load" /\ cfg = NoConfig /\ made = 0
     \/ main # "load" /\ cfg = Load(file, Env) /\ Loads(file, Env)
  /\ made \in 0 .. Len(cfg.users)
  /\ main = "warm" => made < Len(cfg.users)

\* No later entry is for the user of the entry i.
Latest(i) == \A j \in 1 .. made : cfg.users[j].username = cfg.users[i].username => j <= i

\* What New has stored: of each key and of each user the latest entry.
Stored ==
  /\ \A k \in DOMAIN pools : pools[k] \in 1 .. made /\ k = Key(pools[k])
  /\ \A i \in 1 .. made : Key(i) \in DOMAIN pools /\ i <= pools[Key(i)]
  /\ \A u \in DOMAIN userIndex : \E i \in 1 .. made :
       userIndex[u] = cfg.users[i] /\ u = cfg.users[i].username /\ Latest(i)

Functional ==
  /\ DOMAIN at = Clients /\ DOMAIN entry = Clients /\ DOMAIN state = Clients
  /\ DOMAIN told = Clients /\ DOMAIN poolOf = Clients /\ DOMAIN priority = Clients
  /\ who \in [Clients -> Credentials \cup {Nobody}]

\* The client c says that it is the user of the entry i, the latest for it.
Claims(c, i) ==
  /\ Latest(i)
  /\ who[c].username = cfg.users[i].username
  /\ who[c].database = cfg.users[i].database

\* It has shown it, and been admitted as that user.
Is(c, i) ==
  /\ Claims(c, i)
  /\ who[c].password = cfg.users[i].password
  /\ state[c].username = cfg.users[i].username
  /\ state[c].database = cfg.users[i].database
  /\ state[c].tier = cfg.users[i].tier

Client(c) ==
  /\ main \in Starting => at[c] = "free"
  /\ at[c] \in Challenged =>
       \E i \in 1 .. made : entry[c] = cfg.users[i] /\ Claims(c, i)
  /\ at[c] = "verified" => who[c].password = entry[c].password
  /\ at[c] \in Admitted => \E i \in 1 .. made : Is(c, i)
  /\ poolOf[c] # 0 =>
       at[c] \in {"idle", "query"} /\ poolOf[c] \in 1 .. made /\ Is(c, poolOf[c])
  /\ told[c] # "ErrPoolNotFound"
  /\ at[c] = "query" => priority[c] = TierIndex(state[c].tier)

Entries == Loaded /\ Stored /\ Functional /\ \A c \in Clients : Client(c)

-----------------------------------------------------------------------------
(* Its preservation *)

\* Nothing is loaded, stored or admitted at first.
LEMMA EntriesInit == Init => Entries
<1> SUFFICES ASSUME Init PROVE Entries
  OBVIOUS
<1>1. DOMAIN << >> = {} /\ Len(<< >>) = 0
  <2>1. << >> \in Seq({})
    BY EmptySeq
  <2> QED BY <2>1, LenProperties, EmptySeq
<1>2. Loaded
  <2>1. file \in Files /\ main = "load" /\ cfg = NoConfig /\ made = 0
    BY DEF Init
  <2>2. Len(cfg.users) = 0
    BY <1>1, <2>1 DEF NoConfig
  <2>3. made \in 0 .. Len(cfg.users)
    BY <2>1, <2>2
  <2> QED BY <2>1, <2>3 DEF Loaded
<1>3. Stored
  <2>1. pools = << >> /\ userIndex = << >> /\ made = 0
    BY DEF Init
  <2>2. DOMAIN pools = {} /\ DOMAIN userIndex = {} /\ 1 .. made = {}
    BY <1>1, <2>1
  <2> QED BY <2>2 DEF Stored
<1>4. Functional
  BY DEF Functional, Init, LoginInit
<1>5. ASSUME NEW c \in Clients PROVE Client(c)
  BY DEF Init, LoginInit, Client, Starting, Challenged, Admitted
<1> QED BY <1>2, <1>3, <1>4, <1>5 DEF Entries

\* How the actions of main and of the closer change what the clients rely on.
LEMMA Creation ==
  ASSUME [Next]_vars
  PROVE  \/ /\ main = "load" /\ Loads(file, Env)
            /\ cfg' = Load(file, Env) /\ main' = "semaphore"
            /\ UNCHANGED <<file, made, pools, userIndex, clientVars>>
         \/ main = "warm" /\ Warm
         \/ /\ UNCHANGED created
            /\ main' \in Starting => main \in Starting
            /\ main' = "load" <=> main = "load"
            /\ main' = "warm" => main = "warm" \/ made < Len(cfg.users)
            /\ \/ UNCHANGED clientVars
               \/ \E c \in Clients : Accept(c) \/ AddClient(c) \/ LogsIn(c) \/ SessionStep(c)
                                      \/ TakeConnFails(c) \/ Ask(c) \/ Answered(c)
<1> USE DEF created, closeVars, Starting
<1>1. CASE UNCHANGED vars
  BY <1>1 DEF vars, serverVars
<1>2. CASE LoadConfig
  BY <1>2 DEF LoadConfig
<1>3. CASE Warm
  BY <1>3 DEF Warm
<1>4. CASE NewSemaphore \/ NewPool \/ Notify \/ Bind \/ CloseSemaphore \/ Exit
  BY <1>4 DEF NewSemaphore, NewPool, Notify, Bind, CloseSemaphore, Exit
<1>5. CASE CloserStep
  BY <1>5 DEF CloserStep, CloseDone, CloseListener, Drained, DrainTimeout,
              ClosePool, PoolClosed
<1>6. CASE NewPoolFails \/ BindFails \/ AcceptFails \/ Signal
  BY <1>6 DEF NewPoolFails, BindFails, AcceptFails, Signal
<1>7. ASSUME NEW c \in Clients, Accept(c) \/ AddClient(c)
      PROVE  /\ UNCHANGED created /\ main \in {"accept", "add"} /\ main' \in {"accept", "add"}
  BY <1>7 DEF Accept, AddClient
<1>8. ASSUME NEW c \in Clients,
             LogsIn(c) \/ SessionStep(c) \/ TakeConnFails(c) \/ Ask(c) \/ Answered(c)
      PROVE  UNCHANGED created /\ UNCHANGED main
  BY <1>8 DEF LogsIn, SessionStep, FindPool, TakeConn, TakeConnClosed, EndSession,
              TakeConnFails, Ask, Answered, serverVars
<1> QED BY <1>1, <1>2, <1>3, <1>4, <1>5, <1>6, <1>7, <1>8 DEF Next, MainStep

-----------------------------------------------------------------------------
(* Loaded and Stored *)

\* A function on 1 .. n is a sequence of that length.
LEMMA LengthOfMap ==
  ASSUME NEW n \in Nat, NEW S, NEW f \in [1 .. n -> S]
  PROVE  Len(f) = n
<1>1. f \in Seq(S)
  BY SeqDef
<1>2. Len(f) \in Nat /\ DOMAIN f = 1 .. Len(f) /\ DOMAIN f = 1 .. n
  BY <1>1, LenProperties
<1> QED BY <1>2

\* Load keeps the entries in their order.
LEMMA UsersOf ==
  ASSUME NEW f \in Files
  PROVE  /\ Len(Load(f, Env).users) = Len(f.users)
         /\ Len(f.users) \in Nat
         /\ DOMAIN f.users = 1 .. Len(f.users)
         /\ \A i \in 1 .. Len(f.users) :
              /\ Load(f, Env).users[i] = User(f.users[i], Env)
              /\ f.users[i] \in UserFiles
<1> DEFINE n == Len(f.users)
           us == Load(f, Env).users
           S == {us[i] : i \in 1 .. n}
<1>1. f.users \in Seq(UserFiles)
  BY FilesAssumption
<1>2. n \in Nat /\ DOMAIN f.users = 1 .. n /\ \A i \in 1 .. n : f.users[i] \in UserFiles
  BY <1>1, LenProperties, ElementOfSeq
<1>3. us = [i \in 1 .. n |-> User(f.users[i], Env)]
  BY <1>2 DEF Load
<1>4. us \in [1 .. n -> S]
  BY <1>3
<1>5. Len(us) = n
  <2> HIDE DEF us, S
  <2> QED BY <1>2, <1>4, LengthOfMap
<1> QED BY <1>2, <1>3, <1>5

\* Entries with one key are for one user and one database.
LEMMA EntriesOfConfig ==
  ASSUME Loaded
  PROVE  /\ Len(cfg.users) \in Nat /\ made \in Nat /\ made <= Len(cfg.users)
         /\ \A i, j \in 1 .. Len(cfg.users) : Key(i) = Key(j) =>
              /\ cfg.users[i].username = cfg.users[j].username
              /\ cfg.users[i].database = cfg.users[j].database
<1>1. CASE main = "load"
  <2>1. Len(cfg.users) = 0
    BY <1>1, EmptySeq DEF Loaded, NoConfig
  <2> QED BY <2>1 DEF Loaded
<1>2. CASE main # "load"
  <2>1. file \in Files /\ cfg = Load(file, Env)
    BY <1>2 DEF Loaded
  <2>2. Len(cfg.users) = Len(file.users) /\ Len(cfg.users) \in Nat
    BY <2>1, UsersOf
  <2>3. ASSUME NEW i \in 1 .. Len(cfg.users), NEW j \in 1 .. Len(cfg.users), Key(i) = Key(j)
        PROVE  /\ cfg.users[i].username = cfg.users[j].username
               /\ cfg.users[i].database = cfg.users[j].database
    <3>1. \A k \in {i, j} : /\ k \in DOMAIN file.users
                            /\ cfg.users[k].username = file.users[k].username
                            /\ cfg.users[k].database = file.users[k].database
                            /\ Key(k) = file.users[k].username \o "/" \o file.users[k].database
      <4>1. \A k \in {i, j} : k \in DOMAIN file.users /\ cfg.users[k] = User(file.users[k], Env)
        BY <2>1, <2>2, UsersOf
      <4>2. \A k \in {i, j} : /\ cfg.users[k].username = file.users[k].username
                              /\ cfg.users[k].database = file.users[k].database
        BY <4>1 DEF User
      <4> QED BY <4>1, <4>2 DEF Key, PoolKey
    <3>2. /\ file.users[i].username = file.users[j].username
          /\ file.users[i].database = file.users[j].database
      BY <2>1, <2>3, <3>1, NamesAssumption
    <3> QED BY <3>1, <3>2
  <2> QED BY <2>2, <2>3 DEF Loaded
<1> QED BY <1>1, <1>2

\* The configuration is written once; New goes through its entries one by one.
LEMMA LoadedStep == Loaded /\ [Next]_vars => Loaded'
<1> SUFFICES ASSUME Loaded, [Next]_vars PROVE Loaded'
  OBVIOUS
<1>1. CASE /\ main = "load" /\ Loads(file, Env)
           /\ cfg' = Load(file, Env) /\ main' = "semaphore"
           /\ UNCHANGED <<file, made, pools, userIndex, clientVars>>
  <2>1. file \in Files /\ made' = 0 /\ Len(cfg'.users) \in Nat
    BY <1>1, UsersOf DEF Loaded
  <2> QED BY <1>1, <2>1 DEF Loaded
<1>2. CASE main = "warm" /\ Warm
  <2>1. made' = made + 1 /\ made < Len(cfg.users) /\ main' = "pools" /\ UNCHANGED <<file, cfg>>
    BY <1>2 DEF Warm, Loaded
  <2> QED BY <1>2, <2>1, EntriesOfConfig DEF Loaded
<1>3. CASE /\ UNCHANGED created
           /\ main' = "load" <=> main = "load"
           /\ main' = "warm" => main = "warm" \/ made < Len(cfg.users)
  BY <1>3 DEF created, Loaded
<1> QED BY <1>1, <1>2, <1>3, Creation

\* New stores a pool under the key of its entry only.
LEMMA StoredStep == Loaded /\ Stored /\ [Next]_vars => Stored'
<1> SUFFICES ASSUME Loaded, Stored, [Next]_vars PROVE Stored'
  OBVIOUS
<1>1. CASE /\ main = "load"
           /\ UNCHANGED <<file, made, pools, userIndex, clientVars>>
  <2>1. 1 .. made = {}
    BY <1>1 DEF Loaded
  <2>2. DOMAIN pools = {} /\ DOMAIN userIndex = {}
    BY <2>1 DEF Stored
  <2> QED BY <1>1, <2>1, <2>2 DEF Stored
<1>2. CASE main = "warm" /\ Warm
  <2>0. PICK m : m = made + 1
    OBVIOUS
  <2> DEFINE u == cfg.users[m]
  <2>1. /\ cfg' = cfg /\ made' = m
        /\ pools' = Put(pools, Key(m), m) /\ userIndex' = Put(userIndex, u.username, u)
    BY <1>2, <2>0 DEF Warm, Key
  <2>2. m \in 1 .. m /\ 1 .. made \subseteq 1 .. m
        /\ \A i \in 1 .. m : i = m \/ i \in 1 .. made
    BY <2>0, EntriesOfConfig
  <2>3. \A i \in 1 .. m : Key(i)' = Key(i)
    BY <2>1 DEF Key
  <2>4. \A k \in DOMAIN pools' : pools'[k] \in 1 .. m /\ k = Key(pools'[k])
    BY <2>1, <2>2 DEF Stored, Put
  <2>5. \A i \in 1 .. m : Key(i) \in DOMAIN pools' /\ i <= pools'[Key(i)]
    BY <2>1, <2>2, EntriesOfConfig DEF Stored, Put
  <2>6. \A v \in DOMAIN userIndex' : \E i \in 1 .. m :
          userIndex'[v] = cfg.users[i] /\ v = cfg.users[i].username /\ Latest(i)'
    <3> SUFFICES ASSUME NEW v \in DOMAIN userIndex'
                 PROVE  \E i \in 1 .. m :
                          userIndex'[v] = cfg.users[i] /\ v = cfg.users[i].username /\ Latest(i)'
      OBVIOUS
    <3>1. CASE v = u.username
      <4>1. Latest(m)'
        BY <2>1, <2>2, EntriesOfConfig DEF Latest
      <4>2. userIndex'[v] = u
        BY <2>1, <3>1 DEF Put
      <4>3. v = cfg.users[m].username /\ m \in 1 .. m
        BY <2>2, <3>1
      <4> QED BY <4>1, <4>2, <4>3
    <3>2. CASE v # u.username
      <4>1. PICK i \in 1 .. made :
              userIndex[v] = cfg.users[i] /\ v = cfg.users[i].username /\ Latest(i)
        BY <2>1, <3>2 DEF Put, Stored
      <4>2. Latest(i)'
        BY <2>1, <2>2, <3>2, <4>1 DEF Latest
      <4> QED BY <2>1, <2>2, <3>2, <4>1, <4>2 DEF Put
    <3> QED BY <3>1, <3>2
  <2> HIDE DEF u
  <2> QED BY <2>1, <2>3, <2>4, <2>5, <2>6 DEF Stored
<1>3. CASE UNCHANGED created
  BY <1>3 DEF created, Stored, Key, Latest
<1> QED BY <1>1, <1>2, <1>3, Creation

-----------------------------------------------------------------------------
(* The clients *)

\* The fields of the clients are there for all of them.
LEMMA FunctionalStep == Functional /\ [Next]_vars => Functional'
<1> SUFFICES ASSUME Functional, [Next]_vars PROVE Functional'
  OBVIOUS
<1> USE DEF Functional, clientVars, loginVars
<1>1. CASE UNCHANGED clientVars
  BY <1>1
<1>2. ASSUME NEW c \in Clients,
             \/ Accept(c) \/ AddClient(c) \/ FindPool(c) \/ TakeConn(c) \/ TakeConnClosed(c)
             \/ EndSession(c) \/ TakeConnFails(c) \/ Ask(c) \/ Answered(c)
      PROVE  Functional'
  BY <1>2 DEF Accept, AddClient, FindPool, TakeConn, TakeConnClosed, EndSession,
              TakeConnFails, Ask, Answered, Go, Refuse, Tell
<1>3. ASSUME NEW c \in Clients, LogsIn(c) PROVE Functional'
  <2>1. UNCHANGED <<poolOf, priority>>
    BY <1>3 DEF LogsIn
  <2>2. CASE \/ SSLRequest(c) \/ OtherStartup(c) \/ PasswordMessage(c)
             \/ SASLInitialResponse(c) \/ SASLResponse(c) \/ OtherMessage(c)
             \/ Welcome(c) \/ LoginLost(c) \/ Leave(c)
    BY <2>1, <2>2 DEF SSLRequest, OtherStartup, PasswordMessage, SASLInitialResponse,
         SASLResponse, OtherMessage, Welcome, LoginLost, Leave, Go, Refuse, Tell, Judge
  <2>3. CASE StartupMessage(c)
    BY <2>1, <2>3 DEF StartupMessage, Go, Refuse, Tell
  <2> QED BY <1>3, <2>2, <2>3 DEF LogsIn, LoginStep
<1>4. CASE Warm
  BY <1>1, <1>4 DEF Warm
<1> QED BY <1>1, <1>2, <1>3, <1>4, Creation DEF SessionStep

\* A client that no action touches keeps what is known of it.
LEMMA SameClient ==
  ASSUME NEW c \in Clients, Client(c), UNCHANGED <<cfg, made>>,
         main' \in Starting => main \in Starting,
         at'[c] = at[c], entry'[c] = entry[c], who'[c] = who[c], state'[c] = state[c],
         told'[c] = told[c], poolOf'[c] = poolOf[c], priority'[c] = priority[c]
  PROVE  Client(c)'
<1>1. TierIndex(state[c].tier)' = TierIndex(state[c].tier)
  BY DEF TierIndex
<1>2. \A i \in 1 .. made : (Claims(c, i)' <=> Claims(c, i)) /\ (Is(c, i)' <=> Is(c, i))
  BY DEF Claims, Is, Latest
<1> QED BY <1>1, <1>2 DEF Client, Starting

\* No action of a client touches another.
LEMMA OthersAlone ==
  ASSUME Functional, NEW c \in Clients, NEW d \in Clients, c # d,
         \/ Accept(d) \/ AddClient(d) \/ LogsIn(d) \/ SessionStep(d)
         \/ TakeConnFails(d) \/ Ask(d) \/ Answered(d)
  PROVE  /\ at'[c] = at[c] /\ entry'[c] = entry[c] /\ who'[c] = who[c] /\ state'[c] = state[c]
         /\ told'[c] = told[c] /\ poolOf'[c] = poolOf[c] /\ priority'[c] = priority[c]
<1> USE DEF Functional
<1>1. CASE \/ Accept(d) \/ AddClient(d) \/ SessionStep(d)
           \/ TakeConnFails(d) \/ Ask(d) \/ Answered(d)
  BY <1>1 DEF Accept, AddClient, SessionStep, FindPool, TakeConn, TakeConnClosed, EndSession,
              TakeConnFails, Ask, Answered, Go, Refuse, Tell
<1>2. CASE LogsIn(d)
  <2>1. UNCHANGED <<poolOf, priority>>
    BY <1>2 DEF LogsIn
  <2>2. CASE \/ SSLRequest(d) \/ OtherStartup(d) \/ PasswordMessage(d)
             \/ SASLInitialResponse(d) \/ SASLResponse(d) \/ OtherMessage(d)
             \/ Welcome(d) \/ LoginLost(d) \/ Leave(d)
    BY <2>1, <2>2 DEF SSLRequest, OtherStartup, PasswordMessage, SASLInitialResponse,
         SASLResponse, OtherMessage, Welcome, LoginLost, Leave, Go, Refuse, Tell, Judge
  <2>3. CASE StartupMessage(d)
    BY <2>1, <2>3 DEF StartupMessage, Go, Refuse, Tell
  <2> QED BY <1>2, <2>2, <2>3 DEF LogsIn, LoginStep
<1> QED BY <1>1, <1>2

\* What a client's own actions make of it: a login.
LEMMA OwnLogin ==
  ASSUME Entries, NEW c \in Clients, LogsIn(c)
  PROVE  Client(c)'
<1> USE DEF Functional, Starting, Challenged, Admitted
<1>1. Functional /\ Client(c) /\ Stored
  BY DEF Entries
<1>2. UNCHANGED <<cfg, made, main, poolOf, priority>>
  BY DEF LogsIn, serverVars, created
<1>3. CASE \/ SSLRequest(c) \/ OtherStartup(c) \/ OtherMessage(c) \/ LoginLost(c)
  BY <1>1, <1>2, <1>3 DEF SSLRequest, OtherStartup, OtherMessage, LoginLost,
       Receives, LoggingIn, Go, Refuse, Tell, Client
<1>4. CASE StartupMessage(c)
  <2>1. PICK w \in Credentials :
          /\ who' = [who EXCEPT ![c] = w]
          /\ IF Lookup(w) = ""
             THEN /\ entry' = [entry EXCEPT ![c] = userIndex[w.username]]
                  /\ Go(c, Challenge(userIndex[w.username].authMethod))
                  /\ UNCHANGED told
             ELSE Refuse(c, Lookup(w)) /\ UNCHANGED entry
    BY <1>4 DEF StartupMessage
  <2>2. at[c] \in {"startup", "declined"} /\ state' = state
    BY <1>4 DEF StartupMessage, Receives
  <2>3. CASE Lookup(w) = ""
    <3>1. PICK i \in 1 .. made : /\ userIndex[w.username] = cfg.users[i]
                                 /\ w.username = cfg.users[i].username
                                 /\ w.database = cfg.users[i].database
                                 /\ Latest(i)
      BY <1>1, <2>3 DEF Lookup, Stored
    <3>2. Challenge(userIndex[w.username].authMethod) \in {"cleartext", "md5", "scram-sha-256"}
      BY <2>3 DEF Lookup, Challenge, Methods
    <3>3. entry'[c] = cfg.users[i] /\ who'[c] = w /\ told' = told
          /\ at'[c] \in {"cleartext", "md5", "scram-sha-256"}
      BY <1>1, <2>1, <2>3, <3>1, <3>2 DEF Go
    <3>4. Claims(c, i)'
      BY <1>2, <3>1, <3>3 DEF Claims, Latest
    <3> QED BY <1>1, <1>2, <2>2, <3>3, <3>4 DEF Client
  <2>4. CASE Lookup(w) # ""
    <3>1. at'[c] = "closed" /\ told'[c] # "ErrPoolNotFound"
      BY <1>1, <2>1, <2>4 DEF Refuse, Go, Tell, Lookup, Client
    <3> QED BY <1>1, <1>2, <2>2, <3>1 DEF Client
  <2> QED BY <2>3, <2>4
<1>5. CASE PasswordMessage(c) \/ SASLResponse(c) \/ SASLInitialResponse(c)
  <2>1. /\ at[c] \in {"cleartext", "md5", "scram-sha-256", "final"}
        /\ UNCHANGED <<who, entry, state>>
        /\ \/ at'[c] = "final" /\ told' = told
           \/ at'[c] = "verified" /\ told' = told /\ Answer(c) = Expected(c)
           \/ at'[c] = "closed" /\ told'[c] # "ErrPoolNotFound"
    BY <1>1, <1>5 DEF PasswordMessage, SASLResponse, SASLInitialResponse, Receives,
         Judge, Go, Refuse, Tell, Client
  <2>2. Answer(c) = Expected(c) => who[c].password = entry[c].password
    BY DEF Answer, Expected, Response, Md5Password, ClientProof
  <2>3. PICK i \in 1 .. made : entry[c] = cfg.users[i] /\ Claims(c, i)
    BY <1>1, <2>1 DEF Client
  <2>4. Claims(c, i)'
    BY <1>2, <2>1, <2>3 DEF Claims, Latest
  <2> QED BY <1>1, <1>2, <2>1, <2>2, <2>3, <2>4 DEF Client
<1>6. CASE Welcome(c)
  <2>1. at[c] = "verified" /\ at'[c] = "pool" /\ UNCHANGED <<who, entry>>
        /\ told'[c] # "ErrPoolNotFound"
        /\ state'[c] = [username |-> who[c].username, database |-> who[c].database,
                        tier |-> entry[c].tier]
    BY <1>1, <1>6 DEF Welcome, Go, Tell, Client
  <2>2. PICK i \in 1 .. made : entry[c] = cfg.users[i] /\ Claims(c, i)
    BY <1>1, <2>1 DEF Client
  <2>3. Is(c, i)'
    BY <1>1, <1>2, <2>1, <2>2 DEF Client, Claims, Is, Latest
  <2> QED BY <1>1, <1>2, <2>1, <2>3 DEF Client
<1>7. CASE Leave(c)
  BY <1>1, <1>2, <1>7, SameClient DEF Leave
<1> QED BY <1>3, <1>4, <1>5, <1>6, <1>7 DEF LogsIn, LoginStep

\* The pool that a client that has logged in finds is that of its entry.
LEMMA OwnPool ==
  ASSUME Loaded, Stored, NEW c \in Clients, NEW i \in 1 .. made, Is(c, i)
  PROVE  PoolKey(state[c].username, state[c].database) \in DOMAIN pools /\ PoolFor(c) = i
<1>1. PoolKey(state[c].username, state[c].database) = Key(i)
  BY DEF Is, Key
<1>2. /\ pools[Key(i)] \in 1 .. made /\ Key(pools[Key(i)]) = Key(i) /\ Key(i) \in DOMAIN pools
      /\ i <= pools[Key(i)]
  BY DEF Stored
<1>3. cfg.users[pools[Key(i)]].username = cfg.users[i].username
  BY <1>2, EntriesOfConfig
<1>4. pools[Key(i)] <= i
  BY <1>2, <1>3 DEF Is, Claims, Latest
<1>5. pools[Key(i)] = i
  BY <1>2, <1>4, EntriesOfConfig
<1> QED BY <1>1, <1>2, <1>5 DEF PoolFor

\* And a session.
LEMMA OwnSession ==
  ASSUME Entries, NEW c \in Clients,
         \/ Accept(c) \/ AddClient(c) \/ SessionStep(c)
         \/ TakeConnFails(c) \/ Ask(c) \/ Answered(c)
  PROVE  Client(c)'
<1> USE DEF Functional, Starting, Challenged, Admitted
<1>1. Functional /\ Client(c) /\ Stored /\ Loaded
  BY DEF Entries
<1>2. CASE Accept(c) \/ AddClient(c)
  BY <1>1, <1>2 DEF Accept, AddClient, Go, Client
<1>3. CASE SessionStep(c) \/ TakeConnFails(c) \/ Ask(c) \/ Answered(c)
  <2>1. /\ UNCHANGED <<cfg, made, main, who, state, entry>>
        /\ at[c] \in Admitted
    BY <1>3 DEF SessionStep, FindPool, TakeConn, TakeConnClosed, EndSession, TakeConnFails,
         Ask, Answered, serverVars, created, Receives
  <2>2. PICK i \in 1 .. made : Is(c, i)
    BY <1>1, <2>1 DEF Client
  <2>3. \A j \in 1 .. made : Is(c, j) => Is(c, j)'
    BY <2>1 DEF Is, Claims, Latest
  <2>4. PoolKey(state[c].username, state[c].database) \in DOMAIN pools /\ PoolFor(c) = i
    BY <1>1, <2>2, OwnPool
  <2>5. TierIndex(state[c].tier)' = TierIndex(state[c].tier)
    BY <2>1 DEF TierIndex
  <2>6. CASE FindPool(c)
    BY <1>1, <2>1, <2>2, <2>3, <2>4, <2>6 DEF FindPool, Go, Client
  <2>7. CASE TakeConn(c)
    BY <1>1, <2>1, <2>2, <2>3, <2>4, <2>7 DEF TakeConn, Go, Client
  <2>8. CASE TakeConnClosed(c) \/ TakeConnFails(c)
    BY <1>1, <2>1, <2>8 DEF TakeConnClosed, TakeConnFails, Refuse, Tell, Go, Client
  <2>9. CASE EndSession(c)
    BY <1>1, <2>1, <2>9 DEF EndSession, Go, Client
  <2>10. CASE Ask(c)
    BY <1>1, <2>1, <2>2, <2>3, <2>5, <2>10 DEF Ask, Receives, Go, Client
  <2>11. CASE Answered(c)
    BY <1>1, <2>1, <2>2, <2>3, <2>11 DEF Answered, Go, Client
  <2> QED BY <1>3, <2>6, <2>7, <2>8, <2>9, <2>10, <2>11 DEF SessionStep
<1> QED BY <1>2, <1>3

\* A step of anybody keeps what is known of a client.
LEMMA ClientStep ==
  ASSUME Entries, [Next]_vars, NEW c \in Clients
  PROVE  Client(c)'
<1>1. Client(c) /\ Functional
  BY DEF Entries
<1>2. CASE main \in {"load", "warm"} /\ UNCHANGED clientVars
  BY <1>1, <1>2 DEF Client, Starting, Challenged, Admitted, clientVars, loginVars
<1>3. CASE UNCHANGED created /\ (main' \in Starting => main \in Starting) /\ UNCHANGED clientVars
  BY <1>1, <1>3, SameClient DEF created, clientVars, loginVars
<1>4. ASSUME UNCHANGED created, main' \in Starting => main \in Starting, NEW d \in Clients,
             \/ Accept(d) \/ AddClient(d) \/ LogsIn(d) \/ SessionStep(d)
             \/ TakeConnFails(d) \/ Ask(d) \/ Answered(d)
      PROVE  Client(c)'
  <2>1. CASE d = c
    BY <1>4, <2>1, OwnLogin, OwnSession
  <2>2. CASE d # c
    <3>1. UNCHANGED <<cfg, made>>
      BY <1>4 DEF created
    <3>2. /\ at'[c] = at[c] /\ entry'[c] = entry[c] /\ who'[c] = who[c] /\ state'[c] = state[c]
          /\ told'[c] = told[c] /\ poolOf'[c] = poolOf[c] /\ priority'[c] = priority[c]
      BY <1>1, <1>4, <2>2, OthersAlone
    <3> QED BY <1>1, <1>4, <3>1, <3>2, SameClient
  <2> QED BY <2>1, <2>2
<1>5. Warm => UNCHANGED clientVars
  BY DEF Warm
<1> QED BY <1>2, <1>3, <1>4, <1>5, Creation

\* Entries is an invariant of the server.
THEOREM EntriesInvariant == Spec => []Entries
<1>1. Entries /\ [Next]_vars => Entries'
  BY LoadedStep, StoredStep, FunctionalStep, ClientStep DEF Entries
<1> QED BY <1>1, EntriesInit, PTL DEF Spec

-----------------------------------------------------------------------------
(* What follows *)

\* OwnEntry of Server, for every configuration: a session runs on the pool and
\* in the tier of the entry whose user, database and password were shown.
THEOREM SessionsRunForTheirEntry == Spec => []OwnEntry
<1>1. Entries => OwnEntry
  <2> SUFFICES ASSUME Entries, NEW c \in Clients
               PROVE  told[c] # "ErrPoolNotFound" /\ (poolOf[c] # 0 =>
                        LET u == cfg.users[poolOf[c]]
                        IN  /\ who[c] = [username |-> u.username, database |-> u.database,
                                         password |-> u.password]
                            /\ state[c].tier = u.tier)
    BY DEF OwnEntry
  <2>1. Client(c) /\ Functional
    BY DEF Entries
  <2>2. who[c] = [username |-> who[c].username, database |-> who[c].database,
                  password |-> who[c].password]
    <3>1. CASE who[c] \in Credentials
      BY <3>1, CredentialsAssumption
    <3>2. CASE who[c] = Nobody
      BY <3>2 DEF Nobody
    <3> QED BY <2>1, <3>1, <3>2 DEF Functional
  <2>3. CASE poolOf[c] # 0
    <3>1. Is(c, poolOf[c]) /\ told[c] # "ErrPoolNotFound"
      BY <2>1, <2>3 DEF Client
    <3> QED BY <2>2, <3>1 DEF Is, Claims
  <2> QED BY <2>1, <2>3 DEF Client
<1> QED BY <1>1, EntriesInvariant, PTL

\* PoolLostOnlyToTwin of Server: Close misses a pool that New has made only
\* where the file has a later entry for the same user and database.
THEOREM PoolsLostOnlyToTwins == Spec => []PoolLostOnlyToTwin
<1>1. Entries => PoolLostOnlyToTwin
  <2> SUFFICES ASSUME Entries, NEW i \in 1 .. made, i \notin Range(pools)
               PROVE  \E j \in i + 1 .. made :
                        /\ cfg.users[j].username = cfg.users[i].username
                        /\ cfg.users[j].database = cfg.users[i].database
    BY DEF PoolLostOnlyToTwin
  <2> DEFINE j == pools[Key(i)]
  <2>1. Key(i) \in DOMAIN pools /\ j \in 1 .. made /\ Key(i) = Key(j) /\ i <= j
    BY DEF Entries, Stored
  <2>2. j # i
    BY <2>1 DEF Range
  <2> HIDE DEF j
  <2>3. /\ j \in i + 1 .. made /\ i \in 1 .. Len(cfg.users) /\ j \in 1 .. Len(cfg.users)
    BY <2>1, <2>2, EntriesOfConfig DEF Entries
  <2> QED BY <2>1, <2>3, EntriesOfConfig DEF Entries
<1> QED BY <1>1, EntriesInvariant, PTL

\* The index of a tier is that of a tier of its name.
LEMMA LastOfItsName ==
  ASSUME Loaded, main # "load", NEW j \in 1 .. Len(file.tiers)
  PROVE  LET name == cfg.tiers[j].name IN
         /\ TierIndex(name) \in 0 .. Len(file.tiers) - 1
         /\ cfg.tiers[TierIndex(name) + 1].name = name
<1> DEFINE name == cfg.tiers[j].name
           n == Len(file.tiers)
           named == {i \in DOMAIN cfg.tiers : cfg.tiers[i].name = name}
           last == CHOOSE i \in named : \A k \in named : k <= i
<1>1. n \in Nat /\ DOMAIN cfg.tiers = 1 .. n
  BY FilesAssumption, LoadKeepsOrder, LenProperties DEF Loaded, Loads
<1>2. named \in SUBSET (1 .. n) /\ named # {}
  BY <1>1
<1>3. \E i \in named : \A k \in named : k <= i
  <2> HIDE DEF named
  <2> QED BY <1>1, <1>2, GreatestIndex
<1>4. last \in named
  <2> HIDE DEF named
  <2> QED BY <1>3
<1>5. TierIndex(name) = last - 1
  BY DEF TierIndex
<1>6. last \in 1 .. n /\ cfg.tiers[last].name = name
  <2> HIDE DEF last
  <2> QED BY <1>1, <1>4
<1> HIDE DEF last, name
<1>7. TierIndex(name) + 1 = last /\ TierIndex(name) \in 0 .. n - 1
  BY <1>1, <1>5, <1>6
<1> QED BY <1>6, <1>7 DEF name

\* The tier of a client that has logged in is one of the configuration's.
LEMMA TierOfClient ==
  ASSUME Entries, NEW c \in Clients, at[c] \in Admitted
  PROVE  /\ TierIndex(state[c].tier) \in 0 .. Len(file.tiers) - 1
         /\ cfg.tiers[TierIndex(state[c].tier) + 1].name = state[c].tier
         /\ Len(cfg.tiers) = Len(file.tiers)
<1>1. Loaded /\ Client(c)
  BY DEF Entries
<1>2. main # "load" /\ file \in Files /\ cfg = Load(file, Env) /\ Loads(file, Env)
  BY <1>1 DEF Loaded, Client, Starting, Admitted
<1>3. Len(file.tiers) \in Nat /\ DOMAIN file.tiers = 1 .. Len(file.tiers)
  BY <1>2, FilesAssumption, LenProperties
<1>4. PICK i \in 1 .. made : Is(c, i)
  BY <1>1 DEF Client
<1>5. i \in DOMAIN file.users /\ cfg.users[i].tier = file.users[i].tier
  <2>1. i \in 1 .. Len(file.users)
    BY <1>1, <1>2, EntriesOfConfig, UsersOf
  <2>2. i \in DOMAIN file.users /\ cfg.users[i] = User(file.users[i], Env)
    BY <1>2, <2>1, UsersOf
  <2> QED BY <2>2 DEF User
<1>6. PICK j \in DOMAIN file.tiers : file.tiers[j].name = file.users[i].tier
  BY <1>2, <1>5 DEF Loads
<1>7. cfg.tiers[j].name = state[c].tier
  BY <1>2, <1>4, <1>5, <1>6 DEF Is, Load, Tier
<1>8. /\ TierIndex(cfg.tiers[j].name) \in 0 .. Len(file.tiers) - 1
      /\ cfg.tiers[TierIndex(cfg.tiers[j].name) + 1].name = cfg.tiers[j].name
  BY <1>1, <1>2, <1>3, <1>6, LastOfItsName
<1>9. Len(cfg.tiers) = Len(file.tiers)
  <2> DEFINE ts == cfg.tiers
             S == {ts[k] : k \in DOMAIN ts}
  <2>1. ts = [k \in 1 .. Len(file.tiers) |-> Tier(file.tiers[k])]
    BY <1>2, <1>3 DEF Load
  <2>2. ts \in [1 .. Len(file.tiers) -> S]
    BY <2>1
  <2> HIDE DEF ts, S
  <2>3. Len(ts) = Len(file.tiers)
    BY <1>3, <2>2, LengthOfMap
  <2> QED BY <2>3 DEF ts
<1> QED BY <1>7, <1>8, <1>9

\* PriorityByWeight of Server: the order that validate demands of the file is
\* the order of the queries of sessions in different tiers.
THEOREM HeavierTiersGoFirst == Spec => []PriorityByWeight
<1>1. Entries => PriorityByWeight
  <2> SUFFICES ASSUME Entries, NEW c \in Clients, NEW d \in Clients,
                      at[c] = "query", at[d] = "query",
                      \A t, u \in Range(cfg.tiers) :
                        t.name = state[c].tier /\ u.name = state[d].tier => t.weight > u.weight
               PROVE  priority[c] < priority[d]
    BY DEF PriorityByWeight
  <2> DEFINE n == Len(file.tiers)
  <2>1. Loaded /\ Client(c) /\ Client(d)
    BY DEF Entries
  <2>2. main # "load" /\ file \in Files /\ cfg = Load(file, Env) /\ Loads(file, Env)
    BY <2>1 DEF Loaded, Client, Starting
  <2>3. n \in Nat /\ DOMAIN cfg.tiers = 1 .. n /\ DOMAIN file.tiers = 1 .. n
        /\ \A i, j \in 1 .. n : i <= j =>
             /\ cfg.tiers[i].weight \in Int /\ cfg.tiers[j].weight \in Int
             /\ cfg.tiers[j].weight <= cfg.tiers[i].weight
    BY <2>2, FilesAssumption, LoadKeepsOrder, LenProperties DEF Loads
  <2>4. ASSUME NEW e \in Clients, at[e] = "query", Client(e)
        PROVE  /\ priority[e] \in 0 .. n - 1
               /\ cfg.tiers[priority[e] + 1].name = state[e].tier
    <3>1. priority[e] = TierIndex(state[e].tier) /\ at[e] \in Admitted
      BY <2>4 DEF Client, Admitted
    <3> QED BY <3>1, TierOfClient
  <2>5. priority[c] \in 0 .. n - 1 /\ cfg.tiers[priority[c] + 1].name = state[c].tier
        /\ priority[d] \in 0 .. n - 1 /\ cfg.tiers[priority[d] + 1].name = state[d].tier
    BY <2>1, <2>4
  <2>6. PICK i \in 1 .. n, k \in 1 .. n : i = priority[c] + 1 /\ k = priority[d] + 1
    BY <2>3, <2>5
  <2>7. cfg.tiers[i].weight > cfg.tiers[k].weight
    <3>1. cfg.tiers[i] \in Range(cfg.tiers) /\ cfg.tiers[k] \in Range(cfg.tiers)
      BY <2>3, <2>6 DEF Range
    <3> QED BY <2>5, <2>6, <3>1
  <2>8. ~(k <= i)
    <3>1. k <= i => /\ cfg.tiers[i].weight \in Int /\ cfg.tiers[k].weight \in Int
                    /\ cfg.tiers[i].weight <= cfg.tiers[k].weight
      BY <2>3
    <3> QED BY <2>7, <3>1
  <2> QED BY <2>3, <2>5, <2>6, <2>8
<1> QED BY <1>1, EntriesInvariant, PTL

-----------------------------------------------------------------------------
(* The end of the process *)

\* What main, the closer and Listen know of each other: the listener is there
\* only after Bind and closed only after done, and the semaphore is closed only
\* by a main that has left Listen.
Lifecycle ==
  /\ listener = "closed" => done
  /\ main \in {"load", "semaphore", "pools", "warm", "listen"} <=> listener = "nil"
  /\ closer \in {"drain", "pools"} => listener # "nil"
  /\ closer = "listener" => done
  /\ main \in {"load", "semaphore", "pools", "warm"} => closer = "off"
  /\ sem = "closed" => main = "returned"
  /\ SessionsNeverPanic

\* It holds when the process starts.
LEMMA LifecycleInit == Init => Lifecycle
BY DEF Init, Lifecycle, SessionsNeverPanic

\* Each step of main, of the closer and of a session keeps it.
LEMMA LifecycleStep == Lifecycle /\ [Next]_vars => Lifecycle'
<1> SUFFICES ASSUME Lifecycle, [Next]_vars PROVE Lifecycle'
  OBVIOUS
<1> USE DEF Lifecycle, SessionsNeverPanic, created, closeVars, clientVars, loginVars
<1>1. CASE UNCHANGED vars
  BY <1>1 DEF vars, serverVars
<1>2. CASE exit = "no" /\ MainStep
  BY <1>2 DEF MainStep, LoadConfig, NewSemaphore, NewPool, Warm, Notify, Bind,
              CloseSemaphore, Exit, AddClient
<1>3. CASE CloserStep
  BY <1>3 DEF CloserStep, CloseDone, CloseListener, Drained, DrainTimeout,
              ClosePool, PoolClosed
<1>4. CASE exit = "no" /\ (NewPoolFails \/ BindFails \/ AcceptFails \/ Signal)
  BY <1>4 DEF NewPoolFails, BindFails, AcceptFails, Signal
<1>5. ASSUME exit = "no", NEW c \in Clients, Accept(c) \/ Ask(c) PROVE Lifecycle'
  BY <1>5 DEF Accept, Ask
<1>6. ASSUME NEW c \in Clients, LogsIn(c) \/ SessionStep(c) \/ TakeConnFails(c) \/ Answered(c)
      PROVE  Lifecycle'
  BY <1>6 DEF LogsIn, SessionStep, FindPool, TakeConn, TakeConnClosed, EndSession,
              TakeConnFails, Answered, serverVars
<1> QED BY <1>1, <1>2, <1>3, <1>4, <1>5, <1>6 DEF Next

\* SessionsNeverPanic of Server: main closes the semaphore only on its way out,
\* so that no query of a live server meets a closed semaphore.
THEOREM NoPanicInSessions == Spec => []SessionsNeverPanic
<1>1. Lifecycle => SessionsNeverPanic
  BY DEF Lifecycle
<1> QED BY <1>1, LifecycleInit, LifecycleStep, PTL DEF Spec

\* CleanShutdown of Server: the done channel is closed before the listener is.
THEOREM ShutdownIsClean == Spec => CleanShutdown
<1>1. ASSUME Lifecycle, Next, listener = "closed" PROVE exit' # "fatal"
  <2> USE <1>1 DEF Lifecycle, created, closeVars, clientVars, loginVars
  <2>1. exit = "no" /\ done
    BY DEF Next
  <2>2. CASE MainStep
    BY <2>1, <2>2 DEF MainStep, LoadConfig, NewSemaphore, NewPool, Warm, Notify, Bind,
                CloseSemaphore, Exit, AddClient
  <2>3. CASE CloserStep
    BY <2>1, <2>3 DEF CloserStep, CloseDone, CloseListener, Drained, DrainTimeout,
                ClosePool, PoolClosed
  <2>4. CASE NewPoolFails \/ BindFails \/ AcceptFails \/ Signal
    BY <2>1, <2>4 DEF NewPoolFails, BindFails, AcceptFails, Signal
  <2>5. ASSUME NEW c \in Clients, Accept(c) \/ Ask(c) PROVE exit' # "fatal"
    BY <2>1, <2>5 DEF Accept, Ask
  <2>6. ASSUME NEW c \in Clients, LogsIn(c) \/ SessionStep(c) \/ TakeConnFails(c) \/ Answered(c)
        PROVE  exit' # "fatal"
    BY <2>1, <2>6 DEF LogsIn, SessionStep, FindPool, TakeConn, TakeConnClosed, EndSession,
                TakeConnFails, Answered, serverVars
  <2> QED BY <1>1, <2>2, <2>3, <2>4, <2>5, <2>6 DEF Next
<1>2. Lifecycle /\ [Next]_vars => [listener = "closed" => exit' # "fatal"]_vars
  BY <1>1
<1> QED BY <1>2, LifecycleInit, LifecycleStep, PTL DEF Spec, CleanShutdown

-----------------------------------------------------------------------------
(* The types *)

\* The types are inductive only together with Entries: the entry and the pool
\* of a client come from the tables that New has filled.
Typed ==
  /\ TypeOK
  /\ main # "load" => DOMAIN pool = 1 .. Len(cfg.users)

\* Nobody has been served when the process starts.
LEMMA TypedInit == Init => Typed
<1> SUFFICES ASSUME Init PROVE Typed
  OBVIOUS
<1>1. DOMAIN << >> = {} /\ Len(<< >>) = 0
  <2>1. << >> \in Seq({})
    BY EmptySeq
  <2> QED BY <2>1, LenProperties, EmptySeq
<1>2. made \in 0 .. Len(cfg.users)
  BY EntriesInit DEF Entries, Loaded
<1>3. LoginTypeOK
  BY DEF Init, LoginInit, LoginTypeOK
<1>4. \A i \in DOMAIN pool : pool[i] \in {"none", "open", "closing", "closed"}
  BY <1>1 DEF Init
<1>5. Range(pools) \subseteq 1 .. made
  BY <1>1 DEF Init, Range
<1>6. \A c \in Clients : poolOf[c] \in 0 .. made /\ priority[c] \in {0} \cup 0 .. Len(cfg.tiers) - 1
  <2>1. made = 0 /\ \A c \in Clients : poolOf[c] = 0 /\ priority[c] = 0
    BY DEF Init
  <2> QED BY <2>1
<1>7. /\ file \in Files /\ exit = "no" /\ main = "load" /\ sem = "none" /\ listener = "nil"
      /\ closer = "off" /\ done = FALSE /\ timedOut = FALSE
  BY DEF Init
<1> QED BY <1>2, <1>3, <1>4, <1>5, <1>6, <1>7 DEF Typed, TypeOK

\* The tables of a run with a configuration.
LEMMA TablesTyped ==
  ASSUME Entries
  PROVE  /\ Range(pools) \subseteq 1 .. made
         /\ \A u \in DOMAIN userIndex : DOMAIN userIndex[u] = DOMAIN NoEntry
<1>1. Range(pools) \subseteq 1 .. made
  BY DEF Entries, Stored, Range
<1>2. ASSUME NEW u \in DOMAIN userIndex
      PROVE  DOMAIN userIndex[u] = DOMAIN NoEntry
  <2>1. PICK i \in 1 .. made : userIndex[u] = cfg.users[i]
    BY DEF Entries, Stored
  <2>2. cfg.users[i] = User(file.users[i], Env)
    <3>1. main # "load" /\ file \in Files /\ cfg = Load(file, Env)
      BY <2>1 DEF Entries, Loaded
    <3>2. i \in 1 .. Len(file.users)
      BY <2>1, <3>1, EntriesOfConfig, UsersOf DEF Entries
    <3> QED BY <3>1, <3>2, UsersOf
  <2> QED BY <2>1, <2>2 DEF User, NoEntry
<1> QED BY <1>1, <1>2
\* The places of main and of the closer, and the states of the pools.
PlacesTyped ==
  /\ exit \in {"no", "fatal", "panic", "killed", "stopped"}
  /\ main \in {"load", "semaphore", "pools", "warm", "listen", "accept", "add",
               "deferred", "returned"}
  /\ sem \in {"none", "open", "closed"}
  /\ listener \in {"nil", "open", "closed"}
  /\ closer \in {"off", "waiting", "done", "listener", "drain", "pools"}
  /\ done \in BOOLEAN /\ timedOut \in BOOLEAN

PoolsTyped ==
  /\ \A i \in DOMAIN pool : pool[i] \in {"none", "open", "closing", "closed"}
  /\ main # "load" => DOMAIN pool = 1 .. Len(cfg.users)

LEMMA PlacesStep == PlacesTyped /\ [Next]_vars => PlacesTyped'
<1> SUFFICES ASSUME PlacesTyped, [Next]_vars PROVE PlacesTyped'
  OBVIOUS
<1> USE DEF PlacesTyped, created, closeVars, clientVars, loginVars
<1>1. CASE UNCHANGED vars
  BY <1>1 DEF vars, serverVars
<1>2. CASE MainStep
  BY <1>2 DEF MainStep, LoadConfig, NewSemaphore, NewPool, Warm, Notify, Bind,
              CloseSemaphore, Exit, AddClient
<1>3. CASE CloserStep
  BY <1>3 DEF CloserStep, CloseDone, CloseListener, Drained, DrainTimeout,
              ClosePool, PoolClosed
<1>4. CASE NewPoolFails \/ BindFails \/ AcceptFails \/ Signal
  BY <1>4 DEF NewPoolFails, BindFails, AcceptFails, Signal
<1>5. ASSUME NEW c \in Clients, Accept(c) \/ Ask(c) PROVE PlacesTyped'
  BY <1>5 DEF Accept, Ask
<1>6. ASSUME NEW c \in Clients, LogsIn(c) \/ SessionStep(c) \/ TakeConnFails(c) \/ Answered(c)
      PROVE  PlacesTyped'
  BY <1>6 DEF LogsIn, SessionStep, FindPool, TakeConn, TakeConnClosed, EndSession,
              TakeConnFails, Answered, serverVars
<1> QED BY <1>1, <1>2, <1>3, <1>4, <1>5, <1>6 DEF Next

\* What happens to the pools, and when.
LEMMA PoolChanges ==
  ASSUME [Next]_vars
  PROVE  \/ UNCHANGED pool /\ (main = "load" => main' = "load")
         \/ LoadConfig /\ main' = "semaphore"
         \/ NewPool \/ NewPoolFails \/ ClosePool \/ PoolClosed
<1> USE DEF created, closeVars, clientVars, loginVars
<1>1. CASE UNCHANGED vars
  BY <1>1 DEF vars, serverVars
<1>2. CASE LoadConfig
  BY <1>2 DEF LoadConfig
<1>3. CASE NewSemaphore \/ Warm \/ Notify \/ Bind \/ CloseSemaphore \/ Exit
  BY <1>3 DEF NewSemaphore, Warm, Notify, Bind, CloseSemaphore, Exit
<1>4. CASE CloseDone \/ CloseListener \/ Drained \/ DrainTimeout
  BY <1>4 DEF CloseDone, CloseListener, Drained, DrainTimeout
<1>5. CASE BindFails \/ AcceptFails \/ Signal
  BY <1>5 DEF BindFails, AcceptFails, Signal
<1>6. ASSUME NEW c \in Clients, Accept(c) \/ AddClient(c) \/ Ask(c)
      PROVE  UNCHANGED pool /\ (main = "load" => main' = "load")
  BY <1>6 DEF Accept, AddClient, Ask
<1>7. ASSUME NEW c \in Clients, LogsIn(c) \/ SessionStep(c) \/ TakeConnFails(c) \/ Answered(c)
      PROVE  UNCHANGED pool /\ (main = "load" => main' = "load")
  BY <1>7 DEF LogsIn, SessionStep, FindPool, TakeConn, TakeConnClosed, EndSession,
              TakeConnFails, Answered, serverVars
<1> QED BY <1>1, <1>2, <1>3, <1>4, <1>5, <1>6, <1>7 DEF Next, MainStep, CloserStep

LEMMA PoolsStep == Entries /\ PoolsTyped /\ [Next]_vars => PoolsTyped'
<1> SUFFICES ASSUME Entries, PoolsTyped, [Next]_vars PROVE PoolsTyped'
  OBVIOUS
<1> USE DEF PoolsTyped, created
<1>1. CASE UNCHANGED pool /\ (main = "load" => main' = "load")
  <2>1. main # "load" /\ main' # "load" => cfg' = cfg
    BY Creation DEF created, Warm
  <2>2. main' # "load" => main # "load"
    BY <1>1
  <2> QED BY <1>1, <2>1, <2>2
<1>2. CASE LoadConfig /\ main' = "semaphore"
  <2>1. /\ pool' = [i \in DOMAIN file.users |-> "none"]
        /\ cfg' = Load(file, Env) /\ file \in Files
    BY <1>2 DEF LoadConfig, Entries, Loaded
  <2>2. DOMAIN pool' = 1 .. Len(cfg'.users)
    BY <2>1, UsersOf
  <2>3. \A i \in DOMAIN pool' : pool'[i] = "none"
    BY <2>1
  <2> QED BY <2>2, <2>3
<1>3. CASE NewPool \/ NewPoolFails \/ ClosePool \/ PoolClosed
  BY <1>3 DEF NewPool, NewPoolFails, ClosePool, PoolClosed
<1> QED BY <1>1, <1>2, <1>3, PoolChanges
\* The types of what a client's goroutine keeps.
Places == LoggingIn \cup {"free", "accepted", "pool", "acquire", "idle", "query", "closed"}

ClientTyped(c) ==
  /\ DOMAIN entry[c] = DOMAIN NoEntry /\ DOMAIN state[c] = DOMAIN NoState
  /\ priority[c] \in {0} \cup 0 .. Len(cfg.tiers) - 1

ClientsTyped ==
  /\ at \in [Clients -> Places] /\ here \in [Clients -> BOOLEAN]
  /\ \A c \in Clients : ClientTyped(c)

\* The actions of a client itself.
LEMMA OwnTypes ==
  ASSUME Entries, ClientsTyped, NEW c \in Clients,
         \/ Accept(c) \/ AddClient(c) \/ LogsIn(c) \/ SessionStep(c)
         \/ TakeConnFails(c) \/ Ask(c) \/ Answered(c)
  PROVE  ClientTyped(c)' /\ (at \in [Clients -> Places])' /\ (here \in [Clients -> BOOLEAN])'
<1> USE DEF ClientTyped, ClientsTyped, Places, LoggingIn, Functional
<1>1. Functional /\ Len(cfg.tiers)' = Len(cfg.tiers)
  <2>1. cfg' = cfg
    BY DEF Accept, AddClient, LogsIn, SessionStep, FindPool, TakeConn, TakeConnClosed,
       EndSession, TakeConnFails, Ask, Answered, serverVars, created
  <2> QED BY <2>1 DEF Entries
<1>2. CASE \/ Accept(c) \/ AddClient(c) \/ SessionStep(c) \/ TakeConnFails(c) \/ Answered(c)
  BY <1>1, <1>2 DEF Accept, AddClient, SessionStep, FindPool, TakeConn, TakeConnClosed,
     EndSession, TakeConnFails, Answered, Go, Refuse, Tell
<1>3. CASE Ask(c)
  <2>1. TierIndex(state[c].tier) \in 0 .. Len(cfg.tiers) - 1
    BY <1>3, TierOfClient DEF Ask, Receives, Admitted
  <2> QED BY <1>1, <1>3, <2>1 DEF Ask, Go
<1>4. CASE LogsIn(c)
  <2>1. UNCHANGED <<poolOf, priority>>
    BY <1>4 DEF LogsIn
  <2>2. CASE \/ SSLRequest(c) \/ OtherStartup(c) \/ PasswordMessage(c)
             \/ SASLInitialResponse(c) \/ SASLResponse(c) \/ OtherMessage(c)
             \/ LoginLost(c) \/ Leave(c)
    BY <1>1, <2>1, <2>2 DEF SSLRequest, OtherStartup, PasswordMessage, SASLInitialResponse,
         SASLResponse, OtherMessage, LoginLost, Leave, Go, Refuse, Tell, Judge
  <2>3. CASE Welcome(c)
    BY <1>1, <2>1, <2>3 DEF Welcome, Go, Tell, NoState
  <2>4. CASE StartupMessage(c)
    <3>1. PICK w \in Credentials :
            IF Lookup(w) = ""
            THEN /\ entry' = [entry EXCEPT ![c] = userIndex[w.username]]
                 /\ Go(c, Challenge(userIndex[w.username].authMethod))
            ELSE Refuse(c, Lookup(w)) /\ UNCHANGED entry
      BY <2>4 DEF StartupMessage
    <3>2. UNCHANGED <<here, state>>
      BY <2>4 DEF StartupMessage
    <3>3. CASE Lookup(w) = ""
      <4>1. /\ w.username \in DOMAIN userIndex
            /\ userIndex[w.username].authMethod \in Methods
        BY <3>3 DEF Lookup
      <4>2. Challenge(userIndex[w.username].authMethod) \in LoggingIn
        BY <4>1 DEF Challenge, Methods
      <4> QED BY <1>1, <2>1, <3>1, <3>2, <3>3, <4>1, <4>2, TablesTyped DEF Go
    <3>4. CASE Lookup(w) # ""
      BY <1>1, <2>1, <3>1, <3>2, <3>4 DEF Refuse, Go
    <3> QED BY <3>3, <3>4
  <2> QED BY <1>4, <2>2, <2>3, <2>4 DEF LogsIn, LoginStep
<1> QED BY <1>2, <1>3, <1>4

\* Load happens before the first query: a priority is 0 until then.
LEMMA ClientsTypedStep == Entries /\ ClientsTyped /\ [Next]_vars => ClientsTyped'
<1> SUFFICES ASSUME Entries, ClientsTyped, [Next]_vars PROVE ClientsTyped'
  OBVIOUS
<1> USE DEF ClientsTyped
<1>1. CASE /\ main = "load" /\ UNCHANGED clientVars
  <2>1. cfg = NoConfig /\ Len(cfg.tiers) = 0
    <3>1. cfg = NoConfig
      BY <1>1 DEF Entries, Loaded
    <3> QED BY <3>1, EmptySeq DEF NoConfig
  <2>2. \A c \in Clients : priority[c] = 0
    BY <2>1 DEF ClientTyped
  <2> QED BY <1>1, <2>2 DEF ClientTyped, clientVars, loginVars
<1>2. CASE UNCHANGED <<cfg, clientVars>>
  BY <1>2 DEF ClientTyped, clientVars, loginVars
<1>3. ASSUME UNCHANGED created, NEW d \in Clients,
             \/ Accept(d) \/ AddClient(d) \/ LogsIn(d) \/ SessionStep(d)
             \/ TakeConnFails(d) \/ Ask(d) \/ Answered(d)
      PROVE  ClientsTyped'
  <2>1. ClientTyped(d)' /\ (at \in [Clients -> Places])' /\ (here \in [Clients -> BOOLEAN])'
    BY <1>3, OwnTypes
  <2>2. ASSUME NEW c \in Clients, c # d PROVE ClientTyped(c)'
    BY <1>3, <2>2, OthersAlone DEF ClientTyped, created, Entries
  <2> QED BY <2>1, <2>2
<1>4. Warm => UNCHANGED <<cfg, clientVars>>
  BY DEF Warm
<1> QED BY <1>1, <1>2, <1>3, <1>4, Creation DEF created

\* The parts of TypeOK.
LEMMA TypeParts == Entries => (Typed <=> PlacesTyped /\ ClientsTyped /\ PoolsTyped)
<1> SUFFICES ASSUME Entries PROVE Typed <=> PlacesTyped /\ ClientsTyped /\ PoolsTyped
  OBVIOUS
<1>1. /\ file \in Files /\ made \in 0 .. Len(cfg.users) /\ Range(pools) \subseteq 1 .. made
      /\ who \in [Clients -> Credentials \cup {Nobody}]
  BY TablesTyped DEF Entries, Loaded, Functional
<1>2. ASSUME NEW c \in Clients PROVE poolOf[c] \in 0 .. made
  <2>1. Client(c) /\ made \in Nat
    BY EntriesOfConfig DEF Entries
  <2> QED BY <2>1 DEF Client
<1>3. LoginTypeOK /\ (\A c \in Clients : priority[c] \in {0} \cup 0 .. Len(cfg.tiers) - 1)
        <=> ClientsTyped
  BY <1>1 DEF LoginTypeOK, ClientsTyped, ClientTyped, Places
<1> QED BY <1>1, <1>2, <1>3 DEF Typed, TypeOK, PlacesTyped, PoolsTyped

\* TypeOK of Server: Entries gives the types of what clients take from the
\* tables that New has filled.
THEOREM ServerTypes == Spec => []TypeOK
<1>1. Entries /\ PlacesTyped /\ ClientsTyped /\ PoolsTyped /\ [Next]_vars
        => PlacesTyped' /\ ClientsTyped' /\ PoolsTyped'
  BY PlacesStep, ClientsTypedStep, PoolsStep
<1>2. Typed => TypeOK
  BY DEF Typed
<1> QED BY <1>1, <1>2, TypeParts, TypedInit, EntriesInvariant, PTL DEF Spec

-----------------------------------------------------------------------------
(* Clients and closed pools *)

\* Those that Close may still surprise once it closes the pools.
Late(c) ==
  at[c] = "accepted" \/ c \in Running \/ told[c] = "ErrClosedPool"

\* A pool of New is open until Close closes it, which it does after the last
\* client left, or the time was up.  Behind the closed listener there is then
\* one client at most, the one that Listen had in its hands.
Spared ==
  /\ main = "warm" => pool[made + 1] = "open"
  /\ exit = "no" /\ closer # "pools" => \A i \in 1 .. made : pool[i] = "open"
  /\ closer \in {"drain", "pools"} => listener = "closed"
  /\ \A c, d \in Clients :
       /\ at[c] = "accepted" => main = "add"
       /\ at[c] = "accepted" /\ at[d] = "accepted" => c = d
  /\ timedOut => closer = "pools"
  /\ ~timedOut /\ closer # "pools" => \A c \in Clients : told[c] # "ErrClosedPool"
  /\ ~timedOut /\ closer = "pools" => \A c, d \in Clients : Late(c) /\ Late(d) => c = d
LEMMA SparedInit == Init => Spared
<1> SUFFICES ASSUME Init PROVE Spared
  OBVIOUS
<1>1. /\ main = "load" /\ closer = "off" /\ timedOut = FALSE /\ made = 0
      /\ \A c \in Clients : at[c] = "free" /\ told[c] = ""
  BY DEF Init, LoginInit
<1>2. 1 .. made = {}
  <2>1. made = 0
    BY <1>1
  <2> QED BY <2>1
<1> QED BY <1>1, <1>2 DEF Spared

\* Main, until it listens.
LEMMA SparedCreation ==
  ASSUME Entries, Lifecycle, PoolsTyped, Spared,
         LoadConfig \/ NewSemaphore \/ NewPool \/ NewPoolFails \/ Warm \/ Notify
  PROVE  Spared'
<1> USE DEF Spared, created, closeVars, clientVars, loginVars, Late, Running
<1>1. made \in 0 .. Len(cfg.users) /\ made \in Nat /\ Len(cfg.users) \in Nat /\ closer = "off"
  BY EntriesOfConfig DEF Entries, Lifecycle, LoadConfig, NewSemaphore, NewPool, NewPoolFails,
     Warm, Notify
<1>2. CASE LoadConfig
  <2>1. made = 0 /\ made' = 0 /\ 1 .. 0 = {}
    BY <1>2 DEF LoadConfig, Entries, Loaded
  <2> QED BY <1>1, <1>2, <2>1 DEF LoadConfig
<1>3. CASE NewSemaphore \/ Notify
  BY <1>1, <1>3 DEF NewSemaphore, Notify
<1>4. CASE NewPool
  <2>1. made + 1 \in DOMAIN pool /\ \A i \in 1 .. made : i # made + 1
    BY <1>1, <1>4 DEF NewPool, PoolsTyped
  <2>2. pool' = [pool EXCEPT ![made + 1] = "open"] /\ main' = "warm"
        /\ UNCHANGED <<clientVars, created, closeVars, sem, exit>>
    BY <1>4 DEF NewPool
  <2>3. pool'[made + 1] = "open" /\ \A i \in 1 .. made : pool'[i] = pool[i]
    BY <2>1, <2>2
  <2>4. \A c \in Clients : at[c] # "accepted"
    BY <1>4 DEF NewPool
  <2> QED BY <1>1, <2>2, <2>3, <2>4
<1>5. CASE NewPoolFails
  BY <1>1, <1>5 DEF NewPoolFails
<1>6. CASE Warm
  <2>1. made' = made + 1 /\ main' = "pools" /\ main = "warm"
        /\ UNCHANGED <<clientVars, closeVars, pool, exit>>
    BY <1>6 DEF Warm
  <2>2. \A i \in 1 .. made + 1 : i \in 1 .. made \/ i = made + 1
    BY <1>1
  <2>3. exit' = "no" => \A i \in 1 .. made' : pool'[i] = "open"
    BY <1>1, <2>1, <2>2
  <2> QED BY <1>1, <2>1, <2>3
<1> QED BY <1>2, <1>3, <1>4, <1>5, <1>6

\* Main from Bind on, without its clients, and the closer.
LEMMA SparedServing ==
  ASSUME Lifecycle, Spared, exit = "no",
         \/ Bind \/ BindFails \/ AcceptFails \/ CloseSemaphore \/ Exit
         \/ Signal \/ CloserStep
  PROVE  Spared'
<1> USE DEF Spared, created, closeVars, clientVars, loginVars, Late, Running
<1>1. CASE Bind \/ BindFails \/ AcceptFails \/ CloseSemaphore \/ Exit
  BY <1>1 DEF Bind, BindFails, AcceptFails, CloseSemaphore, Exit, Lifecycle
<1>2. CASE Signal
  BY <1>2 DEF Signal
<1>3. CASE CloseDone
  BY <1>3 DEF CloseDone
<1>4. CASE CloseListener
  BY <1>4 DEF CloseListener
<1>5. CASE Drained
  BY <1>5 DEF Drained
<1>6. CASE DrainTimeout
  BY <1>6 DEF DrainTimeout
<1>7. CASE ClosePool
  BY <1>7 DEF ClosePool, Lifecycle
<1>8. CASE PoolClosed
  <2>1. PICK i \in DOMAIN pool : pool[i] = "closing" /\ pool' = [pool EXCEPT ![i] = "closed"]
    BY <1>8 DEF PoolClosed
  <2>2. \A j : pool[j] = "open" => pool'[j] = "open"
    BY <2>1
  <2> QED BY <1>8, <2>2 DEF PoolClosed
<1> QED BY <1>1, <1>2, <1>3, <1>4, <1>5, <1>6, <1>7, <1>8 DEF CloserStep

\* A client's own steps tell nobody else of a closed pool.
LEMMA LateStep ==
  ASSUME Entries, Spared, exit = "no", NEW d \in Clients,
         LogsIn(d) \/ SessionStep(d) \/ TakeConnFails(d) \/ Ask(d) \/ Answered(d),
         NEW c \in Clients
  PROVE  /\ Late(c)' => Late(c)
         /\ at'[c] = "accepted" => at[c] = "accepted"
         /\ closer # "pools" /\ told[c] # "ErrClosedPool" => told'[c] # "ErrClosedPool"
<1>1. CASE c # d
  <2>1. at'[c] = at[c] /\ told'[c] = told[c]
    BY <1>1, OthersAlone DEF Entries
  <2> QED BY <2>1 DEF Late, Running
<1>2. CASE c = d
  <2> USE <1>2 DEF Late, Running, Functional, Go, Tell, Refuse
  <2>1. Functional /\ Client(d) /\ Loaded /\ Stored
    BY DEF Entries
  <2>2. CASE FindPool(d) \/ TakeConn(d) \/ EndSession(d) \/ TakeConnFails(d) \/ Ask(d) \/ Answered(d)
    BY <2>1, <2>2 DEF FindPool, TakeConn, EndSession, TakeConnFails, Ask, Answered, Receives
  <2>3. CASE TakeConnClosed(d)
    <3>1. at[d] = "acquire" /\ pool[PoolFor(d)] # "open" /\ at'[d] = "closed"
      BY <2>1, <2>3 DEF TakeConnClosed
    <3>2. PICK i \in 1 .. made : Is(d, i)
      BY <2>1, <3>1 DEF Client, Admitted
    <3>3. PoolFor(d) = i
      BY <2>1, <3>2, OwnPool
    <3> QED BY <3>1, <3>3 DEF Spared
  <2>4. CASE LogsIn(d)
    <3>1. CASE \/ SSLRequest(d) \/ OtherStartup(d) \/ PasswordMessage(d)
               \/ SASLInitialResponse(d) \/ SASLResponse(d) \/ OtherMessage(d)
               \/ Welcome(d) \/ LoginLost(d) \/ Leave(d)
      BY <2>1, <3>1 DEF SSLRequest, OtherStartup, PasswordMessage, SASLInitialResponse,
         SASLResponse, OtherMessage, Welcome, LoginLost, Leave, Judge, Receives, LoggingIn
    <3>2. CASE StartupMessage(d)
      <4>1. \A w : Lookup(w) # "ErrClosedPool" /\ \A x : Challenge(x) = "accepted" => x = "accepted"
        BY DEF Lookup, Challenge
      <4>2. PICK w \in Credentials :
              IF Lookup(w) = ""
              THEN /\ Go(d, Challenge(userIndex[w.username].authMethod))
                   /\ UNCHANGED told
              ELSE Refuse(d, Lookup(w))
        BY <3>2 DEF StartupMessage
      <4>3. Lookup(w) = "" => userIndex[w.username].authMethod \in Methods
        BY DEF Lookup
      <4>4. at[d] \in {"startup", "declined"}
        BY <3>2 DEF StartupMessage, Receives
      <4> QED BY <2>1, <4>1, <4>2, <4>3, <4>4 DEF Methods
    <3> QED BY <2>4, <3>1, <3>2 DEF LogsIn, LoginStep
  <2> QED BY <2>2, <2>3, <2>4 DEF SessionStep
<1> QED BY <1>1, <1>2

LEMMA SparedStep ==
  Entries /\ Lifecycle /\ PoolsTyped /\ Spared /\ [Next]_vars => Spared'
<1> SUFFICES ASSUME Entries, Lifecycle, PoolsTyped, Spared, [Next]_vars PROVE Spared'
  OBVIOUS
<1>1. CASE UNCHANGED vars
  BY <1>1 DEF vars, serverVars, clientVars, loginVars, created, closeVars, Spared, Late, Running
<1>2. CASE LoadConfig \/ NewSemaphore \/ NewPool \/ NewPoolFails \/ Warm \/ Notify
  BY <1>2, SparedCreation
<1>3. CASE exit = "no" /\ (\/ Bind \/ BindFails \/ AcceptFails \/ CloseSemaphore \/ Exit
                           \/ Signal \/ CloserStep)
  BY <1>3, SparedServing
<1>4. ASSUME exit = "no", NEW d \in Clients, Accept(d) \/ AddClient(d)
      PROVE  Spared'
  <2> USE <1>4 DEF Functional, Spared, Late, Running, Go, created, closeVars
  <2>1. Functional
    BY DEF Entries
  <2>2. CASE Accept(d)
    BY <2>1, <2>2 DEF Accept
  <2>3. CASE AddClient(d)
    BY <2>1, <2>3 DEF AddClient
  <2> QED BY <2>2, <2>3
<1>5. ASSUME exit = "no", NEW d \in Clients,
             LogsIn(d) \/ SessionStep(d) \/ TakeConnFails(d) \/ Ask(d) \/ Answered(d)
      PROVE  Spared'
  <2>1. UNCHANGED <<main, made, pool, listener, closer, timedOut>>
    BY <1>5 DEF LogsIn, SessionStep, FindPool, TakeConn, TakeConnClosed, EndSession,
       TakeConnFails, Ask, Answered, serverVars, created, closeVars
  <2>2. \A c \in Clients :
          /\ Late(c)' => Late(c)
          /\ at'[c] = "accepted" => at[c] = "accepted"
          /\ closer # "pools" /\ told[c] # "ErrClosedPool" => told'[c] # "ErrClosedPool"
    BY <1>5, LateStep
  <2> HIDE DEF Late
  <2> QED BY <1>5, <2>1, <2>2 DEF Spared
<1> QED BY <1>1, <1>2, <1>3, <1>4, <1>5 DEF Next, MainStep

\* ShutdownSparesClients of Server, for any number of clients: a Close that was
\* not cut short by its timeout takes the pool from one client at most.
THEOREM LateClientIsAlone == Spec => []ShutdownSparesClients
<1>1. Spared => ShutdownSparesClients
  <2> DEFINE S == {c \in Clients : told[c] = "ErrClosedPool"}
  <2> SUFFICES ASSUME Spared, ~timedOut PROVE Cardinality(S) <= 1
    BY DEF ShutdownSparesClients
  <2>1. \A c, d \in S : c = d
    BY DEF Spared, Late
  <2>2. CASE S = {}
    BY <2>2, FS_EmptySet
  <2>3. ASSUME NEW c \in S PROVE Cardinality(S) = 1
    <3>1. S = {c}
      BY <2>1
    <3> QED BY <3>1, FS_Singleton
  <2> QED BY <2>2, <2>3
<1>2. Entries /\ PoolsTyped /\ [Next]_vars => PoolsTyped'
  BY PoolsStep
<1>3. Init => PoolsTyped
  BY TypedInit DEF Typed, TypeOK, PoolsTyped
<1> QED BY <1>1, <1>2, <1>3, SparedInit, SparedStep, LifecycleInit, LifecycleStep,
       EntriesInvariant, PTL DEF Spec
=============================================================================
