------------------------------- MODULE Login -------------------------------
(***************************************************************************)
(* proxy/clientAuth.go: doAuth and the three methods it may run, for each  *)
(* accepted client, up to AuthenticationOk and ReadyForQuery.  The proxy   *)
(* and the client take turns, so each action is one message of the client  *)
(* and all that doAuth does up to its next Receive.  A digest or a proof   *)
(* stands for what it is computed from, and a client's number for the      *)
(* fresh salts of its login.                                               *)
(***************************************************************************)
EXTENDS Config

CONSTANTS
  Clients,
  Credentials  \* the records [username, database, password] of the clients

ASSUME CredentialsAssumption ==
  Credentials \subseteq [username : STRING, database : STRING, password : STRING]

VARIABLES
  at,     \* where the goroutine of each client is
  here,   \* whether the client is still there
  who,    \* the credentials it presents
  entry,  \* the entry of the configuration that doAuth found
  state,  \* clientState
  told,   \* what the client was told last: an error, "Ready", or nothing yet
  userIndex

loginVars == <<at, here, who, entry, state, told>>

Nobody == [username |-> "", database |-> "", password |-> ""]
NoState == [username |-> "", database |-> "", tier |-> ""]
NoEntry == [username |-> "", database |-> "", tier |-> "", authMethod |-> "", password |-> ""]

\* The methods, by the field auth_method; the first challenge of each.
Methods == {"", "cleartext", "md5", "scram-sha-256"}
Challenge(method) == IF method = "" THEN "scram-sha-256" ELSE method

LoggingIn == {"startup", "declined", "cleartext", "md5", "scram-sha-256", "final", "verified"}

LoginInit ==
  /\ at = [c \in Clients |-> "free"]
  /\ here = [c \in Clients |-> FALSE]
  /\ who = [c \in Clients |-> Nobody]
  /\ entry = [c \in Clients |-> NoEntry]
  /\ state = [c \in Clients |-> NoState]
  /\ told = [c \in Clients |-> ""]

Go(c, place) == at' = [at EXCEPT ![c] = place]
Tell(c, what) == told' = IF here[c] THEN [told EXCEPT ![c] = what] ELSE told

\* doAuth fails: handleClient sends the error and closes the connection.  The
\* errors of the messages are all ErrAuthFailed here; each has its own text.
Refuse(c, error) == Tell(c, error) /\ Go(c, "closed")

Receives(c, place) == at[c] = place /\ here[c]

-----------------------------------------------------------------------------
(* The startup message *)

\* TLS is declined.
SSLRequest(c) ==
  /\ Receives(c, "startup")
  /\ Go(c, "declined")
  /\ UNCHANGED <<here, who, entry, state, told>>

\* Another SSLRequest, a CancelRequest or a GSSEncRequest.
OtherStartup(c) ==
  /\ Receives(c, "startup") \/ Receives(c, "declined")
  /\ Refuse(c, "ErrAuthFailed")
  /\ UNCHANGED <<here, who, entry, state>>

\* Mutant of Lookup: any database will do.
LookupByUser(w) ==
  IF w.username \notin DOMAIN userIndex THEN "ErrUnknownUser"
  ELSE IF userIndex[w.username].authMethod \notin Methods THEN "ErrUnknownAuthMethod"
  ELSE ""

\* The error of a startup message, or "".
Lookup(w) ==
  IF w.username \notin DOMAIN userIndex THEN "ErrUnknownUser"
  ELSE IF userIndex[w.username].database # w.database
       THEN "ErrDatabaseConnectionNotConfigured"
  ELSE IF userIndex[w.username].authMethod \notin Methods THEN "ErrUnknownAuthMethod"
  ELSE ""

StartupMessage(c) ==
  /\ Receives(c, "startup") \/ Receives(c, "declined")
  /\ \E w \in Credentials :
       /\ who' = [who EXCEPT ![c] = w]
       /\ IF Lookup(w) = ""
          THEN /\ entry' = [entry EXCEPT ![c] = userIndex[w.username]]
               /\ Go(c, Challenge(userIndex[w.username].authMethod))
               /\ UNCHANGED told
          ELSE Refuse(c, Lookup(w)) /\ UNCHANGED entry
  /\ UNCHANGED <<here, state>>

-----------------------------------------------------------------------------
(* The methods *)

Md5Password(password, username, salt) == <<password, username, salt>>

\* The proof of SCRAM; the messages that it covers are the client's own.
ClientProof(password, salt) == <<password, salt>>

\* What the challenge of the login of c makes of a password.
Response(c, password, username) ==
  CASE at[c] = "cleartext" -> <<password>>
    [] at[c] = "md5" -> Md5Password(password, username, c)
    [] OTHER -> ClientProof(password, c)

Expected(c) == Response(c, entry[c].password, entry[c].username)
Answer(c) == Response(c, who[c].password, who[c].username)

\* The header of a client that binds no channel, and a nonce.
ParseClientFirst(header, nonce) == header = "n,," /\ nonce # ""

\* Three parts, the nonce of this login if there is one, and a proof.
ParseClientFinal(parts, nonce, proof) == parts >= 3 /\ nonce # "other" /\ proof # ""

Judge(c, accepted, next) ==
  IF accepted THEN Go(c, next) /\ UNCHANGED told ELSE Refuse(c, "ErrAuthFailed")

PasswordMessage(c) ==
  /\ Receives(c, "cleartext") \/ Receives(c, "md5")
  /\ Judge(c, Answer(c) = Expected(c), "verified")
  /\ UNCHANGED <<here, who, entry, state>>

SASLInitialResponse(c) ==
  /\ Receives(c, "scram-sha-256")
  /\ \E mechanism \in {"SCRAM-SHA-256", "SCRAM-SHA-256-PLUS"},
        header \in {"n,,", "y,,"}, nonce \in {"", "r"} :
       Judge(c, mechanism = "SCRAM-SHA-256" /\ ParseClientFirst(header, nonce), "final")
  /\ UNCHANGED <<here, who, entry, state>>

\* A proof that is there may be none that the messages so far lead to.
SASLResponse(c) ==
  /\ Receives(c, "final")
  /\ \E parts \in {2, 3}, nonce \in {"none", "own", "other"},
        proof \in {"", "garbled", "computed"} :
       Judge(c, /\ ParseClientFinal(parts, nonce, proof)
                /\ proof = "computed" /\ Answer(c) = Expected(c), "verified")
  /\ UNCHANGED <<here, who, entry, state>>

\* A message of another type than the method expects.
OtherMessage(c) ==
  /\ \E place \in {"cleartext", "md5", "scram-sha-256", "final"} : Receives(c, place)
  /\ Refuse(c, "ErrAuthFailed")
  /\ UNCHANGED <<here, who, entry, state>>

-----------------------------------------------------------------------------

\* The rest of doAuth: AuthenticationOk, the parameters, ReadyForQuery.
Welcome(c) ==
  /\ at[c] = "verified"
  /\ state' = [state EXCEPT ![c] = [username |-> who[c].username,
                                    database |-> who[c].database,
                                    tier |-> entry[c].tier]]
  /\ Tell(c, "Ready")
  /\ Go(c, "pool")
  /\ UNCHANGED <<here, who, entry>>

\* A Receive or a Flush fails because the client is gone.
LoginLost(c) ==
  /\ at[c] \in LoggingIn /\ ~here[c]
  /\ Go(c, "closed")
  /\ UNCHANGED <<here, who, entry, state, told>>

Leave(c) ==
  /\ here[c] /\ at[c] # "closed"
  /\ here' = [here EXCEPT ![c] = FALSE]
  /\ UNCHANGED <<at, who, entry, state, told>>

LoginStep(c) ==
  \/ SSLRequest(c) \/ OtherStartup(c) \/ StartupMessage(c)
  \/ PasswordMessage(c) \/ SASLInitialResponse(c) \/ SASLResponse(c) \/ OtherMessage(c)
  \/ Welcome(c) \/ LoginLost(c) \/ Leave(c)

LoginTypeOK ==
  /\ at \in [Clients -> LoggingIn \cup
                        {"free", "accepted", "pool", "acquire", "idle", "query", "closed"}]
  /\ here \in [Clients -> BOOLEAN]
  /\ who \in [Clients -> Credentials \cup {Nobody}]
  /\ \A c \in Clients : DOMAIN entry[c] = DOMAIN NoEntry /\ DOMAIN state[c] = DOMAIN NoState
=============================================================================
