------------------------------- MODULE Config -------------------------------
(***************************************************************************)
(* config/config.go: from the fields of a YAML file and the environment to *)
(* the configuration that everything else is built from.  The fields that  *)
(* only name an address or a duration are left out.  0, "" and << >> are   *)
(* Go's zero values: the field was not in the file.                        *)
(***************************************************************************)
EXTENDS Integers, Sequences

TierFiles == [name : STRING, weight : Int, queueSize : Int]

UserFiles ==
  [username : STRING, database : STRING, tier : STRING,
   authMethod : STRING, passwordEnv : STRING]

OrDefault(x, default) == IF x = 0 THEN default ELSE x

\* Mutant of Validate: the loop over the tiers starts one too late.
ValidateFromThird(f) ==
  /\ f.postgresHost # ""
  /\ f.tiers # << >> /\ f.users # << >>
  /\ \A i \in DOMAIN f.users : f.users[i].passwordEnv # ""
  /\ \A i \in 3 .. Len(f.tiers) : f.tiers[i].weight <= f.tiers[i - 1].weight

\* The tiers must be in order before defaults are applied.
Validate(f) ==
  /\ f.postgresHost # ""
  /\ f.tiers # << >> /\ f.users # << >>
  /\ \A i \in DOMAIN f.users : f.users[i].passwordEnv # ""
  /\ \A i \in 2 .. Len(f.tiers) : f.tiers[i].weight <= f.tiers[i - 1].weight

\* Whether Load returns no error; env is the environment.
Loads(f, env) ==
  /\ Validate(f)
  /\ \A i \in DOMAIN f.users :
       /\ \E j \in DOMAIN f.tiers : f.tiers[j].name = f.users[i].tier
       /\ env[f.users[i].passwordEnv] # ""

Tier(t) ==
  [name |-> t.name,
   weight |-> OrDefault(t.weight, 1),
   queueSize |-> OrDefault(t.queueSize, 200)]

User(u, env) ==
  [username |-> u.username, database |-> u.database, tier |-> u.tier,
   authMethod |-> u.authMethod, password |-> env[u.passwordEnv]]

\* What Load returns then.
Load(f, env) ==
  [tiers |-> [i \in DOMAIN f.tiers |-> Tier(f.tiers[i])],
   users |-> [i \in DOMAIN f.users |-> User(f.users[i], env)],
   minConns |-> OrDefault(f.minConns, 5),
   maxConns |-> OrDefault(f.maxConns, 20),
   maxConcurrent |-> OrDefault(f.maxConcurrent, 20)]
=============================================================================
