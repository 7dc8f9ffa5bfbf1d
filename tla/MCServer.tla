------------------------------ MODULE MCServer ------------------------------
(* Small servers: their configuration files and their clients.               *)
EXTENDS Server

EnvTwo == [P1 |-> "s1", P2 |-> "s2", P3 |-> ""]

T(name, weight) == [name |-> name, weight |-> weight, queueSize |-> 0]

U(username, database, tier, method, env) ==
  [username |-> username, database |-> database, tier |-> tier,
   authMethod |-> method, passwordEnv |-> env]

F(tiers, users, min, max, concurrent) ==
  [postgresHost |-> "pg", tiers |-> tiers, users |-> users,
   minConns |-> min, maxConns |-> max, maxConcurrent |-> concurrent]

App == U("app", "db1", "gold", "", "P1")
Rep == U("rep", "db2", "lead", "md5", "P2")
AppToo == U("app", "db2", "lead", "cleartext", "P2")
Odd == U("odd", "db1", "gold", "kerberos", "P1")

GoldLead == <<T("gold", 3), T("lead", 0)>>

\* Two users, one connection each.
TwoUsers == F(GoldLead, <<App, Rep>>, 1, 1, 0)
\* Two entries of one user.
OneUserTwice == F(GoldLead, <<App, AppToo>>, 1, 1, 0)
\* Two entries for one user and database, in different tiers.
SamePair == F(GoldLead, <<App, U("app", "db1", "lead", "md5", "P2")>>, 1, 1, 0)
\* An unknown method.
OddUser == F(GoldLead, <<Odd>>, 1, 1, 0)
\* Files that Load refuses: the tiers the wrong way round, an unknown tier, no
\* password.
WrongOrder == F(<<T("lead", 1), T("gold", 3)>>, <<App, Rep>>, 1, 1, 0)
NoTier == F(<<T("lead", 1)>>, <<App>>, 1, 1, 0)
NoPassword == F(GoldLead, <<U("app", "db1", "gold", "", "P3")>>, 1, 1, 0)
\* A file that NewSemaphore refuses.
Negative == F(GoldLead, <<App>>, 1, 1, -1)
\* min_conns is not in the file, and its default is more than max_conns.
Cold == F(GoldLead, <<App>>, 0, 3, 0)

SomeFiles ==
  {TwoUsers, OneUserTwice, SamePair, OddUser, WrongOrder, NoTier, NoPassword, Negative, Cold}
TwoUsersFile == {TwoUsers}
OneUserTwiceFile == {OneUserTwice}

C(username, database, password) ==
  [username |-> username, database |-> database, password |-> password]

SomeCredentials ==
  {C("app", "db1", "s1"), C("app", "db1", "s2"), C("app", "db2", "s2"), C("rep", "db2", "s2"),
   C("odd", "db1", "s1")}
=============================================================================
