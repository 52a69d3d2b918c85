---------------------------- MODULE MCGameSession -----------------------------
(* One role, two connections. A connection is used once, so the runs do not *)
(* check deadlock: when all are closed the session is over.                 *)
EXTENDS GameSession, TLC

\* Every role's data is saved through the same DB server.
DBOfRoleValue == [r \in Roles |-> CHOOSE d \in DBs : TRUE]

Symmetry == Permutations(Clients) \cup Permutations(Gates)
===============================================================================
