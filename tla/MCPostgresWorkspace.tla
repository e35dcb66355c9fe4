------------------------ MODULE MCPostgresWorkspace ------------------------
(* Two sources of one text on PostgreSQL, and runs that end early.         *)
EXTENDS PostgresWorkspace

CONSTANT tA

OneEntity == [s \in Sources |-> 1]
Same == {<<tA, tA>>}
=============================================================================
