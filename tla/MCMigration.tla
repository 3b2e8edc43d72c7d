---------------------------- MODULE MCMigration ----------------------------
(* Instances of Migration for TLC. *)
EXTENDS Migration

CONSTANTS A, B, C, MaxAttempt

MCAttempts == 1 .. MaxAttempt

\* Every move between two nodes: the agent may come back to a node.
BackAndForth == {<<A, B>>, <<B, A>>}
\* Moves between three nodes in a ring.
Ring == {<<A, B>>, <<B, C>>, <<C, A>>}
\* The agent never returns to a node.
OneWay == {<<A, B>>, <<B, C>>}
TwoNodes == {<<A, B>>}
=============================================================================
