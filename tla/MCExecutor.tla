----------------------------- MODULE MCExecutor -----------------------------
(* Instances of Executor for TLC. *)
EXTENDS Executor, TLC

CONSTANTS a1, w1

\* For MaxMessages: messages never end.
Endless == -1
=============================================================================
