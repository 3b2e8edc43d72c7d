----------------------------- MODULE MCDurable -----------------------------
(* PA's escrow store, the consensus store, and the voting service, for TLC. *)
EXTENDS Escrow, Consensus, Voting, TLC

CONSTANTS ann, bob, eve, o1, o2

VARIABLE part      \* which of them runs in this behaviour

durablevars == <<part, vars, rvars, vvars>>

\* ann and bob can pay for one order of 2 or two of 1; eve owns nothing.
MCSeed == ann :> 2 @@ bob :> 1 @@ eve :> 0

MCCommands ==
  {[op |-> "register", agent |-> "f1", node |-> 1], [op |-> "register", agent |-> "f1", node |-> 2],
   [op |-> "unregister", agent |-> "f1"], [op |-> "offer", type |-> "t", provider |-> "f1"],
   [op |-> "withdraw", type |-> "t", provider |-> "f1"], [op |-> "membership"],
   [op |-> "undecodable"]}

\* Where a part does not run, its state stays as it starts.
DurableInit == Init /\ RInit /\ VInit /\ part \in {"escrow", "store", "meta", "voters"}

DurableNext ==
  \/ part = "escrow" /\ Next /\ UNCHANGED <<part, rvars, vvars>>
  \/ part = "store" /\ StoreNext /\ UNCHANGED <<part, vars, vvars>>
  \/ part = "meta" /\ MetaNext /\ UNCHANGED <<part, vars, vvars>>
  \/ part = "voters" /\ VNext /\ UNCHANGED <<part, vars, rvars>>

DurableSpec == DurableInit /\ [][DurableNext]_durablevars
=============================================================================
