----------------------------- MODULE MCBookBuy -----------------------------
(* Instances of BookBuy for TLC. *)
EXTENDS BookBuy, TLC

CONSTANTS ann, bob

\* Both buyers can pay; there is one book.
BothRich == ann :> 1 @@ bob :> 1 @@ bs :> 0

\* All agents on one node; and a node each, where one owner may withdraw.
OneNode == [coLocated |-> TRUE, mayWithdraw |-> {}]
Mesh == [coLocated |-> FALSE, mayWithdraw |-> {ann}]
Both == {OneNode, Mesh}
OnlyMesh == {Mesh}
=============================================================================
