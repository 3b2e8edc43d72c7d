------------------------ MODULE ReplicatedDirectory ------------------------
(***************************************************************************)
(* What the replicated directory promises (consensus/mod.rs): the cluster  *)
(* agrees on one list of requests, and each replica shows the directory    *)
(* that some prefix of that list defines.  A replica moves forward along   *)
(* the list, by one request or many, or starts again from nothing.         *)
(* The directory of a prefix is stated without replaying it: an agent is   *)
(* where the last request about it put it.                                 *)
(***************************************************************************)
EXTENDS Naturals, Sequences, FiniteSetsExt

CONSTANTS Replicas, Requests

VARIABLES
  agreed,      \* the requests the cluster agreed on, in order
  at,          \* at[n]: how many of them replica n shows
  shown        \* shown[n]: its directory

Nowhere == 0      \* no node: NodeIds are above 0
Fingerprints == {r.agent : r \in {q \in Requests : q.op \in {"register", "unregister"}}}
Offers == {<<r.type, r.provider>> : r \in {q \in Requests : q.op \in {"offer", "withdraw"}}}

\* The last request of the prefix about x, 0 if there is none.
LastAbout(prefix, About(_)) == Max({0} \cup {i \in 1 .. Len(prefix) : About(prefix[i])})

DirectoryOf(prefix) ==
  [agents |-> [f \in Fingerprints |->
     LET i == LastAbout(prefix, LAMBDA r : r.op \in {"register", "unregister"} /\ r.agent = f)
     IN  IF i = 0 \/ prefix[i].op = "unregister" THEN Nowhere ELSE prefix[i].node],
   offers |-> {o \in Offers :
     LET i == LastAbout(prefix, LAMBDA r : /\ r.op \in {"offer", "withdraw"}
                                           /\ <<r.type, r.provider>> = o)
     IN  i # 0 /\ prefix[i].op = "offer"}]

Init ==
  /\ agreed = <<>>
  /\ at = [n \in Replicas |-> 0]
  /\ shown = [n \in Replicas |-> DirectoryOf(<<>>)]

Agree(r) == agreed' = Append(agreed, r) /\ UNCHANGED <<at, shown>>

Advance(n, k) ==
  /\ k \in at[n] + 1 .. Len(agreed)
  /\ at' = [at EXCEPT ![n] = k]
  /\ shown' = [shown EXCEPT ![n] = DirectoryOf(SubSeq(agreed, 1, k))]
  /\ UNCHANGED agreed

StartAgain(n) ==
  /\ at' = [at EXCEPT ![n] = 0]
  /\ shown' = [shown EXCEPT ![n] = DirectoryOf(<<>>)]
  /\ UNCHANGED agreed

Next ==
  \/ \E r \in Requests : Agree(r)
  \/ \E n \in Replicas : StartAgain(n) \/ \E k \in 1 .. Len(agreed) : Advance(n, k)

Spec == Init /\ [][Next]_<<agreed, at, shown>>
=============================================================================
