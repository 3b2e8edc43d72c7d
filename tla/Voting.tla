------------------------------- MODULE Voting -------------------------------
(***************************************************************************)
(* network/grpc.rs, ConsensusServiceImpl: how a node answers the vote,     *)
(* append and snapshot calls of the others.  Its voting state is its own,  *)
(* kept in memory.  Calls of any term from any node may arrive, again and  *)
(* in any order.                                                           *)
(***************************************************************************)
EXTENDS Naturals

CONSTANTS
  Members,          \* NodeIds, numbers above 0
  Terms,            \* the terms calls are made in
  MaxLives          \* bound on the lives of a node

ASSUME VotingAssumption == Members \subseteq Nat \ {0} /\ Terms \subseteq Nat

VARIABLES
  voter,            \* voter[n]: ConsensusState of the service at n
  life,             \* life[n]: which of its lives n is in
  grants            \* the votes granted: by whom, in which life and term, to whom

vvars == <<voter, life, grants>>

NoNode == 0
NewVoter == [term |-> 0, votedFor |-> NoNode, leader |-> NoNode]

VInit ==
  /\ voter = [n \in Members |-> NewVoter]
  /\ life = [n \in Members |-> 1]
  /\ grants = {}

-----------------------------------------------------------------------------
GrantsVote(v, t, c) ==
  \/ t > v.term
  \/ t = v.term /\ v.votedFor \in {NoNode, c}

Vote(n, t, c) ==
  /\ voter' = [voter EXCEPT ![n] =
       IF GrantsVote(@, t, c) THEN [@ EXCEPT !.term = t, !.votedFor = c] ELSE @]
  /\ grants' = IF GrantsVote(voter[n], t, c)
               THEN grants \cup {[by |-> n, life |-> life[n], term |-> t, to |-> c]}
               ELSE grants
  /\ UNCHANGED <<life>>

NewTerm(v, t) == IF t > v.term THEN [v EXCEPT !.term = t, !.votedFor = NoNode] ELSE v

\* Mutant: every append of the current term or a later one forgets the vote.
AppendForgets(n, t, l) ==
  /\ voter' = [voter EXCEPT ![n] = [(IF t >= @.term THEN [@ EXCEPT !.term = t, !.votedFor = NoNode]
                                     ELSE @) EXCEPT !.leader = l]]
  /\ UNCHANGED <<life, grants>>

\* The leader is taken before the term is looked at.
AppendEntries(n, t, l) ==
  /\ voter' = [voter EXCEPT ![n] = [NewTerm(@, t) EXCEPT !.leader = l]]
  /\ UNCHANGED <<life, grants>>

SnapshotCall(n, t) ==
  /\ voter' = [voter EXCEPT ![n] = NewTerm(@, t)]
  /\ UNCHANGED <<life, grants>>

RestartVoter(n) ==
  /\ life[n] < MaxLives
  /\ life' = [life EXCEPT ![n] = @ + 1]
  /\ voter' = [voter EXCEPT ![n] = NewVoter]
  /\ UNCHANGED grants

VNext ==
  \/ \E n, c \in Members, t \in Terms : Vote(n, t, c) \/ AppendEntries(n, t, c)
  \/ \E n \in Members, t \in Terms : SnapshotCall(n, t)
  \/ \E n \in Members : RestartVoter(n)

VSpec == VInit /\ [][VNext]_vvars

-----------------------------------------------------------------------------
\* Whatever mix of votes, appends and snapshots of old and new terms arrives, a node grants at
\* most one candidate its vote in a term, as long as it is not restarted.
OneVotePerTerm ==
  \A g, h \in grants : g.by = h.by /\ g.life = h.life /\ g.term = h.term => g.to = h.to
=============================================================================
