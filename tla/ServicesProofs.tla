-------------------------- MODULE ServicesProofs --------------------------
(***************************************************************************)
(* Proofs about the services around the agents, each component on its own  *)
(* and for every value of its constants: the voting service, the           *)
(* platform's AMS and DF, the inter-platform channel, the scheduler of     *)
(* behaviours, discovery and the gRPC delivery, the MCP bridge, grants and *)
(* the host's accounts, and the hosting of agents.                         *)
(***************************************************************************)
EXTENDS Platform, Channel, Scheduler, Network, Hosting, Sandbox, Bridge, Voting,
        SumTheorems, FiniteSetTheorems, SequenceTheorems, TLAPS

-----------------------------------------------------------------------------
(* The voting service *)

Voters == [term : Nat, votedFor : Nat, leader : Nat]
Grants == [by : Members, life : Nat, term : Nat, to : Members]

VTypeOK ==
  /\ voter \in [Members -> Voters]
  /\ life \in [Members -> Nat]
  /\ grants \subseteq Grants

\* A grant of the present life is of a term no later than the voter's, and in the voter's own term
\* it is the vote the voter remembers; grants of earlier lives bind nobody any more.
VoteRemembered ==
  \A g \in grants :
    /\ g.life <= life[g.by]
    /\ g.life = life[g.by] =>
         /\ g.term <= voter[g.by].term
         /\ g.term = voter[g.by].term => g.to = voter[g.by].votedFor

VInv == VTypeOK /\ VoteRemembered /\ OneVotePerTerm

\* What an append or a snapshot leaves of a vote: it stays unless the term moves on.
LEMMA NewTermKeeps ==
  ASSUME NEW v \in Voters, NEW t \in Nat
  PROVE  /\ NewTerm(v, t) \in Voters /\ NewTerm(v, t).term >= v.term
         /\ NewTerm(v, t).term = v.term => NewTerm(v, t).votedFor = v.votedFor
<1>1. CASE t > v.term
  <2> DEFINE w == [v EXCEPT !.term = t, !.votedFor = NoNode]
  <2>1. w \in Voters /\ w.term = t
    BY DEF Voters, NoNode
  <2>2. v.term \in Nat
    BY DEF Voters
  <2> QED BY <1>1, <2>1, <2>2 DEF NewTerm
<1>2. CASE ~(t > v.term)
  BY <1>2 DEF NewTerm, Voters
<1> QED BY <1>1, <1>2

\* A step that only moves a voter's term on, or leaves its vote, keeps the invariant.
LEMMA VoterMovesOn ==
  ASSUME VInv, NEW n \in Members, NEW w \in Voters, voter' = [voter EXCEPT ![n] = w],
         w.term >= voter[n].term, w.term = voter[n].term => w.votedFor = voter[n].votedFor,
         UNCHANGED <<life, grants>>
  PROVE  VInv'
<1> USE DEF VInv, VTypeOK, Grants
<1>1. VTypeOK'
  OBVIOUS
<1>2. ASSUME NEW g \in grants PROVE
        /\ g.life <= life[g.by]
        /\ g.life = life[g.by] =>
             /\ g.term <= voter'[g.by].term
             /\ g.term = voter'[g.by].term => g.to = voter'[g.by].votedFor
  <2>1. voter[g.by] \in Voters /\ voter'[g.by] = IF g.by = n THEN w ELSE voter[g.by]
    BY <1>2
  <2>2. g.term \in Nat
    BY <1>2
  <2> QED BY <2>1, <2>2 DEF VoteRemembered, Voters
<1>3. VoteRemembered'
  BY <1>2 DEF VoteRemembered
<1> QED BY <1>1, <1>3 DEF OneVotePerTerm

\* Every step of the voting service keeps its inductive invariant.
LEMMA VotingStep == VInv /\ [VNext]_vvars => VInv'
<1> SUFFICES ASSUME VInv, [VNext]_vvars PROVE VInv'
  OBVIOUS
<1> USE VotingAssumption DEF VInv, VTypeOK, VoteRemembered, OneVotePerTerm, Voters, Grants
<1>1. ASSUME NEW n \in Members, NEW c \in Members, NEW t \in Terms, Vote(n, t, c) PROVE VInv'
  <2> USE <1>1 DEF Vote
  <2>1. CASE ~GrantsVote(voter[n], t, c)
    BY <2>1
  <2>2. CASE GrantsVote(voter[n], t, c)
    <3> DEFINE new == [by |-> n, life |-> life[n], term |-> t, to |-> c]
    <3>1. grants' = grants \cup {new} /\ new \in Grants /\ UNCHANGED life
      BY <2>2
    <3> DEFINE w == [voter[n] EXCEPT !.term = t, !.votedFor = c]
    <3>2. voter' = [voter EXCEPT ![n] = w]
      BY <2>2
    <3>t. voter[n] \in Voters /\ t \in Nat /\ c \in Nat
      OBVIOUS
    <3>2a. w \in Voters /\ w.term = t /\ w.votedFor = c /\ t >= voter[n].term /\ t \in Nat
      <4>1. \A v \in Voters : LET u == [v EXCEPT !.term = t, !.votedFor = c]
                                IN  u \in Voters /\ u.term = t /\ u.votedFor = c
        BY ONLY <3>t DEF Voters
      <4>2. t >= voter[n].term
        BY ONLY <2>2, <3>t DEF GrantsVote, Voters
      <4> QED BY ONLY <4>1, <4>2, <3>t DEF w
    <3>3. \A g \in grants : g.by = n /\ g.life = life[n] /\ g.term = t => g.to = c
      <4> TAKE g \in grants
      <4>1. g.to \in Members /\ g.to # NoNode
        BY DEF NoNode
      <4>2. g.by = n /\ g.life = life[n] =>
              g.term <= voter[n].term /\ (g.term = voter[n].term => g.to = voter[n].votedFor)
        OBVIOUS
      <4> QED BY ONLY <4>1, <4>2, <2>2, <3>t DEF GrantsVote, Voters
    <3> HIDE DEF Vote
    <3> HIDE DEF w
    <3>4. VTypeOK'
      BY <3>1, <3>2, <3>2a
    <3>5. VoteRemembered'
      <4> SUFFICES ASSUME NEW g \in grants' PROVE
            /\ g.life <= life[g.by]
            /\ g.life = life[g.by] =>
                 /\ g.term <= voter'[g.by].term
                 /\ g.term = voter'[g.by].term => g.to = voter'[g.by].votedFor
        BY <3>1
      <4>1. CASE g = new
        BY <4>1, <3>1, <3>2, <3>2a
      <4>2. CASE g \in grants /\ g.by = n
        <5>1. voter'[g.by] = w /\ voter[n].term \in Nat /\ g.term \in Nat
          BY <4>2, <3>2
        <5> QED BY <5>1, <4>2, <3>2a, <3>3
      <4>3. CASE g \in grants /\ g.by # n
        BY <4>3, <3>2
      <4> QED BY <4>1, <4>2, <4>3, <3>1
    <3>6. OneVotePerTerm'
      BY <3>1, <3>3
    <3> QED BY <3>4, <3>5, <3>6
  <2> QED BY <2>1, <2>2
<1>2. ASSUME NEW n \in Members, NEW l \in Members, NEW t \in Terms, AppendEntries(n, t, l) PROVE VInv'
  <2> DEFINE w == [NewTerm(voter[n], t) EXCEPT !.leader = l]
  <2>1. voter' = [voter EXCEPT ![n] = w] /\ UNCHANGED <<life, grants>> /\ voter[n] \in Voters /\ t \in Nat
    BY <1>2 DEF AppendEntries
  <2>2. w \in Voters /\ w.term = NewTerm(voter[n], t).term /\ w.votedFor = NewTerm(voter[n], t).votedFor
    BY <2>1, NewTermKeeps
  <2> QED BY ONLY <2>1, <2>2, VInv, n \in Members, NewTermKeeps, VoterMovesOn
<1>3. ASSUME NEW n \in Members, NEW t \in Terms, SnapshotCall(n, t) PROVE VInv'
  <2>1. voter' = [voter EXCEPT ![n] = NewTerm(voter[n], t)] /\ UNCHANGED <<life, grants>>
    BY <1>3 DEF SnapshotCall
  <2>2. voter[n] \in Voters /\ t \in Nat
    OBVIOUS
  <2> QED BY ONLY <2>1, <2>2, VInv, n \in Members, NewTermKeeps, VoterMovesOn
<1>4. ASSUME NEW n \in Members, RestartVoter(n) PROVE VInv'
  BY <1>4 DEF RestartVoter, NewVoter, NoNode
<1>5. CASE UNCHANGED vvars
  BY <1>5 DEF vvars
<1> QED BY <1>1, <1>2, <1>3, <1>4, <1>5 DEF VNext

\* Whatever mix of votes, appends and snapshots of old and new terms arrives, and whenever nodes
\* restart, a node grants one candidate at most its vote in a term of a life (grpc.rs, vote).
THEOREM VotingTheorem == VSpec => []OneVotePerTerm
<1>1. VInit => VInv
  BY DEF VInit, VInv, VTypeOK, VoteRemembered, OneVotePerTerm, NewVoter, NoNode, Voters, Grants
<1>2. VInv => OneVotePerTerm
  BY DEF VInv
<1> QED BY <1>1, <1>2, VotingStep, PTL DEF VSpec

-----------------------------------------------------------------------------
(* The agent management system *)

Known == Names \union {"ams"}
Mail == [op : {"spawn", "stop"}, name : Known, id : Nat]

AMSType ==
  /\ mail \in Seq(Mail) /\ created \in Nat
  /\ DOMAIN agents \subseteq Known /\ \A c \in creating : "name" \in DOMAIN c /\ c.name \in Known

\* A name whose destruction was acknowledged stays taken; whatever starts an agent of that name is
\* followed by a stop in the supervisor's mail, and so is an agent of the name that runs.
StopFollows ==
  \A n \in destroyed :
    /\ n \in DOMAIN agents
    /\ n \in running => \E j \in DOMAIN mail : mail[j].op = "stop" /\ mail[j].name = n
    /\ \A i \in DOMAIN mail : mail[i].op = "spawn" /\ mail[i].name = n =>
         \E j \in DOMAIN mail : j > i /\ mail[j].op = "stop" /\ mail[j].name = n

AMSInv == AMSType /\ StopFollows

\* A message at the end of the supervisor's mail.
LEMMA Posted ==
  ASSUME mail \in Seq(Mail), NEW m \in Mail, mail' = Append(mail, m)
  PROVE  /\ mail' \in Seq(Mail) /\ DOMAIN mail = 1 .. Len(mail) /\ Len(mail) \in Nat
         /\ DOMAIN mail' = 1 .. Len(mail) + 1 /\ mail'[Len(mail) + 1] = m
         /\ \A i \in DOMAIN mail : i \in DOMAIN mail' /\ mail'[i] = mail[i] /\ i < Len(mail) + 1
         /\ \A i \in DOMAIN mail' : i \in DOMAIN mail \/ i = Len(mail) + 1
  OBVIOUS

\* The supervisor takes the first.
LEMMA Taken1 ==
  ASSUME mail \in Seq(Mail), mail # <<>>, mail' = Tail(mail)
  PROVE  /\ mail' \in Seq(Mail) /\ Head(mail) = mail[1] /\ Head(mail) \in Mail
         /\ \A i \in DOMAIN mail' : i + 1 \in DOMAIN mail /\ mail'[i] = mail[i + 1]
         /\ \A i \in DOMAIN mail : i \in Nat /\ (i = 1 \/ (i > 1 /\ i - 1 \in DOMAIN mail' /\ mail'[i - 1] = mail[i]))
         /\ 1 \in DOMAIN mail /\ DOMAIN mail' \subseteq Nat
  OBVIOUS

\* Every handler of the AMS and every step of the supervisor keep a stop behind what it must stop.
LEMMA AMSStep == AMSInv /\ [AMSNext]_amsvars => AMSInv'
<1> SUFFICES ASSUME AMSInv, [AMSNext]_amsvars PROVE AMSInv'
  OBVIOUS
<1>0. /\ mail \in Seq(Mail) /\ created \in Nat /\ DOMAIN agents \subseteq Known
      /\ \A c \in creating : "name" \in DOMAIN c /\ c.name \in Known
  BY DEF AMSInv, AMSType
<1>1. ASSUME NEW n \in Names, NEW given \in BOOLEAN, NEW owner, CreateAgent(n, given, owner) PROVE AMSInv'
  <2> DEFINE m == [op |-> "spawn", name |-> n, id |-> created + 1]
  <2>1. /\ n \notin DOMAIN agents /\ mail' = Append(mail, m) /\ created' = created + 1
        /\ creating' = creating \union {[id |-> created + 1, name |-> n, owner |-> owner, answered |-> FALSE]}
        /\ UNCHANGED <<agents, running, destroyed>>
    BY <1>1 DEF CreateAgent, GenerateUniqueName, IsNameAvailable
  <2>2. m \in Mail /\ m.name = n
    BY <1>0 DEF Mail, Known
  <2> HIDE DEF m
  <2>3. AMSType'
    BY <1>0, <2>1, <2>2, Posted DEF AMSType, Known
  <2>4. ASSUME NEW d \in destroyed'
        PROVE  /\ d \in DOMAIN agents'
               /\ d \in running' => \E j \in DOMAIN mail' : mail'[j].op = "stop" /\ mail'[j].name = d
               /\ \A i \in DOMAIN mail' : mail'[i].op = "spawn" /\ mail'[i].name = d =>
                    \E j \in DOMAIN mail' : j > i /\ mail'[j].op = "stop" /\ mail'[j].name = d
    <3>1. d \in destroyed /\ d \in DOMAIN agents /\ d # n
      BY <2>1, <2>4 DEF AMSInv, StopFollows
    <3> QED BY <1>0, <2>1, <2>2, <3>1, Posted DEF AMSInv, StopFollows
  <2> QED BY <2>3, <2>4 DEF AMSInv, StopFollows
<1>2. ASSUME NEW c \in creating, Register(c) PROVE AMSInv'
  <2>1. DOMAIN agents' = DOMAIN agents \union {c.name} /\ creating' \subseteq creating /\ UNCHANGED <<mail, running, created, destroyed>>
    BY <1>2 DEF Register, With
  <2> QED BY <1>0, <2>1 DEF AMSInv, AMSType, StopFollows
<1>3. ASSUME NEW n \in DOMAIN agents, NEW requester, DestroyAgent(n, requester) PROVE AMSInv'
  <2> DEFINE m == [op |-> "stop", name |-> n, id |-> 0]
  <2>1. /\ mail' = Append(mail, m) /\ DOMAIN agents' = DOMAIN agents /\ destroyed' = destroyed \union {n}
        /\ UNCHANGED <<creating, running, created>>
    BY <1>3 DEF DestroyAgent
  <2>2. m \in Mail /\ m.name = n /\ m.op = "stop"
    BY <1>0 DEF Mail
  <2> HIDE DEF m
  <2>3. AMSType'
    BY <1>0, <2>1, <2>2, Posted DEF AMSType
  <2>4. ASSUME NEW d \in destroyed'
        PROVE  /\ d \in DOMAIN agents'
               /\ d \in running' => \E j \in DOMAIN mail' : mail'[j].op = "stop" /\ mail'[j].name = d
               /\ \A i \in DOMAIN mail' : mail'[i].op = "spawn" /\ mail'[i].name = d =>
                    \E j \in DOMAIN mail' : j > i /\ mail'[j].op = "stop" /\ mail'[j].name = d
    <3>0. /\ Len(mail) + 1 \in DOMAIN mail' /\ mail'[Len(mail) + 1] = m /\ Len(mail) \in Nat
          /\ \A i \in DOMAIN mail : i < Len(mail) + 1
          /\ \A i \in DOMAIN mail' : (i \in DOMAIN mail /\ mail'[i] = mail[i]) \/ i = Len(mail) + 1
      BY <1>0, <2>1, <2>2, Posted
    <3>1. CASE d = n
      <4>1. \A i \in DOMAIN mail' : mail'[i].op = "spawn" => i < Len(mail) + 1
        BY <2>2, <3>0
      <4>2. d \in DOMAIN agents'
        BY <2>1, <3>1
      <4> QED BY <2>2, <3>0, <3>1, <4>1, <4>2
    <3>2. CASE d \in destroyed
      BY <1>0, <2>1, <2>2, <3>2, Posted DEF AMSInv, StopFollows
    <3> QED BY <2>1, <3>1, <3>2
  <2> QED BY <2>3, <2>4 DEF AMSInv, StopFollows
<1>4. ASSUME NEW n \in DOMAIN agents, SuspendAgent(n) \/ ResumeAgent(n) PROVE AMSInv'
  <2>1. DOMAIN agents' = DOMAIN agents /\ UNCHANGED <<creating, mail, running, created, destroyed>>
    BY <1>4 DEF SuspendAgent, ResumeAgent
  <2> QED BY <2>1 DEF AMSInv, AMSType, StopFollows
<1>5. CASE SuperviseNext
  <2> DEFINE m == Head(mail)
  <2>1. /\ mail # <<>> /\ mail' = Tail(mail) /\ UNCHANGED <<agents, created, destroyed>>
        /\ creating' \in {creating, Answered(m.id)}
        /\ \/ m.op = "spawn" /\ running' \subseteq running \union {m.name}
           \/ m.op = "stop" /\ running' = running \ {m.name}
    BY <1>5 DEF SuperviseNext
  <2>2. \A c \in creating' : "name" \in DOMAIN c /\ c.name \in Known
    <3>1. \A c \in Answered(m.id) : "name" \in DOMAIN c /\ c.name \in Known
      BY <1>0 DEF Answered
    <3> QED BY <1>0, <2>1, <3>1
  <2>3. AMSType'
    BY <1>0, <2>1, <2>2, Taken1 DEF AMSType
  <2>4. ASSUME NEW d \in destroyed'
        PROVE  /\ d \in DOMAIN agents'
               /\ d \in running' => \E j \in DOMAIN mail' : mail'[j].op = "stop" /\ mail'[j].name = d
               /\ \A i \in DOMAIN mail' : mail'[i].op = "spawn" /\ mail'[i].name = d =>
                    \E j \in DOMAIN mail' : j > i /\ mail'[j].op = "stop" /\ mail'[j].name = d
    <3>0. /\ d \in DOMAIN agents
          /\ d \in running => \E j \in DOMAIN mail : mail[j].op = "stop" /\ mail[j].name = d
          /\ \A i \in DOMAIN mail : mail[i].op = "spawn" /\ mail[i].name = d =>
               \E j \in DOMAIN mail : j > i /\ mail[j].op = "stop" /\ mail[j].name = d
      BY <2>1, <2>4 DEF AMSInv, StopFollows
    <3>t. /\ m = mail[1] /\ 1 \in DOMAIN mail /\ DOMAIN mail' \subseteq Nat
          /\ \A i \in DOMAIN mail' : i + 1 \in DOMAIN mail /\ mail'[i] = mail[i + 1]
          /\ \A i \in DOMAIN mail : i \in Nat /\ (i = 1 \/ (i > 1 /\ i - 1 \in DOMAIN mail' /\ mail'[i - 1] = mail[i]))
      BY <1>0, <2>1, Taken1
    <3> HIDE DEF m
    <3>1. ASSUME NEW i \in DOMAIN mail', mail'[i].op = "spawn", mail'[i].name = d
          PROVE  \E j \in DOMAIN mail' : j > i /\ mail'[j].op = "stop" /\ mail'[j].name = d
      <4>1. PICK j \in DOMAIN mail : j > i + 1 /\ mail[j].op = "stop" /\ mail[j].name = d
        BY <3>0, <3>1, <3>t
      <4>2. j - 1 \in DOMAIN mail' /\ mail'[j - 1] = mail[j] /\ j - 1 > i
        BY <3>t, <4>1
      <4> QED BY <4>1, <4>2
    <3>2. ASSUME d \in running' PROVE \E j \in DOMAIN mail' : mail'[j].op = "stop" /\ mail'[j].name = d
      <4>1. PICK j \in DOMAIN mail : j # 1 /\ mail[j].op = "stop" /\ mail[j].name = d
        <5>1. CASE m.op = "spawn" /\ m.name = d
          BY <3>0, <3>t, <5>1
        <5>2. CASE m.op = "spawn" /\ m.name # d
          BY <2>1, <3>0, <3>2, <3>t, <5>2
        <5>3. CASE m.op = "stop"
          BY <2>1, <3>0, <3>2, <3>t, <5>3
        <5> QED BY <2>1, <5>1, <5>2, <5>3
      <4> QED BY <3>t, <4>1
    <3> QED BY <2>1, <3>0, <3>1, <3>2
  <2> QED BY <2>3, <2>4 DEF AMSInv, StopFollows
<1>6. ASSUME NEW n \in running, AgentFails(n) PROVE AMSInv'
  BY <1>6 DEF AgentFails, AMSInv, AMSType, StopFollows
<1>7. CASE UNCHANGED amsvars
  BY <1>7 DEF amsvars, AMSInv, AMSType, StopFollows
<1> QED BY <1>1, <1>2, <1>3, <1>4, <1>5, <1>6, <1>7 DEF AMSNext

\* Once a destruction was acknowledged and the supervisor has no mail left for the name, no agent of
\* the name runs, for any names, owners and limits and however creations, destructions and the
\* supervisor's work interleave (create_agent, destroy_agent, is_name_available).
THEOREM DestroyedTheorem == AMSSpec => []DestroyedStaysDown
<1>1. AMSInit => AMSInv
  BY DEF AMSInit, AMSInv, AMSType, StopFollows, Known
<1>2. AMSInv => DestroyedStaysDown
  BY DEF AMSInv, StopFollows, DestroyedStaysDown
<1> QED BY <1>1, <1>2, AMSStep, PTL DEF AMSSpec

-----------------------------------------------------------------------------
(* The inter-platform channel *)

Entries == [msg : Messages, attempts : Nat, last : Nat]
MsgsOf(s) == {s[i].msg : i \in DOMAIN s}

ChannelType ==
  /\ buffer \in Seq(Entries) /\ batch \in Seq(Entries) /\ incoming \in Seq(Messages)
  /\ inflight \subseteq Messages /\ time \in Nat

\* The message whose retry failed, and which the loop is about to put back, is accounted for without
\* the loop's copy: the failed attempt buffered it or counted it, unless the buffer was cleared since.
PutBackSpare ==
  stage = "put" => batch # <<>> /\ Head(batch).msg \in MsgsOf(buffer) \union failures \union cleared

ChannelInv == ChannelType /\ PutBackSpare /\ AcceptedNotLost

LEMMA MaxOf ==
  ASSUME NEW L \in Nat, NEW S, S \subseteq 1 .. L, S # {}
  PROVE  Max(S) \in S
<1> DEFINE T == {L - k : k \in S}
<1>1. T \subseteq Nat /\ T # {}
  <2>1. \A k \in 1 .. L : L - k \in Nat
    OBVIOUS
  <2>2. PICK k \in S : TRUE
    OBVIOUS
  <2>3. L - k \in T
    OBVIOUS
  <2> QED BY <2>1, <2>3
<1>2. PICK n \in T : \A m \in T : n <= m
  BY <1>1, LeastNat
<1>3. PICK x \in S : n = L - x
  BY <1>2
<1>4. \A y \in S : x >= y
  <2> TAKE y \in S
  <2>1. L - y \in T
    OBVIOUS
  <2>2. x \in 1 .. L /\ y \in 1 .. L /\ L - x <= L - y
    BY <1>2, <1>3, <2>1
  <2> QED BY ONLY L \in Nat, <2>2
<1> QED BY <1>4 DEF Max

LEMMA Retried ==
  ASSUME NEW e \in Entries, NEW t \in Nat
  PROVE  /\ e.msg \in Messages /\ e.attempts \in Nat
         /\ [e EXCEPT !.attempts = @ + 1, !.last = t] \in Entries
         /\ [e EXCEPT !.attempts = @ + 1, !.last = t].msg = e.msg
<1>1. e.msg \in Messages /\ e.attempts \in Nat
  BY DEF Entries
<1> DEFINE f == [e EXCEPT !.attempts = @ + 1, !.last = t]
<1>2. f.msg = e.msg
  BY DEF Entries
<1>3. f \in Entries
  <2>1. e.attempts + 1 \in Nat
    BY <1>1
  <2>2. ASSUME NEW a \in Nat PROVE [e EXCEPT !.attempts = a, !.last = t] \in Entries
    BY DEF Entries
  <2> QED BY <2>1, <2>2
<1> QED BY <1>1, <1>2, <1>3

LEMMA MsgsOfAppend ==
  ASSUME NEW s \in Seq(Entries), NEW e \in Entries
  PROVE  /\ Append(s, e) \in Seq(Entries)
         /\ \A x : x \in MsgsOf(s) => x \in MsgsOf(Append(s, e))
         /\ e.msg \in MsgsOf(Append(s, e))
<1>1. Append(s, e)[Len(s) + 1] = e /\ Len(s) + 1 \in DOMAIN Append(s, e)
  OBVIOUS
<1>2. \A i \in DOMAIN s : i \in DOMAIN Append(s, e) /\ Append(s, e)[i] = s[i]
  OBVIOUS
<1> QED BY <1>1, <1>2 DEF MsgsOf

LEMMA MsgsOfTail ==
  ASSUME NEW s \in Seq(Entries), s # <<>>
  PROVE  /\ Tail(s) \in Seq(Entries) /\ Head(s) \in Entries
         /\ \A x : x \in MsgsOf(s) => x = Head(s).msg \/ x \in MsgsOf(Tail(s))
<1>1. \A i \in DOMAIN s : i = 1 \/ (i - 1 \in DOMAIN Tail(s) /\ Tail(s)[i - 1] = s[i])
  OBVIOUS
<1>2. Head(s) = s[1]
  OBVIOUS
<1> QED BY <1>1, <1>2 DEF MsgsOf

LEMMA MsgsOfCut ==
  ASSUME NEW s \in Seq(Entries), NEW n \in 1 .. Len(s)
  PROVE  /\ SubSeq(s, 1, n) \in Seq(Entries) /\ SubSeq(s, n + 1, Len(s)) \in Seq(Entries)
         /\ \A x : x \in MsgsOf(s) => x \in MsgsOf(SubSeq(s, 1, n)) \/ x \in MsgsOf(SubSeq(s, n + 1, Len(s)))
<1>0. SubSeq(s, 1, n) \in Seq(Entries) /\ SubSeq(s, n + 1, Len(s)) \in Seq(Entries) /\ n \in Nat /\ DOMAIN s \subseteq Nat
  OBVIOUS
<1>1. \A i \in DOMAIN s : i <= n => i \in DOMAIN SubSeq(s, 1, n) /\ SubSeq(s, 1, n)[i] = s[i]
  OBVIOUS
<1>2. \A i \in DOMAIN s : i > n => i - n \in DOMAIN SubSeq(s, n + 1, Len(s)) /\ SubSeq(s, n + 1, Len(s))[i - n] = s[i]
  OBVIOUS
<1>3. \A i \in DOMAIN s : i <= n \/ i > n
  BY <1>0
<1> DEFINE a == SubSeq(s, 1, n)
           b == SubSeq(s, n + 1, Len(s))
<1> HIDE DEF a, b
<1> QED BY <1>0, <1>1, <1>2, <1>3 DEF MsgsOf, a, b

LEMMA MsgsOfSwap ==
  ASSUME NEW s \in Seq(Entries), s # <<>>, NEW e \in Entries, e.msg = Head(s).msg
  PROVE  /\ <<e>> \o Tail(s) \in Seq(Entries) /\ <<e>> \o Tail(s) # <<>> /\ Head(<<e>> \o Tail(s)) = e
         /\ \A x : x \in MsgsOf(s) => x \in MsgsOf(<<e>> \o Tail(s))
<1> DEFINE t == <<e>> \o Tail(s)
<1>1. t \in Seq(Entries) /\ Len(t) = Len(s) /\ t[1] = e /\ \A i \in 2 .. Len(s) : t[i] = s[i]
  OBVIOUS
<1>2. t # <<>> /\ Head(t) = e
  BY <1>1
<1>3. \A i \in DOMAIN s : i \in DOMAIN t /\ t[i].msg = s[i].msg
  BY <1>1
<1> QED BY <1>1, <1>2, <1>3 DEF MsgsOf

\* What every operation leaves of the messages that were accounted for.
LEMMA Accounted ==
  ASSUME AcceptedNotLost, NEW m, sent' \subseteq sent \union {m},
         \A x \in inflight \union delivered \union MsgsOf(buffer) \union MsgsOf(batch) \union failures
                   \union cleared \union {incoming[i] : i \in DOMAIN incoming} \union (sent' \ sent) :
           x \in inflight' \union delivered' \union MsgsOf(buffer)' \union MsgsOf(batch)' \union failures'
                   \union cleared' \union {incoming'[i] : i \in DOMAIN incoming'}
  PROVE  AcceptedNotLost'
  BY Zenon DEF AcceptedNotLost, Held, MsgsOf

LEMMA HandleFailedKeeps ==
  ASSUME buffer \in Seq(Entries), time \in Nat, NEW m \in Messages, HandleFailed(m)
  PROVE  /\ buffer' \in Seq(Entries) /\ \A x : x \in MsgsOf(buffer) => x \in MsgsOf(buffer')
         /\ failures \subseteq failures' /\ m \in MsgsOf(buffer') \union failures'
<1> DEFINE e == [msg |-> m, attempts |-> 1, last |-> time]
<1>1. e \in Entries /\ e.msg = m
  BY DEF Entries
<1>2. \/ buffer' = Append(buffer, e) /\ failures' = failures
      \/ buffer' = buffer /\ failures' = failures \union {m}
  BY DEF HandleFailed
<1> HIDE DEF e
<1> QED BY <1>1, <1>2, MsgsOfAppend

LEMMA ChannelStep == ChannelInv /\ [ChannelNext]_channelvars => ChannelInv'
<1> SUFFICES ASSUME ChannelInv, [ChannelNext]_channelvars PROVE ChannelInv'
  OBVIOUS
<1>0. /\ buffer \in Seq(Entries) /\ batch \in Seq(Entries) /\ incoming \in Seq(Messages)
      /\ inflight \subseteq Messages /\ time \in Nat
  BY DEF ChannelInv, ChannelType
<1>p. stage = "put" => batch # <<>> /\ Head(batch).msg \in MsgsOf(buffer) \union failures \union cleared
  BY DEF ChannelInv, PutBackSpare
<1>a. AcceptedNotLost
  BY DEF ChannelInv
<1> USE DEF MsgsOf
<1>1. ASSUME \/ Start \/ Stop \/ TimePasses
             \/ \E p \in Remote : RegisterPlatform(p) \/ UnregisterPlatform(p)
      PROVE  ChannelInv'
  <2>1. UNCHANGED <<inflight, buffer, batch, stage, incoming, sent, delivered, failures, cleared>> /\ time' \in Nat
    BY <1>0, <1>1 DEF Start, Stop, TimePasses, RegisterPlatform, UnregisterPlatform
  <2>2. AcceptedNotLost'
    BY <1>a, <2>1 DEF AcceptedNotLost, Held
  <2> QED BY <1>0, <1>p, <2>1, <2>2 DEF ChannelInv, ChannelType, PutBackSpare
<1> HIDE DEF MsgsOf
<1>2. ASSUME NEW m \in Messages, Send(m) PROVE ChannelInv'
  <2>1. UNCHANGED <<buffer, batch, stage, time, incoming, failures, cleared>> /\ sent' = sent \union {m}
    BY <1>2 DEF Send
  <2>2. inflight \subseteq inflight' /\ delivered \subseteq delivered' /\ m \in inflight' \union delivered' /\ inflight' \subseteq Messages
    BY <1>0, <1>2 DEF Send
  <2>3. AcceptedNotLost'
    BY <1>a, <2>1, <2>2, Accounted
  <2> QED BY <1>0, <1>p, <2>1, <2>2, <2>3 DEF ChannelInv, ChannelType, PutBackSpare
<1>3. ASSUME NEW m \in Messages, SendEnds(m) PROVE ChannelInv'
  <2>1. inflight' = inflight \ {m} /\ UNCHANGED <<batch, stage, time, incoming, sent, cleared>>
    BY <1>3 DEF SendEnds
  <2>2. /\ buffer' \in Seq(Entries) /\ \A x : x \in MsgsOf(buffer) => x \in MsgsOf(buffer')
        /\ failures \subseteq failures' /\ delivered \subseteq delivered'
        /\ m \in MsgsOf(buffer') \union failures' \union delivered'
    BY <1>0, <1>3, HandleFailedKeeps DEF SendEnds
  <2>3. AcceptedNotLost'
    BY <1>a, <2>1, <2>2, Accounted
  <2> QED BY <1>0, <1>p, <2>1, <2>2, <2>3 DEF ChannelInv, ChannelType, PutBackSpare
<1>4. CASE ProcessBuffer
  <2> DEFINE S == {k \in 1 .. Len(buffer) : \A i \in 1 .. k : Ready(buffer[i])}
             n == Max(S)
  <2>1. /\ batch = <<>> /\ buffer # <<>> /\ Ready(Head(buffer)) /\ stage' = "try"
        /\ batch' = SubSeq(buffer, 1, n) /\ buffer' = SubSeq(buffer, n + 1, Len(buffer))
        /\ UNCHANGED <<inflight, time, incoming, sent, delivered, failures, cleared>>
    BY <1>4 DEF ProcessBuffer
  <2>2. n \in 1 .. Len(buffer)
    <3>1. Len(buffer) \in Nat /\ Len(buffer) >= 1 /\ Head(buffer) = buffer[1]
      BY <1>0, <2>1
    <3>2. \A i \in 1 .. 1 : i = 1
      OBVIOUS
    <3>3. 1 \in S
      BY <2>1, <3>1, <3>2
    <3>4. S \subseteq 1 .. Len(buffer) /\ S # {}
      BY <3>3
    <3> QED BY ONLY <3>1, <3>4, MaxOf
  <2> HIDE DEF n
  <2>3. /\ batch' \in Seq(Entries) /\ buffer' \in Seq(Entries)
        /\ \A x : x \in MsgsOf(buffer) => x \in MsgsOf(batch') \/ x \in MsgsOf(buffer')
    BY <1>0, <2>1, <2>2, MsgsOfCut
  <2>4. MsgsOf(batch) = {}
    BY <2>1 DEF MsgsOf
  <2>5. AcceptedNotLost'
    BY <1>a, <2>1, <2>3, <2>4, Accounted
  <2> QED BY <1>0, <2>1, <2>3, <2>5 DEF ChannelInv, ChannelType, PutBackSpare
<1>5. CASE RetryNext
  <2> DEFINE e == Head(batch)
  <2>0. /\ batch # <<>> /\ UNCHANGED <<inflight, time, incoming, sent, cleared>>
        /\ \/ stage = "put" /\ PutBack(e)
           \/ stage # "put" /\ (Drop(e) \/ Retry(e))
    BY <1>5 DEF RetryNext
  <2>t. /\ Tail(batch) \in Seq(Entries) /\ e \in Entries
        /\ \A x : x \in MsgsOf(batch) => x = e.msg \/ x \in MsgsOf(Tail(batch))
    BY <1>0, <2>0, MsgsOfTail
  <2>e. e.msg \in Messages /\ e.attempts \in Nat /\ [e EXCEPT !.attempts = @ + 1, !.last = time] \in Entries
        /\ [e EXCEPT !.attempts = @ + 1, !.last = time].msg = e.msg
    BY <1>0, <2>t, Retried
  <2>1. CASE stage = "put" /\ PutBack(e)
    <3>1. /\ batch' = Tail(batch) /\ stage' = "try" /\ UNCHANGED <<delivered, failures>>
          /\ buffer' \in {buffer, Append(buffer, e)}
      BY <2>1 DEF PutBack
    <3> HIDE DEF e
    <3>2. buffer' \in Seq(Entries) /\ \A x : x \in MsgsOf(buffer) => x \in MsgsOf(buffer')
      BY <1>0, <2>t, <3>1, MsgsOfAppend
    <3>3. e.msg \in MsgsOf(buffer) \union failures \union cleared
      BY <1>p, <2>1 DEF e
    <3>4. AcceptedNotLost'
      BY <1>a, <2>0, <2>t, <3>1, <3>2, <3>3, Accounted
    <3> QED BY <1>0, <2>0, <2>t, <3>1, <3>2, <3>4 DEF ChannelInv, ChannelType, PutBackSpare
  <2>2. CASE stage # "put" /\ Drop(e)
    <3>1. batch' = Tail(batch) /\ failures' = failures \union {e.msg} /\ UNCHANGED <<buffer, stage, delivered>>
      BY <2>2 DEF Drop
    <3> HIDE DEF e
    <3>4. AcceptedNotLost'
      BY <1>a, <2>0, <2>t, <3>1, Accounted
    <3> QED BY <1>0, <2>0, <2>2, <2>t, <3>1, <3>4 DEF ChannelInv, ChannelType, PutBackSpare
  <2>3. CASE stage # "put" /\ Retry(e)
    <3> DEFINE f == [e EXCEPT !.attempts = @ + 1, !.last = time]
    <3>1. \/ delivered' = delivered \union {e.msg} /\ batch' = Tail(batch) /\ UNCHANGED <<buffer, failures, stage>>
          \/ HandleFailed(e.msg) /\ delivered' = delivered /\ stage' = "put" /\ batch' = <<f>> \o Tail(batch)
      BY <2>3 DEF Retry
    <3>s. /\ <<f>> \o Tail(batch) \in Seq(Entries) /\ <<f>> \o Tail(batch) # <<>> /\ Head(<<f>> \o Tail(batch)) = f
          /\ \A x : x \in MsgsOf(batch) => x \in MsgsOf(<<f>> \o Tail(batch))
      BY <1>0, <2>0, <2>e, MsgsOfSwap
    <3>m. f.msg = e.msg
      BY <2>e
    <3> HIDE DEF e, f
    <3>2. CASE delivered' = delivered \union {e.msg} /\ batch' = Tail(batch) /\ UNCHANGED <<buffer, failures, stage>>
      <4>1. AcceptedNotLost'
        BY <1>a, <2>0, <2>t, <3>2, Accounted
      <4> QED BY <1>0, <2>0, <2>3, <2>t, <3>2, <4>1 DEF ChannelInv, ChannelType, PutBackSpare
    <3>3. CASE HandleFailed(e.msg) /\ delivered' = delivered /\ stage' = "put" /\ batch' = <<f>> \o Tail(batch)
      <4>1. /\ buffer' \in Seq(Entries) /\ \A x : x \in MsgsOf(buffer) => x \in MsgsOf(buffer')
            /\ failures \subseteq failures' /\ e.msg \in MsgsOf(buffer') \union failures'
        BY <1>0, <2>e, <3>3, HandleFailedKeeps
      <4>2. AcceptedNotLost'
        BY <1>a, <2>0, <3>3, <3>s, <4>1, Accounted
      <4> QED BY <1>0, <2>0, <3>3, <3>s, <3>m, <4>1, <4>2 DEF ChannelInv, ChannelType, PutBackSpare
    <3> QED BY <3>1, <3>2, <3>3
  <2> QED BY <2>0, <2>1, <2>2, <2>3
<1>6. CASE ClearBuffer
  <2>1. /\ buffer' = <<>> /\ cleared' = cleared \union MsgsOf(buffer)
        /\ UNCHANGED <<inflight, batch, stage, time, incoming, sent, delivered, failures>>
    BY <1>6 DEF ClearBuffer, MsgsOf
  <2>2. AcceptedNotLost'
    BY <1>a, <2>1, Accounted
  <2> QED BY <1>0, <1>p, <2>1, <2>2 DEF ChannelInv, ChannelType, PutBackSpare
<1>7. ASSUME NEW m \in Messages, Arrives(m) PROVE ChannelInv'
  <2>1. /\ incoming = <<>> /\ incoming' = <<m>> /\ sent' = sent \union {m}
        /\ UNCHANGED <<inflight, buffer, batch, stage, time, delivered, failures, cleared>>
    BY <1>7 DEF Arrives
  <2>2. m \in {incoming'[i] : i \in DOMAIN incoming'} /\ {incoming[i] : i \in DOMAIN incoming} = {}
    BY <2>1
  <2>3. AcceptedNotLost'
    BY <1>a, <2>1, <2>2, Accounted
  <2> QED BY <1>0, <1>p, <2>1, <2>3 DEF ChannelInv, ChannelType, PutBackSpare
<1>8. CASE Receive
  <2> DEFINE m == Head(incoming)
  <2>1. /\ incoming # <<>> /\ incoming' = Tail(incoming) /\ delivered \subseteq delivered' /\ cleared \subseteq cleared'
        /\ m \in delivered' \union cleared'
        /\ UNCHANGED <<inflight, buffer, batch, stage, time, sent, failures>>
    BY <1>8 DEF Receive
  <2>2. /\ incoming' \in Seq(Messages)
        /\ \A i \in DOMAIN incoming : incoming[i] = m \/ (i - 1 \in DOMAIN incoming' /\ incoming'[i - 1] = incoming[i])
    BY <1>0, <2>1
  <2> HIDE DEF m
  <2>3. AcceptedNotLost'
    BY <1>a, <2>1, <2>2, Accounted
  <2> QED BY <1>0, <1>p, <2>1, <2>2, <2>3 DEF ChannelInv, ChannelType, PutBackSpare
<1>9. CASE UNCHANGED channelvars
  <2>1. AcceptedNotLost'
    BY <1>a, <1>9 DEF AcceptedNotLost, Held, channelvars
  <2> QED BY <1>0, <1>p, <1>9, <2>1 DEF ChannelInv, ChannelType, PutBackSpare, channelvars, MsgsOf
<1> QED BY <1>1, <1>2, <1>3, <1>4, <1>5, <1>6, <1>7, <1>8, <1>9 DEF ChannelNext

\* A message the channel took is on its way, arrived, held for a retry, counted as failed or was
\* thrown away on request, for any buffer and retry limits and however sends, the retry loop and
\* the clearing of the buffer interleave (send, handle_failed_delivery, process_buffer).
THEOREM ChannelTheorem == ChannelSpec => []AcceptedNotLost
<1>1. ChannelInit => ChannelInv
  BY DEF ChannelInit, ChannelInv, ChannelType, PutBackSpare, AcceptedNotLost
<1>2. ChannelInv => AcceptedNotLost
  BY DEF ChannelInv
<1> QED BY <1>1, <1>2, ChannelStep, PTL DEF ChannelSpec

-----------------------------------------------------------------------------
(* The behaviour scheduler *)

Behaviors ==
  [name : BehaviorNames, type : Types, status : {"Ready", "Running", "Blocked", "Done"}, next : Nat,
   runs : Nat, started : BOOLEAN, fsm : FsmStates]
Past == [added : Nat, last : Int, runs : Nat]

SchedulerType ==
  /\ nextId \in Nat \ {0} /\ ms \in Nat /\ current \in 0 .. nextId - 1
  /\ DOMAIN behaviors \subseteq 1 .. nextId - 1 /\ history \in [1 .. nextId - 1 -> Past]
  /\ \A id \in DOMAIN behaviors : behaviors[id] \in Behaviors
  /\ \A id \in 1 .. nextId - 1 : history[id].last <= ms

\* What a behaviour b knows of its past h: a run count of zero says that it has not started since its
\* last reset, unless it is the one in the agent's hands; next is an interval after its last start.
Remembers(b, h, inHand) ==
  /\ b.type = "OneShot" /\ b.runs = 0 /\ ~inHand => h.runs = 0
  /\ b.type = "Ticker" /\ ~inHand => b.next >= h.last + Interval
  /\ b.type = "Waker" => b.next = h.added + Interval

SchedulerInv ==
  SchedulerType /\ \A id \in DOMAIN behaviors : Remembers(behaviors[id], history[id], id = current)

\* The records an operation makes, field by field.
LEMMA BehaviorFields ==
  ASSUME NEW b \in Behaviors
  PROVE  b.type \in Types /\ b.next \in Nat /\ b.runs \in Nat /\ b.fsm \in FsmStates
  BY DEF Behaviors

LEMMA StatusSet ==
  ASSUME NEW b \in Behaviors, NEW status \in {"Ready", "Running", "Blocked", "Done"}
  PROVE  /\ [b EXCEPT !.status = status] \in Behaviors
         /\ [b EXCEPT !.status = status].type = b.type /\ [b EXCEPT !.status = status].next = b.next
         /\ [b EXCEPT !.status = status].runs = b.runs
  BY DEF Behaviors

LEMMA StartSet ==
  ASSUME NEW b \in Behaviors
  PROVE  LET c == [b EXCEPT !.status = "Running", !.started = TRUE]
         IN  c \in Behaviors /\ c.type = b.type /\ c.next = b.next /\ c.runs = b.runs
<1> DEFINE c == [b EXCEPT !.status = "Running", !.started = TRUE]
<1>1. c \in Behaviors
  BY DEF Behaviors
<1>2. c.type = b.type
  BY DEF Behaviors
<1>3. c.next = b.next
  BY DEF Behaviors
<1>4. c.runs = b.runs
  BY DEF Behaviors
<1> QED BY <1>1, <1>2, <1>3, <1>4

LEMMA FsmSet ==
  ASSUME NEW b \in Behaviors, NEW f \in FsmStates
  PROVE  LET c == [b EXCEPT !.fsm = f]
         IN  c \in Behaviors /\ c.type = b.type /\ c.next = b.next /\ c.runs = b.runs
  BY DEF Behaviors

LEMMA ResetSet ==
  ASSUME NEW b \in Behaviors
  PROVE  Reset(b) \in Behaviors /\ Reset(b).type = b.type /\ Reset(b).next = b.next
<1>1. Reset(b) \in Behaviors
  BY SchedulerAssumption DEF Behaviors, Reset
<1>2. Reset(b).type = b.type
  BY DEF Behaviors, Reset
<1>3. Reset(b).next = b.next
  BY DEF Behaviors, Reset
<1> QED BY <1>1, <1>2, <1>3

LEMMA OneMoreNat == ASSUME NEW n \in Nat PROVE OneMore(n) \in Nat /\ OneMore(n) # 0
  BY SchedulerAssumption DEF OneMore

LEMMA AfterRunSet ==
  ASSUME NEW b \in Behaviors, NEW done \in BOOLEAN, ms \in Nat
  PROVE  /\ AfterRun(b, done) \in Behaviors /\ AfterRun(b, done).type = b.type
         /\ AfterRun(b, done).runs = OneMore(b.runs)
         /\ AfterRun(b, done).next = IF b.type = "Ticker" /\ ~done THEN ms + Interval ELSE b.next
<1> DEFINE s == IF done \/ b.type = "Waker" THEN "Done" ELSE "Ready"
           n == IF b.type = "Ticker" /\ ~done THEN ms + Interval ELSE b.next
           r == OneMore(b.runs)
<1>1. s \in {"Done", "Ready"}
  OBVIOUS
<1>2. r \in Nat
  BY BehaviorFields, OneMoreNat
<1>3. n \in Nat
  BY BehaviorFields, SchedulerAssumption
<1>4. AfterRun(b, done) = [b EXCEPT !.runs = r, !.status = s, !.next = n]
  BY DEF AfterRun
<1> HIDE DEF s, n, r
<1> DEFINE c == [b EXCEPT !.runs = r, !.status = s, !.next = n]
<1>5. c \in Behaviors
  BY <1>1, <1>2, <1>3 DEF Behaviors
<1>6. c.type = b.type
  BY DEF Behaviors
<1>7. c.runs = r
  BY DEF Behaviors
<1>8. c.next = n
  BY DEF Behaviors
<1> QED BY <1>4, <1>5, <1>6, <1>7, <1>8 DEF n, r

LEMMA PastReset ==
  ASSUME NEW h \in Past
  PROVE  /\ [h EXCEPT !.runs = 0] \in Past /\ [h EXCEPT !.runs = 0].last = h.last
         /\ [h EXCEPT !.runs = 0].added = h.added /\ [h EXCEPT !.runs = 0].runs = 0
  BY DEF Past

LEMMA PastDone ==
  ASSUME NEW h \in Past, NEW l \in Int
  PROVE  /\ [h EXCEPT !.last = l] \in Past /\ [h EXCEPT !.last = l].last = l
         /\ [h EXCEPT !.last = l].added = h.added /\ [h EXCEPT !.last = l].runs = h.runs
  BY DEF Past

LEMMA PastStart ==
  ASSUME NEW h \in Past, NEW type, ms \in Nat, h.last <= ms
  PROVE  Begun(h, type) \in Past /\ Begun(h, type).last <= ms /\ Begun(h, type).added = h.added
<1> DEFINE l == IF type = "Ticker" THEN ms ELSE h.last
           r == OneMore(h.runs)
           g == [h EXCEPT !.last = l, !.runs = r]
<1>1. l \in Int /\ l <= ms /\ r \in Nat
  BY OneMoreNat DEF Past
<1>2. Begun(h, type) = g
  BY DEF Begun
<1> HIDE DEF l, r
<1>3. g \in Past
  BY <1>1 DEF Past
<1>4. g.last = l
  BY DEF Past
<1>5. g.added = h.added
  BY DEF Past
<1> QED BY <1>1, <1>2, <1>3, <1>4, <1>5

\* An operation on one behaviour keeps the invariant when the new record remembers its past.
LEMMA OneChanges ==
  ASSUME SchedulerInv, NEW id \in DOMAIN behaviors, NEW b \in Behaviors, NEW h \in Past, h.last <= ms,
         behaviors' = [behaviors EXCEPT ![id] = b], history' = [history EXCEPT ![id] = h],
         current' = current \/ {current, current'} \subseteq {0, id}, UNCHANGED <<nextId, ms>>,
         Remembers(b, h, id = current')
  PROVE  SchedulerInv'
<1>1. DOMAIN behaviors' = DOMAIN behaviors /\ DOMAIN history' = DOMAIN history /\ id \in DOMAIN history
  BY DEF SchedulerInv, SchedulerType
<1>2. \A k \in DOMAIN behaviors : behaviors'[k] = IF k = id THEN b ELSE behaviors[k]
  OBVIOUS
<1>3. \A k \in DOMAIN history : history'[k] = IF k = id THEN h ELSE history[k]
  OBVIOUS
<1>4. SchedulerType'
  BY <1>1, <1>2, <1>3 DEF SchedulerInv, SchedulerType
<1>5. ASSUME NEW k \in DOMAIN behaviors' PROVE Remembers(behaviors'[k], history'[k], k = current')
  <2>1. CASE k = id
    BY <1>1, <1>2, <1>3, <2>1
  <2>2. CASE k # id
    <3>1. k \in DOMAIN history /\ k # 0
      BY <1>1 DEF SchedulerInv, SchedulerType
    <3>2. (k = current') <=> (k = current)
      BY <2>2, <3>1
    <3>3. behaviors'[k] = behaviors[k] /\ history'[k] = history[k]
      BY <1>1, <1>2, <1>3, <2>2, <3>1
    <3>4. Remembers(behaviors[k], history[k], k = current)
      BY <1>1 DEF SchedulerInv
    <3> QED BY <3>2, <3>3, <3>4 DEF Remembers
  <2> QED BY <2>1, <2>2
<1> QED BY <1>4, <1>5 DEF SchedulerInv

LEMMA SchedulerStep == SchedulerInv /\ [SchedulerNext]_schedulervars => SchedulerInv'
<1> SUFFICES ASSUME SchedulerInv, [SchedulerNext]_schedulervars PROVE SchedulerInv'
  OBVIOUS
<1>0. /\ nextId \in Nat \ {0} /\ ms \in Nat /\ current \in 0 .. nextId - 1 /\ Interval \in Nat
      /\ DOMAIN behaviors \subseteq 1 .. nextId - 1 /\ DOMAIN history = 1 .. nextId - 1
      /\ history \in [1 .. nextId - 1 -> Past]
  BY SchedulerAssumption DEF SchedulerInv, SchedulerType
<1>f. ASSUME NEW id \in DOMAIN behaviors
      PROVE  /\ behaviors[id] \in Behaviors /\ history[id] \in Past /\ history[id].last <= ms
             /\ history[id].last \in Int /\ history[id].added \in Nat /\ history[id].runs \in Nat
             /\ Remembers(behaviors[id], history[id], id = current)
             /\ history = [history EXCEPT ![id] = history[id]]
             /\ id # 0
  <2>1. behaviors[id] \in Behaviors /\ id \in DOMAIN history /\ Remembers(behaviors[id], history[id], id = current)
    BY DEF SchedulerInv, SchedulerType
  <2>2. history[id] \in Past /\ history[id].last <= ms
    BY <2>1 DEF SchedulerInv, SchedulerType
  <2>3. history[id].last \in Int /\ history[id].added \in Nat /\ history[id].runs \in Nat
    BY <2>2 DEF Past
  <2>4. history = [history EXCEPT ![id] = history[id]]
    BY <1>0, <2>1
  <2> QED BY <1>0, <2>1, <2>2, <2>3, <2>4
<1>1. ASSUME NEW name \in BehaviorNames, NEW type \in Types, AddBehavior(name, type) PROVE SchedulerInv'
  <2> DEFINE b == [name |-> name, type |-> type, status |-> "Ready", next |-> NextRun(type),
                   runs |-> 0, started |-> FALSE, fsm |-> "start"]
             h == [added |-> IF type = "Waker" THEN ms ELSE 0, last |-> 0 - Interval, runs |-> 0]
  <2>1. /\ behaviors' = With(behaviors, nextId, b) /\ history' = With(history, nextId, h)
        /\ nextId' = nextId + 1 /\ UNCHANGED <<current, ms>>
    BY <1>1 DEF AddBehavior
  <2>2. NextRun(type) \in Nat /\ (type = "Waker" => NextRun(type) = ms + Interval)
    BY <1>0 DEF NextRun
  <2>3. b \in Behaviors /\ h \in Past /\ h.last <= ms /\ Remembers(b, h, FALSE)
    <3>1. b \in Behaviors
      BY <2>2, SchedulerAssumption DEF Behaviors
    <3>2. h \in Past /\ h.last <= ms
      BY <1>0 DEF Past
    <3>3. Remembers(b, h, FALSE)
      BY <1>0, <2>2 DEF Remembers
    <3> QED BY <3>1, <3>2, <3>3
  <2> HIDE DEF b, h
  <2>4. /\ DOMAIN behaviors' = DOMAIN behaviors \union {nextId} /\ DOMAIN history' = DOMAIN history \union {nextId}
        /\ \A k \in DOMAIN behaviors' : behaviors'[k] = IF k = nextId THEN b ELSE behaviors[k]
        /\ \A k \in DOMAIN history' : history'[k] = IF k = nextId THEN h ELSE history[k]
    BY <2>1 DEF With
  <2>5. SchedulerType'
    <3>1. DOMAIN history' = 1 .. nextId' - 1 /\ DOMAIN behaviors' \subseteq 1 .. nextId' - 1
      BY <1>0, <2>1, <2>4
    <3>2. \A k \in 1 .. nextId - 1 : history[k] \in Past /\ history[k].last <= ms
      BY <1>0 DEF SchedulerInv, SchedulerType
    <3>3. history' \in [1 .. nextId' - 1 -> Past]
      BY <1>0, <2>1, <2>3, <2>4, <3>1, <3>2 DEF With
    <3>4. \A k \in 1 .. nextId' - 1 : history'[k].last <= ms'
      BY <1>0, <2>1, <2>3, <2>4, <3>1, <3>2
    <3>5. \A k \in DOMAIN behaviors' : behaviors'[k] \in Behaviors
      BY <2>3, <2>4 DEF SchedulerInv, SchedulerType
    <3>6. nextId' \in Nat \ {0} /\ ms' \in Nat /\ current' \in 0 .. nextId' - 1
      BY <1>0, <2>1
    <3> QED BY <3>1, <3>3, <3>4, <3>5, <3>6 DEF SchedulerType
  <2>6. ASSUME NEW k \in DOMAIN behaviors' PROVE Remembers(behaviors'[k], history'[k], k = current')
    <3>1. CASE k = nextId
      <4>1. behaviors'[k] = b /\ history'[k] = h /\ (k = current') = FALSE
        BY <1>0, <2>1, <2>4, <3>1
      <4> QED BY <2>3, <4>1
    <3>2. CASE k # nextId
      <4>1. k \in DOMAIN behaviors /\ k \in DOMAIN history
        BY <1>0, <2>4, <3>2
      <4>2. behaviors'[k] = behaviors[k] /\ history'[k] = history[k] /\ current' = current
        BY <2>1, <2>4, <3>2, <4>1
      <4>3. Remembers(behaviors[k], history[k], k = current)
        BY <4>1 DEF SchedulerInv
      <4> QED BY <4>2, <4>3
    <3> QED BY <3>1, <3>2
  <2> QED BY <2>5, <2>6 DEF SchedulerInv
<1>2. ASSUME NEW id \in DOMAIN behaviors, RemoveBehavior(id) PROVE SchedulerInv'
  <2>1. /\ DOMAIN behaviors' \subseteq DOMAIN behaviors /\ \A k \in DOMAIN behaviors' : behaviors'[k] = behaviors[k]
        /\ UNCHANGED <<nextId, current, ms, history>>
    BY <1>2 DEF RemoveBehavior, Without
  <2> QED BY <2>1 DEF SchedulerInv, SchedulerType
<1>3. ASSUME NEW id \in DOMAIN behaviors, BlockBehavior(id) \/ RestartBehavior(id) \/ BehaviorDone(id) PROVE SchedulerInv'
  <2>1. PICK status \in {"Ready", "Blocked", "Done"} :
          behaviors' = [behaviors EXCEPT ![id] = [behaviors[id] EXCEPT !.status = status]]
    BY <1>3 DEF BlockBehavior, RestartBehavior, BehaviorDone, Sets
  <2>2. UNCHANGED <<nextId, current, ms, history>>
    BY <1>3 DEF BlockBehavior, RestartBehavior, BehaviorDone, Sets
  <2> DEFINE b == [behaviors[id] EXCEPT !.status = status]
  <2>3. /\ b \in Behaviors /\ b.type = behaviors[id].type /\ b.next = behaviors[id].next /\ b.runs = behaviors[id].runs
    BY <1>f, StatusSet
  <2>4. behaviors' = [behaviors EXCEPT ![id] = b]
    BY <2>1
  <2> HIDE DEF b
  <2>5. Remembers(b, history[id], id = current')
    BY <1>f, <2>2, <2>3 DEF Remembers
  <2>6. history' = [history EXCEPT ![id] = history[id]]
    BY <1>f, <2>2
  <2> QED BY <1>f, <2>2, <2>3, <2>4, <2>5, <2>6, OneChanges
<1>4. ASSUME NEW id \in DOMAIN behaviors, ResetBehavior(id) PROVE SchedulerInv'
  <2> DEFINE h == [history[id] EXCEPT !.runs = 0]
             b == Reset(behaviors[id])
  <2>1. /\ behaviors' = [behaviors EXCEPT ![id] = b] /\ history' = [history EXCEPT ![id] = h]
        /\ UNCHANGED <<nextId, current, ms>>
    BY <1>4 DEF ResetBehavior, Sets
  <2>2. b \in Behaviors /\ b.type = behaviors[id].type /\ b.next = behaviors[id].next
    BY <1>f, ResetSet
  <2>3. h \in Past /\ h.last = history[id].last /\ h.added = history[id].added /\ h.runs = 0
    BY <1>f, PastReset
  <2> HIDE DEF b, h
  <2>4. Remembers(b, h, id = current')
    BY <1>f, <2>1, <2>2, <2>3 DEF Remembers
  <2>5. h.last <= ms
    BY <1>f, <2>3
  <2> QED BY <2>1, <2>2, <2>3, <2>4, <2>5, OneChanges
<1>5. ASSUME NEW id \in DOMAIN behaviors, NEW event \in FsmEvents, FsmEvent(id, event) PROVE SchedulerInv'
  <2>1. PICK t \in Transitions : behaviors' = [behaviors EXCEPT ![id] = [behaviors[id] EXCEPT !.fsm = t[3]]]
    BY <1>5 DEF FsmEvent, Sets
  <2>2. UNCHANGED <<nextId, current, ms, history>>
    BY <1>5 DEF FsmEvent, Sets
  <2>t. t[3] \in FsmStates
    BY <2>1, SchedulerAssumption
  <2> DEFINE b == [behaviors[id] EXCEPT !.fsm = t[3]]
  <2>3. /\ b \in Behaviors /\ b.type = behaviors[id].type /\ b.next = behaviors[id].next /\ b.runs = behaviors[id].runs
    BY <1>f, <2>t, FsmSet
  <2>4. behaviors' = [behaviors EXCEPT ![id] = b]
    BY <2>1
  <2> HIDE DEF b
  <2>5. Remembers(b, history[id], id = current')
    BY <1>f, <2>2, <2>3 DEF Remembers
  <2>6. history' = [history EXCEPT ![id] = history[id]]
    BY <1>f, <2>2
  <2> QED BY <1>f, <2>2, <2>3, <2>4, <2>5, <2>6, OneChanges
<1>6. ASSUME NEW id \in DOMAIN behaviors, RunBehavior(id) PROVE SchedulerInv'
  <2> DEFINE b == [behaviors[id] EXCEPT !.status = "Running", !.started = TRUE]
             h == Begun(history[id], behaviors[id].type)
  <2>0. id \in DOMAIN history
    BY <1>0
  <2>1. /\ behaviors' = [behaviors EXCEPT ![id] = b] /\ history' = [history EXCEPT ![id] = h]
        /\ current = 0 /\ current' = id /\ UNCHANGED <<nextId, ms>>
    <3>1. /\ behaviors' = [behaviors EXCEPT ![id] = b] /\ current = 0 /\ current' = id /\ UNCHANGED <<nextId, ms>>
      BY <1>6 DEF RunBehavior
    <3>2. history' = [history EXCEPT ![id] = h]
      BY <1>6 DEF RunBehavior
    <3> QED BY <3>1, <3>2
  <2>2. b \in Behaviors /\ b.type = behaviors[id].type /\ b.next = behaviors[id].next
    BY <1>f, StartSet
  <2>3. history[id] \in Past /\ history[id].last <= ms
    BY <1>f
  <2>4. h \in Past /\ h.last <= ms /\ h.added = history[id].added
    BY <1>0, <2>3, PastStart
  <2> HIDE DEF b, h
  <2>5. Remembers(b, h, id = current')
    BY <1>f, <2>1, <2>2, <2>4 DEF Remembers
  <2> QED BY <2>1, <2>2, <2>4, <2>5, OneChanges
<1>7. ASSUME NEW done \in BOOLEAN, HandleCompletion(done) PROVE SchedulerInv'
  <2> DEFINE id == current
             h == IF done THEN [history[id] EXCEPT !.last = 0 - Interval] ELSE history[id]
             b == AfterRun(behaviors[id], done)
  <2>0. id # 0 /\ current' = 0 /\ UNCHANGED <<nextId, ms>> /\ id \in DOMAIN history
    BY <1>0, <1>7 DEF HandleCompletion
  <2>1. history[id] \in Past /\ history[id].last <= ms /\ history[id].added \in Nat
    BY <2>0 DEF SchedulerInv, SchedulerType, Past
  <2>2. history' = [history EXCEPT ![id] = h]
    <3>1. CASE done
      BY <1>7, <3>1 DEF HandleCompletion
    <3>2. CASE ~done
      <4>1. history' = history /\ h = history[id]
        BY <1>7, <3>2 DEF HandleCompletion
      <4> QED BY <1>0, <2>0, <4>1
    <3> QED BY <3>1, <3>2
  <2>3. /\ h \in Past /\ h.added = history[id].added /\ h.last <= ms
        /\ h.last = IF done THEN 0 - Interval ELSE history[id].last
    <3>1. 0 - Interval \in Int /\ 0 - Interval <= ms
      BY <1>0
    <3> QED BY <2>1, <3>1, PastDone
  <2>4. CASE id \in DOMAIN behaviors
    <3>1. behaviors' = [behaviors EXCEPT ![id] = b]
      BY <1>7, <2>4 DEF HandleCompletion
    <3>2. behaviors[id] \in Behaviors /\ Remembers(behaviors[id], history[id], TRUE)
      BY <2>4 DEF SchedulerInv, SchedulerType
    <3>3. /\ b \in Behaviors /\ b.type = behaviors[id].type /\ b.runs # 0
          /\ b.next = IF behaviors[id].type = "Ticker" /\ ~done THEN ms + Interval ELSE behaviors[id].next
      BY <1>0, <3>2, AfterRunSet, BehaviorFields, OneMoreNat
    <3>4. behaviors[id].next \in Nat
      BY <3>2, BehaviorFields
    <3>5. history[id].last \in Int
      BY <2>1 DEF Past
    <3> HIDE DEF b, h
    <3>6. Remembers(b, h, id = current')
      BY <1>0, <2>0, <2>1, <2>3, <3>2, <3>3, <3>4, <3>5 DEF Remembers
    <3> QED BY <2>0, <2>2, <2>3, <2>4, <3>1, <3>3, <3>6, OneChanges
  <2>5. CASE id \notin DOMAIN behaviors
    <3>1. behaviors' = behaviors
      BY <1>7, <2>5 DEF HandleCompletion
    <3> HIDE DEF h
    <3>2. DOMAIN history' = DOMAIN history /\ \A k \in DOMAIN history : history'[k] = IF k = id THEN h ELSE history[k]
      BY <2>2
    <3>3. SchedulerType'
      <4>1. history' \in [1 .. nextId' - 1 -> Past]
        BY <1>0, <2>0, <2>2, <2>3
      <4>2. \A k \in 1 .. nextId' - 1 : history'[k].last <= ms'
        BY <1>0, <2>0, <2>3, <3>2 DEF SchedulerInv, SchedulerType
      <4> QED BY <1>0, <2>0, <3>1, <4>1, <4>2 DEF SchedulerInv, SchedulerType
    <3>4. ASSUME NEW k \in DOMAIN behaviors' PROVE Remembers(behaviors'[k], history'[k], k = current')
      <4>1. k \in DOMAIN history /\ k # id /\ k # 0
        BY <1>0, <2>5, <3>1
      <4>2. history'[k] = history[k] /\ behaviors'[k] = behaviors[k] /\ (k = current') = (k = current)
        BY <2>0, <3>1, <3>2, <4>1
      <4>3. Remembers(behaviors[k], history[k], k = current)
        BY <3>1 DEF SchedulerInv
      <4> QED BY <4>2, <4>3
    <3> QED BY <3>3, <3>4 DEF SchedulerInv
  <2> QED BY <2>4, <2>5
<1>8. CASE ClockTicks
  BY <1>0, <1>8 DEF ClockTicks, SchedulerInv, SchedulerType, Past
<1>9. CASE UNCHANGED schedulervars
  BY <1>9 DEF schedulervars, SchedulerInv, SchedulerType
<1> QED BY <1>1, <1>2, <1>3, <1>4, <1>5, <1>6, <1>7, <1>8, <1>9 DEF SchedulerNext

\* However blocking, restarting, completing, resetting and removing interleave with the run that is
\* under way, a one-shot behaviour starts once unless it is reset, a ticker that has not completed
\* no sooner than an interval after its last start and a waker not before its delay, for any
\* interval and any number of behaviours (should_run, after_run, reset_behavior).
THEOREM SchedulerTheorem == SchedulerSpec => RunsOnTime
<1> DEFINE Punctual ==
      \A id \in DOMAIN behaviors :
       (current # id /\ current' = id) =>
         /\ behaviors[id].type = "OneShot" => history[id].runs = 0
         /\ behaviors[id].type = "Ticker" => ms - history[id].last >= Interval
         /\ behaviors[id].type = "Waker" => ms - history[id].added >= Interval
<1>1. SchedulerInit => SchedulerInv
  BY DEF SchedulerInit, SchedulerInv, SchedulerType
<1>2. ASSUME SchedulerInv, SchedulerNext PROVE Punctual
  <2> SUFFICES ASSUME NEW id \in DOMAIN behaviors, current # id, current' = id
               PROVE  /\ behaviors[id].type = "OneShot" => history[id].runs = 0
                      /\ behaviors[id].type = "Ticker" => ms - history[id].last >= Interval
                      /\ behaviors[id].type = "Waker" => ms - history[id].added >= Interval
    OBVIOUS
  <2>1. id # 0 /\ id \in DOMAIN history /\ ms \in Nat
    BY <1>2 DEF SchedulerInv, SchedulerType
  <2>2. ShouldRun(behaviors[id]) /\ current = 0
    BY <1>2, <2>1 DEF SchedulerNext, AddBehavior, RemoveBehavior, BlockBehavior, RestartBehavior, BehaviorDone,
                      ResetBehavior, FsmEvent, Sets, RunBehavior, HandleCompletion, ClockTicks
  <2>3. Remembers(behaviors[id], history[id], FALSE) /\ behaviors[id] \in Behaviors /\ history[id] \in Past
    BY <1>2, <2>1, <2>2 DEF SchedulerInv, SchedulerType
  <2>4. behaviors[id].next \in Nat /\ history[id].last \in Int /\ history[id].added \in Nat
    BY <2>3, BehaviorFields DEF Past
  <2> QED BY <2>1, <2>2, <2>3, <2>4, SchedulerAssumption DEF Remembers, ShouldRun
<1>3. SchedulerInv /\ [SchedulerNext]_schedulervars => [Punctual]_schedulervars
  BY <1>2
<1> HIDE DEF Punctual
<1>4. SchedulerSpec => [][Punctual]_schedulervars
  BY <1>1, <1>3, SchedulerStep, PTL DEF SchedulerSpec
<1> QED BY <1>4 DEF RunsOnTime, Punctual

-----------------------------------------------------------------------------
(* Discovery, the registry and its calls *)

\* Who is listed as a provider, the peers that are not known included, has registered since it was removed.
ListedAnnounced ==
  /\ providers \in [Kinds -> Seq(Peers)] /\ DOMAIN announced = Kinds /\ DOMAIN peers \subseteq Peers
  /\ \A k \in Kinds : \A x \in Range(providers[k]) : x \in announced[k]

LEMMA DiscoveryStep == ListedAnnounced /\ [DiscoveryNext]_discoveryvars => ListedAnnounced'
<1> SUFFICES ASSUME ListedAnnounced, [DiscoveryNext]_discoveryvars PROVE ListedAnnounced'
  OBVIOUS
<1>0. /\ providers \in [Kinds -> Seq(Peers)] /\ DOMAIN announced = Kinds /\ DOMAIN peers \subseteq Peers
      /\ \A k \in Kinds : \A x \in Range(providers[k]) : x \in announced[k]
  BY DEF ListedAnnounced
<1>1. ASSUME NEW p \in Peers, NEW a, NEW source, AddPeer(p, a, source) PROVE ListedAnnounced'
  <2>1. DOMAIN peers' \subseteq DOMAIN peers \union {p} /\ UNCHANGED <<providers, announced>>
    BY <1>1 DEF AddPeer, With
  <2> QED BY <1>0, <2>1 DEF ListedAnnounced
<1>2. ASSUME NEW p \in DOMAIN peers, RemovePeer(p) PROVE ListedAnnounced'
  <2>1. /\ DOMAIN peers' \subseteq DOMAIN peers
        /\ providers' = [k \in Kinds |-> Retained(providers[k], Peers \ {p})]
        /\ announced' = [k \in Kinds |-> announced[k] \ {p}]
    BY <1>2 DEF RemovePeer, Without
  <2>2. ASSUME NEW k \in Kinds
        PROVE  /\ Retained(providers[k], Peers \ {p}) \in Seq(Peers)
               /\ \A x \in Range(Retained(providers[k], Peers \ {p})) : x \in announced[k] \ {p}
    BY <1>0, RetainedRange
  <2> QED BY <1>0, <2>1, <2>2 DEF ListedAnnounced
<1>3. ASSUME NEW k \in Kinds, NEW p \in Peers, RegisterProvider(k, p) PROVE ListedAnnounced'
  <2>1. /\ providers' = [providers EXCEPT ![k] = Append(providers[k], p)]
        /\ announced' = [announced EXCEPT ![k] = announced[k] \union {p}] /\ peers' = peers
    BY <1>3 DEF RegisterProvider
  <2>2. providers[k] \in Seq(Peers)
    BY <1>0
  <2>3. Append(providers[k], p) \in Seq(Peers) /\ \A x : x \in Range(Append(providers[k], p)) <=> (x \in Range(providers[k]) \/ x = p)
    BY <2>2, RangeAppend
  <2>4. \A j \in Kinds : \A x \in Range(providers'[j]) : x \in announced'[j]
    <3> TAKE j \in Kinds
    <3>1. CASE j = k
      BY <1>0, <2>1, <2>3, <3>1
    <3>2. CASE j # k
      <4>1. providers'[j] = providers[j] /\ announced'[j] = announced[j]
        BY <1>0, <2>1, <3>2
      <4> QED BY <1>0, <4>1
    <3> QED BY <3>1, <3>2
  <2> QED BY <1>0, <2>1, <2>3, <2>4 DEF ListedAnnounced
<1>4. CASE CleanupStale
  BY <1>0, <1>4 DEF CleanupStale, ListedAnnounced
<1>5. CASE Later
  BY <1>0, <1>5 DEF Later, ListedAnnounced
<1>6. CASE UNCHANGED discoveryvars
  BY <1>0, <1>6 DEF discoveryvars, ListedAnnounced
<1> QED BY <1>1, <1>2, <1>3, <1>4, <1>5, <1>6 DEF DiscoveryNext

CallRecords ==
  [left : Seq(Actors), found : Actors \union {NoActor, Stopped}, delivered : BOOLEAN,
   answer : {"none", "success", "failed"}]

\* A call in hand: an agent was found for the first receiver left, an answer is given after the last
\* one, and delivered tells whether some receiver took the message.
Sincere(call, takers) ==
  /\ call.found # NoActor => call.left # <<>> /\ call.answer = "none"
  /\ call.delivered <=> takers # {}
  /\ call.answer # "none" => (call.answer = "success" <=> call.delivered)

CallsSincere ==
  /\ calls \in [DOMAIN Calls -> CallRecords]
  /\ took \in [DOMAIN Calls -> SUBSET (Actors \union {NoActor, Stopped})]
  /\ \A c \in DOMAIN Calls : Sincere(calls[c], took[c])

\* The records the steps of a call make, field by field.
LEMMA FoundSet ==
  ASSUME NEW r \in CallRecords, NEW f \in Actors \union {NoActor, Stopped}
  PROVE  /\ [r EXCEPT !.found = f] \in CallRecords /\ [r EXCEPT !.found = f].found = f
         /\ [r EXCEPT !.found = f].left = r.left /\ [r EXCEPT !.found = f].answer = r.answer
         /\ [r EXCEPT !.found = f].delivered = r.delivered
  BY DEF CallRecords

LEMMA SkippedSet ==
  ASSUME NEW r \in CallRecords, r.left # <<>>
  PROVE  /\ [r EXCEPT !.left = Tail(@)] \in CallRecords /\ [r EXCEPT !.left = Tail(@)].found = r.found
         /\ [r EXCEPT !.left = Tail(@)].answer = r.answer
         /\ [r EXCEPT !.left = Tail(@)].delivered = r.delivered
<1>1. Tail(r.left) \in Seq(Actors)
  BY DEF CallRecords
<1> QED BY <1>1 DEF CallRecords

LEMMA AfterDeliverySet ==
  ASSUME NEW r \in CallRecords, r.left # <<>>, NEW ok \in BOOLEAN
  PROVE  /\ AfterDelivery(r, ok) \in CallRecords /\ AfterDelivery(r, ok).found = NoActor
         /\ AfterDelivery(r, ok).answer = r.answer
         /\ AfterDelivery(r, ok).delivered = (r.delivered \/ ok)
<1>1. Tail(r.left) \in Seq(Actors) /\ r.delivered \in BOOLEAN
  BY DEF CallRecords
<1> DEFINE d == r.delivered \/ ok
           l == Tail(r.left)
           c == [r EXCEPT !.left = l, !.found = NoActor, !.delivered = d]
<1>2. d \in BOOLEAN
  BY <1>1
<1>3. AfterDelivery(r, ok) = c
  BY DEF AfterDelivery
<1> HIDE DEF d, l
<1>4. c \in CallRecords
  BY <1>1, <1>2 DEF CallRecords, l
<1>5. c.found = NoActor
  BY DEF CallRecords
<1>6. c.answer = r.answer
  BY DEF CallRecords
<1>7. c.delivered = d
  BY DEF CallRecords
<1> QED BY <1>3, <1>4, <1>5, <1>6, <1>7 DEF d

\* A step of one call.
LEMMA OneCall ==
  ASSUME CallsSincere, NEW c \in DOMAIN Calls, NEW r \in CallRecords,
         NEW s \in SUBSET (Actors \union {NoActor, Stopped}),
         calls' = [calls EXCEPT ![c] = r], took' = [took EXCEPT ![c] = s], Sincere(r, s)
  PROVE  CallsSincere'
<1>1. /\ calls' \in [DOMAIN Calls -> CallRecords]
      /\ took' \in [DOMAIN Calls -> SUBSET (Actors \union {NoActor, Stopped})]
      /\ calls'[c] = r /\ took'[c] = s
      /\ \A d \in DOMAIN Calls \ {c} : calls'[d] = calls[d] /\ took'[d] = took[d]
  BY DEF CallsSincere
<1>2. ASSUME NEW d \in DOMAIN Calls PROVE Sincere(calls'[d], took'[d])
  <2>1. CASE d = c
    BY <1>1, <2>1
  <2>2. CASE d # c
    BY <1>1, <2>2 DEF CallsSincere
  <2> QED BY <2>1, <2>2
<1> QED BY <1>1, <1>2 DEF CallsSincere

LEMMA RegistryStep == CallsSincere /\ [RegistryNext]_registryvars => CallsSincere'
<1> SUFFICES ASSUME CallsSincere, [RegistryNext]_registryvars PROVE CallsSincere'
  OBVIOUS
<1>f. ASSUME NEW c \in DOMAIN Calls
      PROVE  /\ calls[c] \in CallRecords /\ Sincere(calls[c], took[c]) /\ c \in DOMAIN calls /\ c \in DOMAIN took
             /\ calls[c].left \in Seq(Actors) /\ calls[c].found \in Actors \union {NoActor, Stopped}
             /\ calls[c].delivered \in BOOLEAN
  <2>1. calls[c] \in CallRecords /\ Sincere(calls[c], took[c]) /\ c \in DOMAIN calls /\ c \in DOMAIN took
    BY DEF CallsSincere
  <2> QED BY <2>1 DEF CallRecords
<1>t. \A c \in DOMAIN Calls : took = [took EXCEPT ![c] = took[c]] /\ took[c] \in SUBSET (Actors \union {NoActor, Stopped})
  BY DEF CallsSincere
<1>1. ASSUME UNCHANGED <<calls, took>> PROVE CallsSincere'
  BY <1>1 DEF CallsSincere
<1>2. ASSUME NEW a \in Actors, ActorStops(a) PROVE CallsSincere'
  <2> DEFINE r(c) == IF calls[c].found = a THEN [calls[c] EXCEPT !.found = Stopped] ELSE calls[c]
  <2>1. calls' = [c \in DOMAIN calls |-> r(c)] /\ took' = took /\ DOMAIN calls = DOMAIN Calls
    BY <1>2 DEF ActorStops, CallsSincere
  <2>2. ASSUME NEW c \in DOMAIN Calls PROVE r(c) \in CallRecords /\ Sincere(r(c), took[c])
    <3>1. CASE calls[c].found = a
      <4>1. a # NoActor
        BY NetworkAssumption
      <4>2. /\ r(c) \in CallRecords /\ r(c).left = calls[c].left /\ r(c).answer = calls[c].answer
            /\ r(c).delivered = calls[c].delivered
        BY <1>f, <3>1, FoundSet
      <4> HIDE DEF r
      <4> QED BY <1>f, <3>1, <4>1, <4>2 DEF Sincere
    <3>2. CASE calls[c].found # a
      BY <1>f, <3>2
    <3> QED BY <3>1, <3>2
  <2> HIDE DEF r
  <2> QED BY <2>1, <2>2 DEF CallsSincere
<1>3. ASSUME NEW c \in DOMAIN Calls, Lookup(c) PROVE CallsSincere'
  <2> DEFINE a == Head(calls[c].left)
             f == IF local[a] THEN a ELSE Stopped
  <2>1. calls[c].answer = "none" /\ calls[c].left # <<>> /\ calls[c].found = NoActor /\ took' = took
    BY <1>3 DEF Lookup
  <2>2. a \in Actors
    BY <1>f, <2>1
  <2>3. CASE a \in DOMAIN local
    <3> DEFINE r == [calls[c] EXCEPT !.found = f]
    <3>1. calls' = [calls EXCEPT ![c] = r]
      BY <1>3, <1>f, <2>3 DEF Lookup
    <3>2. f \in Actors \union {NoActor, Stopped}
      BY <2>2
    <3> HIDE DEF f
    <3>3. /\ r \in CallRecords /\ r.left = calls[c].left /\ r.answer = calls[c].answer
          /\ r.delivered = calls[c].delivered
      BY <1>f, <3>2, FoundSet
    <3> HIDE DEF r
    <3>4. Sincere(r, took[c])
      BY <1>f, <2>1, <3>3 DEF Sincere
    <3> QED BY <1>t, <2>1, <3>1, <3>3, <3>4, OneCall
  <2>4. CASE a \notin DOMAIN local
    <3> DEFINE r == [calls[c] EXCEPT !.left = Tail(@)]
    <3>1. calls' = [calls EXCEPT ![c] = r]
      BY <1>3, <1>f, <2>4 DEF Lookup
    <3>3. r \in CallRecords /\ r.found = NoActor /\ r.answer = calls[c].answer /\ r.delivered = calls[c].delivered
      BY <1>f, <2>1, SkippedSet
    <3> HIDE DEF r
    <3>4. Sincere(r, took[c])
      BY <1>f, <2>1, <3>3 DEF Sincere
    <3> QED BY <1>t, <2>1, <3>1, <3>3, <3>4, OneCall
  <2> QED BY <2>3, <2>4
<1>4. ASSUME NEW c \in DOMAIN Calls, Deliver(c) PROVE CallsSincere'
  <2> DEFINE a == calls[c].found
  <2>1. PICK ok \in BOOLEAN : /\ calls' = [calls EXCEPT ![c] = AfterDelivery(calls[c], ok)]
                              /\ took' = [took EXCEPT ![c] = IF ok THEN took[c] \union {a} ELSE took[c]]
    BY <1>4 DEF Deliver
  <2>2. a # NoActor
    BY <1>4 DEF Deliver
  <2>3. calls[c].left # <<>> /\ calls[c].answer = "none"
    BY <1>f, <2>2 DEF Sincere
  <2> DEFINE r == AfterDelivery(calls[c], ok)
             s == IF ok THEN took[c] \union {a} ELSE took[c]
  <2>4. r \in CallRecords /\ r.found = NoActor /\ r.answer = "none" /\ r.delivered = (calls[c].delivered \/ ok)
    BY <1>f, <2>3, AfterDeliverySet
  <2>5. (s # {} <=> (took[c] # {} \/ ok)) /\ s \in SUBSET (Actors \union {NoActor, Stopped})
    BY <1>f, <1>t
  <2>6. calls' = [calls EXCEPT ![c] = r] /\ took' = [took EXCEPT ![c] = s]
    BY <2>1
  <2> HIDE DEF r, s
  <2>7. Sincere(r, s)
    BY <1>f, <2>4, <2>5 DEF Sincere
  <2> QED BY <2>4, <2>5, <2>6, <2>7, OneCall
<1>5. ASSUME NEW c \in DOMAIN Calls, Answer(c) PROVE CallsSincere'
  <2> DEFINE v == IF calls[c].delivered THEN "success" ELSE "failed"
             r == [calls[c] EXCEPT !.answer = v]
  <2>1. calls[c].left = <<>> /\ took' = took /\ calls' = [calls EXCEPT ![c] = r]
    BY <1>5, <1>f DEF Answer
  <2>2. v \in {"success", "failed"} /\ (v = "success" <=> calls[c].delivered) /\ v # "none"
    OBVIOUS
  <2> HIDE DEF v
  <2>3. /\ r \in CallRecords /\ r.found = calls[c].found /\ r.left = calls[c].left /\ r.answer = v
        /\ r.delivered = calls[c].delivered
    <3>1. calls[c] \in CallRecords
      BY <1>f
    <3>2. \A a \in {"success", "failed"} :
            LET q == [calls[c] EXCEPT !.answer = a]
            IN  q \in CallRecords /\ q.found = calls[c].found /\ q.left = calls[c].left /\ q.answer = a
                /\ q.delivered = calls[c].delivered
      BY <3>1 DEF CallRecords
    <3> QED BY <2>2, <3>2, Zenon
  <2> HIDE DEF r
  <2>4. Sincere(r, took[c])
    BY <1>f, <2>1, <2>2, <2>3 DEF Sincere
  <2> QED BY <1>t, <2>1, <2>3, <2>4, OneCall
<1>6. CASE UNCHANGED registryvars
  BY <1>1, <1>6 DEF registryvars
<1>7. ASSUME \/ \E a \in Actors : RegisterActor(a)
             \/ \E a \in DOMAIN local : DeregisterActor(a)
             \/ \E a \in Actors, n \in Nodes, register \in BOOLEAN : UpdateRemoteRegistry(a, n, register)
             \/ \E a \in Actors, k \in Kinds, register \in BOOLEAN : UpdateServiceRegistry(k, a, register)
             \/ \E n \in Nodes : SendRemote(n)
      PROVE  CallsSincere'
  BY <1>1, <1>7 DEF RegisterActor, DeregisterActor, UpdateRemoteRegistry, UpdateServiceRegistry, SendRemote
<1> QED BY <1>2, <1>3, <1>4, <1>5, <1>6, <1>7 DEF RegistryNext

\* A node names no provider that was disconnected and has not registered since, also when the peer was
\* rediscovered meanwhile; and the answer of a send_message is a success exactly when some receiver took
\* the message, for any peers, agents and receivers and whenever agents come and go (remove_peer,
\* find_service, send_message).
THEOREM PresentTheorem == DiscoverySpec /\ RegistrySpec => []KnowsThePresent
<1>1. DiscoveryInit => ListedAnnounced
  BY DEF DiscoveryInit, ListedAnnounced, Range
<1>2. RegistryInit => CallsSincere
  <2> SUFFICES ASSUME RegistryInit PROVE CallsSincere
    OBVIOUS
  <2> DEFINE r(c) == [left |-> Calls[c], found |-> NoActor, delivered |-> FALSE, answer |-> "none"]
  <2>1. ASSUME NEW c \in DOMAIN Calls PROVE r(c) \in CallRecords /\ Sincere(r(c), {})
    BY NetworkAssumption DEF CallRecords, Sincere
  <2>2. calls = [c \in DOMAIN Calls |-> r(c)] /\ took = [c \in DOMAIN Calls |-> {}]
    BY DEF RegistryInit
  <2> HIDE DEF r
  <2> QED BY <2>1, <2>2 DEF CallsSincere
<1>3. ListedAnnounced => DisconnectedForgets
  BY DEF ListedAnnounced, DisconnectedForgets, FindProviders, Range
<1>4. CallsSincere => AnswerTruthful
  BY DEF CallsSincere, AnswerTruthful, Sincere
<1>5. DisconnectedForgets /\ AnswerTruthful => KnowsThePresent
  BY DEF KnowsThePresent
<1> QED BY <1>1, <1>2, <1>3, <1>4, <1>5, DiscoveryStep, RegistryStep, PTL DEF DiscoverySpec, RegistrySpec

-----------------------------------------------------------------------------
(* The directory facilitator *)

\* Retaining drops what is not in the set: the list is no longer, and shorter if there was such an element.
LEMMA RetainedLen ==
  ASSUME NEW T, NEW list \in Seq(T), NEW S
  PROVE  /\ Len(Retained(list, S)) <= Len(list)
         /\ (\E j \in 1 .. Len(list) : list[j] \notin S) => Len(Retained(list, S)) < Len(list)
<1> DEFINE n == Len(list)
<1>0. n \in Nat /\ DOMAIN list = 1 .. n /\ \A i \in 1 .. n : list[i] \in T
  OBVIOUS
<1>1. PICK g : Retains(g, list, S, n) /\ Retained(list, S) = g[n]
  BY <1>0, RetainedIs
<1> HIDE DEF n
<1> DEFINE Shorter(k) == /\ g[k] \in Seq(T) /\ Len(g[k]) <= k
                         /\ (\E j \in 1 .. k : list[j] \notin S) => Len(g[k]) < k
           Good == {k \in Nat : k <= n => Shorter(k)}
<1>2. 0 \in Good
  <2>1. g[0] = <<>>
    BY <1>0, <1>1 DEF Retains
  <2>2. <<>> \in Seq(T) /\ Len(<<>>) = 0 /\ \A j \in 1 .. 0 : FALSE
    OBVIOUS
  <2>3. Shorter(0)
    BY <2>1, <2>2
  <2> HIDE DEF Shorter
  <2> QED BY <2>3
<1>3. ASSUME NEW k \in Nat, k \in Good PROVE k + 1 \in Good
  <2> SUFFICES ASSUME k + 1 <= n PROVE Shorter(k + 1)
    OBVIOUS
  <2>1. k + 1 \in 0 .. n /\ k + 1 # 0 /\ (k + 1) - 1 = k /\ k <= n /\ list[k + 1] \in T
    BY <1>0
  <2>2. g[k + 1] = IF list[k + 1] \in S THEN Append(g[k], list[k + 1]) ELSE g[k]
    BY <1>1, <2>1 DEF Retains
  <2>3. /\ g[k] \in Seq(T) /\ Len(g[k]) <= k
        /\ (\E j \in 1 .. k : list[j] \notin S) => Len(g[k]) < k
    BY <1>3, <2>1
  <2>4. \A j \in 1 .. k + 1 : j \in 1 .. k \/ j = k + 1
    OBVIOUS
  <2>5. CASE list[k + 1] \in S
    <3>1. g[k + 1] = Append(g[k], list[k + 1])
      BY <2>2, <2>5
    <3>2. g[k + 1] \in Seq(T) /\ Len(g[k + 1]) = Len(g[k]) + 1 /\ Len(g[k]) \in Nat
      BY <2>1, <2>3, <3>1
    <3>3. ASSUME NEW j \in 1 .. k + 1, list[j] \notin S PROVE Len(g[k + 1]) < k + 1
      <4>1. j \in 1 .. k
        BY <2>4, <2>5, <3>3
      <4> QED BY <2>3, <3>2, <3>3, <4>1
    <3> QED BY <2>3, <3>2, <3>3
  <2>6. CASE list[k + 1] \notin S
    <3>1. g[k + 1] = g[k] /\ Len(g[k]) \in Nat
      BY <2>2, <2>3, <2>6
    <3> QED BY <2>3, <3>1
  <2> QED BY <2>5, <2>6
<1>4. Nat \subseteq Good
  <2> HIDE DEF Good
  <2> QED BY <1>2, <1>3, NatSetInduction
<1>5. Shorter(n)
  <2>1. n \in Good /\ n <= n
    <3> HIDE DEF Good
    <3> QED BY <1>0, <1>4
  <2> HIDE DEF Shorter
  <2> QED BY <2>1
<1> QED BY <1>1, <1>5 DEF n

\* Retaining of a list with one element more at its end.
LEMMA RetainedAppend ==
  ASSUME NEW T, NEW list \in Seq(T), NEW e \in T, NEW S
  PROVE  Retained(Append(list, e), S) = IF e \in S THEN Append(Retained(list, S), e) ELSE Retained(list, S)
<1> DEFINE n == Len(list)
           more == Append(list, e)
<1>0. n \in Nat /\ Len(more) = n + 1 /\ more[n + 1] = e /\ \A i \in 1 .. n : more[i] = list[i]
  OBVIOUS
<1>1. PICK g : Retains(g, list, S, n) /\ Retained(list, S) = g[n]
  BY <1>0, RetainedIs
<1>2. PICK h : Retains(h, more, S, n + 1) /\ Retained(more, S) = h[n + 1]
  <2>1. Len(more) \in Nat
    BY <1>0
  <2>2. PICK h : Retains(h, more, S, Len(more)) /\ Retained(more, S) = h[Len(more)]
    BY <2>1, RetainedIs
  <2> HIDE DEF more, n
  <2> QED BY <1>0, <2>2
<1> HIDE DEF n, more
<1> DEFINE Good == {k \in Nat : k <= n => g[k] = h[k]}
<1>3. 0 \in Good
  BY <1>0, <1>1, <1>2 DEF Retains
<1>4. ASSUME NEW k \in Nat, k \in Good PROVE k + 1 \in Good
  <2> SUFFICES ASSUME k + 1 <= n PROVE g[k + 1] = h[k + 1]
    OBVIOUS
  <2>1. k + 1 \in 0 .. n /\ k + 1 \in 0 .. n + 1 /\ k + 1 \in 1 .. n /\ k + 1 # 0 /\ (k + 1) - 1 = k /\ g[k] = h[k]
    BY <1>0, <1>4
  <2>2. g[k + 1] = IF list[k + 1] \in S THEN Append(g[k], list[k + 1]) ELSE g[k]
    BY <1>1, <2>1 DEF Retains
  <2>3. h[k + 1] = IF more[k + 1] \in S THEN Append(h[k], more[k + 1]) ELSE h[k]
    BY <1>2, <2>1 DEF Retains
  <2> QED BY <1>0, <2>1, <2>2, <2>3
<1>5. Nat \subseteq Good
  <2> HIDE DEF Good
  <2> QED BY <1>3, <1>4, NatSetInduction
<1>6. g[n] = h[n]
  <2>1. n \in Good /\ n <= n
    <3> HIDE DEF Good
    <3> QED BY <1>0, <1>5
  <2> QED BY <2>1
<1>7. n + 1 \in 0 .. n + 1 /\ n + 1 # 0 /\ (n + 1) - 1 = n
  BY <1>0
<1>8. h[n + 1] = IF more[n + 1] \in S THEN Append(h[n], more[n + 1]) ELSE h[n]
  BY <1>2, <1>7 DEF Retains
<1> QED BY <1>0, <1>1, <1>2, <1>6, <1>8 DEF more

\* Nothing is retained of a list with no element in the set.
LEMMA RetainedNone ==
  ASSUME NEW T, NEW list \in Seq(T), NEW S, \A i \in 1 .. Len(list) : list[i] \notin S
  PROVE  Retained(list, S) = <<>>
<1> DEFINE r == Retained(list, S)
<1>1. r \in Seq(T) /\ \A x : x \in Range(r) => x \in Range(list) /\ x \in S
  BY RetainedRange
<1> HIDE DEF r
<1>2. \A x \in Range(list) : x \notin S
  BY DEF Range
<1>3. ASSUME r # <<>> PROVE FALSE
  <2>1. 1 \in DOMAIN r
    BY <1>1, <1>3
  <2>2. r[1] \in Range(r)
    BY <2>1 DEF Range
  <2> QED BY <1>1, <1>2, <2>2
<1> QED BY <1>3 DEF r

Regs == [owner : Providers, version : Versions]
Listed(list, a) == \E i \in DOMAIN list : list[i].owner = a

\* The two maps of the DF, idx the services an agent is charged for: they agree, within the limits.
Exact(svc, idx) ==
  /\ svc \in [Offers -> Seq(Regs)] /\ idx \in [Providers -> SUBSET Offers]
  /\ \A a \in Providers, s \in Offers : s \in idx[a] <=> Listed(svc[s], a)
  /\ \A a \in Providers : Cardinality(idx[a]) <= MaxPerAgent
  /\ MaxTotal # 0 => Total(svc) <= MaxTotal

DFInv == Exact(services, agentServices)

\* The total after the list of one service changed.
LEMMA TotalChange ==
  ASSUME NEW svc \in [Offers -> Seq(Regs)], NEW s \in Offers, NEW new \in Seq(Regs)
  PROVE  /\ Total([svc EXCEPT ![s] = new]) = Total(svc) - Len(svc[s]) + Len(new)
         /\ Total(svc) \in Nat /\ Len(svc[s]) \in Nat /\ Len(new) \in Nat
<1> DEFINE svc2 == [svc EXCEPT ![s] = new]
           f == [x \in Offers |-> Len(svc[x])]
           g == [x \in Offers |-> Len(svc2[x])]
<1>1. svc2 \in [Offers -> Seq(Regs)] /\ svc2[s] = new /\ \A y \in Offers \ {s} : svc2[y] = svc[y]
  OBVIOUS
<1> HIDE DEF svc2
<1>2. f \in [Offers -> Nat] /\ g \in [Offers -> Nat] /\ f[s] = Len(svc[s]) /\ g[s] = Len(new)
  BY <1>1
<1>3. \A y \in Offers \ {s} : g[y] = f[y]
  BY <1>1
<1>4. DOMAIN svc = Offers /\ DOMAIN svc2 = Offers
  BY <1>1
<1>5. Total(svc) = SumFunctionOnSet(f, Offers) /\ Total(svc2) = SumFunctionOnSet(g, Offers)
  BY <1>4, Zenon DEF Total, SumFunction
<1>6. f \in [Offers -> Int] /\ g \in [Offers -> Int] /\ IsFiniteSet(Offers) /\ \A x \in Offers : f[x] \in Nat
  BY <1>2, PlatformAssumption
<1> HIDE DEF f, g
<1>7. SumFunctionOnSet(g, Offers) = SumFunctionOnSet(f, Offers) - f[s] + g[s]
  BY <1>3, <1>6, SumChange
<1>8. SumFunctionOnSet(f, Offers) \in Nat
  BY <1>6, SumType
<1> QED BY <1>2, <1>5, <1>7, <1>8 DEF svc2

\* A registration that the limits allow.
LEMMA RegisteredExact ==
  ASSUME NEW svc, NEW idx, Exact(svc, idx), NEW a \in Providers, NEW s \in Offers, NEW e \in Regs, e.owner = a,
         Cardinality(idx[a]) < MaxPerAgent, MaxTotal = 0 \/ Total(svc) < MaxTotal
  PROVE  Exact([svc EXCEPT ![s] = Append(svc[s], e)], [idx EXCEPT ![a] = idx[a] \union {s}])
<1> DEFINE svc2 == [svc EXCEPT ![s] = Append(svc[s], e)]
           idx2 == [idx EXCEPT ![a] = idx[a] \union {s}]
<1>0. svc \in [Offers -> Seq(Regs)] /\ idx \in [Providers -> SUBSET Offers] /\ svc[s] \in Seq(Regs)
  BY DEF Exact
<1>1. Append(svc[s], e) \in Seq(Regs) /\ Len(Append(svc[s], e)) = Len(svc[s]) + 1
  BY <1>0
<1>2. \A b \in Providers : Listed(Append(svc[s], e), b) <=> (Listed(svc[s], b) \/ b = a)
  <2>1. \A i \in DOMAIN svc[s] : i \in DOMAIN Append(svc[s], e) /\ Append(svc[s], e)[i] = svc[s][i]
    BY <1>0
  <2>2. \A i \in DOMAIN Append(svc[s], e) : i \in DOMAIN svc[s] \/ i = Len(svc[s]) + 1
    BY <1>0
  <2>3. Len(svc[s]) + 1 \in DOMAIN Append(svc[s], e) /\ Append(svc[s], e)[Len(svc[s]) + 1] = e
    BY <1>0
  <2> QED BY <2>1, <2>2, <2>3 DEF Listed
<1>3. svc2 \in [Offers -> Seq(Regs)] /\ idx2 \in [Providers -> SUBSET Offers]
  BY <1>0, <1>1
<1>4. ASSUME NEW b \in Providers, NEW t \in Offers PROVE t \in idx2[b] <=> Listed(svc2[t], b)
  <2>0. t \in idx[b] <=> Listed(svc[t], b)
    BY DEF Exact
  <2>1. CASE t = s
    <3>1. svc2[t] = Append(svc[s], e) /\ (s \in idx2[b] <=> (s \in idx[b] \/ b = a))
      BY <1>0, <2>1
    <3> HIDE DEF svc2, idx2
    <3> QED BY <1>2, <2>0, <2>1, <3>1
  <2>2. CASE t # s
    <3>1. svc2[t] = svc[t] /\ (t \in idx2[b] <=> t \in idx[b])
      BY <1>0, <2>2
    <3> HIDE DEF svc2, idx2
    <3> QED BY <2>0, <3>1
  <2> QED BY <2>1, <2>2
<1>5. ASSUME NEW b \in Providers PROVE Cardinality(idx2[b]) <= MaxPerAgent
  <2>0. IsFiniteSet(idx[b]) /\ Cardinality(idx[b]) \in Nat /\ Cardinality(idx[b]) <= MaxPerAgent
    BY <1>0, PlatformAssumption, FS_Subset, FS_CardinalityType DEF Exact
  <2>1. CASE b = a
    <3>1. idx2[b] = idx[b] \union {s}
      BY <1>0, <2>1
    <3>2. Cardinality(idx[b] \union {s}) <= Cardinality(idx[b]) + 1 /\ Cardinality(idx[b] \union {s}) \in Nat
      <4>1. Cardinality(idx[b] \union {s}) = IF s \in idx[b] THEN Cardinality(idx[b]) ELSE Cardinality(idx[b]) + 1
        BY <2>0, FS_AddElement
      <4> QED BY <2>0, <4>1
    <3>3. Cardinality(idx2[b]) = Cardinality(idx[b] \union {s})
      BY <3>1, Zenon
    <3> HIDE DEF idx2
    <3> QED BY <2>0, <2>1, <3>2, <3>3, PlatformAssumption
  <2>2. CASE b # a
    BY <1>0, <2>0, <2>2
  <2> QED BY <2>1, <2>2
<1>6. MaxTotal # 0 => Total(svc2) <= MaxTotal
  <2>1. Total(svc2) = Total(svc) - Len(svc[s]) + Len(Append(svc[s], e)) /\ Total(svc) \in Nat /\ Len(svc[s]) \in Nat
    BY <1>0, <1>1, TotalChange
  <2> HIDE DEF svc2
  <2> QED BY <1>1, <2>1, PlatformAssumption
<1> HIDE DEF svc2, idx2
<1>7. Exact(svc2, idx2)
  BY <1>3, <1>4, <1>5, <1>6 DEF Exact
<1> QED BY <1>7 DEF svc2, idx2

\* A deregistration leaves both limits with room for another registration.
LEMMA DeregisteredExact ==
  ASSUME NEW svc, NEW idx, Exact(svc, idx), NEW a \in Providers, NEW s \in Offers, Listed(svc[s], a)
  PROVE  LET svc2 == [svc EXCEPT ![s] = Retained(svc[s], [owner : Providers \ {a}, version : Versions])]
             idx2 == [idx EXCEPT ![a] = idx[a] \ {s}]
         IN  /\ Exact(svc2, idx2)
             /\ Cardinality(idx2[a]) < MaxPerAgent
             /\ MaxTotal # 0 => Total(svc2) < MaxTotal
             /\ \A i \in 1 .. Len(svc2[s]) : svc2[s][i].owner # a
             /\ svc2[s] \in Seq(Regs)
<1> DEFINE svc2 == [svc EXCEPT ![s] = Retained(svc[s], [owner : Providers \ {a}, version : Versions])]
           idx2 == [idx EXCEPT ![a] = idx[a] \ {s}]
<1>u. /\ svc2 = [svc EXCEPT ![s] = Retained(svc[s], [owner : Providers \ {a}, version : Versions])]
      /\ idx2 = [idx EXCEPT ![a] = idx[a] \ {s}]
  OBVIOUS
<1> SUFFICES /\ Exact(svc2, idx2)
             /\ Cardinality(idx2[a]) < MaxPerAgent
             /\ MaxTotal # 0 => Total(svc2) < MaxTotal
             /\ \A i \in 1 .. Len(svc2[s]) : svc2[s][i].owner # a
             /\ svc2[s] \in Seq(Regs)
  OBVIOUS
<1> HIDE DEF svc2, idx2
<1> DEFINE S == [owner : Providers \ {a}, version : Versions]
           new == Retained(svc[s], S)
<1>0. svc \in [Offers -> Seq(Regs)] /\ idx \in [Providers -> SUBSET Offers] /\ svc[s] \in Seq(Regs)
  BY DEF Exact
<1>r. \A x \in Regs : x \in S <=> x.owner # a
  BY DEF Regs
<1>d. DOMAIN svc[s] = 1 .. Len(svc[s]) /\ Len(svc[s]) \in Nat /\ \A i \in DOMAIN svc[s] : svc[s][i] \in Regs
  BY <1>0
<1> HIDE DEF S
<1>1. new \in Seq(Regs) /\ \A x : x \in Range(new) <=> (x \in Range(svc[s]) /\ x \in S)
  BY <1>0, RetainedRange
<1>2. Len(new) < Len(svc[s])
  <2>1. \E j \in 1 .. Len(svc[s]) : svc[s][j] \notin S
    BY <1>d, <1>r DEF Listed
  <2> QED BY <1>0, <2>1, RetainedLen
<1>c. svc2[s] = new /\ svc2 = [svc EXCEPT ![s] = new]
  BY <1>0, <1>u DEF S
<1> HIDE DEF new
<1>n. DOMAIN new = 1 .. Len(new) /\ \A i \in DOMAIN new : new[i] \in Regs /\ new[i] \in Range(new)
  BY <1>1 DEF Range
<1>3. \A b \in Providers : Listed(new, b) <=> (Listed(svc[s], b) /\ b # a)
  <2>1. ASSUME NEW b \in Providers, Listed(new, b) PROVE Listed(svc[s], b) /\ b # a
    <3>1. PICK i \in DOMAIN new : new[i].owner = b
      BY <2>1 DEF Listed
    <3>2. new[i] \in Range(svc[s]) /\ new[i].owner # a
      BY <1>1, <1>n, <1>r
    <3> QED BY <3>1, <3>2 DEF Listed, Range
  <2>2. ASSUME NEW b \in Providers, Listed(svc[s], b), b # a PROVE Listed(new, b)
    <3>1. PICK i \in DOMAIN svc[s] : svc[s][i].owner = b
      BY <2>2 DEF Listed
    <3>2. svc[s][i] \in S /\ svc[s][i] \in Range(svc[s])
      BY <1>d, <1>r, <2>2, <3>1 DEF Range
    <3>3. svc[s][i] \in Range(new)
      BY <1>1, <3>2
    <3> QED BY <3>1, <3>3 DEF Listed, Range
  <2> QED BY <2>1, <2>2
<1>4. svc2 \in [Offers -> Seq(Regs)] /\ idx2 \in [Providers -> SUBSET Offers]
  BY <1>0, <1>1, <1>c, <1>u
<1>5. ASSUME NEW b \in Providers, NEW t \in Offers PROVE t \in idx2[b] <=> Listed(svc2[t], b)
  <2>0. t \in idx[b] <=> Listed(svc[t], b)
    BY DEF Exact
  <2>1. CASE t = s
    <3>1. s \in idx2[b] <=> (s \in idx[b] /\ b # a)
      BY <1>0, <1>u
    <3> QED BY <1>3, <1>c, <2>0, <2>1, <3>1
  <2>2. CASE t # s
    <3>1. svc2[t] = svc[t] /\ (t \in idx2[b] <=> t \in idx[b])
      BY <1>0, <2>2, <1>c, <1>u
    <3> QED BY <2>0, <3>1
  <2> QED BY <2>1, <2>2
<1>6. Cardinality(idx2[a]) < MaxPerAgent
  <2>0. IsFiniteSet(idx[a]) /\ Cardinality(idx[a]) \in Nat /\ Cardinality(idx[a]) <= MaxPerAgent
    BY <1>0, PlatformAssumption, FS_Subset, FS_CardinalityType DEF Exact
  <2>1. idx2[a] = idx[a] \ {s} /\ s \in idx[a]
    BY <1>0, <1>u DEF Exact
  <2>2. Cardinality(idx[a] \ {s}) = Cardinality(idx[a]) - 1
    BY <2>0, <2>1, FS_RemoveElement
  <2>3. Cardinality(idx2[a]) = Cardinality(idx[a] \ {s})
    BY <2>1, Zenon
  <2> QED BY ONLY <2>0, <2>2, <2>3, PlatformAssumption
<1>7. ASSUME NEW b \in Providers PROVE Cardinality(idx2[b]) <= MaxPerAgent
  <2>0. IsFiniteSet(idx2[a]) /\ Cardinality(idx2[a]) \in Nat
    BY <1>4, PlatformAssumption, FS_Subset, FS_CardinalityType
  <2>1. CASE b = a
    BY ONLY <1>6, <2>0, <2>1, PlatformAssumption
  <2>2. CASE b # a
    <3>1. idx2[b] = idx[b]
      BY <1>0, <2>2, <1>u
    <3>2. Cardinality(idx[b]) <= MaxPerAgent
      BY DEF Exact
    <3> QED BY <3>1, <3>2
  <2> QED BY <2>1, <2>2
<1>t. Total(svc2) = Total(svc) - Len(svc[s]) + Len(new) /\ Total(svc) \in Nat /\ Len(svc[s]) \in Nat /\ Len(new) \in Nat
  <2>1. /\ Total([svc EXCEPT ![s] = new]) = Total(svc) - Len(svc[s]) + Len(new)
        /\ Total(svc) \in Nat /\ Len(svc[s]) \in Nat /\ Len(new) \in Nat
    BY ONLY <1>0, <1>1, s \in Offers, TotalChange
  <2>2. Total(svc2) = Total([svc EXCEPT ![s] = new])
    BY <1>c, Zenon
  <2> QED BY ONLY <2>1, <2>2
<1>8. MaxTotal # 0 => Total(svc2) < MaxTotal
  <2>1. MaxTotal # 0 => Total(svc) <= MaxTotal
    BY DEF Exact
  <2> QED BY ONLY <1>2, <1>t, <2>1, PlatformAssumption
<1>9. MaxTotal # 0 => Total(svc2) <= MaxTotal
  BY ONLY <1>8, <1>t, PlatformAssumption
<1>10. \A i \in 1 .. Len(svc2[s]) : svc2[s][i].owner # a
  BY <1>1, <1>c, <1>n, <1>r
<1> QED BY <1>1, <1>c, <1>4, <1>5, <1>6, <1>7, <1>8, <1>9, <1>10 DEF Exact

\* The operators of the DF on its state as a whole.
LEMMA RegisteredKeeps ==
  ASSUME NEW st, Exact(st.services, st.index), NEW a \in Providers, NEW s \in Offers, NEW v \in Versions,
         CanRegister(st, a)
  PROVE  /\ Exact(Registered(st, a, s, v).services, Registered(st, a, s, v).index)
         /\ Registered(st, a, s, v).services[s] = Append(st.services[s], [owner |-> a, version |-> v])
<1> DEFINE svc == st.services
           idx == st.index
           e == [owner |-> a, version |-> v]
           reg == Registered(st, a, s, v)
<1>1. Cardinality(idx[a]) < MaxPerAgent /\ (MaxTotal = 0 \/ Total(svc) < MaxTotal)
  BY DEF CanRegister
<1>2. e \in Regs /\ e.owner = a
  BY DEF Regs
<1>3. reg.services = [svc EXCEPT ![s] = Append(svc[s], e)] /\ reg.index = [idx EXCEPT ![a] = idx[a] \union {s}]
  BY DEF Registered
<1>4. svc \in [Offers -> Seq(Regs)]
  BY DEF Exact
<1> HIDE DEF svc, idx, e, reg
<1>5. Exact(svc, idx)
  BY DEF svc, idx
<1>6. Exact(reg.services, reg.index)
  BY <1>1, <1>2, <1>3, <1>5, RegisteredExact
<1>7. reg.services[s] = Append(svc[s], e)
  BY <1>3, <1>4
<1> QED BY <1>6, <1>7 DEF svc, idx, e, reg

LEMMA DeregisteredKeeps ==
  ASSUME NEW st, Exact(st.services, st.index), NEW a \in Providers, NEW s \in Offers, Provides(st, a, s)
  PROVE  LET freed == Deregistered(st, a, s)
         IN  /\ Exact(freed.services, freed.index) /\ CanRegister(freed, a)
             /\ freed.services[s] \in Seq(Regs)
             /\ \A i \in 1 .. Len(freed.services[s]) : freed.services[s][i].owner # a
<1> DEFINE svc == st.services
           idx == st.index
           svc2 == Deregistered(st, a, s).services
           idx2 == Deregistered(st, a, s).index
<1>1. svc2 = [svc EXCEPT ![s] = Retained(svc[s], [owner : Providers \ {a}, version : Versions])]
  BY DEF Deregistered
<1>2. idx2 = [idx EXCEPT ![a] = idx[a] \ {s}]
  BY DEF Deregistered
<1>3. Listed(svc[s], a)
  BY DEF Provides, Listed
<1> HIDE DEF svc, idx, svc2, idx2
<1>4. Exact(svc, idx)
  BY DEF svc, idx
<1>5. /\ Exact(svc2, idx2)
      /\ Cardinality(idx2[a]) < MaxPerAgent
      /\ MaxTotal # 0 => Total(svc2) < MaxTotal
      /\ \A i \in 1 .. Len(svc2[s]) : svc2[s][i].owner # a
      /\ svc2[s] \in Seq(Regs)
  BY <1>1, <1>2, <1>3, <1>4, DeregisteredExact
<1>6. CanRegister(Deregistered(st, a, s), a)
  BY <1>5, PlatformAssumption DEF CanRegister, svc2, idx2
<1> QED BY <1>5, <1>6 DEF svc2, idx2

LEMMA ModifyKeeps ==
  ASSUME NEW st, Exact(st.services, st.index), NEW a \in Providers, NEW s \in Offers, NEW v \in Versions
  PROVE  /\ Exact(Modify(st, a, s, v).services, Modify(st, a, s, v).index)
         /\ Provides(st, a, s) =>
              Retained(Modify(st, a, s, v).services[s], [owner : {a}, version : Versions])
                = <<[owner |-> a, version |-> v]>>
<1> DEFINE freed == IF Provides(st, a, s) THEN Deregistered(st, a, s) ELSE st
           after == Modify(st, a, s, v)
           e == [owner |-> a, version |-> v]
           S == [owner : {a}, version : Versions]
<1>1. Exact(freed.services, freed.index)
  BY DeregisteredKeeps
<1>2. after = IF CanRegister(freed, a) THEN Registered(freed, a, s, v) ELSE freed
  BY DEF Modify
<1>d. Provides(st, a, s) =>
        /\ CanRegister(freed, a) /\ freed.services[s] \in Seq(Regs)
        /\ \A i \in 1 .. Len(freed.services[s]) : freed.services[s][i].owner # a
  <2> SUFFICES ASSUME Provides(st, a, s)
               PROVE  /\ CanRegister(freed, a) /\ freed.services[s] \in Seq(Regs)
                      /\ \A i \in 1 .. Len(freed.services[s]) : freed.services[s][i].owner # a
    OBVIOUS
  <2>1. freed = Deregistered(st, a, s)
    OBVIOUS
  <2> HIDE DEF freed
  <2> QED BY <2>1, DeregisteredKeeps
<1>e. e \in Regs /\ e \in S /\ \A x \in Regs : x \in S => x.owner = a
  BY DEF Regs
<1> HIDE DEF freed, after, e, S
<1>3. Exact(after.services, after.index)
  BY <1>1, <1>2, RegisteredKeeps
<1>4. ASSUME Provides(st, a, s) PROVE Retained(after.services[s], S) = <<e>>
  <2> DEFINE list == freed.services[s]
  <2>1. list \in Seq(Regs) /\ \A i \in 1 .. Len(list) : list[i] \notin S
    BY <1>4, <1>d, <1>e
  <2>2. after.services[s] = Append(list, e)
    BY <1>1, <1>2, <1>4, <1>d, RegisteredKeeps DEF e
  <2> HIDE DEF list
  <2>3. Retained(list, S) = <<>>
    BY <2>1, RetainedNone
  <2>4. Retained(Append(list, e), S) = Append(Retained(list, S), e)
    BY <1>e, <2>1, RetainedAppend
  <2>5. Retained(after.services[s], S) = Append(<<>>, e)
    BY <2>2, <2>3, <2>4
  <2> QED BY <2>5
<1> QED BY <1>3, <1>4 DEF after, e, S

LEMMA DFStep == DFInv /\ [DFNext]_dfvars => DFInv'
<1> SUFFICES ASSUME DFInv, [DFNext]_dfvars PROVE DFInv'
  OBVIOUS
<1>0. Exact(Df.services, Df.index)
  BY DEF DFInv, Df
<1>1. ASSUME NEW a \in Providers, NEW s \in Offers, NEW v \in Versions, DFRegister(a, s, v) PROVE DFInv'
  BY <1>0, <1>1, RegisteredKeeps DEF DFRegister, Becomes, DFInv
<1>2. ASSUME NEW a \in Providers, NEW s \in Offers, NEW v \in Versions, DFModify(a, s, v) PROVE DFInv'
  BY <1>0, <1>2, ModifyKeeps DEF DFModify, Becomes, DFInv
<1>3. ASSUME NEW a \in Providers, NEW s \in Offers, DFDeregister(a, s) PROVE DFInv'
  BY <1>0, <1>3, DeregisteredKeeps DEF DFDeregister, Becomes, DFInv
<1>4. ASSUME UNCHANGED <<services, agentServices>> PROVE DFInv'
  BY <1>4 DEF DFInv
<1>5. ASSUME NEW a \in Providers, NEW f, DFSubscribe(a, f) \/ DFUnsubscribe(a) PROVE DFInv'
  BY <1>4, <1>5 DEF DFSubscribe, DFUnsubscribe
<1>6. CASE UNCHANGED dfvars
  BY <1>4, <1>6 DEF dfvars
<1> QED BY <1>1, <1>2, <1>3, <1>5, <1>6 DEF DFNext

\* An agent is charged for a service exactly while a registration of the service by it can be found,
\* and modifying a service leaves it registered once and with the new description, for any providers,
\* services and limits: what a deregistration gives back is enough for the registration that follows
\* (register, deregister, DFModify).
THEOREM DirectoryFacilitatorTheorem == DFSpec => []DirectoryExact
<1>1. DFInit => DFInv
  <2> SUFFICES ASSUME DFInit PROVE DFInv
    OBVIOUS
  <2> DEFINE f == [s \in Offers |-> Len(services[s])]
  <2>1. services = [s \in Offers |-> <<>>] /\ agentServices = [a \in Providers |-> {}]
    BY DEF DFInit
  <2>2. \A s \in Offers : f[s] = 0
    BY <2>1
  <2>3. Total(services) = SumFunctionOnSet(f, Offers)
    <3>1. DOMAIN services = Offers
      BY <2>1
    <3> QED BY <3>1, Zenon DEF Total, SumFunction
  <2> HIDE DEF f
  <2>4. Total(services) = 0
    BY <2>2, <2>3, SumZero, PlatformAssumption
  <2>5. \A a \in Providers : Cardinality(agentServices[a]) = 0
    BY <2>1, FS_EmptySet
  <2>6. \A a \in Providers, s \in Offers : s \in agentServices[a] <=> Listed(services[s], a)
    BY <2>1 DEF Listed
  <2>7. services \in [Offers -> Seq(Regs)] /\ agentServices \in [Providers -> SUBSET Offers]
    BY <2>1
  <2> QED BY <2>4, <2>5, <2>6, <2>7, PlatformAssumption DEF DFInv, Exact
<1>2. DFInv => DirectoryExact
  <2> SUFFICES ASSUME DFInv PROVE IndexAgrees /\ ModifyKeepsService
    BY DEF DirectoryExact
  <2>1. \A a \in Providers, s \in Offers : s \in agentServices[a] <=> Provides(Df, a, s)
    BY DEF DFInv, Exact, Provides, Listed, Df
  <2>2. agentServices \in [Providers -> SUBSET Offers]
    BY DEF DFInv, Exact
  <2>3. IndexAgrees
    BY <2>1, <2>2 DEF IndexAgrees
  <2>4. Exact(Df.services, Df.index)
    BY DEF DFInv, Df
  <2>5. ModifyKeepsService
    BY <2>4, ModifyKeeps DEF ModifyKeepsService
  <2> QED BY <2>3, <2>5
<1> QED BY <1>1, <1>2, DFStep, PTL DEF DFSpec

-----------------------------------------------------------------------------
(* The MCP bridge *)

Lines == Nat \X Requests

\* While the server is there: what was read is answered, in hand or queued, in the order it was read.
InOrder ==
  /\ asked = answered + Len(rx) + (IF busy = <<>> THEN 0 ELSE 1)
  /\ last.call = answered
  /\ busy # <<>> => busy[1] = answered + 1
  /\ \A i \in 1 .. Len(rx) : rx[i][1] = asked - Len(rx) + i

LinesInv ==
  /\ asked \in Nat /\ asked <= MaxCalls /\ answered \in Nat
  /\ rx \in Seq(Lines) /\ (busy = <<>> \/ busy \in Lines)
  /\ bridge # "down" => InOrder

LEMMA HeadAndTail ==
  ASSUME NEW T, NEW q \in Seq(T), q # <<>>
  PROVE  /\ Tail(q) \in Seq(T) /\ Head(q) \in T /\ Head(q) = q[1]
         /\ Len(q) \in Nat /\ Len(q) >= 1 /\ Len(Tail(q)) = Len(q) - 1
         /\ \A i \in 1 .. Len(q) - 1 : Tail(q)[i] = q[i + 1]
  OBVIOUS

\* An answer ends the request in hand, or the server where nobody can be told.
LEMMA RespondKeeps ==
  ASSUME LinesInv, bridge # "down", busy # <<>>, NEW tells, Respond(tells)
  PROVE  LinesInv'
<1>1. /\ busy' = <<>> /\ UNCHANGED <<asked, rx>>
      /\ \/ bridge' = "down" /\ answered' = answered
         \/ answered' = answered + 1 /\ last' = [call |-> busy[1], tells |-> tells] /\ bridge' = bridge
  BY DEF Respond
<1>2. CASE bridge' = "down" /\ answered' = answered
  BY <1>1, <1>2 DEF LinesInv
<1>3. CASE answered' = answered + 1 /\ last' = [call |-> busy[1], tells |-> tells] /\ bridge' = bridge
  <2>1. InOrder
    BY DEF LinesInv
  <2>2. last'.call = busy[1]
    BY <1>3
  <2>3. InOrder'
    BY <1>1, <1>3, <2>1, <2>2 DEF InOrder, LinesInv
  <2> QED BY <1>1, <1>3, <2>3 DEF LinesInv
<1> QED BY <1>1, <1>2, <1>3

\* Every operation of the server answers, except the check of a creation that may go on.
Answering ==
  CreateInserts \/ Destroy \/ SendMessage \/ RegisterService \/ GetMessages \/ QueryAgent \/ ReadDetail
  \/ ListAgents \/ SearchServices \/ ReadResource \/ Info \/ Unknown

LEMMA AnsweringResponds ==
  ASSUME Answering
  PROVE  bridge # "down" /\ busy # <<>> /\ \E tells : Respond(tells)
<1>1. CASE CreateInserts
  BY <1>1, Zenon DEF CreateInserts, Doing
<1>2. CASE Destroy
  BY <1>2, Zenon DEF Destroy, Doing
<1>3. CASE SendMessage
  <2>1. bridge # "down" /\ busy # <<>> /\ (Respond("queued") \/ Respond("sent"))
    BY <1>3 DEF SendMessage, Doing
  <2> QED BY <2>1, Zenon
<1>4. CASE RegisterService
  BY <1>4, Zenon DEF RegisterService, Doing
<1>5. CASE GetMessages
  BY <1>5, Zenon DEF GetMessages, Doing
<1>6. CASE QueryAgent
  BY <1>6, Zenon DEF QueryAgent, Doing
<1>7. CASE ReadDetail
  BY <1>7, Zenon DEF ReadDetail, Doing
<1>8. CASE ListAgents
  BY <1>8, Zenon DEF ListAgents, Doing
<1>9. CASE SearchServices
  BY <1>9, Zenon DEF SearchServices, Doing
<1>10. CASE ReadResource
  BY <1>10, Zenon DEF ReadResource, Doing
<1>11. CASE Info
  BY <1>11, Zenon DEF Info, Doing
<1>12. CASE Unknown
  BY <1>12, Zenon DEF Unknown, Doing
<1> QED BY <1>1, <1>2, <1>3, <1>4, <1>5, <1>6, <1>7, <1>8, <1>9, <1>10, <1>11, <1>12 DEF Answering

LEMMA LinesStep == LinesInv /\ [BridgeNext]_bridgevars => LinesInv'
<1> SUFFICES ASSUME LinesInv, [BridgeNext]_bridgevars PROVE LinesInv'
  OBVIOUS
<1>0. asked \in Nat /\ asked <= MaxCalls /\ answered \in Nat /\ rx \in Seq(Lines) /\ MaxCalls \in Nat
  BY BridgeAssumption DEF LinesInv
<1>1. ASSUME UNCHANGED <<asked, rx, busy, answered, last>>, bridge = "down" => bridge' = "down" PROVE LinesInv'
  BY <1>1 DEF LinesInv, InOrder
<1>2. CASE BuildRegistry \/ EndOfInput \/ WriteLine \/ WriterFails \/ UNCHANGED bridgevars
  BY <1>1, <1>2 DEF BuildRegistry, EndOfInput, WriteLine, WriterFails, bridgevars
<1>3. CASE TakeRequest
  <2>1. bridge # "down" /\ busy = <<>> /\ rx # <<>> /\ busy' = Head(rx) /\ rx' = Tail(rx) /\ UNCHANGED <<asked, answered, last, bridge>>
    BY <1>3 DEF TakeRequest
  <2>2. /\ rx' \in Seq(Lines) /\ busy' \in Lines /\ busy' = rx[1] /\ Len(rx) \in Nat /\ Len(rx) >= 1
        /\ Len(rx') = Len(rx) - 1 /\ \A i \in 1 .. Len(rx) - 1 : rx'[i] = rx[i + 1]
    BY <1>0, <2>1, HeadAndTail
  <2>3. busy' # <<>>
    <3>1. \A n, r : <<n, r>> # <<>>
      OBVIOUS
    <3>2. \E n \in Nat, r \in Requests : busy' = <<n, r>>
      BY <2>2 DEF Lines
    <3> QED BY <3>1, <3>2
  <2>4. InOrder
    BY <2>1 DEF LinesInv
  <2>5. asked = answered + Len(rx) /\ last.call = answered /\ \A i \in 1 .. Len(rx) : rx[i][1] = asked - Len(rx) + i
    BY <1>0, <2>1, <2>2, <2>4 DEF InOrder
  <2>6. asked' = answered' + Len(rx') + 1 /\ busy'[1] = answered' + 1 /\ last'.call = answered'
    BY <1>0, <2>1, <2>2, <2>5
  <2>7. \A i \in 1 .. Len(rx') : rx'[i][1] = asked' - Len(rx') + i
    <3> TAKE i \in 1 .. Len(rx')
    <3>1. i + 1 \in 1 .. Len(rx) /\ i \in 1 .. Len(rx) - 1 /\ i \in Int
      BY <2>2
    <3>2. rx'[i][1] = asked - Len(rx) + (i + 1)
      BY <2>2, <2>5, <3>1
    <3> QED BY <1>0, <2>1, <2>2, <3>1, <3>2
  <2>8. InOrder'
    BY <2>3, <2>6, <2>7 DEF InOrder
  <2> QED BY <1>0, <2>1, <2>2, <2>8 DEF LinesInv
<1>4. CASE ServerEnds
  BY <1>4 DEF ServerEnds, LinesInv
<1>5. CASE CreateChecks
  <2>1. CASE Taken(Op.name)
    BY <1>5, <2>1, RespondKeeps DEF CreateChecks, Doing
  <2>2. CASE ~Taken(Op.name)
    BY <1>1, <1>5, <2>2 DEF CreateChecks
  <2> QED BY <2>1, <2>2
<1>6. CASE Answering
  <2>1. bridge # "down" /\ busy # <<>> /\ \E tells : Respond(tells)
    BY <1>6, AnsweringResponds
  <2>2. PICK tells : Respond(tells)
    BY <2>1, Zenon
  <2> QED BY <2>1, <2>2, RespondKeeps
<1>7. ASSUME NEW r \in Requests, ReadLine(r) PROVE LinesInv'
  <2> DEFINE l == <<asked + 1, r>>
  <2>1. asked < MaxCalls /\ asked' = asked + 1 /\ rx' = Append(rx, l) /\ UNCHANGED <<busy, answered, last, bridge>>
    BY <1>7 DEF ReadLine
  <2>2. l \in Lines /\ l[1] = asked + 1
    BY <1>0 DEF Lines
  <2> HIDE DEF l
  <2>3. /\ rx' \in Seq(Lines) /\ Len(rx) \in Nat /\ Len(rx') = Len(rx) + 1 /\ rx'[Len(rx) + 1] = l
        /\ \A i \in 1 .. Len(rx) : rx'[i] = rx[i]
    BY <1>0, <2>1, <2>2
  <2>4. ASSUME InOrder PROVE InOrder'
    <3>1. \A i \in 1 .. Len(rx') : rx'[i][1] = asked' - Len(rx') + i
      <4> TAKE i \in 1 .. Len(rx')
      <4>1. i \in Int /\ asked' - Len(rx') + i = asked - Len(rx) + i
        BY <1>0, <2>1, <2>3
      <4>2. CASE i \in 1 .. Len(rx)
        BY <2>3, <2>4, <4>1, <4>2 DEF InOrder
      <4>3. CASE i = Len(rx) + 1
        BY <1>0, <2>2, <2>3, <4>1, <4>3
      <4> QED BY <2>3, <4>2, <4>3
    <3>2. asked' = answered' + Len(rx') + (IF busy' = <<>> THEN 0 ELSE 1)
      <4>1. (IF busy' = <<>> THEN 0 ELSE 1) \in Int /\ busy' = busy
        BY <2>1
      <4>2. asked = answered + Len(rx) + (IF busy = <<>> THEN 0 ELSE 1)
        BY <2>4 DEF InOrder
      <4> QED BY <1>0, <2>1, <2>3, <4>1, <4>2
    <3> QED BY <2>1, <2>4, <3>1, <3>2 DEF InOrder
  <2> QED BY <1>0, <2>1, <2>3, <2>4 DEF LinesInv
<1> QED BY <1>2, <1>3, <1>4, <1>5, <1>6, <1>7 DEF BridgeNext, Answering

\* The agents, one under each id drawn so far that was not destroyed or given to a message; while the
\* server has looked for a name, the name is free.
AgentsInv ==
  /\ lastId \in Nat /\ (bridge # "down" => lastId <= answered)
  /\ DOMAIN mcpAgents \subseteq {BridgeIds[i] : i \in 1 .. lastId}
  /\ IsFiniteSet(DOMAIN mcpAgents) /\ made \in Int /\ unmade \in Int
  /\ AgentsAccounted
  /\ checked => busy # <<>> /\ busy[2].op = "create" /\ ~Taken(busy[2].name)

LEMMA IdsGrow ==
  ASSUME NEW n \in Nat
  PROVE  {BridgeIds[i] : i \in 1 .. n} \subseteq {BridgeIds[i] : i \in 1 .. n + 1}
<1>1. \A i \in 1 .. n : i \in 1 .. n + 1
  OBVIOUS
<1> QED BY <1>1

\* An operation that leaves the agents alone, and draws an id only where it answers.
LEMMA AgentsStay ==
  ASSUME AgentsInv, UNCHANGED <<mcpAgents, made, unmade>>, LinesInv,
         checked' => checked /\ busy' = busy,
         \/ lastId' = lastId /\ answered' = answered /\ (bridge = "down" => bridge' = "down")
         \/ /\ lastId' \in {lastId, lastId + 1}
            /\ bridge # "down" /\ (bridge' # "down" => answered' = answered + 1)
  PROVE  AgentsInv'
<1>1. lastId \in Nat /\ answered \in Nat
  BY DEF AgentsInv, LinesInv
<1>2. lastId' \in Nat /\ (bridge' # "down" => lastId' <= answered')
  BY <1>1 DEF AgentsInv
<1>3. DOMAIN mcpAgents' \subseteq {BridgeIds[i] : i \in 1 .. lastId'}
  BY <1>1, IdsGrow DEF AgentsInv
<1> QED BY <1>2, <1>3 DEF AgentsInv, AgentsAccounted, Taken

\* What an answer does to the requests and to the server.
LEMMA RespondDoes ==
  ASSUME NEW tells, Respond(tells), bridge # "down"
  PROVE  busy' = <<>> /\ checked' = FALSE /\ (bridge' # "down" => answered' = answered + 1)
  BY DEF Respond

LEMMA AgentsStep == LinesInv /\ AgentsInv /\ [BridgeNext]_bridgevars => AgentsInv'
<1> SUFFICES ASSUME LinesInv, AgentsInv, [BridgeNext]_bridgevars PROVE AgentsInv'
  OBVIOUS
<1>0. /\ lastId \in Nat /\ answered \in Nat /\ made \in Int /\ unmade \in Int /\ IsFiniteSet(DOMAIN mcpAgents)
      /\ DOMAIN mcpAgents \subseteq {BridgeIds[i] : i \in 1 .. lastId}
      /\ bridge # "down" => lastId <= answered
      /\ checked => busy # <<>> /\ busy[2].op = "create" /\ ~Taken(busy[2].name)
      /\ IsInjective(mcpAgents) /\ Cardinality(DOMAIN mcpAgents) = made - unmade
  BY DEF AgentsInv, AgentsAccounted, LinesInv
<1>1. CASE UNCHANGED bridgevars
  BY <1>1, AgentsStay DEF bridgevars, platformvars
<1>2. CASE BuildRegistry \/ EndOfInput \/ WriteLine \/ WriterFails \/ ServerEnds \/ \E r \in Requests : ReadLine(r)
  <2>1. UNCHANGED <<lastId, answered, checked, busy>> /\ UNCHANGED <<mcpAgents, made, unmade>> /\ (bridge = "down" => bridge' = "down")
    BY <1>2 DEF BuildRegistry, EndOfInput, WriteLine, WriterFails, ServerEnds, ReadLine, platformvars
  <2> QED BY <2>1, AgentsStay
<1>3. CASE TakeRequest
  <2>1. ~checked
    BY <1>0, <1>3 DEF TakeRequest
  <2>2. UNCHANGED <<lastId, answered, checked, bridge>> /\ UNCHANGED <<mcpAgents, made, unmade>>
    BY <1>3 DEF TakeRequest, platformvars
  <2> QED BY <2>1, <2>2, AgentsStay
<1>4. CASE CreateChecks
  <2>1. CASE Taken(Op.name)
    <3>1. Respond("error") /\ bridge # "down" /\ UNCHANGED platformvars
      BY <1>4, <2>1 DEF CreateChecks, Doing
    <3>2. UNCHANGED <<mcpAgents, made, unmade>> /\ lastId' = lastId
      BY <3>1 DEF platformvars
    <3> QED BY <3>1, <3>2, RespondDoes, AgentsStay
  <2>2. CASE ~Taken(Op.name)
    <3>1. /\ UNCHANGED <<busy, answered, bridge>> /\ UNCHANGED <<mcpAgents, made, unmade, lastId>>
          /\ busy # <<>> /\ busy[2].op = "create"
      BY <1>4, <2>2 DEF CreateChecks, platformvars, Doing, Op
    <3> QED BY <1>0, <2>2, <3>1 DEF AgentsInv, AgentsAccounted, Taken, Op
  <2> QED BY <2>1, <2>2
<1>5. CASE CreateInserts
  <2> DEFINE id == BridgeIds[lastId + 1]
             name == busy[2].name
  <2>1. /\ bridge # "down" /\ checked /\ Respond("created")
        /\ lastId' = lastId + 1 /\ mcpAgents' = With(mcpAgents, id, name) /\ made' = made + 1 /\ unmade' = unmade
    BY <1>5 DEF CreateInserts, Doing, Op
  <2>2. lastId + 1 \in DOMAIN BridgeIds /\ \A i \in 1 .. lastId : i \in DOMAIN BridgeIds /\ i # lastId + 1
    <3>1. lastId <= answered /\ busy # <<>> /\ InOrder
      BY <1>0, <2>1 DEF LinesInv
    <3>2. answered + 1 <= asked
      <4>1. Len(rx) \in Nat /\ asked = answered + Len(rx) + 1 /\ asked \in Nat
        BY <3>1 DEF InOrder, LinesInv
      <4> QED BY <1>0, <4>1
    <3>3. asked \in Nat /\ asked <= MaxCalls
      BY DEF LinesInv
    <3> QED BY <1>0, <3>1, <3>2, <3>3, BridgeAssumption
  <2>3. id \notin DOMAIN mcpAgents
    BY <1>0, <2>2, BridgeAssumption DEF IsInjective
  <2>4. \A k \in DOMAIN mcpAgents : mcpAgents[k] # name
    BY <1>0, <2>1 DEF Taken, Range
  <2> HIDE DEF name
  <2>5. /\ DOMAIN mcpAgents' = DOMAIN mcpAgents \union {id} /\ mcpAgents'[id] = name
        /\ \A k \in DOMAIN mcpAgents : mcpAgents'[k] = mcpAgents[k]
    BY <2>1, <2>3 DEF With
  <2>6. IsInjective(mcpAgents')
    BY <1>0, <2>3, <2>4, <2>5 DEF IsInjective
  <2>7. Cardinality(DOMAIN mcpAgents') = made' - unmade' /\ IsFiniteSet(DOMAIN mcpAgents')
    <3>1. Cardinality(DOMAIN mcpAgents \union {id}) = Cardinality(DOMAIN mcpAgents) + 1 /\ IsFiniteSet(DOMAIN mcpAgents \union {id})
      BY <1>0, <2>3, FS_AddElement
    <3>2. Cardinality(DOMAIN mcpAgents') = Cardinality(DOMAIN mcpAgents \union {id}) /\ IsFiniteSet(DOMAIN mcpAgents')
      BY <2>5, <3>1, Zenon
    <3>3. Cardinality(DOMAIN mcpAgents') = (made - unmade) + 1
      BY <1>0, <3>1, <3>2
    <3> QED BY <1>0, <2>1, <3>2, <3>3
  <2>8. DOMAIN mcpAgents' \subseteq {BridgeIds[i] : i \in 1 .. lastId'}
    <3>1. id \in {BridgeIds[i] : i \in 1 .. lastId + 1}
      BY <1>0
    <3> HIDE DEF id
    <3> QED BY <1>0, <2>1, <2>5, <3>1, IdsGrow
  <2>9. checked' = FALSE /\ (bridge' # "down" => answered' = answered + 1)
    BY <2>1, RespondDoes
  <2>10. lastId' \in Nat /\ (bridge' # "down" => lastId' <= answered')
    BY <1>0, <2>1, <2>9
  <2>11. made' \in Int /\ unmade' \in Int
    BY <1>0, <2>1
  <2> QED BY <2>6, <2>7, <2>8, <2>9, <2>10, <2>11 DEF AgentsInv, AgentsAccounted
<1>6. CASE Destroy
  <2>0. bridge # "down" /\ lastId' = lastId /\ made' = made
    BY <1>6 DEF Destroy, Doing
  <2>1. CASE Respond("error") /\ UNCHANGED <<mcpAgents, unmade>>
    BY <2>0, <2>1, RespondDoes, AgentsStay
  <2>2. ASSUME NEW id \in Stands(Op.name), mcpAgents' = Without(mcpAgents, id), unmade' = unmade + 1, Respond("destroyed")
        PROVE  AgentsInv'
    <3>1. id \in DOMAIN mcpAgents
      BY DEF Stands
    <3>2. DOMAIN mcpAgents' = DOMAIN mcpAgents \ {id} /\ \A k \in DOMAIN mcpAgents' : mcpAgents'[k] = mcpAgents[k]
      BY <2>2 DEF Without
    <3>3. IsInjective(mcpAgents')
      BY <1>0, <3>2 DEF IsInjective
    <3>4. Cardinality(DOMAIN mcpAgents') = made' - unmade' /\ IsFiniteSet(DOMAIN mcpAgents')
      <4>1. Cardinality(DOMAIN mcpAgents \ {id}) = Cardinality(DOMAIN mcpAgents) - 1 /\ IsFiniteSet(DOMAIN mcpAgents \ {id})
        BY <1>0, <3>1, FS_RemoveElement
      <4>2. Cardinality(DOMAIN mcpAgents') = Cardinality(DOMAIN mcpAgents \ {id}) /\ IsFiniteSet(DOMAIN mcpAgents')
        BY <3>2, <4>1, Zenon
      <4>3. Cardinality(DOMAIN mcpAgents') = (made - unmade) - 1
        BY <1>0, <4>1, <4>2
      <4> QED BY <1>0, <2>0, <2>2, <4>2, <4>3
    <3>5. checked' = FALSE /\ (bridge' # "down" => answered' = answered + 1)
      BY <2>0, <2>2, RespondDoes
    <3>6. lastId' \in Nat /\ (bridge' # "down" => lastId' <= answered') /\ made' \in Int /\ unmade' \in Int
      BY <1>0, <2>0, <2>2, <3>5
    <3>7. DOMAIN mcpAgents' \subseteq {BridgeIds[i] : i \in 1 .. lastId'}
      BY <1>0, <2>0, <3>2
    <3> QED BY <3>3, <3>4, <3>5, <3>6, <3>7 DEF AgentsInv, AgentsAccounted
  <2> QED BY <1>6, <2>1, <2>2 DEF Destroy
<1>7. CASE SendMessage
  <2>1. bridge # "down" /\ UNCHANGED <<mcpAgents, made, unmade>> /\ lastId' \in {lastId, lastId + 1}
        /\ (Respond("queued") \/ Respond("sent"))
    BY <1>7 DEF SendMessage, Doing, platformvars
  <2> QED BY <2>1, RespondDoes, AgentsStay
<1>8. CASE RegisterService \/ GetMessages \/ QueryAgent \/ ReadDetail \/ ListAgents \/ SearchServices \/ ReadResource \/ Info \/ Unknown
  <2>1. UNCHANGED <<mcpAgents, made, unmade, lastId>>
    BY <1>8 DEF RegisterService, GetMessages, QueryAgent, ReadDetail, ListAgents, SearchServices, ReadResource,
                Info, Unknown, platformvars
  <2>2. bridge # "down" /\ \E tells : Respond(tells)
    BY <1>8, AnsweringResponds DEF Answering
  <2>3. PICK tells : Respond(tells)
    BY <2>2, Zenon
  <2> QED BY <2>1, <2>2, <2>3, RespondDoes, AgentsStay
<1> QED BY <1>1, <1>2, <1>3, <1>4, <1>5, <1>6, <1>7, <1>8 DEF BridgeNext

\* No two agents have the same name and there are as many as the clients were told, and every request
\* read is answered once and in order while the bridge serves, for any ids, names and queue lengths
\* (CreateAgentTool, DestroyAgentTool, run_stdio, StdioTransport).
THEOREM BridgeTheorem == BridgeSpec => []BridgeExact
<1>1. BridgeInit => LinesInv /\ AgentsInv
  <2> SUFFICES ASSUME BridgeInit PROVE LinesInv /\ AgentsInv
    OBVIOUS
  <2>1. LinesInv
    BY BridgeAssumption DEF BridgeInit, LinesInv, InOrder
  <2>2. DOMAIN mcpAgents = {} /\ lastId = 0 /\ made = 0 /\ unmade = 0 /\ checked = FALSE /\ answered = 0
    BY DEF BridgeInit
  <2>3. Cardinality(DOMAIN mcpAgents) = 0 /\ IsFiniteSet(DOMAIN mcpAgents)
    BY <2>2, FS_EmptySet
  <2> QED BY <2>1, <2>2, <2>3 DEF AgentsInv, AgentsAccounted, IsInjective
<1>2. LinesInv /\ AgentsInv => BridgeExact
  <2> SUFFICES ASSUME LinesInv, AgentsInv PROVE BridgeExact
    OBVIOUS
  <2>1. bridge \in {"up", "eof"} => InOrder
    BY DEF LinesInv
  <2> QED BY <2>1 DEF BridgeExact, CallsAnswered, InOrder, AgentsInv
<1> QED BY <1>1, <1>2, LinesStep, AgentsStep, PTL DEF BridgeSpec

-----------------------------------------------------------------------------
(* What an agent may use *)

LEMMA FitStep == loaded \in Manifests /\ [FitNext]_fitvars => (loaded \in Manifests)'
  BY DEF FitNext, LoadManifest, fitvars

LEMMA FitHolds == loaded \in Manifests => FitMonotone
<1> SUFFICES ASSUME loaded \in Manifests PROVE FitMonotone
  OBVIOUS
<1>1. /\ loaded.grants \subseteq Caps /\ loaded.net \in Scopes
      /\ {loaded.mem, loaded.fuel, loaded.state, loaded.timers, loaded.msgs} \subseteq Nat
      /\ Unlimited \in Nat /\ Unlimited >= 1
  BY SandboxAssumption
<1>2. Core \subseteq Iot.caps /\ Iot.caps \subseteq Caps /\ Normal.caps = Caps /\ Iot.caps \intersect {"Llm", "Spawn"} = {}
  BY DEF Core, Iot, Caps, Normal
<1>3. ASSUME Admits(Iot, loaded) PROVE Admits(Normal, loaded)
  <2>1. loaded.grants \subseteq Normal.caps
    BY <1>1, <1>2
  <2>2. loaded.mem <= Iot.mem /\ loaded.fuel <= Iot.fuel /\ loaded.state <= Iot.state
        /\ loaded.timers <= Iot.timers /\ loaded.msgs <= Iot.msgs
    BY <1>3 DEF Admits
  <2>3. loaded.mem <= Normal.mem /\ loaded.fuel <= Normal.fuel /\ loaded.state <= Normal.state
        /\ loaded.timers <= Normal.timers /\ loaded.msgs <= Normal.msgs
    BY <1>1, <2>2 DEF Iot, Normal
  <2>4. NetRank(loaded.net) <= NetRank(Normal.net)
    BY DEF NetRank, Normal
  <2> QED BY <2>1, <2>3, <2>4 DEF Admits
<1>4. \A profile \in {Iot, Normal} : Admits(profile, loaded) => GrantOf(loaded).caps \subseteq profile.caps
  BY <1>2 DEF Admits, GrantOf
<1>5. ASSUME Admits(Iot, loaded)
      PROVE  loaded.net # "any" /\ GrantOf(loaded).caps \intersect {"Llm", "Spawn"} = {}
  <2>1. NetRank(loaded.net) <= NetRank("platform")
    BY <1>5 DEF Admits, Iot
  <2>2. loaded.net # "any"
    BY <2>1 DEF NetRank
  <2> QED BY <1>2, <1>4, <1>5, <2>2
<1> QED BY <1>3, <1>4, <1>5 DEF FitMonotone

SendsInv == sends \in 0 .. MaxQueuedSends

LEMMA SendsStep == SendsInv /\ [EngineNext]_enginevars => SendsInv'
<1> SUFFICES ASSUME SendsInv, [EngineNext]_enginevars PROVE SendsInv'
  OBVIOUS
<1>0. MaxQueuedSends \in Nat
  BY SandboxAssumption
<1>1. ASSUME NEW fuel, Runs(fuel) PROVE SendsInv'
  BY <1>0, <1>1 DEF Runs, Queued, SendsInv
<1>2. CASE TakeSends
  BY <1>0, <1>2 DEF TakeSends, SendsInv
<1>3. CASE UNCHANGED enginevars
  BY <1>3 DEF enginevars, SendsInv
<1> QED BY <1>1, <1>2, <1>3 DEF EngineNext, EntryPoint, HandleMessage, ReceiveMessage

\* Until a state is restored the usage is what is stored, each value counted at its key.
StorageInv ==
  /\ DOMAIN stored \subseteq Keys /\ stored \in [DOMAIN stored -> Sizes]
  /\ restored \in BOOLEAN
  /\ ~restored => usage = StoredBytes /\ usage <= Quota

\* The timers that wait, that have fired and that are over part the numbers given.
TimersInv ==
  /\ nextTimer \in Nat \ {0}
  /\ DOMAIN timers \union DOMAIN fired \union ended = 1 .. nextTimer - 1
  /\ DOMAIN timers \intersect DOMAIN fired = {} /\ DOMAIN timers \intersect ended = {}
  /\ DOMAIN fired \intersect ended = {}
  /\ fired = [t \in DOMAIN fired |-> 1]

\* What an insertion or a removal does to the sum of a map.
LEMMA SumOfMap ==
  ASSUME NEW f, IsFiniteSet(DOMAIN f), f \in [DOMAIN f -> Nat], NEW k, NEW n \in Nat
  PROVE  /\ SumFunction(f) \in Nat
         /\ k \in DOMAIN f => /\ f[k] <= SumFunction(f)
                              /\ SumFunction(With(f, k, n)) = SumFunction(f) - f[k] + n
                              /\ SumFunction(Without(f, k)) = SumFunction(f) - f[k]
         /\ k \notin DOMAIN f => SumFunction(With(f, k, n)) = SumFunction(f) + n
<1> DEFINE D == DOMAIN f
           g == With(f, k, n)
           h == Without(f, k)
<1>0. SumFunction(f) = SumFunctionOnSet(f, D) /\ SumFunction(g) = SumFunctionOnSet(g, DOMAIN g)
      /\ SumFunction(h) = SumFunctionOnSet(h, DOMAIN h)
  BY DEF SumFunction
<1>1. SumFunctionOnSet(f, D) \in Nat
  BY SumType
<1>2. DOMAIN g = D \union {k} /\ g[k] = n /\ \A y \in D \ {k} : g[y] = f[y]
  BY DEF With
<1>3. DOMAIN h = D \ {k} /\ \A y \in D \ {k} : h[y] = f[y]
  BY DEF Without
<1>4. IsFiniteSet(D \ {k}) /\ IsFiniteSet(D \union {k})
  BY FS_RemoveElement, FS_AddElement
<1>5. \A y \in D \union {k} : g[y] \in Int
  BY <1>2
<1>6. SumFunctionOnSet(g, D \union {k}) = g[k] + SumFunctionOnSet(g, (D \union {k}) \ {k})
  BY <1>4, <1>5, SumRemove
<1>7. (D \union {k}) \ {k} = D \ {k}
  OBVIOUS
<1>8. SumFunctionOnSet(g, D \ {k}) = SumFunctionOnSet(f, D \ {k})
  BY <1>2, <1>4, SumSame
<1>9. SumFunctionOnSet(h, D \ {k}) = SumFunctionOnSet(f, D \ {k})
  BY <1>3, <1>4, SumSame
<1>10. SumFunctionOnSet(f, D \ {k}) \in Nat
  BY <1>4, SumType
<1>11. SumFunction(g) = n + SumFunctionOnSet(f, D \ {k})
  BY <1>0, <1>2, <1>6, <1>7, <1>8, Zenon
<1>12. SumFunction(h) = SumFunctionOnSet(f, D \ {k})
  BY <1>0, <1>3, <1>9, Zenon
<1>13. CASE k \in D
  <2>1. SumFunctionOnSet(f, D) = f[k] + SumFunctionOnSet(f, D \ {k})
    BY <1>13, SumRemove
  <2>2. f[k] <= SumFunctionOnSet(f, D) /\ f[k] \in Nat
    BY <1>13, SumAtLeast
  <2> HIDE DEF g, h
  <2> QED BY <1>0, <1>1, <1>10, <1>11, <1>12, <1>13, <2>1, <2>2 DEF g, h
<1>14. CASE k \notin D
  <2>1. SumFunctionOnSet(f, D \ {k}) = SumFunctionOnSet(f, D)
    <3>1. D \ {k} = D
      BY <1>14
    <3> QED BY <3>1, Zenon
  <2> QED BY <1>0, <1>1, <1>11, <1>14, <2>1
<1> QED BY <1>13, <1>14

LEMMA StorageStep == StorageInv /\ [HostNext]_hostvars => StorageInv'
<1> SUFFICES ASSUME StorageInv, [HostNext]_hostvars PROVE StorageInv'
  OBVIOUS
<1>0. /\ Sizes \subseteq Nat /\ Quota \in Nat /\ Word \in Nat /\ \A n \in Sizes : Quota + n < Word
      /\ IsFiniteSet(Keys)
  BY SandboxAssumption
<1>1. IsFiniteSet(DOMAIN stored) /\ stored \in [DOMAIN stored -> Nat]
  BY <1>0, FS_Subset DEF StorageInv
<1>2. \A a \in Nat : a < Word => a % Word = a
  BY <1>0
<1>3. ASSUME NEW k \in Keys, NEW n \in Sizes, Store(k, n) PROVE StorageInv'
  <2>0. usage' = NewUsage(k, n) /\ usage' <= Quota /\ stored' = With(stored, k, n) /\ restored' = restored
    BY <1>3 DEF Store
  <2>1. DOMAIN stored' \subseteq Keys /\ stored' \in [DOMAIN stored' -> Sizes]
    BY <2>0 DEF StorageInv, With
  <2>2. ASSUME ~restored PROVE usage' = SumFunction(stored')
    <3>1. usage = SumFunction(stored) /\ usage <= Quota
      BY <2>2 DEF StorageInv, StoredBytes
    <3>2. SumFunction(stored) \in Nat /\ n \in Nat /\ Quota + n < Word
      BY <1>0, <1>1, SumOfMap
    <3>3. CASE k \in DOMAIN stored
      <4>1. stored[k] <= SumFunction(stored) /\ SumFunction(With(stored, k, n)) = SumFunction(stored) - stored[k] + n
            /\ stored[k] \in Nat
        BY <1>1, <3>2, <3>3, SumOfMap
      <4>2. usage' = (SumFunction(stored) + n - stored[k]) % Word
        BY <2>0, <3>1, <3>3 DEF NewUsage, Size
      <4>3. SumFunction(stored) + n - stored[k] \in Nat /\ SumFunction(stored) + n - stored[k] < Word
        BY <1>0, <3>1, <3>2, <4>1
      <4>4. usage' = SumFunction(stored) + n - stored[k]
        BY <1>2, <4>2, <4>3, Zenon
      <4>5. SumFunction(stored') = SumFunction(stored) - stored[k] + n
        BY <2>0, <4>1
      <4> QED BY <3>2, <4>1, <4>4, <4>5
    <3>4. CASE k \notin DOMAIN stored
      <4>1. SumFunction(With(stored, k, n)) = SumFunction(stored) + n
        BY <1>1, <3>2, <3>4, SumOfMap
      <4>2. usage' = (SumFunction(stored) + n - 0) % Word
        BY <2>0, <3>1, <3>4 DEF NewUsage, Size
      <4>3. SumFunction(stored) + n - 0 \in Nat /\ SumFunction(stored) + n - 0 < Word
        BY <1>0, <3>1, <3>2
      <4>4. usage' = SumFunction(stored) + n - 0
        BY <1>2, <4>2, <4>3, Zenon
      <4>5. SumFunction(stored') = SumFunction(stored) + n
        BY <2>0, <4>1
      <4> QED BY <3>2, <4>4, <4>5
    <3> QED BY <3>3, <3>4
  <2> QED BY <2>0, <2>1, <2>2 DEF StorageInv, StoredBytes
<1>4. ASSUME NEW k \in Keys, Delete(k) PROVE StorageInv'
  <2>0. k \in DOMAIN stored /\ usage' = (usage - stored[k]) % Word /\ stored' = Without(stored, k) /\ restored' = restored
    BY <1>4 DEF Delete
  <2>1. DOMAIN stored' \subseteq Keys /\ stored' \in [DOMAIN stored' -> Sizes]
    BY <2>0 DEF StorageInv, Without
  <2>2. ASSUME ~restored PROVE usage' = SumFunction(stored') /\ usage' <= Quota
    <3>1. usage = SumFunction(stored) /\ usage <= Quota
      BY <2>2 DEF StorageInv, StoredBytes
    <3>2. stored[k] \in Sizes /\ stored[k] \in Nat
      BY <1>1, <2>0 DEF StorageInv
    <3>3. SumFunction(stored) \in Nat /\ stored[k] <= SumFunction(stored)
          /\ SumFunction(Without(stored, k)) = SumFunction(stored) - stored[k]
      BY <1>1, <2>0, <3>2, SumOfMap
    <3>4. usage - stored[k] \in Nat /\ usage - stored[k] < Word
      BY <1>0, <3>1, <3>2, <3>3
    <3>5. usage' = usage - stored[k]
      BY <1>2, <2>0, <3>4
    <3> QED BY <1>0, <2>0, <3>1, <3>2, <3>3, <3>5
  <2> QED BY <2>0, <2>1, <2>2 DEF StorageInv, StoredBytes
<1>5. ASSUME NEW ks \in SUBSET Keys, NEW s \in [ks -> Sizes], RestoreState(s) PROVE StorageInv'
  BY <1>5 DEF RestoreState, StorageInv
<1>6. CASE UNCHANGED <<stored, usage, restored>>
  BY <1>6 DEF StorageInv, StoredBytes
<1> QED BY <1>3, <1>4, <1>5, <1>6
        DEF HostNext, ScheduleTimer, CancelTimer, CheckTimers, TakeFiredTimers, ClockMoves, hostvars

LEMMA TimersStep == TimersInv /\ [HostNext]_hostvars => TimersInv'
<1> SUFFICES ASSUME TimersInv, [HostNext]_hostvars PROVE TimersInv'
  OBVIOUS
<1>1. ASSUME NEW d, ScheduleTimer(d) PROVE TimersInv'
  <2>1. DOMAIN timers' = DOMAIN timers \union {nextTimer} /\ nextTimer' = nextTimer + 1 /\ UNCHANGED <<fired, ended>>
    BY <1>1 DEF ScheduleTimer, With
  <2>2. 1 .. nextTimer' - 1 = (1 .. nextTimer - 1) \union {nextTimer} /\ nextTimer \notin 1 .. nextTimer - 1
    BY <2>1 DEF TimersInv
  <2> QED BY <2>1, <2>2 DEF TimersInv
<1>2. ASSUME NEW t, CancelTimer(t) PROVE TimersInv'
  <2>1. t \in DOMAIN timers /\ DOMAIN timers' = DOMAIN timers \ {t} /\ ended' = ended \union {t} /\ UNCHANGED <<nextTimer, fired>>
    BY <1>2 DEF CancelTimer, Without
  <2> QED BY <2>1 DEF TimersInv
<1>3. CASE CheckTimers
  <2>1. /\ Due \subseteq DOMAIN timers /\ DOMAIN timers' = DOMAIN timers \ Due
        /\ DOMAIN fired' = DOMAIN fired \union Due /\ UNCHANGED <<nextTimer, ended>>
    BY <1>3 DEF CheckTimers, Due
  <2>2. fired' = [t \in DOMAIN fired \union Due |-> Times(t) + (IF t \in Due THEN 1 ELSE 0)]
    BY <1>3 DEF CheckTimers
  <2>3. \A t \in DOMAIN fired \union Due : Times(t) + (IF t \in Due THEN 1 ELSE 0) = 1
    BY <2>1 DEF TimersInv, Times
  <2>4. fired' = [t \in DOMAIN fired' |-> 1]
    BY <2>1, <2>2, <2>3
  <2> QED BY <2>1, <2>4 DEF TimersInv
<1>4. CASE TakeFiredTimers
  <2>1. DOMAIN fired' = {} /\ fired' = <<>> /\ ended' = ended \union DOMAIN fired /\ UNCHANGED <<nextTimer, timers>>
    BY <1>4 DEF TakeFiredTimers
  <2>2. fired' = [t \in DOMAIN fired' |-> 1]
    BY <2>1
  <2> QED BY <2>1, <2>2 DEF TimersInv
<1>5. CASE UNCHANGED <<timers, nextTimer, fired, ended>>
  BY <1>5 DEF TimersInv
<1> QED BY <1>1, <1>2, <1>3, <1>4, <1>5 DEF HostNext, Store, Delete, RestoreState, ClockMoves, hostvars

LEMMA HostHolds == StorageInv /\ TimersInv => HostAccounts
<1> SUFFICES ASSUME StorageInv, TimersInv PROVE HostAccounts
  OBVIOUS
<1>1. ASSUME NEW t \in 1 .. nextTimer - 1
      PROVE  LET fates == <<DOMAIN timers, DOMAIN fired, ended>>
             IN  Cardinality({i \in 1 .. 3 : t \in fates[i]}) = 1
  <2> DEFINE fates == <<DOMAIN timers, DOMAIN fired, ended>>
             I == {i \in 1 .. 3 : t \in fates[i]}
  <2>1. 1 .. 3 = {1, 2, 3} /\ fates[1] = DOMAIN timers /\ fates[2] = DOMAIN fired /\ fates[3] = ended
    OBVIOUS
  <2>2. I = {1} \/ I = {2} \/ I = {3}
    BY <1>1, <2>1 DEF TimersInv
  <2>3. Cardinality(I) = 1
    BY <2>2, FS_Singleton
  <2> QED BY <2>3
<1>2. \A t \in DOMAIN fired : fired[t] = 1
  BY DEF TimersInv
<1> QED BY <1>1, <1>2 DEF HostAccounts, StorageInv

\* An agent stays within its grant, whatever its manifests, values, keys and budgets: a manifest that
\* fits an edge node fits a normal one, a guest's queue is bounded however often its calls fail, what
\* it is charged is what it stores and every timer has one fate (fit, call, store, check_timers).
THEOREM GrantTheorem == FitSpec /\ EngineSpec /\ HostSpec => []WithinGrant
<1>1. FitInit => loaded \in Manifests
  BY SandboxAssumption DEF FitInit
<1>2. EngineInit => SendsInv
  BY SandboxAssumption DEF EngineInit, SendsInv
<1>3. HostInit => StorageInv /\ TimersInv
  <2> SUFFICES ASSUME HostInit PROVE StorageInv /\ TimersInv
    OBVIOUS
  <2>1. SumFunction(<<>>) = 0
    <3>1. SumFunction(<<>>) = SumFunctionOnSet(<<>>, {})
      <4>1. DOMAIN <<>> = {}
        OBVIOUS
      <4> QED BY <4>1, Zenon DEF SumFunction
    <3> QED BY <3>1, SumEmpty
  <2>2. StorageInv
    <3>1. stored = <<>> /\ usage = 0 /\ restored = FALSE
      BY DEF HostInit
    <3>2. DOMAIN stored = {} /\ stored \in [DOMAIN stored -> Sizes]
      BY <3>1
    <3>3. usage = SumFunction(stored)
      BY <2>1, <3>1, Zenon
    <3>4. 0 <= Quota
      BY SandboxAssumption
    <3> QED BY <3>1, <3>2, <3>3, <3>4 DEF StorageInv, StoredBytes
  <2>3. <<>> = [t \in DOMAIN <<>> |-> 1] /\ DOMAIN <<>> = {}
    OBVIOUS
  <2>4. TimersInv
    BY <2>3 DEF HostInit, TimersInv
  <2> QED BY <2>2, <2>4
<1>4. loaded \in Manifests /\ SendsInv /\ StorageInv /\ TimersInv => WithinGrant
  BY FitHolds, HostHolds DEF WithinGrant, SendsBounded, SendsInv
<1> QED BY <1>1, <1>2, <1>3, <1>4, FitStep, SendsStep, StorageStep, TimersStep, PTL DEF FitSpec, EngineSpec, HostSpec

-----------------------------------------------------------------------------
(* The managed agent *)

Frames == [tag : {"Emit", "Done"}, call : Nat]
Children == [up : BOOLEAN, requests : Seq(Nat), frames : Seq(Frames), unwritten : Seq(Frames)]
Outputs == [call : Nat, output : Seq(Nat), sound : BOOLEAN]

ManagedTypeOK ==
  /\ child \in Children
  /\ waiting \in BOOLEAN /\ delivery \in Nat /\ restarts \in Nat /\ intact \in BOOLEAN
  /\ outbox \in Seq(Nat) /\ returned \in Seq(Outputs)

\* The frames answer request number k: at most the last is the Done.
OneAnswer(fs, k) ==
  \A i \in 1 .. Len(fs) : fs[i].call = k /\ (fs[i].tag = "Done" => i = Len(fs))

\* As long as no restart was refused or failed, whatever is on its way to or from the child is of the
\* present delivery, and nothing is when none is waited for.
OfThisDelivery ==
  intact =>
    /\ \A i \in 1 .. Len(outbox) : outbox[i] = delivery
    /\ \A i \in 1 .. Len(child.requests) : child.requests[i] = delivery
    /\ Len(child.requests) <= 1
    /\ Len(child.requests) = 1 => Len(child.frames) = 0 /\ Len(child.unwritten) = 0
    /\ OneAnswer(child.frames, delivery) /\ OneAnswer(child.unwritten, delivery)
    /\ \A i \in 1 .. Len(child.frames) : child.frames[i].tag = "Done" => Len(child.unwritten) = 0
    /\ ~waiting => /\ Len(outbox) = 0 /\ Len(child.requests) = 0
                   /\ Len(child.frames) = 0 /\ Len(child.unwritten) = 0

ManagedInv == ManagedTypeOK /\ OfThisDelivery /\ OutputOwn

LEMMA AnswerMade ==
  ASSUME NEW n \in Nat, NEW k \in Nat
  PROVE  LET fs == [i \in 1 .. n |-> [tag |-> "Emit", call |-> k]] \o <<[tag |-> "Done", call |-> k]>>
         IN  fs \in Seq(Frames) /\ OneAnswer(fs, k)
<1> DEFINE emit == [tag |-> "Emit", call |-> k]
           done == [tag |-> "Done", call |-> k]
           emits == [i \in 1 .. n |-> emit]
           fs == emits \o <<done>>
<1>1. emit \in Frames /\ done \in Frames
  BY DEF Frames
<1>2. emits \in Seq(Frames) /\ Len(emits) = n
  BY <1>1
<1>3. <<done>> \in Seq(Frames) /\ Len(<<done>>) = 1 /\ <<done>>[1] = done
  BY <1>1
<1>4. fs \in Seq(Frames) /\ Len(fs) = n + 1
  BY <1>2, <1>3
<1>5. ASSUME NEW i \in 1 .. n + 1 PROVE fs[i] = IF i <= n THEN emit ELSE done
  BY <1>2, <1>3
<1>6. emit.call = k /\ done.call = k /\ emit.tag # "Done"
  OBVIOUS
<1> HIDE DEF fs, emit, done
<1>7. OneAnswer(fs, k)
  BY <1>4, <1>5, <1>6 DEF OneAnswer
<1> QED BY <1>4, <1>7 DEF fs, emit, done

LEMMA FrameRead ==
  ASSUME NEW fs \in Seq(Frames), fs # <<>>, NEW k, OneAnswer(fs, k)
  PROVE  /\ Head(fs) \in Frames /\ Head(fs).call = k
         /\ Tail(fs) \in Seq(Frames) /\ OneAnswer(Tail(fs), k) /\ Len(Tail(fs)) = Len(fs) - 1
         /\ \A i \in 1 .. Len(Tail(fs)) : Tail(fs)[i] = fs[i + 1] /\ i + 1 \in 1 .. Len(fs)
         /\ Head(fs).tag = "Done" => Len(fs) = 1
<1>1. Len(fs) \in Nat /\ Len(fs) >= 1 /\ Head(fs) = fs[1] /\ 1 \in 1 .. Len(fs)
  OBVIOUS
<1>2. Tail(fs) \in Seq(Frames) /\ Len(Tail(fs)) = Len(fs) - 1
  OBVIOUS
<1>3. \A i \in 1 .. Len(Tail(fs)) : Tail(fs)[i] = fs[i + 1] /\ i + 1 \in 1 .. Len(fs)
  BY <1>1, <1>2
<1>4. OneAnswer(Tail(fs), k)
  <2> SUFFICES ASSUME NEW i \in 1 .. Len(Tail(fs))
               PROVE  Tail(fs)[i].call = k /\ (Tail(fs)[i].tag = "Done" => i = Len(Tail(fs)))
    BY DEF OneAnswer
  <2>1. fs[i + 1].call = k /\ (fs[i + 1].tag = "Done" => i + 1 = Len(fs))
    BY <1>3 DEF OneAnswer
  <2>2. Tail(fs)[i] = fs[i + 1] /\ i \in Int
    BY <1>3
  <2>3. i + 1 = Len(fs) => i = Len(Tail(fs))
    <3>1. \A a \in Nat, j \in Int : j + 1 = a => j = a - 1
      OBVIOUS
    <3> QED BY <1>1, <1>2, <2>2, <3>1, Zenon
  <2> QED BY <2>1, <2>2, <2>3, Zenon
<1>5. fs[1].call = k /\ (fs[1].tag = "Done" => 1 = Len(fs)) /\ fs[1] \in Frames
  <2>1. fs[1] \in Frames
    OBVIOUS
  <2> QED BY <1>1, <2>1, Zenon DEF OneAnswer
<1> QED BY <1>1, <1>2, <1>3, <1>4, <1>5

LEMMA FrameWritten ==
  ASSUME NEW fs \in Seq(Frames), NEW f \in Frames, NEW k, OneAnswer(fs, k), f.call = k,
         \A i \in 1 .. Len(fs) : fs[i].tag # "Done"
  PROVE  /\ Append(fs, f) \in Seq(Frames) /\ OneAnswer(Append(fs, f), k)
         /\ \A i \in 1 .. Len(Append(fs, f)) : Append(fs, f)[i].tag = "Done" => f.tag = "Done"
<1>1. Append(fs, f) \in Seq(Frames) /\ Len(Append(fs, f)) = Len(fs) + 1 /\ Len(fs) \in Nat
  OBVIOUS
<1>2. \A i \in 1 .. Len(fs) + 1 : Append(fs, f)[i] = (IF i <= Len(fs) THEN fs[i] ELSE f)
  OBVIOUS
<1>3. \A i \in 1 .. Len(fs) + 1 : i = Len(fs) + 1 \/ i \in 1 .. Len(fs)
  BY <1>1
<1> QED BY <1>1, <1>2, <1>3 DEF OneAnswer

\* A restart replaces the child by a fresh one, or the driving is no longer intact.
LEMMA RestartDoes ==
  ASSUME ManagedTypeOK, NEW ok \in BOOLEAN, Restart(ok)
  PROVE  /\ child' \in Children /\ restarts' \in Nat /\ intact' \in BOOLEAN /\ outbox' \in Seq(Nat)
         /\ intact' => intact /\ child' = Fresh /\ outbox' = <<>>
<1>1. Fresh \in Children /\ <<>> \in Seq(Nat)
  BY DEF Fresh, Children
<1>2. CASE ok /\ restarts < MaxRestarts
  <2>1. restarts \in Nat /\ MaxRestarts \in Nat
    BY HostingAssumption DEF ManagedTypeOK
  <2>2. ~(restarts >= MaxRestarts)
    BY <1>2, <2>1
  <2>3. intact' = (intact /\ ok) /\ child' = Fresh /\ outbox' = <<>> /\ restarts' = restarts + 1
    BY <1>2, <2>2 DEF Restart
  <2> QED BY <1>1, <1>2, <2>1, <2>3 DEF ManagedTypeOK
<1>3. CASE ~(ok /\ restarts < MaxRestarts)
  <2>1. ~intact' /\ intact' \in BOOLEAN /\ child' = child /\ outbox' = outbox /\ restarts' \in Nat
    <3>1. restarts \in Nat /\ MaxRestarts \in Nat
      BY HostingAssumption DEF ManagedTypeOK
    <3>2. CASE restarts < MaxRestarts
      <4>1. ~ok
        BY <1>3, <3>2
      <4>2. ~(restarts >= MaxRestarts)
        BY <3>1, <3>2
      <4>3. intact' = (intact /\ ok) /\ child' = child /\ outbox' = outbox /\ restarts' = restarts + 1
        BY <4>1, <4>2 DEF Restart
      <4> QED BY <3>1, <4>1, <4>3
    <3>3. CASE ~(restarts < MaxRestarts)
      BY <3>1, <3>3 DEF Restart
    <3> QED BY <3>2, <3>3
  <2> QED BY <2>1 DEF ManagedTypeOK
<1> QED BY <1>2, <1>3

LEMMA FreshOne ==
  ASSUME child' = Fresh, outbox' = <<>>
  PROVE  OfThisDelivery'
<1>1. Len(child'.requests) = 0 /\ Len(child'.frames) = 0 /\ Len(child'.unwritten) = 0 /\ Len(outbox') = 0
  BY DEF Fresh
<1>2. 1 .. 0 = {}
  OBVIOUS
<1> QED BY <1>1, <1>2 DEF OfThisDelivery, OneAnswer

\* What is sent to the child and read from it, field by field.
LEMMA ChildFields ==
  ASSUME NEW c \in Children
  PROVE  /\ c.up \in BOOLEAN /\ c.requests \in Seq(Nat)
         /\ c.frames \in Seq(Frames) /\ c.unwritten \in Seq(Frames)
  BY DEF Children

LEMMA ChildAsked ==
  ASSUME NEW c \in Children, NEW r \in Seq(Nat)
  PROVE  LET d == [c EXCEPT !.requests = r]
         IN  d \in Children /\ d.requests = r /\ d.frames = c.frames /\ d.unwritten = c.unwritten
  BY DEF Children

LEMMA ChildRead ==
  ASSUME NEW c \in Children, NEW fs \in Seq(Frames)
  PROVE  LET d == [c EXCEPT !.frames = fs]
         IN  d \in Children /\ d.requests = c.requests /\ d.frames = fs /\ d.unwritten = c.unwritten
  BY DEF Children

LEMMA ChildGone ==
  ASSUME NEW c \in Children
  PROVE  LET d == [c EXCEPT !.up = FALSE, !.requests = <<>>, !.unwritten = <<>>]
         IN  d \in Children /\ d.requests = <<>> /\ d.frames = c.frames /\ d.unwritten = <<>>
<1>1. <<>> \in Seq(Nat) /\ <<>> \in Seq(Frames)
  OBVIOUS
<1> QED BY <1>1 DEF Children

LEMMA ManagedStep == ManagedInv /\ [ManagedNext]_managedvars => ManagedInv'
<1> SUFFICES ASSUME ManagedInv, [ManagedNext]_managedvars PROVE ManagedInv'
  OBVIOUS
<1>0. ManagedTypeOK /\ OfThisDelivery /\ OutputOwn
  BY DEF ManagedInv
<1>t. /\ child \in Children /\ waiting \in BOOLEAN /\ delivery \in Nat /\ restarts \in Nat /\ intact \in BOOLEAN
      /\ outbox \in Seq(Nat) /\ returned \in Seq(Outputs)
      /\ child.requests \in Seq(Nat) /\ child.frames \in Seq(Frames) /\ child.unwritten \in Seq(Frames)
  BY <1>0, ChildFields DEF ManagedTypeOK
<1>e. \A T : <<>> \in Seq(T) /\ Len(<<>>) = 0
  OBVIOUS
<1>i. 1 .. 0 = {} /\ 1 .. 1 = {1} /\ 1 \in 1 .. 1
  OBVIOUS
<1>r. ASSUME UNCHANGED returned PROVE OutputOwn'
  BY <1>0, <1>r DEF OutputOwn
<1>1. CASE ChildHandles
  <2> DEFINE k == Head(child.requests)
  <2>1. child.requests # <<>> /\ child.unwritten = <<>>
        /\ UNCHANGED <<waiting, delivery, restarts, outbox, intact, returned>>
    BY <1>1 DEF ChildHandles
  <2>2. k \in Nat /\ Tail(child.requests) \in Seq(Nat) /\ Len(Tail(child.requests)) = Len(child.requests) - 1
        /\ Len(child.requests) \in Nat \ {0} /\ k = child.requests[1] /\ 1 \in 1 .. Len(child.requests)
    BY <1>t, <2>1
  <2>3. PICK n \in 0 .. MaxEmitted :
           child' = [child EXCEPT !.requests = Tail(child.requests),
                                  !.unwritten = [i \in 1 .. n |-> [tag |-> "Emit", call |-> k]] \o <<[tag |-> "Done", call |-> k]>>]
    BY <1>1 DEF ChildHandles
  <2> DEFINE fs == [i \in 1 .. n |-> [tag |-> "Emit", call |-> k]] \o <<[tag |-> "Done", call |-> k]>>
  <2>4. fs \in Seq(Frames) /\ OneAnswer(fs, k)
    <3>1. n \in Nat
      OBVIOUS
    <3> QED BY <2>2, <3>1, AnswerMade
  <2> HIDE DEF fs
  <2>5. child' \in Children /\ child'.requests = Tail(child.requests) /\ child'.frames = child.frames /\ child'.unwritten = fs
    <3> DEFINE r == Tail(child.requests)
    <3>1. child' = [child EXCEPT !.requests = r, !.unwritten = fs]
      BY <2>3, Zenon DEF fs
    <3>2. child \in Children /\ r \in Seq(Nat) /\ fs \in Seq(Frames)
      BY <1>t, <2>2, <2>4
    <3>3. child' \in Children /\ child'.requests = r /\ child'.frames = child.frames /\ child'.unwritten = fs
      <4> HIDE DEF r
      <4> QED BY <3>1, <3>2 DEF Children
    <3> QED BY <3>3
  <2> HIDE DEF k
  <2>6. ManagedTypeOK'
    BY <1>t, <2>1, <2>5 DEF ManagedTypeOK
  <2>7. ASSUME intact PROVE OfThisDelivery'
    <3>0. Len(child.requests) <= 1
      BY <1>0, <2>7 DEF OfThisDelivery
    <3>a. Len(child.requests) = 1
      <4>1. \A x \in Nat \ {0} : x <= 1 => x = 1
        OBVIOUS
      <4> QED BY <2>2, <3>0, <4>1, Zenon
    <3>1. Len(child.requests) = 1 /\ k = delivery /\ Len(child.frames) = 0 /\ waiting
      BY <1>0, <2>2, <2>7, <3>a DEF OfThisDelivery
    <3>2. Len(child'.requests) = 0 /\ Len(child'.frames) = 0
      BY <2>2, <2>5, <3>1
    <3>3. OneAnswer(child'.frames, delivery)
      BY <1>i, <3>2 DEF OneAnswer
    <3>4. OneAnswer(child'.unwritten, delivery') /\ OneAnswer(child'.frames, delivery') /\ waiting'
      BY <2>1, <2>4, <2>5, <3>1, <3>3
    <3>5. \A i \in 1 .. Len(outbox') : outbox'[i] = delivery'
      BY <1>0, <2>1, <2>7 DEF OfThisDelivery
    <3> QED BY <1>i, <3>2, <3>4, <3>5 DEF OfThisDelivery
  <2>8. OfThisDelivery'
    BY <2>1, <2>7 DEF OfThisDelivery
  <2> QED BY <1>r, <2>1, <2>6, <2>8 DEF ManagedInv
<1>2. CASE ChildWrites
  <2>1. child.unwritten # <<>> /\ UNCHANGED <<waiting, delivery, restarts, outbox, intact, returned>>
        /\ child' = [child EXCEPT !.frames = Append(child.frames, Head(child.unwritten)), !.unwritten = Tail(child.unwritten)]
    BY <1>2 DEF ChildWrites
  <2>2. Head(child.unwritten) \in Frames /\ Tail(child.unwritten) \in Seq(Frames)
        /\ Append(child.frames, Head(child.unwritten)) \in Seq(Frames) /\ Len(child.unwritten) \in Nat \ {0}
    BY <1>t, <2>1
  <2>3. child' \in Children /\ child'.requests = child.requests
        /\ child'.frames = Append(child.frames, Head(child.unwritten)) /\ child'.unwritten = Tail(child.unwritten)
    <3> DEFINE fs == Append(child.frames, Head(child.unwritten))
               un == Tail(child.unwritten)
    <3>1. child' = [child EXCEPT !.frames = fs, !.unwritten = un]
      BY <2>1, Zenon
    <3>2. child \in Children /\ fs \in Seq(Frames) /\ un \in Seq(Frames)
      BY <1>t, <2>2
    <3>3. child' \in Children /\ child'.requests = child.requests /\ child'.frames = fs /\ child'.unwritten = un
      <4> HIDE DEF fs, un
      <4> QED BY <3>1, <3>2 DEF Children
    <3> QED BY <3>3
  <2>4. ManagedTypeOK'
    BY <1>t, <2>1, <2>3 DEF ManagedTypeOK
  <2>5. ASSUME intact PROVE OfThisDelivery'
    <3>1. OneAnswer(child.frames, delivery) /\ OneAnswer(child.unwritten, delivery) /\ waiting
          /\ \A i \in 1 .. Len(child.frames) : child.frames[i].tag # "Done"
      BY <1>0, <2>2, <2>5 DEF OfThisDelivery
    <3>2. /\ Head(child.unwritten).call = delivery /\ OneAnswer(Tail(child.unwritten), delivery)
          /\ Len(Tail(child.unwritten)) = Len(child.unwritten) - 1
          /\ Head(child.unwritten).tag = "Done" => Len(child.unwritten) = 1
      BY <1>t, <2>1, <3>1, FrameRead
    <3>3. OneAnswer(child'.frames, delivery)
          /\ \A i \in 1 .. Len(child'.frames) : child'.frames[i].tag = "Done" => Len(child'.unwritten) = 0
      <4>1. /\ OneAnswer(Append(child.frames, Head(child.unwritten)), delivery)
            /\ \A i \in 1 .. Len(Append(child.frames, Head(child.unwritten))) :
                 Append(child.frames, Head(child.unwritten))[i].tag = "Done" => Head(child.unwritten).tag = "Done"
        BY <1>t, <2>2, <3>1, <3>2, FrameWritten
      <4>2. Head(child.unwritten).tag = "Done" => Len(child'.unwritten) = 0
        BY <2>2, <2>3, <3>2
      <4> QED BY <2>3, <4>1, <4>2
    <3>4. Len(child.requests) # 1 /\ Len(child.requests) <= 1
      BY <1>0, <2>2, <2>5 DEF OfThisDelivery
    <3> QED BY <1>0, <2>1, <2>3, <2>5, <3>1, <3>2, <3>3, <3>4 DEF OfThisDelivery
  <2>6. OfThisDelivery'
    BY <2>1, <2>5 DEF OfThisDelivery
  <2> QED BY <1>r, <2>1, <2>4, <2>6 DEF ManagedInv
<1>3. CASE ChildDies
  <2>1. UNCHANGED <<waiting, delivery, restarts, outbox, intact, returned>>
        /\ child' = [child EXCEPT !.up = FALSE, !.requests = <<>>, !.unwritten = <<>>]
    BY <1>3 DEF ChildDies
  <2>2. child' \in Children /\ child'.requests = <<>> /\ child'.frames = child.frames /\ child'.unwritten = <<>>
    BY <1>t, <2>1, ChildGone
  <2>3. ManagedTypeOK'
    BY <1>t, <2>1, <2>2 DEF ManagedTypeOK
  <2>4. Len(child'.requests) = 0 /\ Len(child'.unwritten) = 0
    BY <1>e, <2>2
  <2>5. OfThisDelivery'
    BY <1>0, <1>i, <2>1, <2>2, <2>4 DEF OfThisDelivery, OneAnswer
  <2> QED BY <1>r, <2>1, <2>3, <2>5 DEF ManagedInv
<1>4. CASE Request
  <2>1. ~waiting /\ delivery' = delivery + 1 /\ UNCHANGED returned
    BY <1>4 DEF Request
  <2>2. CASE /\ child.up /\ child' = [child EXCEPT !.requests = Append(child.requests, delivery + 1)]
             /\ waiting' = TRUE /\ UNCHANGED <<restarts, outbox, intact>>
    <3>1. Append(child.requests, delivery + 1) \in Seq(Nat)
      BY <1>t
    <3>2. child' \in Children /\ child'.requests = Append(child.requests, delivery + 1)
          /\ child'.frames = child.frames /\ child'.unwritten = child.unwritten
      BY <1>t, <2>2, <3>1, ChildAsked
    <3>3. ManagedTypeOK'
      BY <1>t, <2>1, <2>2, <3>2 DEF ManagedTypeOK
    <3>4. ASSUME intact PROVE OfThisDelivery'
      <4>1. Len(outbox) = 0 /\ Len(child.requests) = 0 /\ Len(child.frames) = 0 /\ Len(child.unwritten) = 0
        BY <1>0, <2>1, <3>4 DEF OfThisDelivery
      <4>2. Len(child'.requests) = 1 /\ child'.requests[1] = delivery'
        BY <1>t, <2>1, <3>2, <4>1
      <4> QED BY <1>i, <2>2, <3>2, <4>1, <4>2 DEF OfThisDelivery, OneAnswer
    <3>5. OfThisDelivery'
      BY <2>2, <3>4 DEF OfThisDelivery
    <3> QED BY <1>r, <2>1, <3>3, <3>5 DEF ManagedInv
  <2>3. CASE /\ \E ok \in BOOLEAN : Restart(ok)
             /\ waiting' = FALSE
    <3>1. /\ child' \in Children /\ restarts' \in Nat /\ intact' \in BOOLEAN /\ outbox' \in Seq(Nat)
          /\ intact' => intact /\ child' = Fresh /\ outbox' = <<>>
      BY <1>0, <2>3, RestartDoes
    <3>2. ManagedTypeOK'
      <4>1. delivery' \in Nat
        BY <1>t, <2>1
      <4>2. waiting' \in BOOLEAN /\ returned' \in Seq(Outputs)
        BY <1>t, <2>1, <2>3, Zenon
      <4> QED BY <3>1, <4>1, <4>2 DEF ManagedTypeOK
    <3>3. OfThisDelivery'
      <4>1. CASE intact'
        BY <3>1, <4>1, FreshOne
      <4>2. CASE ~intact'
        BY <4>2 DEF OfThisDelivery
      <4> QED BY <4>1, <4>2
    <3> QED BY <1>r, <2>1, <3>2, <3>3 DEF ManagedInv
  <2> QED BY <1>4, <2>2, <2>3 DEF Request
<1>5. CASE ReadEmit
  <2>1. /\ waiting /\ child.frames # <<>> /\ Head(child.frames).tag = "Emit"
        /\ outbox' = Append(outbox, Head(child.frames).call)
        /\ child' = [child EXCEPT !.frames = Tail(child.frames)]
        /\ UNCHANGED <<waiting, delivery, restarts, intact, returned>>
    BY <1>5 DEF ReadEmit
  <2>2. Head(child.frames) \in Frames /\ Tail(child.frames) \in Seq(Frames)
    BY <1>t, <2>1
  <2>3. Head(child.frames).call \in Nat
    BY <2>2 DEF Frames
  <2>4. child' \in Children /\ child'.requests = child.requests
        /\ child'.frames = Tail(child.frames) /\ child'.unwritten = child.unwritten
    BY <1>t, <2>1, <2>2, ChildRead
  <2>5. ManagedTypeOK'
    BY <1>t, <2>1, <2>3, <2>4 DEF ManagedTypeOK
  <2>6. ASSUME intact PROVE OfThisDelivery'
    <3>1. OneAnswer(child.frames, delivery) /\ OneAnswer(child.unwritten, delivery)
      BY <1>0, <2>6 DEF OfThisDelivery
    <3>2. /\ Head(child.frames).call = delivery /\ OneAnswer(Tail(child.frames), delivery)
          /\ \A i \in 1 .. Len(Tail(child.frames)) : Tail(child.frames)[i] = child.frames[i + 1] /\ i + 1 \in 1 .. Len(child.frames)
      BY <1>t, <2>1, <3>1, FrameRead
    <3>3. \A i \in 1 .. Len(outbox') : outbox'[i] = delivery
      <4>1. Len(outbox') = Len(outbox) + 1 /\ Len(outbox) \in Nat
            /\ \A i \in 1 .. Len(outbox) + 1 : outbox'[i] = (IF i <= Len(outbox) THEN outbox[i] ELSE Head(child.frames).call)
        BY <1>t, <2>1, <2>3
      <4>2. \A i \in 1 .. Len(outbox) + 1 : i <= Len(outbox) => i \in 1 .. Len(outbox)
        OBVIOUS
      <4>3. \A i \in 1 .. Len(outbox) : outbox[i] = delivery
        BY <1>0, <2>6 DEF OfThisDelivery
      <4> QED BY <3>2, <4>1, <4>2, <4>3
    <3>4. \A i \in 1 .. Len(child'.frames) : child'.frames[i].tag = "Done" => Len(child'.unwritten) = 0
      BY <1>0, <2>4, <2>6, <3>2 DEF OfThisDelivery
    <3>5. /\ \A i \in 1 .. Len(child.requests) : child.requests[i] = delivery
          /\ Len(child.requests) <= 1 /\ Len(child.requests) # 1
      <4>1. Len(child.frames) # 0
        BY <1>t, <2>1
      <4> QED BY <1>0, <2>6, <4>1 DEF OfThisDelivery
    <3> QED BY <2>1, <2>4, <3>1, <3>2, <3>3, <3>4, <3>5 DEF OfThisDelivery
  <2>7. OfThisDelivery'
    BY <2>1, <2>6 DEF OfThisDelivery
  <2> QED BY <1>r, <2>1, <2>5, <2>7 DEF ManagedInv
<1>6. CASE ReadDone
  <2>1. /\ child.frames # <<>> /\ Head(child.frames).tag = "Done"
        /\ child' = [child EXCEPT !.frames = Tail(child.frames)]
        /\ waiting' = FALSE /\ outbox' = <<>>
        /\ returned' = Append(returned, [call |-> delivery, output |-> outbox, sound |-> intact])
        /\ UNCHANGED <<delivery, restarts, intact>>
    BY <1>6 DEF ReadDone
  <2>2. Head(child.frames) \in Frames /\ Tail(child.frames) \in Seq(Frames)
    BY <1>t, <2>1
  <2>3. child' \in Children /\ child'.requests = child.requests
        /\ child'.frames = Tail(child.frames) /\ child'.unwritten = child.unwritten
    BY <1>t, <2>1, <2>2, ChildRead
  <2> DEFINE o == [call |-> delivery, output |-> outbox, sound |-> intact]
  <2>4. o \in Outputs /\ o.call = delivery /\ o.output = outbox /\ o.sound = intact
    BY <1>t DEF Outputs
  <2>5. ManagedTypeOK'
    <3>1. returned' \in Seq(Outputs)
      BY <1>t, <2>1, <2>4
    <3> QED BY <1>t, <1>e, <2>1, <2>3, <3>1 DEF ManagedTypeOK
  <2> HIDE DEF o
  <2>6. ASSUME intact PROVE OfThisDelivery'
    <3>1. OneAnswer(child.frames, delivery) /\ OneAnswer(child.unwritten, delivery)
      BY <1>0, <2>6 DEF OfThisDelivery
    <3>2. Len(child.frames) = 1 /\ Len(Tail(child.frames)) = Len(child.frames) - 1
      BY <1>t, <2>1, <3>1, FrameRead
    <3>3. Len(child'.frames) = 0 /\ child.frames[1].tag = "Done" /\ 1 \in 1 .. Len(child.frames)
      BY <1>t, <1>i, <2>1, <2>3, <3>2
    <3>4. Len(child.requests) <= 1 /\ Len(child.requests) # 1 /\ Len(child.unwritten) = 0
      BY <1>0, <2>6, <3>2, <3>3 DEF OfThisDelivery
    <3>5. Len(child.requests) = 0 /\ Len(outbox') = 0
      <4>1. Len(child.requests) \in Nat
        BY <1>t
      <4>2. Len(child.requests) = 0
        <5>1. \A x \in Nat : x <= 1 /\ x # 1 => x = 0
          OBVIOUS
        <5> QED BY <3>4, <4>1, <5>1, Zenon
      <4> QED BY <1>e, <2>1, <4>2
    <3> QED BY <1>i, <2>1, <2>3, <3>3, <3>4, <3>5 DEF OfThisDelivery, OneAnswer
  <2>7. OfThisDelivery'
    BY <2>1, <2>6 DEF OfThisDelivery
  <2>8. OutputOwn'
    <3>1. returned' = Append(returned, o) /\ Len(returned) \in Nat /\ DOMAIN returned = 1 .. Len(returned)
          /\ DOMAIN returned' = 1 .. Len(returned) + 1
      <4>1. returned' = Append(returned, o)
        BY <2>1 DEF o
      <4> QED BY <1>t, <2>4, <4>1
    <3>2. \A i \in 1 .. Len(returned) + 1 : returned'[i] = (IF i <= Len(returned) THEN returned[i] ELSE o)
      <4>1. \A q \in Seq(Outputs) : \A i \in 1 .. Len(q) + 1 : Append(q, o)[i] = (IF i <= Len(q) THEN q[i] ELSE o)
        OBVIOUS
      <4> QED BY <1>t, <3>1, <4>1
    <3>3. ASSUME intact PROVE Range(outbox) \subseteq {delivery}
      <4>1. \A i \in 1 .. Len(outbox) : outbox[i] = delivery
        BY <1>0, <3>3 DEF OfThisDelivery
      <4>2. DOMAIN outbox = 1 .. Len(outbox)
        BY <1>t
      <4> QED BY <4>1, <4>2 DEF Range
    <3>4. ASSUME NEW i \in 1 .. Len(returned) + 1, returned'[i].sound
          PROVE  Range(returned'[i].output) \subseteq {returned'[i].call}
      <4>1. CASE i <= Len(returned)
        <5>1. i \in DOMAIN returned /\ returned'[i] = returned[i]
          BY <3>1, <3>2, <4>1
        <5> QED BY <1>0, <3>4, <5>1 DEF OutputOwn
      <4>2. CASE ~(i <= Len(returned))
        <5>1. returned'[i] = o
          BY <3>2, <4>2
        <5>2. intact
          BY <2>4, <3>4, <5>1, Zenon
        <5>3. Range(o.output) \subseteq {o.call}
          BY <2>4, <3>3, <5>2, Zenon
        <5> QED BY <5>1, <5>3, Zenon
      <4> QED BY <4>1, <4>2
    <3> QED BY <3>1, <3>4 DEF OutputOwn
  <2> QED BY <2>5, <2>7, <2>8 DEF ManagedInv
<1>7. CASE ReadFails
  <2>1. waiting' = FALSE /\ (\E ok \in BOOLEAN : Restart(ok)) /\ UNCHANGED <<delivery, returned>>
    BY <1>7 DEF ReadFails
  <2>2. /\ child' \in Children /\ restarts' \in Nat /\ intact' \in BOOLEAN /\ outbox' \in Seq(Nat)
        /\ intact' => intact /\ child' = Fresh /\ outbox' = <<>>
    BY <1>0, <2>1, RestartDoes
  <2>3. ManagedTypeOK'
    BY <1>t, <2>1, <2>2 DEF ManagedTypeOK
  <2>4. OfThisDelivery'
    <3>1. CASE intact'
      BY <2>2, <3>1, FreshOne
    <3>2. CASE ~intact'
      BY <3>2 DEF OfThisDelivery
    <3> QED BY <3>1, <3>2
  <2> QED BY <1>r, <2>1, <2>3, <2>4 DEF ManagedInv
<1>8. CASE UNCHANGED managedvars
  <2>1. UNCHANGED <<child, waiting, delivery, restarts, outbox, intact, returned>>
    BY <1>8 DEF managedvars
  <2>2. ManagedTypeOK'
    BY <1>t, <2>1 DEF ManagedTypeOK
  <2>3. OfThisDelivery'
    BY <1>0, <2>1 DEF OfThisDelivery
  <2> QED BY <1>r, <2>1, <2>2, <2>3 DEF ManagedInv
<1> QED BY <1>1, <1>2, <1>3, <1>4, <1>5, <1>6, <1>7, <1>8 DEF ManagedNext

LEMMA ManagedInit1 == ManagedInit => ManagedInv
<1> SUFFICES ASSUME ManagedInit PROVE ManagedInv
  OBVIOUS
<1>1. child = Fresh /\ waiting = FALSE /\ delivery = 0 /\ restarts = 0 /\ outbox = <<>> /\ intact = TRUE /\ returned = <<>>
  BY DEF ManagedInit
<1>2. \A T : <<>> \in Seq(T) /\ Len(<<>>) = 0 /\ DOMAIN <<>> = {}
  OBVIOUS
<1>3. Fresh \in Children /\ Fresh.requests = <<>> /\ Fresh.frames = <<>> /\ Fresh.unwritten = <<>>
  BY DEF Fresh, Children
<1>4. ManagedTypeOK
  BY <1>1, <1>2, <1>3 DEF ManagedTypeOK
<1>5. 1 .. 0 = {}
  OBVIOUS
<1>6. Len(outbox) = 0 /\ Len(child.requests) = 0 /\ Len(child.frames) = 0 /\ Len(child.unwritten) = 0
  BY <1>1, <1>2, <1>3
<1>7. OfThisDelivery
  BY <1>5, <1>6 DEF OfThisDelivery, OneAnswer
<1>8. OutputOwn
  BY <1>1, <1>2 DEF OutputOwn
<1> QED BY <1>4, <1>7, <1>8 DEF ManagedInv

-----------------------------------------------------------------------------
(* The router *)

Senders == Ids \union Clients
RouterEnvelopes == {e \in [from : Senders, to : Targets, by : Senders] : e.from = e.by}

RouterInv ==
  /\ added \subseteq Ids
  /\ queue \in Seq(RouterEnvelopes) /\ external \subseteq RouterEnvelopes
  /\ sink \in [Ids -> Seq(Targets)]

LEMMA StampType ==
  ASSUME NEW a \in Ids, NEW addressed, NEW targets \in Seq(Targets)
  PROVE  Stamp(addressed, a, targets) \in Seq(RouterEnvelopes)
<1>1. \A i \in 1 .. Len(targets) : [from |-> a, to |-> targets[i], by |-> a] \in RouterEnvelopes
  BY DEF RouterEnvelopes, Senders
<1>2. DOMAIN targets = 1 .. Len(targets) /\ Len(targets) \in Nat
  OBVIOUS
<1>3. Stamp(addressed, a, targets) = [i \in 1 .. Len(targets) |-> [from |-> a, to |-> targets[i], by |-> a]]
  BY <1>2 DEF Stamp
<1> QED BY <1>1, <1>2, <1>3

LEMMA SomeTargets == \A targets \in SeqOf(Targets, 1) : targets \in Seq(Targets)
<1> SUFFICES ASSUME NEW targets \in SeqOf(Targets, 1) PROVE targets \in Seq(Targets)
  OBVIOUS
<1>1. PICK m \in 0 .. 1 : targets \in [1 .. m -> Targets]
  BY DEF SeqOf
<1> QED BY <1>1

LEMMA RouterStepKeeps == RouterInv /\ [RouterNext]_routervars => RouterInv'
<1> SUFFICES ASSUME RouterInv, [RouterNext]_routervars PROVE RouterInv'
  OBVIOUS
<1>0. /\ added \subseteq Ids /\ queue \in Seq(RouterEnvelopes) /\ external \subseteq RouterEnvelopes
      /\ sink \in [Ids -> Seq(Targets)]
  BY DEF RouterInv
<1>e. <<>> \in Seq(Targets)
  OBVIOUS
<1>1. ASSUME NEW a \in Ids, Add(a) PROVE RouterInv'
  <2>1. PICK targets \in SeqOf(Targets, 1) : queue' = queue \o Stamp(a, a, targets)
    BY <1>1 DEF Add
  <2>2. Stamp(a, a, targets) \in Seq(RouterEnvelopes)
    BY <2>1, SomeTargets, StampType
  <2>3. queue' \in Seq(RouterEnvelopes)
    BY <1>0, <2>1, <2>2
  <2>4. added' = added \union {a} /\ sink' = [sink EXCEPT ![a] = <<>>] /\ external' = external
    BY <1>1 DEF Add
  <2> QED BY <1>0, <1>e, <2>3, <2>4 DEF RouterInv
<1>2. ASSUME NEW c \in Clients, NEW to \in Targets, Inject(c, to) PROVE RouterInv'
  <2>1. [from |-> c, to |-> to, by |-> c] \in RouterEnvelopes
    BY DEF RouterEnvelopes, Senders
  <2>2. queue' = Append(queue, [from |-> c, to |-> to, by |-> c]) /\ UNCHANGED <<added, external, sink>>
    BY <1>2 DEF Inject
  <2> QED BY <1>0, <2>1, <2>2 DEF RouterInv
<1>3. CASE RouterStep
  <2> DEFINE env == Head(queue)
             a == IdOf(env.to)
  <2>1. queue # <<>> /\ added' = added
    BY <1>3 DEF RouterStep
  <2>2. env \in RouterEnvelopes /\ Tail(queue) \in Seq(RouterEnvelopes)
    BY <1>0, <2>1
  <2>3. CASE Undelivered(env)
    BY <1>0, <2>1, <2>2, <2>3 DEF Undelivered, RouterInv
  <2>4. ASSUME a \in added, NEW targets \in SeqOf(Targets, 1), Handled(a, env, targets) PROVE RouterInv'
    <3>1. a \in Ids /\ sink[a] \o targets \in Seq(Targets)
      BY <1>0, <2>4, SomeTargets
    <3>2. Stamp(env.to, a, sink[a] \o targets) \in Seq(RouterEnvelopes)
      BY <3>1, StampType
    <3>3. queue' = Tail(queue) \o Stamp(env.to, a, sink[a] \o targets)
          /\ sink' = [sink EXCEPT ![a] = <<>>] /\ external' = external
      BY <2>4 DEF Handled
    <3>4. queue' \in Seq(RouterEnvelopes)
      BY <2>2, <3>2, <3>3
    <3> QED BY <1>0, <1>e, <2>1, <3>3, <3>4 DEF RouterInv
  <2>5. ASSUME a \in added, NEW targets \in SeqOf(Targets, 1), Failed(a, env, targets) PROVE RouterInv'
    <3>1. a \in Ids /\ sink[a] \in Seq(Targets) /\ sink[a] \o targets \in Seq(Targets)
      BY <1>0, <2>5, SomeTargets
    <3>2. queue' = Tail(queue) /\ external' = external
          /\ sink' = [sink EXCEPT ![a] = IF a \in Native THEN sink[a] ELSE sink[a] \o targets]
      BY <2>5 DEF Failed
    <3>3. sink' \in [Ids -> Seq(Targets)]
      BY <1>0, <3>1, <3>2
    <3> QED BY <1>0, <2>1, <2>2, <3>2, <3>3 DEF RouterInv
  <2> QED BY <1>3, <2>3, <2>4, <2>5 DEF RouterStep
<1>4. CASE RunEnds
  BY <1>0, <1>4 DEF RunEnds, RouterInv
<1>5. CASE UNCHANGED <<added, queue, external, sink>>
  BY <1>0, <1>5 DEF RouterInv
<1> QED BY <1>1, <1>2, <1>3, <1>4, <1>5 DEF RouterNext, BindAlias, routervars

LEMMA RouterHolds == RouterInv => FromIsEmitter
<1> SUFFICES ASSUME RouterInv, NEW env \in Range(queue) \union external PROVE env.from = env.by
  BY DEF FromIsEmitter
<1>1. env \in RouterEnvelopes
  BY DEF RouterInv, Range
<1> QED BY <1>1 DEF RouterEnvelopes

-----------------------------------------------------------------------------
(* Resolution *)

\* A recursion over the naturals to n, of a step that is a function on a set.
RunsFrom(f, b, g, n) == f = [k \in 0 .. n |-> IF k = 0 THEN b ELSE g[f[k - 1]]]

LEMMA RecursionExists ==
  ASSUME NEW S, NEW b \in S, NEW g \in [S -> S], NEW n \in Nat
  PROVE  \E f \in [0 .. n -> S] : RunsFrom(f, b, g, n)
<1> DEFINE Good == {k \in Nat : \E f \in [0 .. k -> S] : RunsFrom(f, b, g, k)}
<1>1. 0 \in Good
  <2>1. RunsFrom([k \in 0 .. 0 |-> b], b, g, 0) /\ [k \in 0 .. 0 |-> b] \in [0 .. 0 -> S]
    BY DEF RunsFrom
  <2> QED BY <2>1
<1>2. ASSUME NEW k \in Nat, k \in Good PROVE k + 1 \in Good
  <2>1. PICK f \in [0 .. k -> S] : RunsFrom(f, b, g, k)
    BY <1>2
  <2> DEFINE h == [i \in 0 .. k + 1 |-> IF i <= k THEN f[i] ELSE g[f[k]]]
  <2>2. \A i \in 0 .. k + 1 : i <= k => i \in 0 .. k
    OBVIOUS
  <2>3. h \in [0 .. k + 1 -> S]
    BY <2>1, <2>2
  <2>4. ASSUME NEW i \in 0 .. k + 1 PROVE h[i] = IF i = 0 THEN b ELSE g[h[i - 1]]
    <3>1. CASE i = 0
      <4>1. f[0] = b
        BY <2>1 DEF RunsFrom
      <4> QED BY <3>1, <4>1
    <3>2. CASE i # 0 /\ i <= k
      <4>1. h[i] = f[i] /\ h[i - 1] = f[i - 1] /\ i \in 0 .. k
        BY <3>2
      <4> HIDE DEF h
      <4> QED BY <2>1, <3>2, <4>1 DEF RunsFrom
    <3>3. CASE i = k + 1
      <4>1. h[i] = g[f[k]] /\ h[i - 1] = f[k] /\ i # 0
        BY <3>3
      <4> HIDE DEF h
      <4> QED BY <3>3, <4>1
    <3> QED BY <3>1, <3>2, <3>3
  <2>5. h = [i \in 0 .. k + 1 |-> IF i = 0 THEN b ELSE g[h[i - 1]]]
    BY <2>4
  <2>6. RunsFrom(h, b, g, k + 1)
    BY <2>5, Zenon DEF RunsFrom
  <2> HIDE DEF h
  <2> QED BY <2>3, <2>6
<1>3. Nat \subseteq Good
  <2> HIDE DEF Good
  <2> QED BY <1>1, <1>2, NatSetInduction
<1> QED BY <1>3

AnswersInv == answers \in [Amses -> Replies]

Referred == Amses \union {"gone"}
Values == Referred \union {"addr", ""}

LEMMA AnswersStep == AnswersInv /\ [ResolveNext]_answers => AnswersInv'
  BY DEF ResolveNext, AmsChanges, AnswersInv

LEMMA ReplyParts ==
  ASSUME AnswersInv, NEW a \in Amses
  PROVE  /\ answers[a].kind \in {"at", "refer", "none"} /\ answers[a].value \in Values
         /\ answers[a].kind = "at" => answers[a].value \in {"addr", ""}
         /\ answers[a].kind = "refer" => answers[a].value \in Referred
         /\ answers[a] = [kind |-> "at", value |-> "addr"] <=> answers[a].kind = "at" /\ answers[a].value = "addr"
<1> DEFINE r == answers[a]
<1>1. r \in Replies
  BY DEF AnswersInv
<1> HIDE DEF r
<1>2. r = [kind |-> r.kind, value |-> r.value]
  BY <1>1 DEF Replies
<1>3. \/ r.kind = "at" /\ r.value \in {"addr", ""}
      \/ r.kind = "refer" /\ r.value \in Referred
      \/ r.kind = "none" /\ r.value = ""
  BY <1>1 DEF Replies, Referred
<1>4. r = [kind |-> "at", value |-> "addr"] <=> r.kind = "at" /\ r.value = "addr"
  BY <1>2
<1> QED BY <1>3, <1>4 DEF Values, r

\* The systems referred to by those of a set.
Onward(X) == {answers[a].value : a \in {b \in X \intersect Amses : answers[b].kind = "refer"}}

Follows(f, start, n) ==
  f = [k \in 0 .. n |->
         IF k = 0 THEN {start}
         ELSE {answers[a].value : a \in {b \in f[k - 1] \intersect Amses : answers[b].kind = "refer"}}]

LEMMA FollowsAll ==
  ASSUME NEW f, NEW start, NEW n \in Nat, Follows(f, start, n)
  PROVE  f[0] = {start} /\ \A k \in 1 .. n : f[k] = Onward(f[k - 1])
<1>1. f = [k \in 0 .. n |-> IF k = 0 THEN {start} ELSE Onward(f[k - 1])]
  BY Zenon DEF Follows, Onward
<1>2. \A k \in 0 .. n : f[k] = IF k = 0 THEN {start} ELSE Onward(f[k - 1])
  BY <1>1
<1> QED BY <1>2

LEMMA ReachedIs ==
  ASSUME AnswersInv, NEW start \in Referred, NEW n \in Nat
  PROVE  \E f : Follows(f, start, n) /\ Reached(start, n) = f[n]
<1> DEFINE g == [X \in SUBSET Values |-> Onward(X)]
<1>1. g \in [SUBSET Values -> SUBSET Values]
  BY ReplyParts DEF Onward
<1>2. {start} \in SUBSET Values
  BY DEF Values
<1>3. PICK f \in [0 .. n -> SUBSET Values] : RunsFrom(f, {start}, g, n)
  <2> HIDE DEF g
  <2> QED BY <1>1, <1>2, RecursionExists
<1>4. ASSUME NEW k \in 0 .. n
      PROVE  f[k] = IF k = 0 THEN {start} ELSE Onward(f[k - 1])
  <2>1. f[k] = IF k = 0 THEN {start} ELSE g[f[k - 1]]
    <3> HIDE DEF g
    <3> QED BY <1>3 DEF RunsFrom
  <2>2. CASE k = 0
    BY <2>1, <2>2
  <2>3. CASE k # 0
    <3>1. k - 1 \in 0 .. n
      BY <2>3
    <3>2. f[k - 1] \in SUBSET Values
      BY <1>3, <3>1
    <3>3. g[f[k - 1]] = Onward(f[k - 1])
      BY <3>2
    <3> QED BY <2>1, <2>3, <3>3, Zenon
  <2> QED BY <2>2, <2>3
<1>5. Follows(f, start, n)
  <2>1. f = [k \in 0 .. n |-> f[k]]
    OBVIOUS
  <2>2. [k \in 0 .. n |-> f[k]] = [k \in 0 .. n |-> IF k = 0 THEN {start} ELSE Onward(f[k - 1])]
    BY <1>4, Zenon
  <2> QED BY <2>1, <2>2, Zenon DEF Follows, Onward
<1> DEFINE after == CHOOSE h : Follows(h, start, n)
<1>6. Follows(after, start, n)
  BY <1>5
<1>7. Reached(start, n) = after[n]
  BY DEF Reached, Follows
<1> QED BY <1>6, <1>7

\* Where one gets from a system is where one gets from the one it refers to, a step earlier.
LEMMA ReachedStep ==
  ASSUME AnswersInv, NEW a \in Referred, NEW m \in Nat
  PROVE  /\ Reached(a, 0) = {a}
         /\ Reached(a, m + 1) = IF a \in Amses /\ answers[a].kind = "refer"
                                THEN Reached(answers[a].value, m) ELSE {}
<1>1. Reached(a, 0) = {a}
  <2>1. PICK f : Follows(f, a, 0) /\ Reached(a, 0) = f[0]
    BY ReachedIs
  <2> QED BY <2>1 DEF Follows
<1>2. m + 1 \in Nat
  OBVIOUS
<1>3. PICK f : Follows(f, a, m + 1) /\ Reached(a, m + 1) = f[m + 1]
  BY <1>2, ReachedIs
<1>4. f[0] = {a} /\ \A k \in 1 .. m + 1 : f[k] = Onward(f[k - 1])
  BY <1>2, <1>3, FollowsAll
<1>5. f[1] = Onward({a})
  <2>1. 1 \in 1 .. m + 1 /\ 1 - 1 = 0
    OBVIOUS
  <2> QED BY <1>4, <2>1
<1>6. CASE a \in Amses /\ answers[a].kind = "refer"
  <2> DEFINE v == answers[a].value
  <2>1. v \in Referred
    BY <1>6, ReplyParts
  <2>2. PICK g : Follows(g, v, m) /\ Reached(v, m) = g[m]
    BY <2>1, ReachedIs
  <2>3. g[0] = {v} /\ \A k \in 1 .. m : g[k] = Onward(g[k - 1])
    BY <2>2, FollowsAll
  <2>4. Onward({a}) = {v}
    BY <1>6 DEF Onward
  <2> HIDE DEF v
  <2> DEFINE Good == {k \in Nat : k <= m => f[k + 1] = g[k]}
  <2>5. 0 \in Good
    BY <1>5, <2>3, <2>4
  <2>6. ASSUME NEW k \in Nat, k \in Good PROVE k + 1 \in Good
    <3> SUFFICES ASSUME k + 1 <= m PROVE f[(k + 1) + 1] = g[k + 1]
      OBVIOUS
    <3>1. (k + 1) + 1 \in 1 .. m + 1 /\ k + 1 \in 1 .. m /\ ((k + 1) + 1) - 1 = k + 1 /\ (k + 1) - 1 = k /\ k <= m
      OBVIOUS
    <3>2. f[(k + 1) + 1] = Onward(f[k + 1]) /\ g[k + 1] = Onward(g[k])
      BY <1>4, <2>3, <3>1
    <3>3. f[k + 1] = g[k]
      BY <2>6, <3>1
    <3> QED BY <3>2, <3>3
  <2>7. Nat \subseteq Good
    <3> HIDE DEF Good
    <3> QED BY <2>5, <2>6, NatSetInduction
  <2>8. f[m + 1] = g[m]
    BY <2>7
  <2> QED BY <1>1, <1>3, <1>6, <2>2, <2>8 DEF v
<1>7. CASE ~(a \in Amses /\ answers[a].kind = "refer")
  <2>1. Onward({a}) = {} /\ Onward({}) = {}
    BY <1>7 DEF Onward
  <2> DEFINE Good == {k \in Nat : k <= m => f[k + 1] = {}}
  <2>2. 0 \in Good
    BY <1>5, <2>1
  <2>3. ASSUME NEW k \in Nat, k \in Good PROVE k + 1 \in Good
    <3> SUFFICES ASSUME k + 1 <= m PROVE f[(k + 1) + 1] = {}
      OBVIOUS
    <3>1. (k + 1) + 1 \in 1 .. m + 1 /\ ((k + 1) + 1) - 1 = k + 1 /\ k <= m
      OBVIOUS
    <3>2. f[(k + 1) + 1] = Onward(f[k + 1])
      BY <1>4, <3>1
    <3>3. f[k + 1] = {}
      BY <2>3, <3>1
    <3> QED BY <2>1, <3>2, <3>3
  <2>4. Nat \subseteq Good
    <3> HIDE DEF Good
    <3> QED BY <2>2, <2>3, NatSetInduction
  <2>5. f[m + 1] = {}
    BY <2>4
  <2> QED BY <1>1, <1>3, <1>7, <2>5
<1> QED BY <1>6, <1>7

\* One more hop of a recursive resolution, further being what the rest of it gives.
Hop(further) ==
  [a \in Amses \union {"gone"} |->
     IF a \notin Amses THEN NotFound ELSE ReplyOf(answers[a], TRUE, further[answers[a].value])]

Asks(f, hops) ==
  f = [n \in 0 .. hops |->
         [a \in Amses \union {"gone"} |->
            IF n = 0 \/ a \notin Amses THEN NotFound
            ELSE ReplyOf(answers[a], TRUE, f[n - 1][answers[a].value])]]

LEMMA ResolveIs ==
  ASSUME AnswersInv, NEW hops \in Nat
  PROVE  \E f : /\ f[0] = [a \in Referred |-> NotFound]
                /\ \A n \in 1 .. hops : f[n] = Hop(f[n - 1])
                /\ \A start : Resolve(start, TRUE, hops) = f[hops][start]
<1> DEFINE Outcomes == [kind : {"NotFound", "Found", "Referral"}, value : Values]
           S == [Referred -> Outcomes]
           g == [h \in S |-> Hop(h)]
           b == [a \in Referred |-> NotFound]
<1>0. NotFound \in Outcomes
  BY DEF NotFound, Values
<1>1. g \in [S -> S]
  <2> SUFFICES ASSUME NEW h \in S, NEW a \in Referred
               PROVE  (IF a \notin Amses THEN NotFound ELSE ReplyOf(answers[a], TRUE, h[answers[a].value])) \in Outcomes
    BY DEF Hop, Referred
  <2>1. CASE a \in Amses
    <3>1. answers[a].kind = "refer" => h[answers[a].value] \in Outcomes
      BY <2>1, ReplyParts
    <3>2. \A x \in Values : Found(x) \in Outcomes
      BY DEF Found
    <3> HIDE DEF Outcomes, S
    <3> QED BY <1>0, <2>1, <3>1, <3>2, ReplyParts DEF ReplyOf
  <2> QED BY <1>0, <2>1
<1>2. b \in S
  BY <1>0
<1>3. PICK f \in [0 .. hops -> S] : RunsFrom(f, b, g, hops)
  <2> HIDE DEF S, g, b
  <2> QED BY <1>1, <1>2, RecursionExists
<1>4. ASSUME NEW n \in 0 .. hops
      PROVE  f[n] = IF n = 0 THEN b ELSE Hop(f[n - 1])
  <2>1. f[n] = IF n = 0 THEN b ELSE g[f[n - 1]]
    <3> HIDE DEF g, b, S
    <3> QED BY <1>3 DEF RunsFrom
  <2>2. CASE n = 0
    BY <2>1, <2>2
  <2>3. CASE n # 0
    <3>1. n - 1 \in 0 .. hops
      BY <2>3
    <3>2. f[n - 1] \in S
      <4> HIDE DEF S
      <4> QED BY <1>3, <3>1
    <3>3. g[f[n - 1]] = Hop(f[n - 1])
      <4> HIDE DEF S
      <4> QED BY <3>2
    <3> QED BY <2>1, <2>3, <3>3, Zenon
  <2> QED BY <2>2, <2>3
<1>5. Asks(f, hops)
  <2>1. ASSUME NEW n \in 0 .. hops
        PROVE  f[n] = [a \in Amses \union {"gone"} |->
                         IF n = 0 \/ a \notin Amses THEN NotFound
                         ELSE ReplyOf(answers[a], TRUE, f[n - 1][answers[a].value])]
    <3>1. CASE n = 0
      <4>1. f[n] = b
        BY <1>4, <3>1
      <4> QED BY <3>1, <4>1 DEF Referred
    <3>2. CASE n # 0
      <4>1. f[n] = Hop(f[n - 1])
        BY <1>4, <3>2
      <4> QED BY <3>2, <4>1 DEF Hop
    <3> QED BY <3>1, <3>2
  <2>2. f = [n \in 0 .. hops |-> f[n]]
    <3> HIDE DEF S
    <3> QED BY <1>3
  <2>3. [n \in 0 .. hops |-> f[n]] =
        [n \in 0 .. hops |-> [a \in Amses \union {"gone"} |->
                                IF n = 0 \/ a \notin Amses THEN NotFound
                                ELSE ReplyOf(answers[a], TRUE, f[n - 1][answers[a].value])]]
    BY <2>1, Zenon
  <2> QED BY <2>2, <2>3, Zenon DEF Asks
<1> DEFINE ask == CHOOSE h : Asks(h, hops)
<1>6. Asks(ask, hops)
  BY <1>5
<1>7. \A start : Resolve(start, TRUE, hops) = ask[hops][start]
  BY DEF Resolve, Asks
<1> HIDE DEF ask
<1>8. ASSUME NEW n \in 0 .. hops
      PROVE  ask[n] = [a \in Amses \union {"gone"} |->
                         IF n = 0 \/ a \notin Amses THEN NotFound
                         ELSE ReplyOf(answers[a], TRUE, ask[n - 1][answers[a].value])]
  BY <1>6 DEF Asks
<1>9. ask[0] = b
  <2>1. 0 \in 0 .. hops
    OBVIOUS
  <2> QED BY <1>8, <2>1 DEF Referred
<1>10. ASSUME NEW n \in 1 .. hops PROVE ask[n] = Hop(ask[n - 1])
  <2>1. n \in 0 .. hops /\ n # 0
    OBVIOUS
  <2> QED BY <1>8, <2>1 DEF Hop
<1> QED BY <1>7, <1>9, <1>10

\* Within n systems of a there is one that knows the address.
KnownWithin(a, n) ==
  \E m \in 0 .. n - 1 : \E x \in Reached(a, m) \intersect Amses :
    answers[x] = [kind |-> "at", value |-> "addr"]

LEMMA KnownWithinStep ==
  ASSUME AnswersInv, NEW a \in Referred, NEW n \in Nat
  PROVE  /\ ~KnownWithin(a, 0)
         /\ KnownWithin(a, n + 1) <=>
              /\ a \in Amses
              /\ \/ answers[a] = [kind |-> "at", value |-> "addr"]
                 \/ answers[a].kind = "refer" /\ KnownWithin(answers[a].value, n)
<1> DEFINE At == [kind |-> "at", value |-> "addr"]
           Here(s) == \E x \in s \intersect Amses : answers[x] = At
<1>1. ~KnownWithin(a, 0)
  BY DEF KnownWithin
<1>2. KnownWithin(a, n + 1) <=> (Here(Reached(a, 0)) \/ \E m \in 0 .. n - 1 : Here(Reached(a, m + 1)))
  <2>1. (n + 1) - 1 = n /\ 0 \in 0 .. n
    OBVIOUS
  <2>2. KnownWithin(a, n + 1) <=> \E m \in 0 .. n : Here(Reached(a, m))
    BY <2>1 DEF KnownWithin
  <2>3. \A m \in 0 .. n - 1 : m + 1 \in 0 .. n
    OBVIOUS
  <2>4. \A m \in 0 .. n : m = 0 \/ (m - 1 \in 0 .. n - 1 /\ m = (m - 1) + 1)
    OBVIOUS
  <2> HIDE DEF Here
  <2>5. ASSUME NEW m \in 0 .. n, Here(Reached(a, m))
        PROVE  Here(Reached(a, 0)) \/ \E i \in 0 .. n - 1 : Here(Reached(a, i + 1))
    <3>1. CASE m = 0
      BY <2>5, <3>1, Zenon
    <3>2. CASE m - 1 \in 0 .. n - 1 /\ m = (m - 1) + 1
      <4>1. Here(Reached(a, (m - 1) + 1))
        BY <2>5, <3>2, Zenon
      <4> QED BY <3>2, <4>1, Zenon
    <3> QED BY <2>4, <3>1, <3>2
  <2> QED BY <2>1, <2>2, <2>3, <2>5, Zenon
<1>3. Here(Reached(a, 0)) <=> a \in Amses /\ answers[a] = At
  <2>1. Reached(a, 0) = {a}
    BY ReachedStep
  <2> QED BY <2>1
<1>4. CASE a \in Amses /\ answers[a].kind = "refer"
  <2>1. \A m \in 0 .. n - 1 : Reached(a, m + 1) = Reached(answers[a].value, m)
    BY <1>4, ReachedStep
  <2>2. (\E m \in 0 .. n - 1 : Here(Reached(a, m + 1))) <=> KnownWithin(answers[a].value, n)
    <3>1. KnownWithin(answers[a].value, n) <=> \E m \in 0 .. n - 1 : Here(Reached(answers[a].value, m))
      BY DEF KnownWithin
    <3> HIDE DEF Here
    <3> QED BY <2>1, <3>1, Zenon
  <2> QED BY <1>1, <1>2, <1>3, <1>4, <2>2
<1>5. CASE ~(a \in Amses /\ answers[a].kind = "refer")
  <2>1. \A m \in 0 .. n - 1 : Reached(a, m + 1) = {}
    BY <1>5, ReachedStep
  <2>2. \A m \in 0 .. n - 1 : ~Here(Reached(a, m + 1))
    BY <2>1
  <2> QED BY <1>1, <1>2, <1>3, <1>5, <2>2
<1> QED BY <1>4, <1>5

LEMMA ResolveHolds == AnswersInv => ResolvesWithinHops
<1> SUFFICES ASSUME AnswersInv, NEW start \in Amses, NEW hops \in 0 .. MaxHops
             PROVE  Resolve(start, TRUE, hops) = Found("addr") <=> KnownWithin(start, hops)
  BY DEF ResolvesWithinHops, KnownWithin
<1>0. hops \in Nat
  BY HostingAssumption
<1>1. PICK f : /\ f[0] = [a \in Referred |-> NotFound]
               /\ \A n \in 1 .. hops : f[n] = Hop(f[n - 1])
               /\ \A s : Resolve(s, TRUE, hops) = f[hops][s]
  BY <1>0, ResolveIs
<1> DEFINE Good == {n \in Nat : n <= hops => \A a \in Referred : f[n][a] = Found("addr") <=> KnownWithin(a, n)}
<1>2. 0 \in Good
  <2>1. \A a \in Referred : f[0][a] # Found("addr")
    <3>1. NotFound # Found("addr")
      BY DEF NotFound, Found
    <3>2. \A a \in Referred : f[0][a] = NotFound
      BY <1>1
    <3> QED BY <3>1, <3>2, Zenon
  <2>2. \A a \in Referred : ~KnownWithin(a, 0)
    BY KnownWithinStep
  <2> QED BY <2>1, <2>2
<1>3. ASSUME NEW n \in Nat, n \in Good PROVE n + 1 \in Good
  <2> SUFFICES ASSUME n + 1 <= hops, NEW a \in Referred
               PROVE  f[n + 1][a] = Found("addr") <=> KnownWithin(a, n + 1)
    OBVIOUS
  <2>1. n + 1 \in 1 .. hops /\ (n + 1) - 1 = n /\ n <= hops
    BY <1>0
  <2>2. f[n + 1] = Hop(f[n])
    BY <1>1, <2>1
  <2>3. \A v \in Referred : f[n][v] = Found("addr") <=> KnownWithin(v, n)
    BY <1>3, <2>1
  <2>4. f[n + 1][a] = IF a \notin Amses THEN NotFound ELSE ReplyOf(answers[a], TRUE, f[n][answers[a].value])
    BY <2>2 DEF Hop, Referred
  <2>5. NotFound # Found("addr") /\ \A x : Found(x) = Found("addr") <=> x = "addr"
    BY DEF NotFound, Found
  <2>6. CASE a \notin Amses
    BY <2>4, <2>5, <2>6, KnownWithinStep
  <2>7. CASE a \in Amses /\ answers[a].kind = "refer"
    <3>1. f[n + 1][a] = f[n][answers[a].value]
      BY <2>4, <2>7 DEF ReplyOf
    <3>2. answers[a].value \in Referred
      BY <2>7, ReplyParts
    <3>3. answers[a] # [kind |-> "at", value |-> "addr"]
      BY <2>7
    <3> QED BY <2>3, <2>7, <3>1, <3>2, <3>3, KnownWithinStep
  <2>8. CASE a \in Amses /\ answers[a].kind # "refer"
    <3>1. f[n + 1][a] = Found("addr") <=> answers[a].kind = "at" /\ answers[a].value = "addr"
      <4>1. CASE answers[a].kind = "at"
        <5>1. f[n + 1][a] = IF answers[a].value = "" THEN NotFound ELSE Found(answers[a].value)
          BY <2>4, <2>8, <4>1 DEF ReplyOf
        <5>2. answers[a].value \in {"addr", ""}
          BY <2>8, <4>1, ReplyParts
        <5> QED BY <2>5, <4>1, <5>1, <5>2
      <4>2. CASE answers[a].kind # "at"
        BY <2>4, <2>5, <2>8, <4>2 DEF ReplyOf
      <4> QED BY <4>1, <4>2
    <3>2. answers[a] = [kind |-> "at", value |-> "addr"] <=> answers[a].kind = "at" /\ answers[a].value = "addr"
      BY <2>8, ReplyParts
    <3> QED BY <2>8, <3>1, <3>2, KnownWithinStep
  <2> QED BY <2>6, <2>7, <2>8
<1>4. Nat \subseteq Good
  <2> HIDE DEF Good
  <2> QED BY <1>2, <1>3, NatSetInduction
<1>5. f[hops][start] = Found("addr") <=> KnownWithin(start, hops)
  <2>1. hops \in Good /\ start \in Referred
    BY <1>0, <1>4 DEF Referred
  <2> QED BY <1>0, <2>1
<1> QED BY <1>1, <1>5

\* What a managed agent returns, the sender an envelope of the router names and the address a name
\* resolves to are true, for any agents, names and bounds: late answers, leftovers of failed calls,
\* aliases and loops of referrals included (deliver, restart, run, resolve).
THEOREM HostingTheorem == ManagedSpec /\ RouterSpec /\ ResolveSpec => []HostingSound
<1>1. RouterInit => RouterInv
  <2>1. <<>> \in Seq(RouterEnvelopes) /\ <<>> \in Seq(Targets)
    OBVIOUS
  <2> QED BY <2>1 DEF RouterInit, RouterInv
<1>2. ResolveInit => AnswersInv
  <2>1. [kind |-> "none", value |-> ""] \in Replies
    BY DEF Replies
  <2> QED BY <2>1 DEF ResolveInit, AnswersInv
<1>3. ManagedInv /\ RouterInv /\ AnswersInv => HostingSound
  BY RouterHolds, ResolveHolds DEF ManagedInv, HostingSound
<1> QED BY <1>1, <1>2, <1>3, ManagedInit1, ManagedStep, RouterStepKeeps, AnswersStep, PTL
        DEF ManagedSpec, RouterSpec, ResolveSpec
=============================================================================
