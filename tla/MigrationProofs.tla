-------------------------- MODULE MigrationProofs --------------------------
(***************************************************************************)
(* Theorems about Migration, for every set of nodes, moves, attempts and   *)
(* faults.                                                                 *)
(***************************************************************************)
EXTENDS Migration, TLAPS

----------------------------------------------------------------------------
(* Type correctness.                                                       *)

\* The initial state of a node is well typed.
LEMMA InitTypeOK == Init => TypeOK
  BY ConstantsAssumption
  DEF Init, TypeOK, Copies, NoCopy, Unused, AttemptRecs, SrcPhases, DstPhases

\* ChannelsDropped keeps attempts well typed.
LEMMA ChannelsDroppedType ==
  ASSUME NEW n \in Nodes, NEW f \in [Attempts -> AttemptRecs]
  PROVE  ChannelsDropped(n, f) \in [Attempts -> AttemptRecs]
  BY DEF ChannelsDropped, AttemptRecs, DstPhases, SrcPhases

\* A change of either end's phase keeps an attempt well typed.
LEMMA SrcPhaseType ==
  ASSUME NEW r \in AttemptRecs, NEW x \in SrcPhases
  PROVE  [r EXCEPT !.s = x] \in AttemptRecs
  BY DEF AttemptRecs

LEMMA DstPhaseType ==
  ASSUME NEW r \in AttemptRecs, NEW y \in DstPhases, NEW b \in BOOLEAN
  PROVE  /\ [r EXCEPT !.t = y] \in AttemptRecs
         /\ [r EXCEPT !.t = y, !.ack = b] \in AttemptRecs
  BY DEF AttemptRecs

LEMMA ReplayType ==
  ASSUME NEW r \in AttemptRecs
  PROVE  [r EXCEPT !.s = "dead", !.t = "wire", !.ack = FALSE] \in AttemptRecs
  BY DEF AttemptRecs, SrcPhases, DstPhases

\* Every step of either end of an attempt preserves the types.
LEMMA AttemptTypeOK ==
  ASSUME TypeOK, NEW a \in Attempts, AttemptStep(a)
  PROVE  TypeOK'
<1> USE ConstantsAssumption
<1>1. CASE Migrate(a)
  <2>1. PICK m \in Moves :
           /\ agent' = [agent EXCEPT ![m[1]] = Departing(agent[m[1]])]
           /\ att' = [att EXCEPT ![a] = [src |-> m[1], dst |-> m[2],
                         epoch |-> Departing(agent[m[1]]).epoch,
                         s |-> "waiting", t |-> "wire", ack |-> FALSE]]
           /\ UNCHANGED <<serving, seen, saved, keys, prepared, bound>>
    BY <1>1 DEF Migrate
  <2>2. m[1] \in Nodes /\ m[2] \in Nodes
    OBVIOUS
  <2>3. Departing(agent[m[1]]) \in Copies
    BY <2>2 DEF TypeOK, Departing, Copies
  <2>4. agent' \in [Nodes -> Copies]
    BY <2>1, <2>3 DEF TypeOK
  <2>5. att' \in [Attempts -> AttemptRecs]
    BY <2>1, <2>2, <2>3 DEF TypeOK, AttemptRecs, SrcPhases, DstPhases, Copies
  <2> QED BY <2>1, <2>4, <2>5 DEF TypeOK
<1>2. CASE Replay(a)
  <2>1. PICK b \in Attempts :
           /\ att' = [att EXCEPT ![a] = [att[b] EXCEPT !.s = "dead", !.t = "wire",
                                                     !.ack = FALSE]]
           /\ UNCHANGED <<serving, agent, seen, saved, keys, prepared, bound>>
    BY <1>2 DEF Replay
  <2>2. [att[b] EXCEPT !.s = "dead", !.t = "wire", !.ack = FALSE] \in AttemptRecs
    BY ReplayType DEF TypeOK
  <2> QED BY <2>1, <2>2 DEF TypeOK
<1>3. CASE RecvAck(a)
  <2>0. att[a] \in AttemptRecs /\ att[a].src \in Nodes
    BY DEF TypeOK, AttemptRecs
  <2>1. att' \in [Attempts -> AttemptRecs]
    <3>1. [att[a] EXCEPT !.s = "ok"] \in AttemptRecs
      BY <2>0, SrcPhaseType DEF SrcPhases
    <3> QED BY <1>3, <3>1 DEF RecvAck, TypeOK
  <2>2. agent' \in [Nodes -> Copies]
    BY <1>3 DEF RecvAck, TypeOK, NoCopy, Copies
  <2> QED BY <1>3, <2>1, <2>2 DEF RecvAck, TypeOK
<1>4. CASE SendFailed(a)
  <2>0. att[a] \in AttemptRecs /\ att[a].src \in Nodes
    BY DEF TypeOK, AttemptRecs
  <2>1. att' \in [Attempts -> AttemptRecs]
    <3>1. [att[a] EXCEPT !.s = "err"] \in AttemptRecs
      BY <2>0, SrcPhaseType DEF SrcPhases
    <3> QED BY <1>4, <3>1 DEF SendFailed, TypeOK
  <2>2. agent' \in [Nodes -> Copies]
    BY <1>4, <2>0 DEF SendFailed, TypeOK, Copies
  <2> QED BY <1>4, <2>1, <2>2 DEF SendFailed, TypeOK
<1>5. CASE RecvPayload(a) \/ GiveUp(a) \/ RecvCommit(a) \/ NoCommit(a) \/ Refuse(a)
  BY <1>5 DEF RecvPayload, GiveUp, RecvCommit, NoCommit, Refuse, TypeOK,
              AttemptRecs, DstPhases
<1>6. CASE Prepare(a)
  <2> DEFINE n == att[a].dst
  <2>1. n \in Nodes /\ att[a].src \in Nodes /\ att[a].epoch \in Nat
    BY DEF TypeOK, AttemptRecs
  <2>2. agent' \in [Nodes -> Copies] /\ keys' \in [Nodes -> Nodes \cup {NoNode}]
    BY <1>6, <2>1 DEF Prepare, TypeOK, Copies
  <2>3. prepared' \in [Nodes -> Attempts \cup {0}]
    BY <1>6, <2>1 DEF Prepare, TypeOK
  <2>4. att' \in [Attempts -> AttemptRecs]
    <3>1. /\ [att[a] EXCEPT !.t = "acked", !.ack = TRUE] \in AttemptRecs
          /\ [att[a] EXCEPT !.t = "over"] \in AttemptRecs
      BY DstPhaseType DEF TypeOK, DstPhases
    <3> QED BY <1>6, <3>1 DEF Prepare, TypeOK
  <2> QED BY <1>6, <2>2, <2>3, <2>4 DEF Prepare, TypeOK
<1>7. CASE CommitMigrated(a)
  <2> DEFINE n == att[a].dst
  <2>1. n \in Nodes
    BY DEF TypeOK, AttemptRecs
  <2>2. att' \in [Attempts -> AttemptRecs]
    BY <1>7 DEF CommitMigrated, TypeOK, AttemptRecs, DstPhases
  <2>3. CASE agent[n].st = "suspended"
    <3>1. agent' \in [Nodes -> Copies] /\ agent[n].epoch \in Nat
      BY <1>7, <2>1, <2>3 DEF CommitMigrated, TypeOK, Copies
    <3>2. seen' \in [Nodes -> Nat] /\ saved' \in [Nodes -> Nat]
      BY <1>7, <2>1, <2>3, <3>1 DEF CommitMigrated, TypeOK
    <3>3. prepared' \in [Nodes -> Attempts \cup {0}]
      BY <1>7, <2>1, <2>3 DEF CommitMigrated, TypeOK
    <3>4. ASSUME prepared[n] # 0
          PROVE  [node |-> n, epoch |-> agent[n].epoch,
                  handoff |-> HandoffOf(prepared[n])] \in Binds
      <4>1. prepared[n] \in Attempts
        BY <2>1, <3>4 DEF TypeOK
      <4> QED BY <2>1, <3>1, <4>1 DEF HandoffOf, Binds, Handoffs, TypeOK, AttemptRecs
    <3>5. bound' \in SUBSET Binds
      BY <1>7, <2>3, <3>4 DEF CommitMigrated, TypeOK
    <3> QED BY <1>7, <2>2, <2>3, <3>1, <3>2, <3>3, <3>5 DEF CommitMigrated, TypeOK
  <2>4. CASE agent[n].st # "suspended"
    BY <1>7, <2>2, <2>4 DEF CommitMigrated, TypeOK
  <2> QED BY <2>3, <2>4
<1>8. CASE AbortPrepared(a)
  <2>1. att[a].dst \in Nodes
    BY DEF TypeOK, AttemptRecs
  <2>2. att' \in [Attempts -> AttemptRecs]
    BY <1>8 DEF AbortPrepared, TypeOK, AttemptRecs, DstPhases
  <2>3. agent' \in [Nodes -> Copies]
    BY <1>8 DEF AbortPrepared, TypeOK, Copies, NoCopy
  <2>4. prepared' \in [Nodes -> Attempts \cup {0}]
    BY <1>8, <2>1 DEF AbortPrepared, TypeOK
  <2>5. UNCHANGED <<serving, seen, saved, keys, bound>>
    BY <1>8 DEF AbortPrepared
  <2> QED BY <2>2, <2>3, <2>4, <2>5 DEF TypeOK
<1> QED
  BY <1>1, <1>2, <1>3, <1>4, <1>5, <1>6, <1>7, <1>8 DEF AttemptStep

\* Every step of a node as a whole preserves the types.
LEMMA NodeTypeOK ==
  ASSUME TypeOK, NEW n \in Nodes, NodeStep(n)
  PROVE  TypeOK'
<1>1. CASE StartServe(n)
  BY <1>1 DEF StartServe, TypeOK
<1>2. CASE StopServe(n)
  BY <1>2, ChannelsDroppedType DEF StopServe, TypeOK
<1>3. CASE Crash(n)
  <2> DEFINE f == [a \in Attempts |->
                     IF att[a].src = n /\ att[a].s = "waiting"
                     THEN [att[a] EXCEPT !.s = "dead"] ELSE att[a]]
  <2>1. f \in [Attempts -> AttemptRecs]
    BY DEF TypeOK, AttemptRecs, SrcPhases
  <2>2. att' \in [Attempts -> AttemptRecs]
    BY <1>3, <2>1, ChannelsDroppedType DEF Crash
  <2> QED BY <1>3, <2>2 DEF Crash, TypeOK, Copies, NoCopy
<1>4. CASE \E m \in Nodes : Message(n, m)
  BY <1>4 DEF Message, TypeOK
<1> QED BY <1>1, <1>2, <1>3, <1>4 DEF NodeStep

LEMMA NextTypeOK == TypeOK /\ [Next]_vars => TypeOK'
  BY AttemptTypeOK, NodeTypeOK DEF Next, vars, TypeOK

\* The maps of every node and both ends of every attempt keep their types.
THEOREM TypeCorrect == Spec => []TypeOK
  BY InitTypeOK, NextTypeOK, PTL DEF Spec

----------------------------------------------------------------------------
(* The right to run the agent is never held twice.                         *)

LEMMA InitOneToken == Init => OneToken
  BY ConstantsAssumption
  DEF Init, OneToken, NoFork, Active, Undecided, Committing, NoCopy, Unused

\* An attempt's step moves the right to run, or drops it, but never copies it.
LEMMA AttemptOneToken ==
  ASSUME TypeOK, OneToken, "dormant" \notin Faults,
         NEW a \in Attempts, AttemptStep(a)
  PROVE  OneToken'
<1> USE ConstantsAssumption DEF OneToken, NoFork, Active, Undecided, Committing
<1>0. /\ att[a] \in AttemptRecs /\ att[a].src \in Nodes /\ att[a].dst \in Nodes
      /\ agent \in [Nodes -> Copies] /\ att \in [Attempts -> AttemptRecs]
  BY DEF TypeOK, AttemptRecs
<1>1. CASE Migrate(a)
  <2>1. PICK m \in Moves :
           /\ agent[m[1]].st = "active"
           /\ agent' = [agent EXCEPT ![m[1]] = Departing(agent[m[1]])]
           /\ att' = [att EXCEPT ![a] = [src |-> m[1], dst |-> m[2],
                         epoch |-> Departing(agent[m[1]]).epoch,
                         s |-> "waiting", t |-> "wire", ack |-> FALSE]]
    BY <1>1 DEF Migrate
  <2>2. m[1] \in Nodes
    OBVIOUS
  <2>3. \A n \in Nodes : agent'[n].st # "active"
    BY <1>0, <2>1, <2>2 DEF Departing
  <2>4. \A b \in Attempts : b # a => att'[b] = att[b]
    BY <1>0, <2>1
  <2>5. att'[a].s = "waiting" /\ att'[a].t = "wire" /\ ~ att'[a].ack
    BY <1>0, <2>1
  <2> QED BY <2>1, <2>2, <2>3, <2>4, <2>5
<1>2. CASE Replay(a)
  <2>1. agent' = agent /\ \A b \in Attempts : b # a => att'[b] = att[b]
    BY <1>0, <1>2 DEF Replay
  <2>2. att'[a].s = "dead" /\ att'[a].t = "wire" /\ ~ att'[a].ack
    BY <1>0, <1>2 DEF Replay, AttemptRecs
  <2> QED BY <2>1, <2>2
<1>3. CASE RecvAck(a)
  <2>1. \A n \in Nodes : agent'[n].st # "active"
    BY <1>0, <1>3 DEF RecvAck, NoCopy
  <2>2. \A b \in Attempts : b # a => att'[b] = att[b]
    BY <1>0, <1>3 DEF RecvAck
  <2>3. /\ att'[a].s = "ok" /\ att'[a].t = att[a].t /\ att[a].s = "waiting"
        /\ att[a].ack
    BY <1>0, <1>3 DEF RecvAck, AttemptRecs
  <2> QED BY <2>1, <2>2, <2>3
<1>4. CASE SendFailed(a)
  <2>1. \A n \in Nodes : n # att[a].src => agent'[n].st # "active"
    BY <1>0, <1>4 DEF SendFailed
  <2>2. \A b \in Attempts : b # a => att'[b] = att[b]
    BY <1>0, <1>4 DEF SendFailed
  <2>3. /\ att'[a].s = "err" /\ att'[a].t = att[a].t /\ att[a].s = "waiting"
        /\ att'[a].ack = att[a].ack
    BY <1>0, <1>4 DEF SendFailed, AttemptRecs
  <2> QED BY <2>1, <2>2, <2>3
<1>5. CASE RecvPayload(a) \/ GiveUp(a) \/ RecvCommit(a) \/ NoCommit(a) \/ Refuse(a)
  <2>1. agent' = agent /\ \A b \in Attempts : b # a => att'[b] = att[b]
    BY <1>0, <1>5 DEF RecvPayload, GiveUp, RecvCommit, NoCommit, Refuse
  <2>2. /\ att'[a].s = att[a].s
        /\ att'[a].t = "commit" => att[a].s = "ok" /\ att[a].t = "acked"
        /\ att'[a].t # "acked"
        /\ att'[a].ack = att[a].ack
        /\ att'[a].t \in {"wire", "queued", "orphan"}
              => att[a].t \in {"wire", "queued", "orphan"}
    BY <1>0, <1>5
    DEF RecvPayload, GiveUp, RecvCommit, NoCommit, Refuse, AttemptRecs
  <2> QED BY <2>1, <2>2
<1>6. CASE Prepare(a)
  <2>1. \A n \in Nodes : agent'[n].st = "active" => agent[n].st = "active"
    BY <1>0, <1>6 DEF Prepare
  <2>2. \A b \in Attempts : b # a => att'[b] = att[b]
    BY <1>0, <1>6 DEF Prepare
  <2>3. /\ att'[a].s = att[a].s /\ att'[a].t \in {"acked", "over"}
        /\ att[a].t \in {"queued", "orphan"}
    BY <1>0, <1>6 DEF Prepare, Waiting, AttemptRecs
  <2> QED BY <2>1, <2>2, <2>3
<1>7. CASE CommitMigrated(a)
  <2>1. \A n \in Nodes : n # att[a].dst => agent'[n].st # "active"
    BY <1>0, <1>7 DEF CommitMigrated
  <2>2. \A b \in Attempts : b # a => att'[b] = att[b]
    BY <1>0, <1>7 DEF CommitMigrated
  <2>3. att[a].t = "commit" /\ att'[a].t = "over" /\ att'[a].s = att[a].s
    BY <1>0, <1>7 DEF CommitMigrated, AttemptRecs
  <2> QED BY <2>1, <2>2, <2>3
<1>8. CASE AbortPrepared(a)
  <2>1. \A n \in Nodes : agent'[n].st = "active" => agent[n].st = "active"
    BY <1>0, <1>8 DEF AbortPrepared, NoCopy
  <2>2. \A b \in Attempts : b # a => att'[b] = att[b]
    BY <1>0, <1>8 DEF AbortPrepared
  <2>3. att'[a].t = "over" /\ att'[a].s = att[a].s
    BY <1>0, <1>8 DEF AbortPrepared, AttemptRecs
  <2> QED BY <2>1, <2>2, <2>3
<1> QED
  BY <1>1, <1>2, <1>3, <1>4, <1>5, <1>6, <1>7, <1>8 DEF AttemptStep

\* Starting, stopping and crashing a node never create a right to run.
LEMMA NodeOneToken ==
  ASSUME TypeOK, OneToken, NEW n \in Nodes, NodeStep(n)
  PROVE  OneToken'
<1> USE DEF OneToken, NoFork, Active, Undecided, Committing
<1>0. agent \in [Nodes -> Copies] /\ att \in [Attempts -> AttemptRecs]
  BY DEF TypeOK
<1>1. CASE StartServe(n) \/ \E m \in Nodes : Message(n, m)
  BY <1>1 DEF StartServe, Message
<1>2. CASE StopServe(n) \/ Crash(n)
  <2>1. \A k \in Nodes : agent'[k].st = "active" => agent[k].st = "active"
    BY <1>0, <1>2 DEF StopServe, Crash, NoCopy
  <2>2. \A b \in Attempts : /\ att'[b].s = att[b].s \/ att'[b].s = "dead"
                            /\ att'[b].t = att[b].t \/ att'[b].t = "over"
                            /\ att'[b].ack = att[b].ack
    <3>1. CASE StopServe(n)
      BY <1>0, <3>1 DEF StopServe, ChannelsDropped, AttemptRecs
    <3>2. CASE Crash(n)
      <4> SUFFICES ASSUME NEW b \in Attempts
                   PROVE  /\ att'[b].s = att[b].s \/ att'[b].s = "dead"
                          /\ att'[b].t = att[b].t \/ att'[b].t = "over"
                          /\ att'[b].ack = att[b].ack
        OBVIOUS
      <4> DEFINE r == IF att[b].src = n /\ att[b].s = "waiting"
                      THEN [att[b] EXCEPT !.s = "dead"] ELSE att[b]
      <4>1. att'[b] = IF OpenAt(n, b) THEN [r EXCEPT !.t = "over"] ELSE r
        BY <3>2 DEF Crash, ChannelsDropped
      <4> QED BY <1>0, <4>1 DEF AttemptRecs
    <3> QED BY <1>2, <3>1, <3>2
  <2>3. \A b \in Attempts : att'[b].s = "dead" => att[b].s \in {"waiting", "dead"}
    <3>1. CASE StopServe(n)
      BY <1>0, <3>1 DEF StopServe, ChannelsDropped, AttemptRecs
    <3>2. CASE Crash(n)
      BY <1>0, <3>2 DEF Crash, ChannelsDropped, AttemptRecs
    <3> QED BY <1>2, <3>1, <3>2
  <2> QED BY <2>1, <2>2, <2>3
<1> QED BY <1>1, <1>2 DEF NodeStep

LEMMA NextOneToken ==
  "dormant" \notin Faults => (TypeOK /\ OneToken /\ [Next]_vars => OneToken')
<1> SUFFICES ASSUME "dormant" \notin Faults, TypeOK, OneToken, [Next]_vars
             PROVE  OneToken'
  OBVIOUS
<1>1. CASE UNCHANGED vars
  BY <1>1 DEF vars, OneToken, NoFork, Active, Undecided, Committing
<1>2. CASE Next
  BY <1>2, AttemptOneToken, NodeOneToken DEF Next
<1> QED BY <1>1, <1>2

\* However nodes crash or stop and frames are lost, late or replayed, the right
\* to run the agent is never held twice, provided the operator only moves
\* live copies.
THEOREM OneTokenHolds == "dormant" \notin Faults => (Spec => []OneToken)
<1> SUFFICES ASSUME "dormant" \notin Faults PROVE Spec => []OneToken
  OBVIOUS
<1> QED BY InitOneToken, NextOneToken, InitTypeOK, NextTypeOK, PTL DEF Spec

\* ... and in particular the agent is live on at most one node.
THEOREM NoForkHolds == "dormant" \notin Faults => (Spec => []NoFork)
<1> SUFFICES ASSUME "dormant" \notin Faults PROVE Spec => []NoFork
  OBVIOUS
<1>1. OneToken => NoFork
  BY DEF OneToken
<1> QED BY <1>1, OneTokenHolds, PTL

----------------------------------------------------------------------------
(* The replay guard.                                                       *)

LEMMA InitGuard == Init => GuardInv
  BY DEF Init, GuardInv, ReplayGuard, Migrating, NoCopy, Unused

\* What an attempt's step does to the facts GuardInv speaks of.
LEMMA AttemptGuard ==
  ASSUME TypeOK, GuardInv, NEW a \in Attempts, AttemptStep(a)
  PROVE  GuardInv'
<1> USE ConstantsAssumption DEF GuardInv, ReplayGuard, Migrating
<1>0. /\ att[a] \in AttemptRecs /\ att[a].src \in Nodes /\ att[a].dst \in Nodes
      /\ agent \in [Nodes -> Copies] /\ att \in [Attempts -> AttemptRecs]
      /\ seen \in [Nodes -> Nat] /\ saved \in [Nodes -> Nat]
  BY DEF TypeOK, AttemptRecs
<1>1. CASE Migrate(a)
  <2>1. PICK m \in Moves :
           /\ ~ serving[m[1]]
           /\ IsNext(a)
           /\ agent' = [agent EXCEPT ![m[1]] = Departing(agent[m[1]])]
           /\ att' = [att EXCEPT ![a] = [src |-> m[1], dst |-> m[2],
                         epoch |-> Departing(agent[m[1]]).epoch,
                         s |-> "waiting", t |-> "wire", ack |-> FALSE]]
           /\ UNCHANGED <<serving, seen, saved>>
    BY <1>1 DEF Migrate
  <2>2. m[1] \in Nodes /\ att[a].s = "unused"
    BY <2>1 DEF IsNext
  <2>3. \A n \in Nodes : n # m[1] => agent'[n] = agent[n]
    BY <1>0, <2>1, <2>2
  <2>4. \A b \in Attempts : b # a => att'[b] = att[b]
    BY <1>0, <2>1
  <2>5. att'[a].s = "waiting" /\ att'[a].src = m[1]
    BY <1>0, <2>1
  <2> QED BY <2>1, <2>2, <2>3, <2>4, <2>5
<1>2. CASE Replay(a)
  <2>1. /\ UNCHANGED <<serving, agent, seen, saved>>
        /\ \A b \in Attempts : b # a => att'[b] = att[b]
    BY <1>0, <1>2 DEF Replay
  <2>2. att[a].s = "unused" /\ att'[a].s = "dead"
    BY <1>0, <1>2 DEF Replay, IsNext, AttemptRecs
  <2> QED BY <2>1, <2>2
<1>3. CASE RecvAck(a)
  <2>1. /\ UNCHANGED <<serving, seen, saved>>
        /\ agent'[att[a].src].st = "none"
        /\ \A n \in Nodes : n # att[a].src => agent'[n] = agent[n]
        /\ \A b \in Attempts : b # a => att'[b] = att[b]
    BY <1>0, <1>3 DEF RecvAck, NoCopy
  <2>2. att'[a].s = "ok" /\ att'[a].src = att[a].src
    BY <1>0, <1>3 DEF RecvAck, AttemptRecs
  <2> QED BY <2>1, <2>2
<1>4. CASE SendFailed(a)
  <2>1. /\ UNCHANGED <<serving, seen, saved>>
        /\ agent'[att[a].src].st = "active"
        /\ \A n \in Nodes : n # att[a].src => agent'[n] = agent[n]
        /\ \A b \in Attempts : b # a => att'[b] = att[b]
    BY <1>0, <1>4 DEF SendFailed, Copies
  <2>2. att'[a].s = "err" /\ att'[a].src = att[a].src
    BY <1>0, <1>4 DEF SendFailed, AttemptRecs
  <2> QED BY <2>1, <2>2
<1>5. CASE RecvPayload(a) \/ GiveUp(a) \/ RecvCommit(a) \/ NoCommit(a) \/ Refuse(a)
  <2>1. /\ UNCHANGED <<serving, agent, seen, saved>>
        /\ \A b \in Attempts : b # a => att'[b] = att[b]
    BY <1>0, <1>5 DEF RecvPayload, GiveUp, RecvCommit, NoCommit, Refuse
  <2>2. att'[a].s = att[a].s /\ att'[a].src = att[a].src
    BY <1>0, <1>5
    DEF RecvPayload, GiveUp, RecvCommit, NoCommit, Refuse, AttemptRecs
  <2> QED BY <2>1, <2>2
<1>6. CASE Prepare(a)
  <2>1. /\ UNCHANGED <<serving, seen, saved>>
        /\ agent'[att[a].dst].epoch = att[a].epoch
        /\ \A n \in Nodes : n # att[a].dst => agent'[n] = agent[n]
        /\ \A b \in Attempts : b # a => att'[b] = att[b]
    BY <1>0, <1>6 DEF Prepare
  <2>2. att'[a].s = att[a].s /\ att'[a].src = att[a].src
    BY <1>0, <1>6 DEF Prepare, AttemptRecs
  <2>3. att[a].epoch > LastSeen(att[a].dst)
    BY <1>6 DEF Prepare, Admits
  <2>4. att[a].epoch > seen[att[a].dst] /\ att[a].epoch > saved[att[a].dst]
    BY <1>0, <2>3 DEF LastSeen, AttemptRecs
  <2> QED BY <2>1, <2>2, <2>4
<1>7. CASE CommitMigrated(a)
  <2> DEFINE n == att[a].dst
  <2>1. /\ UNCHANGED serving
        /\ \A b \in Attempts : b # a => att'[b] = att[b]
    BY <1>0, <1>7 DEF CommitMigrated
  <2>2. att'[a].s = att[a].s /\ att'[a].src = att[a].src
    BY <1>0, <1>7 DEF CommitMigrated, AttemptRecs
  <2>3. CASE agent[n].st = "suspended"
    <3>1. /\ agent'[n].st = "active"
          /\ seen'[n] = agent[n].epoch
          /\ saved'[n] = IF n \in Durable THEN agent[n].epoch ELSE saved[n]
          /\ \A k \in Nodes : k # n => /\ agent'[k] = agent[k]
                                     /\ seen'[k] = seen[k]
                                     /\ saved'[k] = saved[k]
      BY <1>0, <1>7, <2>3 DEF CommitMigrated, Copies
    <3> QED BY <1>0, <2>1, <2>2, <3>1
  <2>4. CASE agent[n].st # "suspended"
    <3>1. UNCHANGED <<agent, seen, saved>>
      BY <1>7, <2>4 DEF CommitMigrated
    <3> QED BY <2>1, <2>2, <3>1
  <2> QED BY <2>3, <2>4
<1>8. CASE AbortPrepared(a)
  <2>1. /\ UNCHANGED <<serving, seen, saved>>
        /\ \A n \in Nodes : agent'[n] = agent[n] \/ agent'[n].st = "none"
        /\ \A b \in Attempts : b # a => att'[b] = att[b]
    BY <1>0, <1>8 DEF AbortPrepared, NoCopy
  <2>2. att'[a].s = att[a].s /\ att'[a].src = att[a].src
    BY <1>0, <1>8 DEF AbortPrepared, AttemptRecs
  <2> QED BY <2>1, <2>2
<1> QED
  BY <1>1, <1>2, <1>3, <1>4, <1>5, <1>6, <1>7, <1>8 DEF AttemptStep

LEMMA NodeGuard ==
  ASSUME TypeOK, GuardInv, NEW n \in Nodes, NodeStep(n)
  PROVE  GuardInv'
<1> USE DEF GuardInv, ReplayGuard, Migrating
<1>0. /\ agent \in [Nodes -> Copies] /\ att \in [Attempts -> AttemptRecs]
      /\ seen \in [Nodes -> Nat] /\ saved \in [Nodes -> Nat]
      /\ serving \in [Nodes -> BOOLEAN]
  BY DEF TypeOK
<1>1. CASE StartServe(n)
  BY <1>0, <1>1 DEF StartServe
<1>2. CASE \E m \in Nodes : Message(n, m)
  BY <1>2 DEF Message
<1>3. CASE StopServe(n)
  <2>1. \A b \in Attempts : att'[b].s = att[b].s /\ att'[b].src = att[b].src
    BY <1>0, <1>3 DEF StopServe, ChannelsDropped, AttemptRecs
  <2> QED BY <1>0, <1>3, <2>1 DEF StopServe
<1>4. CASE Crash(n)
  <2>1. \A b \in Attempts : /\ att'[b].src = att[b].src
                            /\ att[b].src # n => att'[b].s = att[b].s
                            /\ att'[b].s = "waiting" => att[b].s = "waiting"
    <3> SUFFICES ASSUME NEW b \in Attempts
                 PROVE  /\ att'[b].src = att[b].src
                        /\ att[b].src # n => att'[b].s = att[b].s
                        /\ att'[b].s = "waiting" => att[b].s = "waiting"
      OBVIOUS
    <3> DEFINE r == IF att[b].src = n /\ att[b].s = "waiting"
                    THEN [att[b] EXCEPT !.s = "dead"] ELSE att[b]
    <3>1. att'[b] = IF OpenAt(n, b) THEN [r EXCEPT !.t = "over"] ELSE r
      BY <1>4 DEF Crash, ChannelsDropped
    <3> QED BY <1>0, <3>1 DEF AttemptRecs
  <2>2. /\ agent'[n].st = "none" /\ seen'[n] = 0 /\ saved' = saved /\ ~ serving'[n]
        /\ \A k \in Nodes : k # n => /\ agent'[k] = agent[k]
                                   /\ seen'[k] = seen[k]
                                   /\ serving'[k] = serving[k]
    BY <1>0, <1>4 DEF Crash, NoCopy
  <2> QED BY <2>1, <2>2
<1> QED BY <1>1, <1>2, <1>3, <1>4 DEF NodeStep

LEMMA NextGuard == TypeOK /\ GuardInv /\ [Next]_vars => GuardInv'
<1> SUFFICES ASSUME TypeOK, GuardInv, [Next]_vars PROVE GuardInv'
  OBVIOUS
<1>1. CASE UNCHANGED vars
  BY <1>1 DEF vars, GuardInv, ReplayGuard, Migrating
<1>2. CASE Next
  BY <1>2, AttemptGuard, NodeGuard DEF Next
<1> QED BY <1>1, <1>2

\* A payload at an epoch the node has already committed is never mounted, in
\* memory or, where the node has a store, after a restart.
THEOREM ReplayGuardHolds == Spec => []ReplayGuard
<1>1. GuardInv => ReplayGuard
  BY DEF GuardInv
<1> QED BY <1>1, InitGuard, NextGuard, InitTypeOK, NextTypeOK, PTL DEF Spec

\* All of it together: one agent, in whatever order frames, crashes and restarts
\* come, as long as the operator moves live copies only.
THEOREM MigrationSafeHolds == "dormant" \notin Faults => (Spec => []MigrationSafe)
<1> SUFFICES ASSUME "dormant" \notin Faults PROVE Spec => []MigrationSafe
  OBVIOUS
<1>1. TypeOK /\ OneToken /\ ReplayGuard => MigrationSafe
  BY DEF MigrationSafe
<1> QED BY <1>1, TypeCorrect, OneTokenHolds, ReplayGuardHolds, PTL

\* Only commit_migrated touches the guard, and only forwards.
LEMMA NextCommitStep == TypeOK /\ GuardInv /\ [Next]_vars => [CommitStep]_vars
<1> SUFFICES ASSUME TypeOK, GuardInv, Next PROVE CommitStep
  BY DEF CommitStep, vars
<1> USE ConstantsAssumption
<1>0. /\ agent \in [Nodes -> Copies] /\ att \in [Attempts -> AttemptRecs]
      /\ seen \in [Nodes -> Nat] /\ saved \in [Nodes -> Nat]
  BY DEF TypeOK
<1>1. ASSUME NEW a \in Attempts, AttemptStep(a) PROVE CommitStep
  <2>0. att[a] \in AttemptRecs /\ att[a].src \in Nodes /\ att[a].dst \in Nodes
    BY DEF TypeOK, AttemptRecs
  <2>1. CASE CommitMigrated(a)
    <3> DEFINE n == att[a].dst
    <3>1. CASE agent[n].st = "suspended"
      <4>1. ~ Migrating(n) /\ agent[n].epoch > seen[n] /\ agent[n].epoch > saved[n]
        BY <2>0, <2>1, <3>1 DEF CommitMigrated, GuardInv, ReplayGuard
      <4>2. /\ seen'[n] = agent[n].epoch /\ saved'[n] \in {agent[n].epoch, saved[n]}
            /\ \A k \in Nodes : k # n => agent'[k] = agent[k] /\ saved'[k] = saved[k]
        BY <1>0, <2>0, <2>1, <3>1 DEF CommitMigrated
      <4>3. agent[n].epoch \in Nat
        BY <1>0, <2>0 DEF Copies
      <4> QED BY <1>0, <4>1, <4>2, <4>3 DEF CommitStep
    <3>2. CASE agent[n].st # "suspended"
      BY <1>0, <2>1, <3>2 DEF CommitMigrated, CommitStep
    <3> QED BY <3>1, <3>2
  <2>2. CASE SendFailed(a)
    <3>1. Migrating(att[a].src)
      BY <2>2 DEF SendFailed, Migrating
    <3>2. \A k \in Nodes : k # att[a].src => agent'[k] = agent[k]
      BY <1>0, <2>0, <2>2 DEF SendFailed
    <3> QED BY <1>0, <2>2, <3>1, <3>2 DEF SendFailed, CommitStep
  <2>3. CASE Migrate(a)
    <3>1. saved' = saved /\ \A k \in Nodes : agent'[k].st = agent[k].st
                                           \/ agent'[k].st = "suspended"
      BY <1>0, <2>3 DEF Migrate, Departing
    <3> QED BY <1>0, <3>1 DEF CommitStep
  <2>4. CASE RecvAck(a) \/ AbortPrepared(a)
    <3>1. saved' = saved /\ \A k \in Nodes : agent'[k].st = agent[k].st
                                           \/ agent'[k].st = "none"
      BY <1>0, <2>4 DEF RecvAck, AbortPrepared, NoCopy
    <3> QED BY <1>0, <3>1 DEF CommitStep
  <2>5. CASE Prepare(a)
    <3>1. saved' = saved /\ \A k \in Nodes : agent'[k].st = agent[k].st
                                           \/ agent'[k].st = "suspended"
      BY <1>0, <2>5 DEF Prepare
    <3> QED BY <1>0, <3>1 DEF CommitStep
  <2>6. CASE \/ Replay(a) \/ RecvPayload(a) \/ GiveUp(a) \/ RecvCommit(a)
             \/ NoCommit(a) \/ Refuse(a)
    <3>1. UNCHANGED <<agent, saved>>
      BY <2>6 DEF Replay, RecvPayload, GiveUp, RecvCommit, NoCommit, Refuse
    <3> QED BY <1>0, <3>1 DEF CommitStep
  <2> QED BY <1>1, <2>1, <2>2, <2>3, <2>4, <2>5, <2>6 DEF AttemptStep
<1>2. ASSUME NEW n \in Nodes, NodeStep(n) PROVE CommitStep
  <2>1. saved' = saved /\ \A k \in Nodes : agent'[k].st = agent[k].st
                                         \/ agent'[k].st = "none"
    BY <1>0, <1>2 DEF NodeStep, StartServe, StopServe, Crash, Message, NoCopy
  <2> QED BY <1>0, <2>1 DEF CommitStep
<1> QED BY <1>1, <1>2 DEF Next

\* Every commit takes a node strictly past all it has committed before, and its
\* durable record never goes back.
THEOREM CommitsAdvance == Spec => CommitAdvances
  BY InitGuard, NextGuard, InitTypeOK, NextTypeOK, NextCommitStep, PTL
  DEF Spec, CommitAdvances

----------------------------------------------------------------------------
(* No loss.                                                                *)

\* The agent only moves forward: the nodes have ranks that every move raises, so
\* it never returns to a node.
OneWayMoves == \E rank \in [Nodes -> Nat] : \A m \in Moves : rank[m[1]] < rank[m[2]]

\* The attempt whose copy the destination keeps until COMMIT or its absence.
Holding(a) == att[a].t \in {"acked", "commit", "abort"}

\* The attempt that has the right to run the agent.
Carries(a) == Undecided(a) \/ Committing(a)

\* A copy that waits for COMMIT is the one its attempt brought, no other attempt
\* waits at that node, and the node is not itself the source of a move; a source
\* that waits still has its copy, and an ACK it has not read is of a copy kept.
HeldInv ==
  /\ \A a \in Attempts : Holding(a) =>
       agent[att[a].dst] = [st |-> "suspended", epoch |-> att[a].epoch]
  /\ \A a, b \in Attempts : Holding(a) /\ Holding(b) /\ att[a].dst = att[b].dst => a = b
  /\ \A a, b \in Attempts : Undecided(a) /\ Holding(b) => att[b].dst # att[a].src
  /\ \A a \in Attempts :
       /\ Undecided(a) => agent[att[a].src] = [st |-> "suspended", epoch |-> att[a].epoch]
       /\ Undecided(a) /\ att[a].ack => att[a].t = "acked"
       /\ att[a].t = "abort" => att[a].s \in {"err", "dead"}
       /\ att[a].s = "unused" => att[a].t = "unused" /\ att[a].epoch = 0
       /\ Carries(a) => <<att[a].src, att[a].dst>> \in Moves

\* Whoever may run the agent has its latest epoch, and a node that has committed
\* knows an epoch that no attempt towards it exceeds.
EpochInv ==
  /\ \A a, b \in Attempts : Carries(a) => att[b].epoch <= att[a].epoch
  /\ \A n \in Nodes, b \in Attempts : Active(n) => att[b].epoch <= agent[n].epoch
  /\ \A a \in Attempts : att[a].s # "unused" /\ seen[att[a].dst] # 0
       => att[a].epoch <= seen[att[a].dst]

\* No node ahead of the agent has committed it.
Ahead(rank, n) == \A m \in Nodes : rank[m] > rank[n] => seen[m] = 0

AheadInv(rank) ==
  /\ \A n \in Nodes : Active(n) => Ahead(rank, n)
  /\ \A a \in Attempts : Undecided(a) => Ahead(rank, att[a].src)
  /\ \A a \in Attempts : Committing(a) => Ahead(rank, att[a].dst)

NoLossInv(rank) ==
  /\ TypeOK /\ OneToken /\ GuardInv
  /\ HeldInv /\ EpochInv /\ AheadInv(rank) /\ NoLoss

LEMMA InitNoLoss ==
  ASSUME NEW rank, Init
  PROVE  HeldInv /\ EpochInv /\ AheadInv(rank) /\ NoLoss
<1> USE ConstantsAssumption
<1>1. HeldInv
  BY DEF Init, HeldInv, Holding, Carries, Undecided, Committing, Unused
<1>2. EpochInv
  BY DEF Init, EpochInv, Carries, Undecided, Committing, Unused, Active, NoCopy
<1>3. AheadInv(rank)
  BY DEF Init, AheadInv, Ahead, Undecided, Committing, Unused
<1>4. NoLoss
  BY DEF Init, NoLoss, Active
<1> QED BY <1>1, <1>2, <1>3, <1>4

\* A copy kept for an attempt is suspended and of the attempt's epoch.
LEMMA HeldCopy ==
  ASSUME HeldInv, NEW a \in Attempts, Holding(a)
  PROVE  agent[att[a].dst].st = "suspended" /\ agent[att[a].dst].epoch = att[a].epoch
<1>1. agent[att[a].dst] = [st |-> "suspended", epoch |-> att[a].epoch]
  BY DEF HeldInv
<1> QED BY <1>1

\* A step that changes no copy, no record and only the phases of one attempt.
\* The attempt gives up nothing it carries and begins to hold nothing.
LEMMA PhaseNoLoss ==
  ASSUME NEW rank, NoLossInv(rank), NEW a \in Attempts,
         UNCHANGED <<agent, seen>>,
         \A b \in Attempts : b # a => att'[b] = att[b],
         /\ att'[a].src = att[a].src /\ att'[a].dst = att[a].dst
         /\ att'[a].epoch = att[a].epoch /\ att'[a].s = att[a].s
         /\ att'[a].ack = att[a].ack /\ att[a].s # "unused",
         \/ att'[a].t \notin {"unused", "acked", "commit", "abort"} /\ ~ Holding(a)
         \/ att[a].t = "acked" /\ att[a].s = "ok" /\ att'[a].t = "commit"
         \/ att[a].t = "acked" /\ att[a].s \in {"err", "dead"} /\ att'[a].t = "abort"
  PROVE  HeldInv' /\ EpochInv' /\ AheadInv(rank)' /\ NoLoss'
<1> USE DEF NoLossInv, Holding, Carries, Undecided, Committing, Active
<1>0. \A b \in Attempts : /\ att'[b].src = att[b].src /\ att'[b].dst = att[b].dst
                          /\ att'[b].epoch = att[b].epoch /\ att'[b].s = att[b].s
                          /\ att'[b].ack = att[b].ack
                          /\ Holding(b)' => Holding(b)
                          /\ Undecided(b)' = Undecided(b)
                          /\ Committing(b)' = Committing(b)
  OBVIOUS
<1>1. HeldInv'
  BY <1>0 DEF HeldInv
<1>2. EpochInv'
  BY <1>0 DEF EpochInv
<1>3. AheadInv(rank)'
  BY <1>0 DEF AheadInv, Ahead
<1>4. NoLoss'
  BY <1>0 DEF NoLoss
<1> QED BY <1>1, <1>2, <1>3, <1>4

\* A move starts: the live copy becomes the one its source keeps.
LEMMA MigrateNoLoss ==
  ASSUME NEW rank \in [Nodes -> Nat], \A m \in Moves : rank[m[1]] < rank[m[2]],
         "dormant" \notin Faults,
         NoLossInv(rank), NEW a \in Attempts, Migrate(a)
  PROVE  HeldInv' /\ EpochInv' /\ AheadInv(rank)' /\ NoLoss'
<1> USE ConstantsAssumption DEF NoLossInv, Holding, Carries, Undecided, Committing, Active
<1>0. /\ agent \in [Nodes -> Copies] /\ att \in [Attempts -> AttemptRecs]
      /\ seen \in [Nodes -> Nat]
  BY DEF TypeOK
<1>1. PICK m \in Moves :
         /\ IsNext(a) /\ agent[m[1]].st = "active"
         /\ agent' = [agent EXCEPT ![m[1]] = Departing(agent[m[1]])]
         /\ att' = [att EXCEPT ![a] = [src |-> m[1], dst |-> m[2],
                       epoch |-> Departing(agent[m[1]]).epoch,
                       s |-> "waiting", t |-> "wire", ack |-> FALSE]]
         /\ UNCHANGED seen
  BY DEF Migrate
<1> DEFINE n == m[1]
           e == agent[n].epoch + 1
<1>2. /\ n \in Nodes /\ m[2] \in Nodes /\ m = <<m[1], m[2]>> /\ rank[n] < rank[m[2]]
      /\ agent[n].epoch \in Nat
  BY <1>0 DEF Copies
<1>3. /\ agent'[n] = [st |-> "suspended", epoch |-> e]
      /\ \A k \in Nodes : k # n => agent'[k] = agent[k]
  BY <1>0, <1>1, <1>2 DEF Departing
<1>4. /\ att'[a].src = n /\ att'[a].dst = m[2] /\ att'[a].epoch = e
      /\ att'[a].s = "waiting" /\ att'[a].t = "wire" /\ ~ att'[a].ack
      /\ \A b \in Attempts : b # a => att'[b] = att[b]
  BY <1>0, <1>1 DEF Departing
<1>5. /\ \A b \in Attempts : ~ Undecided(b) /\ ~ Committing(b)
      /\ \A k \in Nodes : agent[k].st = "active" => k = n
  BY <1>1, <1>2 DEF OneToken, NoFork
<1>6. \A b \in Attempts : Holding(b) => att[b].dst # n
  BY <1>1, <1>2, HeldCopy
<1>7. att[a].t = "unused" /\ att[a].epoch = 0
  BY <1>1 DEF HeldInv, IsNext
<1>8. HeldInv'
  <2>1. \A b \in Attempts : Holding(b)' => Holding(b) /\ b # a
    BY <1>4
  <2>2. \A b \in Attempts : Undecided(b)' \/ Committing(b)' => b = a
    BY <1>4, <1>5
  <2>3. \A b \in Attempts : att[b].dst \in Nodes
    BY <1>0 DEF AttemptRecs
  <2>4. \A b \in Attempts : Holding(b)' =>
           agent'[att'[b].dst] = [st |-> "suspended", epoch |-> att'[b].epoch]
    BY <1>3, <1>4, <1>6, <2>1, <2>3 DEF HeldInv
  <2>5. \A b, c \in Attempts : Holding(b)' /\ Holding(c)' /\ att'[b].dst = att'[c].dst => b = c
    BY <1>4, <2>1 DEF HeldInv
  <2>6. \A b, c \in Attempts : Undecided(b)' /\ Holding(c)' => att'[c].dst # att'[b].src
    BY <1>4, <1>6, <2>1, <2>2
  <2>7. \A b \in Attempts :
       /\ Undecided(b)' => agent'[att'[b].src] = [st |-> "suspended", epoch |-> att'[b].epoch]
       /\ Undecided(b)' /\ att'[b].ack => att'[b].t = "acked"
       /\ att'[b].t = "abort" => att'[b].s \in {"err", "dead"}
       /\ att'[b].s = "unused" => att'[b].t = "unused" /\ att'[b].epoch = 0
       /\ Carries(b)' => <<att'[b].src, att'[b].dst>> \in Moves
    BY <1>2, <1>3, <1>4, <2>2 DEF HeldInv
  <2> QED BY <2>4, <2>5, <2>6, <2>7 DEF HeldInv
<1>9. EpochInv'
  <2>1. \A b \in Attempts : att[b].epoch \in Nat /\ att[b].epoch <= agent[n].epoch
    BY <1>0, <1>1, <1>2 DEF EpochInv, AttemptRecs
  <2>2. \A b \in Attempts : att'[b].epoch <= e
    <3>1. \A x, y \in Nat : x <= y => x <= y + 1
      OBVIOUS
    <3> QED BY <1>2, <1>4, <2>1, <3>1
  <2>3. \A b \in Attempts : Undecided(b)' \/ Committing(b)' => b = a
    BY <1>4, <1>5
  <2>4. \A k \in Nodes : agent'[k].st # "active"
    BY <1>3, <1>5
  <2>5. seen[m[2]] = 0
    BY <1>1, <1>2 DEF AheadInv, Ahead
  <2>6. \A b \in Attempts : att'[b].s # "unused" /\ seen'[att'[b].dst] # 0
          => att'[b].epoch <= seen'[att'[b].dst]
    BY <1>1, <1>4, <2>5 DEF EpochInv
  <2>7. \A b, c \in Attempts : Carries(b)' => att'[c].epoch <= att'[b].epoch
    BY <1>4, <2>2, <2>3
  <2> QED BY <2>4, <2>6, <2>7 DEF EpochInv
<1>10. AheadInv(rank)'
  <2>1. \A b \in Attempts : Undecided(b)' \/ Committing(b)' => b = a
    BY <1>4, <1>5
  <2>2. \A k \in Nodes : agent'[k].st # "active"
    BY <1>3, <1>5
  <2>3. Ahead(rank, n)
    BY <1>1, <1>2 DEF AheadInv
  <2> QED BY <1>1, <1>4, <2>1, <2>2, <2>3 DEF AheadInv, Ahead
<1>11. NoLoss'
  BY <1>4 DEF NoLoss
<1> QED BY <1>8, <1>9, <1>10, <1>11

\* A payload delivered again carries nothing.
LEMMA ReplayNoLoss ==
  ASSUME NEW rank, NoLossInv(rank), NEW a \in Attempts, Replay(a)
  PROVE  HeldInv' /\ EpochInv' /\ AheadInv(rank)' /\ NoLoss'
<1> USE DEF NoLossInv, Holding, Carries, Undecided, Committing, Active
<1>0. att \in [Attempts -> AttemptRecs]
  BY DEF TypeOK
<1>1. PICK b \in Attempts :
         /\ att[a].s = "unused" /\ att[b].s # "unused"
         /\ att' = [att EXCEPT ![a] = [att[b] EXCEPT !.s = "dead", !.t = "wire", !.ack = FALSE]]
         /\ UNCHANGED <<agent, seen>>
  BY DEF Replay, IsNext
<1>2. /\ att'[a].src = att[b].src /\ att'[a].dst = att[b].dst /\ att'[a].epoch = att[b].epoch
      /\ att'[a].s = "dead" /\ att'[a].t = "wire" /\ ~ att'[a].ack
      /\ \A c \in Attempts : c # a => att'[c] = att[c]
  BY <1>0, <1>1 DEF AttemptRecs
<1>3. \A c \in Attempts : /\ Holding(c)' => Holding(c) /\ c # a
                          /\ Undecided(c)' \/ Committing(c)' => c # a
  BY <1>2
<1>4. HeldInv'
  BY <1>1, <1>2, <1>3 DEF HeldInv
<1>5. EpochInv'
  BY <1>1, <1>2, <1>3 DEF EpochInv
<1>6. AheadInv(rank)'
  BY <1>1, <1>2, <1>3 DEF AheadInv, Ahead
<1>7. NoLoss'
  BY <1>1, <1>2 DEF NoLoss
<1> QED BY <1>4, <1>5, <1>6, <1>7

\* The ACK is read: the copy is at the destination, and COMMIT on its way.
LEMMA RecvAckNoLoss ==
  ASSUME NEW rank \in [Nodes -> Nat], \A m \in Moves : rank[m[1]] < rank[m[2]],
         NoLossInv(rank), NEW a \in Attempts, RecvAck(a)
  PROVE  HeldInv' /\ EpochInv' /\ AheadInv(rank)' /\ NoLoss'
<1> USE ConstantsAssumption DEF NoLossInv, Holding, Carries, Undecided, Committing, Active
<1>0. /\ agent \in [Nodes -> Copies] /\ att \in [Attempts -> AttemptRecs]
      /\ seen \in [Nodes -> Nat]
      /\ \A b \in Attempts : att[b].src \in Nodes /\ att[b].dst \in Nodes
  BY DEF TypeOK, AttemptRecs
<1>1. /\ att[a].s = "waiting" /\ att[a].t = "acked" /\ <<att[a].src, att[a].dst>> \in Moves
      /\ att[a].src # att[a].dst /\ rank[att[a].src] < rank[att[a].dst]
  BY DEF RecvAck, HeldInv
<1>2. /\ seen' = seen /\ agent'[att[a].src].st = "none"
      /\ \A k \in Nodes : k # att[a].src => agent'[k] = agent[k]
  BY <1>0 DEF RecvAck, NoCopy
<1>3. /\ att'[a].src = att[a].src /\ att'[a].dst = att[a].dst /\ att'[a].epoch = att[a].epoch
      /\ att'[a].s = "ok" /\ att'[a].t = "acked"
      /\ \A c \in Attempts : c # a => att'[c] = att[c]
  BY <1>0, <1>1 DEF RecvAck, AttemptRecs
<1>4. \A c \in Attempts : Undecided(c) \/ Committing(c) => c = a
  BY <1>1 DEF OneToken
<1>5. \A k \in Nodes : agent'[k].st # "active"
  BY <1>0, <1>1, <1>2 DEF OneToken
<1>6. /\ \A c \in Attempts : Undecided(c)' \/ Committing(c)' => c = a /\ ~ Undecided(c)'
      /\ \A c \in Attempts : Holding(c)' = Holding(c)
  BY <1>1, <1>3, <1>4
<1>7. \A c \in Attempts : Holding(c) => att[c].dst # att[a].src
  BY <1>1 DEF HeldInv
<1>8. HeldInv'
  <2>1. \A b \in Attempts : /\ att'[b].src = att[b].src /\ att'[b].dst = att[b].dst
                            /\ att'[b].epoch = att[b].epoch
                            /\ b # a => att'[b] = att[b]
    BY <1>3
  <2>2. \A b \in Attempts : Holding(b)' =>
           agent'[att'[b].dst] = [st |-> "suspended", epoch |-> att'[b].epoch]
    BY <1>0, <1>2, <1>6, <1>7, <2>1 DEF HeldInv
  <2>3. \A b, c \in Attempts : Holding(b)' /\ Holding(c)' /\ att'[b].dst = att'[c].dst => b = c
    BY <1>6, <2>1 DEF HeldInv
  <2>4. \A b \in Attempts :
       /\ ~ Undecided(b)'
       /\ Carries(b)' => <<att'[b].src, att'[b].dst>> \in Moves
    BY <1>1, <1>3, <1>6
  <2>5. \A b \in Attempts :
       /\ att'[b].t = "abort" => att'[b].s \in {"err", "dead"}
       /\ att'[b].s = "unused" => att'[b].t = "unused" /\ att'[b].epoch = 0
    BY <1>3 DEF HeldInv
  <2> QED BY <2>2, <2>3, <2>4, <2>5 DEF HeldInv
<1>9. EpochInv'
  <2>1. \A b \in Attempts : /\ att'[b].dst = att[b].dst /\ att'[b].epoch = att[b].epoch
                            /\ att'[b].s # "unused" => att[b].s # "unused"
    BY <1>1, <1>3
  <2>2. \A b \in Attempts : att[b].epoch <= att[a].epoch
    BY <1>1 DEF EpochInv
  <2>3. \A b, c \in Attempts : Carries(b)' => att'[c].epoch <= att'[b].epoch
    BY <1>6, <2>1, <2>2
  <2>4. \A b \in Attempts : att'[b].s # "unused" /\ seen'[att'[b].dst] # 0
          => att'[b].epoch <= seen'[att'[b].dst]
    BY <1>2, <2>1 DEF EpochInv
  <2> QED BY <1>5, <2>3, <2>4 DEF EpochInv
<1>10. AheadInv(rank)'
  <2>1. Ahead(rank, att[a].src)
    BY <1>1 DEF AheadInv
  <2>2. \A x, y, z \in Nat : x < y /\ y < z => x < z
    OBVIOUS
  <2>3. Ahead(rank, att[a].dst)
    BY <1>0, <1>1, <2>1, <2>2 DEF Ahead
  <2> QED BY <1>2, <1>3, <1>5, <1>6, <2>3 DEF AheadInv, Ahead
<1>11. NoLoss'
  <2>1. agent[att[a].dst].st = "suspended"
    BY <1>1, HeldCopy
  <2> QED BY <1>0, <1>1, <1>2, <1>3, <2>1 DEF NoLoss
<1> QED BY <1>8, <1>9, <1>10, <1>11

\* No ACK: the source takes its copy back.
LEMMA SendFailedNoLoss ==
  ASSUME NEW rank, NoLossInv(rank), NEW a \in Attempts, SendFailed(a)
  PROVE  HeldInv' /\ EpochInv' /\ AheadInv(rank)' /\ NoLoss'
<1> USE DEF NoLossInv, Holding, Carries, Undecided, Committing, Active
<1>0. /\ agent \in [Nodes -> Copies] /\ att \in [Attempts -> AttemptRecs]
      /\ \A b \in Attempts : att[b].src \in Nodes /\ att[b].dst \in Nodes
  BY DEF TypeOK, AttemptRecs
<1> DEFINE n == att[a].src
<1>1. /\ att[a].s = "waiting" /\ agent[n] = [st |-> "suspended", epoch |-> att[a].epoch]
      /\ seen' = seen
  BY DEF SendFailed, HeldInv
<1>2. /\ agent'[n].st = "active" /\ agent'[n].epoch = att[a].epoch
      /\ \A k \in Nodes : k # n => agent'[k] = agent[k]
  BY <1>0, <1>1 DEF SendFailed
<1>3. /\ att'[a].src = att[a].src /\ att'[a].dst = att[a].dst /\ att'[a].epoch = att[a].epoch
      /\ att'[a].s = "err" /\ att'[a].t = att[a].t
      /\ \A c \in Attempts : c # a => att'[c] = att[c]
  BY <1>0, <1>1 DEF SendFailed, AttemptRecs
<1>4. \A c \in Attempts : Undecided(c) \/ Committing(c) => c = a
  BY <1>1 DEF OneToken
<1>5. \A k \in Nodes : agent'[k].st = "active" => k = n
  BY <1>0, <1>1, <1>2 DEF OneToken
<1>6. /\ \A c \in Attempts : ~ Undecided(c)' /\ ~ Committing(c)'
      /\ \A c \in Attempts : Holding(c)' = Holding(c)
  BY <1>1, <1>3, <1>4
<1>7. \A c \in Attempts : Holding(c) => att[c].dst # n
  BY <1>1 DEF HeldInv
<1>8. HeldInv'
  BY <1>0, <1>1, <1>2, <1>3, <1>6, <1>7 DEF HeldInv
<1>9. EpochInv'
  BY <1>1, <1>2, <1>3, <1>5, <1>6 DEF EpochInv
<1>10. AheadInv(rank)'
  BY <1>1, <1>2, <1>5, <1>6 DEF AheadInv, Ahead
<1>11. NoLoss'
  BY <1>0, <1>2 DEF NoLoss
<1> QED BY <1>8, <1>9, <1>10, <1>11

\* process_migrate mounts only where nothing is mounted: a node that has
\* committed knows an epoch that the payload does not exceed.
LEMMA PrepareNoLoss ==
  ASSUME NEW rank, NoLossInv(rank), NEW a \in Attempts, Prepare(a)
  PROVE  HeldInv' /\ EpochInv' /\ AheadInv(rank)' /\ NoLoss'
<1> USE DEF NoLossInv, Holding, Carries, Undecided, Committing, Active
<1>0. /\ agent \in [Nodes -> Copies] /\ att \in [Attempts -> AttemptRecs]
      /\ seen \in [Nodes -> Nat]
      /\ \A b \in Attempts : /\ att[b].src \in Nodes /\ att[b].dst \in Nodes
                             /\ att[b].epoch \in Nat
  BY DEF TypeOK, AttemptRecs
<1> DEFINE n == att[a].dst
<1>1. /\ att[a].t \in {"queued", "orphan"} /\ serving[n]
      /\ agent[n].st # "none" => seen[n] # 0
      /\ att[a].epoch > LastSeen(n)
      /\ seen' = seen
  BY DEF Prepare, Waiting, Admits, Mounted
<1>2. att[a].s # "unused" /\ ~ att[a].ack /\ att[a].s # "ok"
  BY <1>1 DEF HeldInv, OneToken
<1>3. agent[n].st = "none"
  <2> SUFFICES ASSUME seen[n] # 0 PROVE FALSE
    BY <1>1
  <2>1. att[a].epoch <= seen[n] /\ att[a].epoch > seen[n]
    BY <1>1, <1>2 DEF EpochInv, LastSeen
  <2> QED BY <1>0, <2>1
<1>4. /\ agent'[n] = [st |-> "suspended", epoch |-> att[a].epoch]
      /\ \A k \in Nodes : k # n => agent'[k] = agent[k]
  BY <1>0 DEF Prepare
<1>5. /\ att'[a].src = att[a].src /\ att'[a].dst = n /\ att'[a].epoch = att[a].epoch
      /\ att'[a].s = att[a].s /\ att'[a].t \in {"acked", "over"}
      /\ att'[a].ack => att'[a].t = "acked"
      /\ \A b \in Attempts : b # a => att'[b] = att[b]
  <2>1. CASE att[a].t = "queued"
    BY <1>0, <2>1 DEF Prepare, AttemptRecs
  <2>2. CASE att[a].t = "orphan"
    BY <1>0, <1>2, <2>2 DEF Prepare, AttemptRecs
  <2> QED BY <1>1, <2>1, <2>2
<1>6. \A b \in Attempts : Holding(b) => att[b].dst # n
  BY <1>3, HeldCopy
<1>7. \A b \in Attempts : Undecided(b) => att[b].src # n
  BY <1>0, <1>1 DEF GuardInv, Migrating
<1>8. \A b \in Attempts : /\ att'[b].src = att[b].src /\ att'[b].dst = att[b].dst
                          /\ att'[b].epoch = att[b].epoch /\ att'[b].s = att[b].s
                          /\ Holding(b)' => Holding(b) \/ b = a
                          /\ Committing(b)' => Committing(b)
                          /\ Committing(b) => Committing(b)'
  BY <1>1, <1>2, <1>5
<1>9. HeldInv'
  <2>1. \A b \in Attempts : Holding(b)' =>
           agent'[att'[b].dst] = [st |-> "suspended", epoch |-> att'[b].epoch]
    BY <1>0, <1>4, <1>6, <1>8 DEF HeldInv
  <2>2. \A b, c \in Attempts : Holding(b)' /\ Holding(c)' /\ att'[b].dst = att'[c].dst => b = c
    BY <1>6, <1>8 DEF HeldInv
  <2>3. \A b, c \in Attempts : Undecided(b)' /\ Holding(c)' => att'[c].dst # att'[b].src
    BY <1>7, <1>8 DEF HeldInv
  <2>4. \A b \in Attempts :
       /\ Undecided(b)' => agent'[att'[b].src] = [st |-> "suspended", epoch |-> att'[b].epoch]
       /\ Carries(b)' => <<att'[b].src, att'[b].dst>> \in Moves
    BY <1>0, <1>4, <1>7, <1>8 DEF HeldInv
  <2>0. \A b \in Attempts :
       /\ Undecided(b) /\ att[b].ack => att[b].t = "acked"
       /\ att[b].t = "abort" => att[b].s \in {"err", "dead"}
       /\ att[b].s = "unused" => att[b].t = "unused" /\ att[b].epoch = 0
    BY DEF HeldInv
  <2>5. \A b \in Attempts :
       /\ Undecided(b)' /\ att'[b].ack => att'[b].t = "acked"
       /\ att'[b].t = "abort" => att'[b].s \in {"err", "dead"}
       /\ att'[b].s = "unused" => att'[b].t = "unused" /\ att'[b].epoch = 0
    BY <1>2, <1>5, <1>8, <2>0
  <2> QED BY <2>1, <2>2, <2>3, <2>4, <2>5 DEF HeldInv
<1>10. \A k \in Nodes : agent'[k].st = "active" => k # n /\ agent'[k] = agent[k]
  BY <1>4
<1>11. EpochInv'
  BY <1>1, <1>8, <1>10 DEF EpochInv
<1>12. AheadInv(rank)'
  BY <1>1, <1>8, <1>10 DEF AheadInv, Ahead
<1>13. NoLoss'
  <2>1. CASE \E k \in Nodes : Active(k)
    BY <1>3, <1>4, <2>1 DEF NoLoss
  <2>2. CASE \E b \in Attempts : Undecided(b)
    BY <1>8, <2>2 DEF NoLoss
  <2>3. ASSUME NEW b \in Attempts, Committing(b), agent[att[b].dst].st = "suspended"
        PROVE  NoLoss'
    BY <1>0, <1>3, <1>4, <1>8, <2>3 DEF NoLoss
  <2> QED BY <2>1, <2>2, <2>3 DEF NoLoss
<1> QED BY <1>9, <1>11, <1>12, <1>13

\* commit_migrated finds the copy of the attempt it was asked for, and wakes it.
LEMMA CommitNoLoss ==
  ASSUME NEW rank \in [Nodes -> Nat], NoLossInv(rank), NEW a \in Attempts, CommitMigrated(a)
  PROVE  HeldInv' /\ EpochInv' /\ AheadInv(rank)' /\ NoLoss'
<1> USE DEF NoLossInv, Holding, Carries, Undecided, Committing, Active
<1>0. /\ agent \in [Nodes -> Copies] /\ att \in [Attempts -> AttemptRecs]
      /\ seen \in [Nodes -> Nat]
      /\ \A b \in Attempts : /\ att[b].src \in Nodes /\ att[b].dst \in Nodes
                             /\ att[b].epoch \in Nat
  BY DEF TypeOK, AttemptRecs
<1> DEFINE n == att[a].dst
<1>1. /\ att[a].t = "commit" /\ att[a].s = "ok"
      /\ agent[n].st = "suspended" /\ agent[n].epoch = att[a].epoch
  <2>1. att[a].t = "commit"
    BY DEF CommitMigrated
  <2> QED BY <2>1, HeldCopy DEF OneToken
<1>2. /\ agent'[n].st = "active" /\ agent'[n].epoch = att[a].epoch
      /\ \A k \in Nodes : k # n => agent'[k] = agent[k]
      /\ seen'[n] = att[a].epoch
      /\ \A k \in Nodes : k # n => seen'[k] = seen[k]
  BY <1>0, <1>1 DEF CommitMigrated, Copies
<1>3. /\ att'[a].src = att[a].src /\ att'[a].dst = n /\ att'[a].epoch = att[a].epoch
      /\ att'[a].s = "ok" /\ att'[a].t = "over"
      /\ \A b \in Attempts : b # a => att'[b] = att[b]
  BY <1>0, <1>1 DEF CommitMigrated, AttemptRecs
<1>4. \A b \in Attempts : Undecided(b) \/ Committing(b) => b = a
  BY <1>1 DEF OneToken
<1>5. \A b \in Attempts : /\ att'[b].src = att[b].src /\ att'[b].dst = att[b].dst
                          /\ att'[b].epoch = att[b].epoch /\ att'[b].s = att[b].s
                          /\ Holding(b)' => Holding(b) /\ b # a
                          /\ ~ Undecided(b)' /\ ~ Committing(b)'
  BY <1>1, <1>3, <1>4
<1>6. \A b \in Attempts : Holding(b) /\ b # a => att[b].dst # n
  BY <1>1 DEF HeldInv
<1>7. \A k \in Nodes : agent'[k].st = "active" => k = n
  BY <1>1, <1>2 DEF OneToken
<1>8. HeldInv'
  <2>1. \A b \in Attempts : Holding(b)' =>
           agent'[att'[b].dst] = [st |-> "suspended", epoch |-> att'[b].epoch]
    BY <1>0, <1>2, <1>5, <1>6 DEF HeldInv
  <2>2. \A b, c \in Attempts : Holding(b)' /\ Holding(c)' /\ att'[b].dst = att'[c].dst => b = c
    BY <1>5 DEF HeldInv
  <2>3. \A b \in Attempts :
       /\ att'[b].t = "abort" => att'[b].s \in {"err", "dead"}
       /\ att'[b].s = "unused" => att'[b].t = "unused" /\ att'[b].epoch = 0
    BY <1>3 DEF HeldInv
  <2> QED BY <1>5, <2>1, <2>2, <2>3 DEF HeldInv
<1>9. EpochInv'
  <2>1. \A b \in Attempts : att[b].epoch <= att[a].epoch
    BY <1>1 DEF EpochInv
  <2>2. \A k \in Nodes, b \in Attempts : Active(k)' => att'[b].epoch <= agent'[k].epoch
    BY <1>2, <1>5, <1>7, <2>1
  <2>3. \A b \in Attempts : att'[b].s # "unused" /\ seen'[att'[b].dst] # 0
          => att'[b].epoch <= seen'[att'[b].dst]
    BY <1>0, <1>2, <1>5, <2>1 DEF EpochInv
  <2> QED BY <1>5, <2>2, <2>3 DEF EpochInv
<1>10. AheadInv(rank)'
  <2>1. Ahead(rank, n)
    BY <1>1 DEF AheadInv
  <2>2. \A m \in Nodes : rank[m] > rank[n] => m # n \/ seen'[m] = 0
    BY <1>0, <1>1, <1>2, <2>1 DEF Ahead
  <2> QED BY <1>2, <1>5, <1>7, <2>1, <2>2 DEF AheadInv, Ahead
<1>11. NoLoss'
  BY <1>0, <1>2 DEF NoLoss
<1> QED BY <1>8, <1>9, <1>10, <1>11

\* abort_prepared removes the copy of the attempt it was asked for, which its
\* source has given up.
LEMMA AbortNoLoss ==
  ASSUME NEW rank, NoLossInv(rank), NEW a \in Attempts, AbortPrepared(a)
  PROVE  HeldInv' /\ EpochInv' /\ AheadInv(rank)' /\ NoLoss'
<1> USE DEF NoLossInv, Holding, Carries, Undecided, Committing, Active
<1>0. /\ agent \in [Nodes -> Copies] /\ att \in [Attempts -> AttemptRecs]
      /\ \A b \in Attempts : att[b].src \in Nodes /\ att[b].dst \in Nodes
  BY DEF TypeOK, AttemptRecs
<1> DEFINE n == att[a].dst
<1>1. att[a].t = "abort" /\ att[a].s \in {"err", "dead"} /\ agent[n].st = "suspended"
  <2>1. att[a].t = "abort"
    BY DEF AbortPrepared
  <2> QED BY <2>1, HeldCopy DEF HeldInv
<1>2. /\ agent'[n].st = "none" /\ seen' = seen
      /\ \A k \in Nodes : k # n => agent'[k] = agent[k]
  BY <1>0, <1>1 DEF AbortPrepared, NoCopy
<1>3. /\ att'[a].src = att[a].src /\ att'[a].dst = n /\ att'[a].epoch = att[a].epoch
      /\ att'[a].s = att[a].s /\ att'[a].t = "over"
      /\ \A b \in Attempts : b # a => att'[b] = att[b]
  BY <1>0, <1>1 DEF AbortPrepared, AttemptRecs
<1>4. \A b \in Attempts : /\ att'[b].src = att[b].src /\ att'[b].dst = att[b].dst
                          /\ att'[b].epoch = att[b].epoch /\ att'[b].s = att[b].s
                          /\ Holding(b)' => Holding(b) /\ b # a
                          /\ Undecided(b)' => Undecided(b) /\ b # a
                          /\ Committing(b)' => Committing(b) /\ b # a
                          /\ Undecided(b) \/ Committing(b) => b # a /\ att'[b] = att[b]
  BY <1>1, <1>3
<1>5. \A b \in Attempts : Holding(b) /\ b # a => att[b].dst # n
  BY <1>1 DEF HeldInv
<1>6. \A b \in Attempts : Undecided(b) => att[b].src # n
  BY <1>1 DEF HeldInv
<1>7. \A k \in Nodes : agent'[k].st = "active" => k # n /\ agent'[k] = agent[k]
  BY <1>2
<1>8. HeldInv'
  <2>1. \A b \in Attempts : Holding(b)' =>
           agent'[att'[b].dst] = [st |-> "suspended", epoch |-> att'[b].epoch]
    BY <1>0, <1>2, <1>4, <1>5 DEF HeldInv
  <2>2. \A b, c \in Attempts : Holding(b)' /\ Holding(c)' /\ att'[b].dst = att'[c].dst => b = c
    BY <1>4 DEF HeldInv
  <2>3. \A b, c \in Attempts : Undecided(b)' /\ Holding(c)' => att'[c].dst # att'[b].src
    BY <1>4 DEF HeldInv
  <2>4. \A b \in Attempts :
       /\ Undecided(b)' => agent'[att'[b].src] = [st |-> "suspended", epoch |-> att'[b].epoch]
       /\ Carries(b)' => <<att'[b].src, att'[b].dst>> \in Moves
    BY <1>0, <1>2, <1>4, <1>6 DEF HeldInv
  <2>0. \A b \in Attempts :
       /\ Undecided(b) /\ att[b].ack => att[b].t = "acked"
       /\ att[b].t = "abort" => att[b].s \in {"err", "dead"}
       /\ att[b].s = "unused" => att[b].t = "unused" /\ att[b].epoch = 0
    BY DEF HeldInv
  <2>5. \A b \in Attempts :
       /\ Undecided(b)' /\ att'[b].ack => att'[b].t = "acked"
       /\ att'[b].t = "abort" => att'[b].s \in {"err", "dead"}
       /\ att'[b].s = "unused" => att'[b].t = "unused" /\ att'[b].epoch = 0
    BY <1>1, <1>3, <2>0
  <2> QED BY <2>1, <2>2, <2>3, <2>4, <2>5 DEF HeldInv
<1>9. EpochInv'
  BY <1>2, <1>4, <1>7 DEF EpochInv
<1>10. AheadInv(rank)'
  BY <1>2, <1>4, <1>7 DEF AheadInv, Ahead
<1>11. NoLoss'
  <2>1. ASSUME NEW k \in Nodes, Active(k) PROVE NoLoss'
    BY <1>1, <1>2, <2>1 DEF NoLoss
  <2>2. ASSUME NEW b \in Attempts, Undecided(b) PROVE NoLoss'
    BY <1>4, <2>2 DEF NoLoss
  <2>3. ASSUME NEW b \in Attempts, Committing(b), agent[att[b].dst].st = "suspended"
        PROVE  NoLoss'
    <3>1. b # a /\ att'[b] = att[b] /\ att[b].dst # n
      BY <1>4, <1>5, <2>3
    <3> QED BY <1>0, <1>2, <2>3, <3>1 DEF NoLoss
  <2> QED BY <2>1, <2>2, <2>3 DEF NoLoss
<1> QED BY <1>8, <1>9, <1>10, <1>11

\* Every step keeps the agent somewhere it can run from.
LEMMA NextNoLoss ==
  ASSUME NEW rank \in [Nodes -> Nat], \A m \in Moves : rank[m[1]] < rank[m[2]],
         Faults \subseteq {"wait5", "replay"},
         NoLossInv(rank), [Next]_vars
  PROVE  NoLossInv(rank)'
<1>0. TypeOK' /\ OneToken' /\ GuardInv'
  BY NextTypeOK, NextOneToken, NextGuard DEF NoLossInv
<1> SUFFICES HeldInv' /\ EpochInv' /\ AheadInv(rank)' /\ NoLoss'
  BY <1>0 DEF NoLossInv
<1>1. ASSUME NEW a \in Attempts, AttemptStep(a)
      PROVE  HeldInv' /\ EpochInv' /\ AheadInv(rank)' /\ NoLoss'
  <2>1. CASE \/ RecvPayload(a) \/ GiveUp(a) \/ RecvCommit(a) \/ NoCommit(a) \/ Refuse(a)
    <3>0. att \in [Attempts -> AttemptRecs]
      BY DEF NoLossInv, TypeOK
    <3>1. /\ UNCHANGED <<agent, seen>>
          /\ \A b \in Attempts : b # a => att'[b] = att[b]
      BY <2>1, <3>0 DEF RecvPayload, GiveUp, RecvCommit, NoCommit, Refuse
    <3>2. /\ att'[a].src = att[a].src /\ att'[a].dst = att[a].dst
          /\ att'[a].epoch = att[a].epoch /\ att'[a].s = att[a].s
          /\ att'[a].ack = att[a].ack
          /\ att[a].t # "unused"
      BY <2>1, <3>0
      DEF RecvPayload, GiveUp, RecvCommit, NoCommit, Refuse, Waiting, AttemptRecs
    <3>3. att[a].s # "unused"
      BY <3>2 DEF NoLossInv, HeldInv
    <3>4. \/ att'[a].t \notin {"unused", "acked", "commit", "abort"} /\ ~ Holding(a)
          \/ att[a].t = "acked" /\ att[a].s = "ok" /\ att'[a].t = "commit"
          \/ att[a].t = "acked" /\ att[a].s \in {"err", "dead"} /\ att'[a].t = "abort"
      BY <2>1, <3>0
      DEF RecvPayload, GiveUp, RecvCommit, NoCommit, Refuse, Waiting, Holding, AttemptRecs
    <3> QED BY <3>1, <3>2, <3>3, <3>4, PhaseNoLoss
  <2> QED BY <1>1, <2>1, MigrateNoLoss, ReplayNoLoss, RecvAckNoLoss, SendFailedNoLoss,
             PrepareNoLoss, CommitNoLoss, AbortNoLoss DEF AttemptStep
<1>2. ASSUME UNCHANGED <<agent, seen, att>>
      PROVE  HeldInv' /\ EpochInv' /\ AheadInv(rank)' /\ NoLoss'
  <2>1. HeldInv'
    BY <1>2 DEF NoLossInv, HeldInv, Holding, Carries, Undecided, Committing
  <2>2. EpochInv'
    BY <1>2 DEF NoLossInv, EpochInv, Carries, Undecided, Committing, Active
  <2>3. AheadInv(rank)'
    BY <1>2 DEF NoLossInv, AheadInv, Ahead, Undecided, Committing, Active
  <2>4. NoLoss'
    BY <1>2 DEF NoLossInv, NoLoss, Undecided, Committing, Active
  <2> QED BY <2>1, <2>2, <2>3, <2>4
<1>3. ASSUME NEW n \in Nodes, NodeStep(n) PROVE UNCHANGED <<agent, seen, att>>
  <2>1. CASE StopServe(n)
    <3>1. \A a \in Attempts : ~ OpenAt(n, a)
      BY <2>1 DEF StopServe
    <3>2. att \in [Attempts -> AttemptRecs]
      BY DEF NoLossInv, TypeOK
    <3>3. ChannelsDropped(n, att) = att
      BY <3>1, <3>2 DEF ChannelsDropped
    <3> QED BY <2>1, <3>3 DEF StopServe
  <2> QED BY <1>3, <2>1 DEF NodeStep, StartServe, Crash, Message
<1> QED BY <1>1, <1>2, <1>3 DEF Next, vars

\* If the agent never returns to a node, COMMIT reaches a destination that keeps
\* running, and only live copies are moved, then the agent is never lost, however
\* late the loop answers and whatever is delivered again (migrate: "no loss").
THEOREM NoLossHolds ==
  OneWayMoves /\ Faults \subseteq {"wait5", "replay"} => (Spec => []NoLoss)
<1> SUFFICES ASSUME OneWayMoves, Faults \subseteq {"wait5", "replay"}
             PROVE  Spec => []NoLoss
  OBVIOUS
<1>1. PICK rank \in [Nodes -> Nat] : \A m \in Moves : rank[m[1]] < rank[m[2]]
  BY DEF OneWayMoves
<1>2. Init => NoLossInv(rank)
  BY InitNoLoss, InitTypeOK, InitOneToken, InitGuard DEF NoLossInv
<1>3. NoLossInv(rank) /\ [Next]_vars => NoLossInv(rank)'
  BY <1>1, NextNoLoss
<1>4. NoLossInv(rank) => NoLoss
  BY DEF NoLossInv
<1> QED BY <1>2, <1>3, <1>4, PTL DEF Spec
=============================================================================
