----------------------------- MODULE Migration -----------------------------
(***************************************************************************)
(* Agent migration between nodes (process/node.rs, process/migrate.rs).    *)
(*                                                                         *)
(* The source node suspends an agent, sends a signed snapshot, waits for   *)
(* the destination's prepare-ACK, sends COMMIT and drops its copy.  The    *)
(* destination mounts the snapshot suspended, and a connection thread      *)
(* tells the main loop to commit (COMMIT arrived) or abort (it did not).   *)
(*                                                                         *)
(* All the maps involved (agents, seen, keys, prepared, the durable        *)
(* _migrate_seen record) are keyed by the agent's uuid and no handler      *)
(* relates two uuids, so the module follows one mobile agent.              *)
(*                                                                         *)
(* An attempt is one call of Node::migrate together with the connection it *)
(* dials and the thread that serves that connection at the destination.    *)
(* Frames need no state of their own: a frame that was sent may be         *)
(* received until one of the two ends stops waiting, and a frame that is   *)
(* lost is one that is never received.                                     *)
(***************************************************************************)
EXTENDS Integers, FiniteSets

CONSTANTS
    Nodes,       \* the nodes; a node's name stands for its Ed25519 key too
    Birth,       \* the node where mount_wasm created the agent
    Moves,       \* the <<source, destination>> pairs the operator uses
    Durable,     \* the nodes given a store by set_store
    Fit,         \* the nodes whose profile fits the manifest and whose
                 \* engine instantiates the code
    Attempts,    \* the attempts, numbered in the order of the calls
    Faults,      \* the faults of this instance, a subset of AllFaults
    NoNode       \* the absence of a key

\* "crash"  a node process dies and restarts from its store;
\* "stop"   a destination's serve loop is shut down while attempts are open;
\* "wait5"  the connection thread gives up its 5 s wait for the main loop;
\* "commit8" the connection thread's 8 s wait for COMMIT ends although the
\*          source has not failed (COMMIT lost or late);
\* "replay" a genuine payload is delivered again over another connection,
\*          with no source waiting at the other end;
\* "dormant" the operator calls migrate for a copy that is not live.
AllFaults == {"crash", "stop", "wait5", "commit8", "replay", "dormant"}

ASSUME ConstantsAssumption ==
    /\ Birth \in Nodes
    /\ Moves \subseteq {m \in Nodes \X Nodes : m[1] # m[2]}
    /\ Durable \subseteq Nodes
    /\ Fit \subseteq Nodes
    /\ Attempts \subseteq Nat \ {0}
    /\ Faults \subseteq AllFaults
    /\ NoNode \notin Nodes

VARIABLES
    serving,   \* serving[n]: Node::serve is running at n
    agent,     \* agent[n]: the copy in n's `agents` map (Mounted)
    seen,      \* seen[n]: n's in-memory replay guard, 0 when absent
    saved,     \* saved[n]: the _migrate_seen record in n's store, 0 when absent
    keys,      \* keys[n]: the key n has pinned for the agent
    prepared,  \* prepared[n]: the attempt whose handoff n keeps for the
               \* re-bind, 0 when there is none
    att,       \* att[a]: both ends of attempt a
    bound      \* the binds commit_migrated has sent to the AMS

vars == <<serving, agent, seen, saved, keys, prepared, att, bound>>

----------------------------------------------------------------------------
(* State.  A copy is absent, active or suspended.                          *)

Copies == [st : {"none", "active", "suspended"}, epoch : Nat]

NoCopy == [st |-> "none", epoch |-> 0]

\* The source's call: not made yet, waiting for the ACK, returned Ok after
\* sending COMMIT, returned Err, or ended by a crash of the source.
SrcPhases == {"unused", "waiting", "ok", "err", "dead"}

\* The destination's connection thread and what it has queued: the payload is
\* on the wire; queued for the main loop with the thread waiting for the
\* answer; queued with nobody waiting; ACKed, waiting for COMMIT; queued for
\* commit; queued for abort; over.
DstPhases == {"unused", "wire", "queued", "orphan", "acked",
              "commit", "abort", "over"}

AttemptRecs == [src : Nodes, dst : Nodes, epoch : Nat,
                s : SrcPhases, t : DstPhases, ack : BOOLEAN]

Unused == [src |-> Birth, dst |-> Birth, epoch |-> 0,
           s |-> "unused", t |-> "unused", ack |-> FALSE]

\* A bind sent to the AMS: the new host, the epoch, and the handoff it
\* carries (the keys it moves the agent from and to, and its epoch).
Handoffs == [from : Nodes, to : Nodes, epoch : Nat]
Binds == [node : Nodes, epoch : Nat, handoff : Handoffs]

HandoffOf(a) == [from |-> att[a].src, to |-> att[a].dst, epoch |-> att[a].epoch]

Init ==
    /\ serving = [n \in Nodes |-> FALSE]
    /\ agent = [n \in Nodes |-> IF n = Birth
                                THEN [st |-> "active", epoch |-> 0]
                                ELSE NoCopy]
    /\ seen = [n \in Nodes |-> 0]
    /\ saved = [n \in Nodes |-> 0]
    /\ keys = [n \in Nodes |-> NoNode]
    /\ prepared = [n \in Nodes |-> 0]
    /\ att = [a \in Attempts |-> Unused]
    /\ bound = {}

Mounted(n) == agent[n].st # "none"
Active(n) == agent[n].st = "active"

\* Node::migrate borrows the node for the whole exchange.
Migrating(n) == \E a \in Attempts : att[a].s = "waiting" /\ att[a].src = n

\* The attempt the next call of migrate makes.
IsNext(a) ==
    /\ att[a].s = "unused"
    /\ \A b \in Attempts : b < a => att[b].s # "unused"

----------------------------------------------------------------------------
(* The source: Node::migrate and send_migration.                           *)

\* The copy as it leaves: build_migrate_payload bumps its epoch, and keeps the
\* bump whatever becomes of the move; migrate suspends it.
Departing(c) == [st |-> "suspended", epoch |-> c.epoch + 1]

\* The payload leaves over a fresh channel.
\* The code asks only that the agent be mounted: that the operator moves a
\* live copy is an assumption ("dormant" drops it).
Migrate(a) ==
    \E m \in Moves :
        LET n == m[1]
            c == Departing(agent[n])
        IN  /\ IsNext(a)
            /\ ~ serving[n]
            /\ ~ Migrating(n)
            /\ Mounted(n)
            /\ Active(n) \/ "dormant" \in Faults
            /\ agent' = [agent EXCEPT ![n] = c]
            /\ att' = [att EXCEPT ![a] = [src |-> n, dst |-> m[2], epoch |-> c.epoch,
                          s |-> "waiting", t |-> "wire", ack |-> FALSE]]
            /\ UNCHANGED <<serving, seen, saved, keys, prepared, bound>>

\* The ACK arrived: send COMMIT and tombstone the local copy.
RecvAck(a) ==
    /\ att[a].s = "waiting"
    /\ att[a].ack
    /\ att' = [att EXCEPT ![a].s = "ok"]
    /\ agent' = [agent EXCEPT ![att[a].src] = NoCopy]
    /\ UNCHANGED <<serving, seen, saved, keys, prepared, bound>>

\* Mutant: the local copy is left suspended.
SendFailedNoResume(a) ==
    /\ att[a].s = "waiting"
    /\ att' = [att EXCEPT ![a].s = "err"]
    /\ UNCHANGED <<serving, agent, seen, saved, keys, prepared, bound>>

\* Dial, handshake, send or receive failed, or no ACK within 8 s: resume.
SendFailed(a) ==
    /\ att[a].s = "waiting"
    /\ att' = [att EXCEPT ![a].s = "err"]
    /\ agent' = [agent EXCEPT ![att[a].src].st = "active"]
    /\ UNCHANGED <<serving, seen, saved, keys, prepared, bound>>

\* A payload already sent arrives a second time.
Replay(a) ==
    \E b \in Attempts :
        /\ "replay" \in Faults
        /\ IsNext(a)
        /\ att[b].s # "unused"
        /\ att' = [att EXCEPT ![a] = [att[b] EXCEPT !.s = "dead", !.t = "wire",
                                                  !.ack = FALSE]]
        /\ UNCHANGED <<serving, agent, seen, saved, keys, prepared, bound>>

----------------------------------------------------------------------------
(* The destination's connection thread: handle_conn, KIND_MIGRATE.         *)

\* The thread decodes the frame and queues it for the main loop.
RecvPayload(a) ==
    /\ att[a].t = "wire"
    /\ serving[att[a].dst]
    /\ att' = [att EXCEPT ![a].t = "queued"]
    /\ UNCHANGED <<serving, agent, seen, saved, keys, prepared, bound>>

\* recv_timeout(5 s) expires; the payload stays in the main loop's channel.
GiveUp(a) ==
    /\ "wait5" \in Faults
    /\ att[a].t = "queued"
    /\ att' = [att EXCEPT ![a].t = "orphan"]
    /\ UNCHANGED <<serving, agent, seen, saved, keys, prepared, bound>>

\* Mutant: the end of the connection is taken for COMMIT.
RecvCommitAnyFrame(a) ==
    /\ att[a].t = "acked"
    /\ att' = [att EXCEPT ![a].t = "commit"]
    /\ UNCHANGED <<serving, agent, seen, saved, keys, prepared, bound>>

\* COMMIT arrived in time: ask the main loop to commit.
RecvCommit(a) ==
    /\ att[a].t = "acked"
    /\ att[a].s = "ok"
    /\ att' = [att EXCEPT ![a].t = "commit"]
    /\ UNCHANGED <<serving, agent, seen, saved, keys, prepared, bound>>

\* No COMMIT: the source closed the connection, or 8 s have passed.
NoCommit(a) ==
    /\ att[a].t = "acked"
    /\ att[a].s \in {"err", "dead"} \/ "commit8" \in Faults
    /\ att' = [att EXCEPT ![a].t = "abort"]
    /\ UNCHANGED <<serving, agent, seen, saved, keys, prepared, bound>>

----------------------------------------------------------------------------
(* The destination's main loop.  The channels are FIFO, but the threads    *)
(* that fill them are not synchronised with one another, so any waiting    *)
(* entry may be the next one.                                              *)

\* seen, or else the durable record.
LastSeen(n) == IF seen[n] # 0 THEN seen[n] ELSE saved[n]

\* Mutant: any epoch is accepted.
AdmitsAnyEpoch(n, a) ==
    /\ Mounted(n) => seen[n] # 0
    /\ keys[n] \in {NoNode, att[a].src}
    /\ n \in Fit

\* Mutant: a copy already mounted does not matter.
AdmitsOverMounted(n, a) ==
    /\ keys[n] \in {NoNode, att[a].src}
    /\ att[a].epoch > LastSeen(n)
    /\ n \in Fit

\* The checks of process_migrate on a genuine payload.  (Signatures and the
\* handoff's fields agree by construction of the payload, and an agent's
\* uuid is never a reserved id.)
Admits(n, a) ==
    /\ Mounted(n) => seen[n] # 0
    /\ keys[n] \in {NoNode, att[a].src}
    /\ att[a].epoch > LastSeen(n)
    /\ n \in Fit

Waiting(a) ==
    /\ att[a].t \in {"queued", "orphan"}
    /\ serving[att[a].dst]

\* process_migrate mounts the copy suspended, over whatever copy is there;
\* the thread, if it still waits, sends the ACK.
Prepare(a) ==
    LET n == att[a].dst IN
    /\ Waiting(a)
    /\ Admits(n, a)
    /\ agent' = [agent EXCEPT ![n] = [st |-> "suspended", epoch |-> att[a].epoch]]
    /\ keys' = [keys EXCEPT ![n] = att[a].src]
    /\ prepared' = [prepared EXCEPT ![n] = a]
    /\ att' = IF att[a].t = "queued"
              THEN [att EXCEPT ![a] = [@ EXCEPT !.t = "acked", !.ack = TRUE]]
              ELSE [att EXCEPT ![a].t = "over"]
    /\ UNCHANGED <<serving, seen, saved, bound>>

\* process_migrate refuses; the thread closes the connection without an ACK.
Refuse(a) ==
    /\ Waiting(a)
    /\ ~ Admits(att[a].dst, a)
    /\ att' = [att EXCEPT ![a].t = "over"]
    /\ UNCHANGED <<serving, agent, seen, saved, keys, prepared, bound>>

\* commit_migrated: the entry names the agent, not the attempt.
CommitMigrated(a) ==
    LET n == att[a].dst
        e == agent[n].epoch
    IN  /\ att[a].t = "commit"
        /\ serving[n]
        /\ att' = [att EXCEPT ![a].t = "over"]
        /\ IF agent[n].st = "suspended"
           THEN /\ agent' = [agent EXCEPT ![n].st = "active"]
                /\ seen' = [seen EXCEPT ![n] = e]
                /\ saved' = IF n \in Durable
                            THEN [saved EXCEPT ![n] = e] ELSE saved
                /\ prepared' = [prepared EXCEPT ![n] = 0]
                /\ bound' = IF prepared[n] # 0
                            THEN bound \cup {[node |-> n, epoch |-> e,
                                  handoff |-> HandoffOf(prepared[n])]}
                            ELSE bound
                /\ UNCHANGED <<serving, keys>>
           ELSE UNCHANGED <<serving, agent, seen, saved, keys, prepared, bound>>

\* abort_prepared: likewise.
AbortPrepared(a) ==
    LET n == att[a].dst IN
    /\ att[a].t = "abort"
    /\ serving[n]
    /\ att' = [att EXCEPT ![a].t = "over"]
    /\ IF agent[n].st = "suspended"
       THEN /\ agent' = [agent EXCEPT ![n] = NoCopy]
            /\ prepared' = [prepared EXCEPT ![n] = 0]
            /\ UNCHANGED <<serving, seen, saved, keys, bound>>
       ELSE UNCHANGED <<serving, agent, seen, saved, keys, prepared, bound>>

----------------------------------------------------------------------------
(* The node as a whole.                                                    *)

\* The operator starts the serve loop (fresh channels and listener).
StartServe(n) ==
    /\ ~ serving[n]
    /\ ~ Migrating(n)
    /\ serving' = [serving EXCEPT ![n] = TRUE]
    /\ UNCHANGED <<agent, seen, saved, keys, prepared, att, bound>>

OpenAt(n, a) == att[a].dst = n /\ att[a].t \notin {"unused", "over"}

\* What is left of the attempts towards n when its channels are dropped: a
\* thread's later sends into them fail and are ignored.  (An ACK already sent
\* may still arrive.)
ChannelsDropped(n, f) ==
    [a \in Attempts |-> IF OpenAt(n, a) THEN [f[a] EXCEPT !.t = "over"] ELSE f[a]]

\* The shutdown flag ends the serve loop: at a quiet moment, or at any moment
\* when "stop" is a fault of this instance.  The node's maps live on.
StopServe(n) ==
    /\ serving[n]
    /\ "stop" \in Faults \/ \A a \in Attempts : ~ OpenAt(n, a)
    /\ serving' = [serving EXCEPT ![n] = FALSE]
    /\ att' = ChannelsDropped(n, att)
    /\ UNCHANGED <<agent, seen, saved, keys, prepared, bound>>

\* A message from the live agent's host reaches another node, whose authorize
\* pins the sender's key on first use (and drops a message under another key).
Message(n, m) ==
    /\ n # m
    /\ Active(n)
    /\ serving[n] /\ serving[m]
    /\ keys[m] = NoNode
    /\ keys' = [keys EXCEPT ![m] = n]
    /\ UNCHANGED <<serving, agent, seen, saved, prepared, att, bound>>

\* The process dies.  Only the store survives; a mobile agent is not
\* mounted again by a restart.
Crash(n) ==
    /\ "crash" \in Faults
    /\ serving' = [serving EXCEPT ![n] = FALSE]
    /\ agent' = [agent EXCEPT ![n] = NoCopy]
    /\ seen' = [seen EXCEPT ![n] = 0]
    /\ keys' = [keys EXCEPT ![n] = NoNode]
    /\ prepared' = [prepared EXCEPT ![n] = 0]
    /\ att' = ChannelsDropped(n,
                [a \in Attempts |->
                    IF att[a].src = n /\ att[a].s = "waiting"
                    THEN [att[a] EXCEPT !.s = "dead"] ELSE att[a]])
    /\ UNCHANGED <<saved, bound>>

\* The steps of one attempt, at either end.
AttemptStep(a) ==
    \/ Migrate(a) \/ Replay(a) \/ RecvAck(a) \/ SendFailed(a)
    \/ RecvPayload(a) \/ GiveUp(a) \/ RecvCommit(a) \/ NoCommit(a)
    \/ Prepare(a) \/ Refuse(a) \/ CommitMigrated(a) \/ AbortPrepared(a)

\* The steps of a node as a whole.
NodeStep(n) ==
    \/ StartServe(n) \/ StopServe(n) \/ Crash(n)
    \/ \E m \in Nodes : Message(n, m)

Next ==
    \/ \E a \in Attempts : AttemptStep(a)
    \/ \E n \in Nodes : NodeStep(n)

Spec == Init /\ [][Next]_vars

\* The scheduling the code has: every blocking call of the source and of the
\* connection thread has a timeout, and the serve loop drains its channels on
\* every turn.  Nothing makes a frame arrive or the operator act.
Fairness ==
    \A a \in Attempts :
        /\ WF_vars(RecvAck(a) \/ SendFailed(a))
        /\ WF_vars(RecvCommit(a) \/ NoCommit(a))
        /\ WF_vars(Prepare(a) \/ Refuse(a))
        /\ WF_vars(CommitMigrated(a) \/ AbortPrepared(a))

LiveSpec == Spec /\ Fairness

----------------------------------------------------------------------------
(* Properties.                                                             *)

TypeOK ==
    /\ serving \in [Nodes -> BOOLEAN]
    /\ agent \in [Nodes -> Copies]
    /\ seen \in [Nodes -> Nat]
    /\ saved \in [Nodes -> Nat]
    /\ keys \in [Nodes -> Nodes \cup {NoNode}]
    /\ prepared \in [Nodes -> Attempts \cup {0}]
    /\ att \in [Attempts -> AttemptRecs]
    /\ bound \in SUBSET Binds

\* The agent is live on at most one node, whatever is lost, late or crashed
\* (migrate's "no double execution / fork", serve step 3b').
NoFork == \A m, n \in Nodes : Active(m) /\ Active(n) => m = n

\* The right to run the agent: a node where it is active, a source that has
\* suspended it and will resume it on failure, or an attempt whose COMMIT is
\* still on its way to the destination's commit_migrated.
Undecided(a) == att[a].s = "waiting"
Committing(a) == att[a].s = "ok" /\ att[a].t \in {"acked", "commit"}

\* The right to run is never held twice.  This is the inductive form of NoFork:
\* a source that waits, or a COMMIT on its way, excludes every live copy.
OneToken ==
    /\ NoFork
    /\ \A a, b \in Attempts :
          (Undecided(a) \/ Committing(a)) /\ (Undecided(b) \/ Committing(b)) => a = b
    /\ \A a \in Attempts, n \in Nodes : Active(n) => ~ Undecided(a) /\ ~ Committing(a)
    /\ \A a \in Attempts :
          /\ att[a].t = "commit" => att[a].s = "ok"
          /\ att[a].t \in {"wire", "queued", "orphan"} => ~ att[a].ack /\ att[a].s # "ok"

\* A copy waiting at its destination is newer than every epoch the node has
\* committed, in memory or durably: a replayed payload is never mounted, also
\* not after a restart has wiped the in-memory record (process_migrate: "a
\* captured payload cannot re-mount after a restart wiped `seen`").
ReplayGuard ==
    \A n \in Nodes :
        agent[n].st = "suspended" /\ ~ Migrating(n)
           => agent[n].epoch > seen[n] /\ agent[n].epoch > saved[n]

\* The facts about the loop and the store that make ReplayGuard inductive.
GuardInv ==
    /\ ReplayGuard
    /\ \A n \in Nodes :
          /\ Migrating(n) => ~ serving[n]
          /\ n \in Durable /\ seen[n] # 0 => seen[n] = saved[n]
          /\ n \notin Durable => saved[n] = 0

\* What makes the copies of the agent one agent: it is well formed, the right to
\* run it is never held twice, so that it is live on at most one node and an
\* abandoned copy never wakes (migrate: "the destination never activates without
\* our COMMIT"), and what a node has committed is never mounted there again.
MigrationSafe == TypeOK /\ OneToken /\ ReplayGuard

\* Each commit takes the node strictly past every epoch it has committed, and
\* the durable record never goes back, across crashes and restarts.
CommitStep ==
    \A n \in Nodes :
        /\ saved'[n] >= saved[n]
        /\ agent[n].st = "suspended" /\ agent'[n].st = "active" /\ ~ Migrating(n)
              => seen'[n] > seen[n] /\ seen'[n] > saved[n]

CommitAdvances == [][CommitStep]_vars

\* The agent is still somewhere it can run from: live, held by a source that
\* will resume it, or prepared where its COMMIT is going.
NoLoss ==
    \/ \E n \in Nodes : Active(n)
    \/ \E a \in Attempts : Undecided(a)
    \/ \E a \in Attempts : Committing(a) /\ agent[att[a].dst].st = "suspended"

\* A copy that its source has given up, with nothing left in the destination's
\* channels, has left no trace: the node does not hold a suspended copy that
\* no attempt can commit or abort (abort_prepared: "leaving no trace, so a
\* clean retry can prepare again").
NoStrandedCopy ==
    \A n \in Nodes :
        agent[n].st = "suspended" /\ ~ Migrating(n)
           => \E a \in Attempts : OpenAt(n, a) /\ att[a].t # "wire"

\* A move that has started ends with the agent live again, at the source or at
\* the destination.
MoveEnds == \A a \in Attempts : Undecided(a) ~> \E n \in Nodes : Active(n)
=============================================================================
