----------------------------- MODULE Consensus -----------------------------
(***************************************************************************)
(* consensus/storage.rs and state.rs: the store openraft runs on (a log in *)
(* sled with a cache in memory, the directory of agents and services as    *)
(* the state machine, snapshots of it).                                    *)
(*                                                                         *)
(* openraft is external.  What it does is taken from how the store's trait *)
(* is called: it appends entries behind the last one the log has, deletes  *)
(* a tail that conflicts with the leader's, applies in order what is       *)
(* committed, installs a snapshot that is ahead of the state, purges what  *)
(* was applied, and asks the store for its log and state when it starts.   *)
(* An entry is one request; a batch is applied under one lock.             *)
(***************************************************************************)
EXTENDS Naturals, SequencesExt

CONSTANTS
  Nodes,            \* the members, 1 .. n (NodeId is a number)
  Commands,         \* the requests and entries that can be proposed
  MaxLog,           \* bound on the committed entries
  MaxTerm,          \* bound on the terms voted in
  MaxBuilt,         \* bound on the snapshots under way
  MaxRestarts       \* bound on the restarts

VARIABLES
  committed,        \* the entries the cluster committed (openraft's agreement)
  cache,            \* cache[n]: the log n's store answers from, index -> entry
  sled,             \* sled[n]: the log in the database, index -> entry
  state,            \* state[n]: ClusterState
  snapshots,        \* the snapshots built and under way to another node
  saved,            \* saved[n]: vote and committed index in the database, now and for sure
  restarts          \* how often a node has been restarted

rvars == <<committed, cache, sled, state, snapshots, saved, restarts>>

NoMeta == [vote |-> 0, committed |-> 0]
Blank == [op |-> "blank"]

-----------------------------------------------------------------------------
(* ClusterState *)

EmptyState == [agents |-> {}, services |-> {}, applied |-> 0, members |-> 0]

\* An offer carries the number of the node that applies it.
ApplyRequest(s, r, n) ==
  CASE r.op = "register" ->
         [s EXCEPT !.agents = {e \in @ : e.agent # r.agent} \cup {[agent |-> r.agent, node |-> r.node]}]
    [] r.op = "unregister" -> [s EXCEPT !.agents = {e \in @ : e.agent # r.agent}]
    [] r.op = "offer" ->
         [s EXCEPT !.services =
            {e \in @ : ~(e.type = r.type /\ e.provider = r.provider)}
              \cup {[type |-> r.type, provider |-> r.provider, node |-> n]}]
    [] r.op = "withdraw" ->
         [s EXCEPT !.services = {e \in @ : ~(e.type = r.type /\ e.provider = r.provider)}]
    [] OTHER -> s                     \* queries

\* apply_to_state_machine, one entry: the index is taken before the payload is looked at, so
\* an entry that cannot be decoded counts as applied.
ApplyEntry(s, i, e, n) ==
  LET t == [s EXCEPT !.applied = i]
  IN  CASE e.op \in {"blank", "undecodable"} -> t
        [] e.op = "membership" -> [t EXCEPT !.members = i]
        [] OTHER -> ApplyRequest(t, e, n)

-----------------------------------------------------------------------------
RInit ==
  /\ committed = <<>>
  /\ cache = [n \in Nodes |-> <<>>]
  /\ sled = [n \in Nodes |-> <<>>]
  /\ state = [n \in Nodes |-> EmptyState]
  /\ snapshots = {}
  /\ saved = [n \in Nodes |-> [now |-> NoMeta, safe |-> NoMeta]]
  /\ restarts = 0

WithoutAll(f, I) == [i \in DOMAIN f \ I |-> f[i]]
LastIndex(n) == Max({0} \cup DOMAIN cache[n])      \* get_log_state

-----------------------------------------------------------------------------
(* The log *)

\* openraft: a request is committed.
Commit(e) ==
  /\ Len(committed) < MaxLog
  /\ committed' = Append(committed, e)
  /\ UNCHANGED <<cache, sled, state, snapshots, saved, restarts>>

\* append_to_log, the next entry: behind the last one of the log, or behind the state when
\* the log holds nothing newer.  A leader that was deposed may have sent another entry (blank).
AppendToLog(n, e) ==
  LET i == 1 + Max({LastIndex(n), state[n].applied})
  IN  /\ i <= MaxLog
      /\ e \in (IF i <= Len(committed) THEN {committed[i]} ELSE {}) \cup {Blank}
      /\ sled' = [sled EXCEPT ![n] = [j \in DOMAIN @ \cup {i} |-> IF j = i THEN e ELSE @[j]]]
      /\ cache' = [cache EXCEPT ![n] = [j \in DOMAIN @ \cup {i} |-> IF j = i THEN e ELSE @[j]]]
      /\ UNCHANGED <<committed, state, snapshots, saved, restarts>>

\* delete_conflict_logs_since and purge_logs_upto: the indices to remove are those of the cache.
RemoveLogs(n, I) ==
  /\ cache' = [cache EXCEPT ![n] = WithoutAll(@, I)]
  /\ sled' = [sled EXCEPT ![n] = WithoutAll(@, I \cap DOMAIN cache[n])]
  /\ UNCHANGED <<committed, state, snapshots, saved, restarts>>

DeleteConflictLogsSince(n, i) ==
  /\ i \in DOMAIN cache[n] /\ i > state[n].applied
  /\ i <= Len(committed) => cache[n][i] # committed[i]
  /\ RemoveLogs(n, {j \in 1 .. MaxLog : j >= i})

PurgeLogsUpto(n, i) ==
  /\ i \in 1 .. state[n].applied /\ i \in DOMAIN cache[n]
  /\ RemoveLogs(n, 1 .. i)

\* Mutant: the entries are looked up by position in the log, which a purge shifts.
ApplyShifted(n, k) ==
  LET first == state[n].applied + 1
      From(i) == i + 1 - Min(DOMAIN cache[n] \cup {first})
  IN  /\ first <= k /\ k <= Len(committed)
      /\ \A i \in first .. k : i \in DOMAIN cache[n] /\ cache[n][i] = committed[i]
      /\ state' = [state EXCEPT ![n] =
           FoldLeft(LAMBDA s, i : ApplyEntry(s, i, committed[From(i)], n), @,
                    [j \in 1 .. k - first + 1 |-> first + j - 1])]
      /\ UNCHANGED <<committed, cache, sled, snapshots, saved, restarts>>

\* apply_to_state_machine: the committed entries up to k, read with try_get_log_entries.
ApplyToStateMachine(n, k) ==
  LET first == state[n].applied + 1
  IN  /\ first <= k /\ k <= Len(committed)
      /\ \A i \in first .. k : i \in DOMAIN cache[n] /\ cache[n][i] = committed[i]
      /\ state' = [state EXCEPT ![n] =
           FoldLeft(LAMBDA s, i : ApplyEntry(s, i, cache[n][i], n), @,
                    [j \in 1 .. k - first + 1 |-> first + j - 1])]
      /\ UNCHANGED <<committed, cache, sled, snapshots, saved, restarts>>

-----------------------------------------------------------------------------
(* Snapshots *)

\* build_snapshot and get_current_snapshot encode the state as it is.
BuildSnapshot(n) ==
  /\ state[n].applied > 0 /\ Cardinality(snapshots) < MaxBuilt
  /\ snapshots' = snapshots \cup {state[n]}
  /\ UNCHANGED <<committed, cache, sled, state, saved, restarts>>

\* install_snapshot replaces the state; the log is left alone.
InstallSnapshot(n, s) ==
  /\ s.applied > state[n].applied
  /\ state' = [state EXCEPT ![n] = s]
  /\ snapshots' \in {snapshots, snapshots \ {s}}      \* it may arrive again
  /\ UNCHANGED <<committed, cache, sled, saved, restarts>>

-----------------------------------------------------------------------------
(* The vote and the committed index in the database *)

\* save_vote inserts, and flushes the database before it returns.  openraft votes once in a
\* term, so the term stands for the vote.
SaveVote(n, t) ==
  /\ t > saved[n].now.vote
  /\ LET meta == [saved[n].now EXCEPT !.vote = t]
     IN  saved' = [saved EXCEPT ![n] = [now |-> meta, safe |-> meta]]
  /\ UNCHANGED <<committed, cache, sled, state, snapshots, restarts>>

\* save_committed inserts, or removes (0), and does not flush.
SaveCommitted(n, i) ==
  /\ saved' = [saved EXCEPT ![n].now.committed = i]
  /\ UNCHANGED <<committed, cache, sled, state, snapshots, restarts>>

\* The process ends and starts again: open finds the database, with or without what was not
\* flushed, and starts with an empty cache and an empty state.
RestartNode(n) ==
  /\ restarts < MaxRestarts
  /\ restarts' = restarts + 1
  /\ cache' = [cache EXCEPT ![n] = <<>>]
  /\ state' = [state EXCEPT ![n] = EmptyState]
  /\ \E meta \in {saved[n].now, saved[n].safe} :
       saved' = [saved EXCEPT ![n] = [now |-> meta, safe |-> meta]]
  /\ UNCHANGED <<committed, sled, snapshots>>

\* The log and the state; the metadata is a tree of its own in the database.
StoreNext ==
  \/ \E e \in Commands : Commit(e)
  \/ \E n \in Nodes, e \in Commands \cup {Blank} : AppendToLog(n, e)
  \/ \E n \in Nodes, i \in 1 .. MaxLog :
       \/ DeleteConflictLogsSince(n, i) \/ PurgeLogsUpto(n, i) \/ ApplyToStateMachine(n, i)
  \/ \E n \in Nodes : BuildSnapshot(n) \/ RestartNode(n)
  \/ \E n \in Nodes, s \in snapshots : InstallSnapshot(n, s)

MetaNext ==
  \/ \E n \in Nodes, t \in 1 .. MaxTerm : SaveVote(n, t)
  \/ \E n \in Nodes, i \in 0 .. MaxLog : SaveCommitted(n, i)
  \/ \E n \in Nodes : RestartNode(n)

RSpec == RInit /\ [][StoreNext \/ MetaNext]_rvars

-----------------------------------------------------------------------------
\* The agents and offers a node answers queries from (get_agent, get_services), less the
\* number of the node in an offer.
Shown(s) ==
  [agents |-> [f \in {e.agent : e \in {c \in Commands : c.op \in {"register", "unregister"}}} |->
     IF \E e \in s.agents : e.agent = f THEN (CHOOSE e \in s.agents : e.agent = f).node
     ELSE 0],
   offers |-> {<<e.type, e.provider>> : e \in s.services}]

Abstract == INSTANCE ReplicatedDirectory WITH
  Replicas <- Nodes, Requests <- Commands, agreed <- committed,
  at <- [n \in Nodes |-> state[n].applied], shown <- [n \in Nodes |-> Shown(state[n])]

\* Through appends, conflicts, purges, snapshots that arrive late and restarts, every node
\* shows the directory that the committed requests up to its last applied one define.
ImplementsDirectory == Abstract!Spec

\* The log is persistent: what is in the database is in the log the store answers from.
StoredLogSurvives == \A n \in Nodes : DOMAIN sled[n] \subseteq DOMAIN cache[n]

\* Two nodes that applied the same entries hold the same services.
ReplicasAgree ==
  \A n, o \in Nodes : state[n].applied = state[o].applied => state[n].services = state[o].services
=============================================================================
