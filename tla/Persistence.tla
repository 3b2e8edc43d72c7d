---------------------------- MODULE Persistence ----------------------------
(***************************************************************************)
(* persistence/: the manager that stores snapshots of agents in memory or  *)
(* in files, its background task, and the engine that builds a recovery    *)
(* state from what is stored.  A snapshot's contents are abstracted to the *)
(* agent it is of, the second its state was read in and the conversations  *)
(* with it.  In memory a name has a list of its own; on disk it has the    *)
(* directory of its sanitized name, which other names may share.           *)
(*                                                                         *)
(* The manager's calls hold the counter's or the storage's lock from their *)
(* first change to their last, so each is one action.  What they store was *)
(* read before: the background task reads an agent's state and then waits  *)
(* for the locks, and so does whoever passes a state to snapshot_agent;    *)
(* that is a step of its own.  A file is not written atomically: a crash,  *)
(* or an error of the disk, may leave one that cannot be read.  The clock  *)
(* counts seconds and never goes back.                                     *)
(***************************************************************************)
EXTENDS Protocols, Maps, SequencesExt

CONSTANTS
  Hosted,           \* the names of the agents
  Filename,         \* Filename[a]: sanitize_filename of a name
  Callers,          \* the concurrent callers of snapshot_agent
  MaxSnapshots,     \* max_snapshots_per_agent
  StaleAfter,       \* STALE_THRESHOLD, in ticks of the clock
  Talks,            \* <<protocol, state>> of the conversations passed to snapshot_agent
  MaxClock,         \* bound on the clock
  MaxTaken          \* bound on the stores made

\* Sanitizing replaces each character that is not alphanumeric, "-" or "_" by "_": it leaves a
\* sanitized name as it is, and gives "x@p" and "x.p" the same one.
ASSUME PersistenceAssumption ==
  /\ DOMAIN Filename = Hosted
  /\ \A a \in Hosted : Filename[a] \in Hosted => Filename[Filename[a]] = Filename[a]
  /\ MaxSnapshots \in Nat \ {0} /\ StaleAfter \in Nat
  /\ \A t \in Talks : t[1] \in Kinds /\ t[2] \in States[t[1]]
  /\ MaxClock \in Nat /\ MaxTaken \in Nat

VARIABLES
  mode,             \* "file", "memory", or "off" (enabled = false)
  clock,
  stored,           \* stored[d]: the snapshots in place d (a name's list, or a directory)
  platform,         \* the platform snapshot: "none", "saved" or "torn"
  services,         \* the saved service registrations
  under,            \* under[w]: <<>>, or <<agent, second its state was read in>>, of the store
                    \* that the background task or a caller has under way
  taken,            \* number of stores made (it names the snapshots)
  engine,           \* RecoveryEngine: the snapshots and the platform it was given
  recovery,         \* what recover returned, until the next call
  acked             \* acked[d]: what the last report of snapshot_agent promised of place d

pvars == <<mode, clock, stored, platform, services, under, taken, engine, recovery,
           acked>>

Writers == Callers \cup {"task"}

\* Where a name's snapshots are: agent_snapshots[name], or agent_dir(name).
Places == Hosted \cup Range(Filename)
Place(a) == IF mode = "file" THEN Filename[a] ELSE a

NoSnapshot == [name |-> 0]
NoRecovery == [result |-> "none"]
Never == MaxClock + 1        \* no second
NoPromise == [at |-> Never, read |-> 0]
Disabled == 0        \* SnapshotId::disabled, the id every metadata keeps

\* A snapshot: its name (timestamp and random suffix; a number here), the agent, the second it
\* was taken in, the second its state was read in, its conversations, and whether its file can
\* be read.
\* The metadata made by SnapshotMetadata::now carries no id of its own and no checksum; the
\* background task passes no conversations.
AgentSnapshot(w, readable) ==
  [name |-> taken + 1, id |-> Disabled, agent |-> under[w][1], at |-> clock, read |-> under[w][2],
   talks |-> {[kind |-> t[1], state |-> t[2], last |-> under[w][2]] :
                t \in IF w = "task" THEN {} ELSE Talks},
   readable |-> readable]

PInit ==
  /\ mode \in {"file", "memory", "off"}
  /\ clock = 0
  /\ stored = [d \in Places |-> <<>>]
  /\ platform = "none"
  /\ services = {}
  /\ under = [w \in Writers |-> <<>>]
  /\ taken = 0
  /\ engine = [platform |-> FALSE, agents |-> [a \in Hosted |-> NoSnapshot], services |-> {}]
  /\ recovery = NoRecovery
  /\ acked = [d \in Places |-> NoPromise]

-----------------------------------------------------------------------------
(* The two storages *)

\* Memory: push, then a stable sort by created_at, newest first (the list is sorted already).
\* Files: one more file.
Store(list, s) ==
  IF mode = "memory"
  THEN Retained(list, {t \in Range(list) : t.at >= s.at}) \o <<s>>
         \o Retained(list, {t \in Range(list) : t.at < s.at})
  ELSE Append(list, s)

\* The readable files are listed newest first, those of one second in the directory's order,
\* which sort_by keeps: the files listed before file i.
ListedBefore(list, i) ==
  {j \in DOMAIN list : /\ list[j].readable
                       /\ list[j].at > list[i].at \/ (list[j].at = list[i].at /\ j < i)}

\* Mutant: the oldest are kept and the newest go.
CleanupKeepsOldest(list) == SubSeq(list, 1 + Len(list) - Min({Len(list), MaxSnapshots}), Len(list))

\* Memory: truncate.  Files: delete, by the id in its metadata, each snapshot past the limit.
Cleanup(list) ==
  IF mode = "memory"
  THEN SubSeq(list, 1, Min({Len(list), MaxSnapshots}))
  ELSE LET past == {i \in DOMAIN list : /\ list[i].readable
                                         /\ Cardinality(ListedBefore(list, i)) >= MaxSnapshots}
           excess == {list[i].id : i \in past}
       IN  Retained(list, {t \in Range(list) : t.name \notin excess})

\* What get_latest_agent_snapshot may return: the first of the list, or a file whose name has
\* the greatest timestamp (of several, whichever the directory lists first).
Latest(list) ==
  IF list = <<>> THEN {NoSnapshot}
  ELSE IF mode = "memory" THEN {Head(list)}
  ELSE {s \in Range(list) : \A t \in Range(list) : t.at <= s.at}

-----------------------------------------------------------------------------
ClockTicks ==
  /\ clock < MaxClock
  /\ clock' = clock + 1
  /\ UNCHANGED <<mode, stored, platform, services, under, taken, engine, acked>>
  /\ recovery' = NoRecovery

-----------------------------------------------------------------------------
(* The manager *)

Put(d, s) == [stored EXCEPT ![d] = Cleanup(Store(@, s))]

\* The background task has read the state of the next agent (get_agent_state), or a caller has
\* the state it passes to snapshot_agent; where persistence is off neither goes any further.
ReadsState(w, a) ==
  /\ under[w] = <<>>
  /\ under' = IF mode = "off" THEN under ELSE [under EXCEPT ![w] = <<a, clock>>]
  /\ UNCHANGED <<mode, clock, stored, platform, services, taken, engine, acked>>
  /\ recovery' = NoRecovery

\* The states that are stored in place d at one time, as far as its snapshots tell: those of the
\* stores under way, and of the snapshots of the present second.
Rivals(d) ==
  {under[w][2] : w \in {w \in Writers : under[w] # <<>> /\ Place(under[w][1]) = d}}
    \cup {s.read : s \in {s \in Range(stored[d]) : s.at = clock}}

\* When the locks are free, a call stores what it was given.  It reports the id only when both
\* the store and the cleanup succeeded: a snapshot of this second, and a state that is not older
\* than any that is stored at the same time.
SnapshotAgent(c) ==
  /\ under[c] # <<>> /\ taken < MaxTaken
  /\ LET d == Place(under[c][1])
     IN  /\ stored' = Put(d, AgentSnapshot(c, TRUE))
         /\ acked' = [acked EXCEPT ![d] = [at |-> clock, read |-> Min(Rivals(d))]]
  /\ taken' = taken + 1
  /\ under' = [under EXCEPT ![c] = <<>>]
  /\ UNCHANGED <<mode, clock, platform, services, engine>>
  /\ recovery' = NoRecovery

\* The task stores what it read.
BackgroundStores ==
  /\ under["task"] # <<>> /\ taken < MaxTaken
  /\ stored' = Put(Place(under["task"][1]), AgentSnapshot("task", TRUE))
  /\ taken' = taken + 1
  /\ under' = [under EXCEPT !["task"] = <<>>]
  /\ UNCHANGED <<mode, clock, platform, services, engine, acked>>
  /\ recovery' = NoRecovery

\* A store or its cleanup fails, and nothing is reported: there is no file, half of one, or a
\* whole one that was not cleaned up after.
SnapshotFails(w) ==
  /\ mode = "file" /\ under[w] # <<>>
  /\ \/ UNCHANGED <<stored, taken>>
     \/ /\ taken < MaxTaken
        /\ \E readable \in BOOLEAN :
             stored' = [stored EXCEPT ![Place(under[w][1])] = Store(@, AgentSnapshot(w, readable))]
        /\ taken' = taken + 1
  /\ under' = [under EXCEPT ![w] = <<>>]
  /\ UNCHANGED <<mode, clock, platform, services, engine, acked>>
  /\ recovery' = NoRecovery

\* abort takes effect at an await: before the store, or after it and before the cleanup.
StopBackground ==
  /\ under["task"] # <<>>
  /\ under' = [under EXCEPT !["task"] = <<>>]
  /\ \/ UNCHANGED <<stored, taken>>
     \/ /\ mode = "file" /\ taken < MaxTaken
        /\ stored' = [stored EXCEPT ![Place(under["task"][1])] =
                        Store(@, AgentSnapshot("task", TRUE))]
        /\ taken' = taken + 1
  /\ UNCHANGED <<mode, clock, platform, services, engine, acked>>
  /\ recovery' = NoRecovery

\* The snapshot is looked for by its id in every place.  Deleting one ends what was promised of
\* that second and the earlier ones: a newer snapshot of the same second may have been cleaned
\* up in favour of the deleted one.
DeleteSnapshot(d, s) ==
  /\ mode # "off"
  /\ stored' = [stored EXCEPT ![d] = Retained(@, {t \in Range(@) : t.name # s.name})]
  /\ acked' = [acked EXCEPT ![d] = IF @.at <= s.at THEN NoPromise ELSE @]
  /\ UNCHANGED <<mode, clock, platform, services, under, taken, engine>>
  /\ recovery' = NoRecovery

\* save_platform_state: the file is overwritten in place.
SavePlatform ==
  /\ mode # "off" /\ taken < MaxTaken
  /\ platform' \in IF mode = "file" THEN {"saved", "torn"} ELSE {"saved"}
  /\ taken' = taken + 1
  /\ UNCHANGED <<mode, clock, stored, services, under, engine, acked>>
  /\ recovery' = NoRecovery

SaveServices ==
  /\ mode # "off" /\ taken < MaxTaken
  /\ services' \in {{}, {"service"}}
  /\ taken' = taken + 1
  /\ UNCHANGED <<mode, clock, stored, platform, under, engine, acked>>
  /\ recovery' = NoRecovery

\* The process ends and starts again: files stay (SnapshotFails is the write that was cut off).
Crash ==
  /\ under' = [w \in Writers |-> <<>>]
  /\ engine' = [platform |-> FALSE, agents |-> [a \in Hosted |-> NoSnapshot], services |-> {}]
  /\ recovery' = NoRecovery
  /\ IF mode = "file" THEN UNCHANGED <<stored, platform, services, acked>>
     ELSE /\ stored' = [d \in Places |-> <<>>]
          /\ platform' = "none"
          /\ services' = {}
          /\ acked' = [d \in Places |-> NoPromise]
  /\ UNCHANGED <<mode, clock, taken>>

-----------------------------------------------------------------------------
(* Recovery *)

\* Mutant: an accepted proposal is counted as an end as well.
IsTerminalAccepted(state) ==
  state \in {"completed", "failed", "cancelled", "done", "finished", "rejected", "refused",
             "accepted"}

\* The words are looked for inside the state's name; none of the protocols' names holds one
\* without being it.
IsTerminalState(state) ==
  state \in {"completed", "failed", "cancelled", "done", "finished", "rejected", "refused"}

IsStale(conv) == clock - conv.last > StaleAfter

AnalyzeConversation(conv) ==
  [conv |-> conv, resume |-> ~IsTerminalState(conv.state) /\ ~IsStale(conv)]

\* recover_agent never refuses: no name is empty and no metadata has a checksum.
BuildRecoveryState(e) ==
  LET found == {a \in Hosted : e.agents[a] # NoSnapshot}
  IN  [result |-> "ok", at |-> clock, platform |-> e.platform, services |-> e.services,
       agents |-> [a \in found |-> e.agents[a]],
       partial |-> {a \in found : \E c \in e.agents[a].talks : IsStale(c)},
       convs |-> UNION {{AnalyzeConversation(c) : c \in e.agents[a].talks} : a \in found}]

\* recover reads the platform, then the latest snapshot of each place (list_agents: the keys, or
\* the names of the directories) in some order, and gives up at the first it cannot read.  The
\* engine files each under the agent it is of and keeps what it was given, from earlier calls
\* too.  The saved services are not among it.
Recover ==
  \E pick \in [Places -> UNION {Latest(stored[d]) : d \in Places}] :
    LET unreadable == {d \in Places : pick[d] # NoSnapshot /\ ~pick[d].readable}
        Given(D) == [engine EXCEPT
          !.platform = @ \/ platform = "saved",
          !.agents = [a \in Hosted |->
            LET s == pick[Place(a)]
            IN  IF Place(a) \in D /\ s # NoSnapshot /\ s.agent = a THEN s ELSE @[a]]]
    IN  /\ \A d \in Places : pick[d] \in Latest(stored[d])
        /\ IF mode = "off"
           THEN engine' = engine /\ recovery' = BuildRecoveryState(engine)
           ELSE IF platform = "torn"
           THEN engine' = engine /\ recovery' = [result |-> "failed"]
           ELSE IF unreadable # {}
           THEN /\ recovery' = [result |-> "failed"]
                /\ \E D \in SUBSET (Places \ unreadable) : engine' = Given(D)
           ELSE engine' = Given(Places) /\ recovery' = BuildRecoveryState(Given(Places))
        /\ UNCHANGED <<mode, clock, stored, platform, services, under, taken, acked>>

PNext ==
  \/ \E w \in Writers : SnapshotFails(w) \/ \E a \in Hosted : ReadsState(w, a)
  \/ \E c \in Callers : SnapshotAgent(c)
  \/ \E d \in Places : \E s \in Range(stored[d]) : DeleteSnapshot(d, s)
  \/ ClockTicks \/ BackgroundStores \/ StopBackground \/ SavePlatform \/ SaveServices
  \/ Crash \/ Recover

PSpec == PInit /\ [][PNext]_pvars

-----------------------------------------------------------------------------
\* Whatever was stored, aborted, torn or cleaned up in between, a recovery that succeeds gives
\* a snapshot of each place that snapshot_agent reported one in: none from an earlier second, and
\* none whose state is older than the reported one and all that were being stored with it, unless
\* someone deleted a snapshot of that second or a later one.  Where no other name has a's
\* directory, the place is a's own, and so is the snapshot.
RecoversTheAcknowledged ==
  [][recovery'.result = "ok" /\ mode # "off" =>
       \A d \in Places : acked[d] # NoPromise =>
         \E a \in Hosted : /\ Place(a) = d /\ a \in DOMAIN recovery'.agents
                           /\ recovery'.agents[a].at >= acked[d].at
                           /\ recovery'.agents[a].read >= acked[d].read]_pvars

\* Claim (storage.rs: "List all agents with snapshots"): every agent with a readable snapshot is
\* among those recovered.  Names that share a directory are listed as one.
RecoversEveryAgent ==
  recovery.result = "ok" =>
    \A a \in Hosted : (\E s \in Range(stored[Place(a)]) : s.agent = a /\ s.readable)
                        => a \in DOMAIN recovery.agents

\* A conversation its protocol can still advance, and that is not stale, is one that recovery
\* says can be resumed.
LiveConversationsResume ==
  recovery.result = "ok" =>
    \A r \in recovery.convs :
      ~r.resume => \/ recovery.at - r.conv.last > StaleAfter
                   \/ ~\E row \in Rows(r.conv.kind, TRUE) : row[1] = r.conv.state
=============================================================================
