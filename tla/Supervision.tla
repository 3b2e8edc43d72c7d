---------------------------- MODULE Supervision ----------------------------
(***************************************************************************)
(* The actor runtime's life cycle: the Supervisor's table of agents and    *)
(* its delayed restarts (actor/supervisor.rs), the life of an AgentActor   *)
(* (actor/agent_actor.rs) and the name table of the ActorRegistry          *)
(* (actor/registry.rs).                                                    *)
(*                                                                         *)
(* The three are actix actors: each has one mailbox, read in order, and a  *)
(* handler runs to its end before the next.  `supQ` and `regQ` are the     *)
(* mailboxes of the supervisor and of the registry; an agent's is reduced  *)
(* to whether a Shutdown waits in it and how many messages do.  Which      *)
(* actor runs next is left open.  Requests from outside (SpawnAgent,       *)
(* StopAgent, MigrateTo, DeliverMessage) carry no earlier state and are    *)
(* handled at any moment.  Everything is keyed by agent NAME, so events of *)
(* an instance that is gone may meet its successor.                        *)
(***************************************************************************)
EXTENDS Integers, Sequences, FiniteSets, SequencesExt

CONSTANTS
  Names,         \* agent names
  Delays,        \* restart delays, in units of `initial`: 1, 2, 4, ...
  MaxSpawns,     \* SpawnAgent requests that create an instance
  MaxStops,      \* StopAgent requests that find the agent
  MaxFailures,   \* runs of `init` that fail
  MaxMigrations, \* MigrateTo requests
  MaxMail        \* messages waiting in one agent's mailbox

ASSUME SupervisionAssumption ==
  /\ Delays \subseteq Nat \ {0}
  /\ 1 \in Delays
  /\ IsFiniteSet(Delays)
  /\ {MaxSpawns, MaxStops, MaxFailures, MaxMigrations, MaxMail} \subseteq Nat

VARIABLES
  agents,    \* Supervisor::agents: name -> NoEntry or its record
  insts,     \* the AgentActors ever started, in order
  supQ,      \* the supervisor's mailbox (SupervisionEvents)
  regQ,      \* the registry's mailbox
  registry,  \* ActorRegistry::local_agents: name -> 0 or an instance
  timers,    \* run_later closures that have not fired: sequence of [name, delay]
  up,        \* the supervisor has not been stopped
  used,      \* how often each bounded thing happened
  wanted,    \* history: the last request for a name that took effect was a spawn
  raced      \* history: an agent was spawned before its forerunner was done with

vars == <<agents, insts, supQ, regQ, registry, timers, up, used, wanted, raced>>

Life == {"starting", "running", "migrating", "stopped"}
NoEntry == [inst |-> 0]
Entry == [inst : Nat \ {0}, failures : Nat, current_backoff : Delays,
          state : {"starting", "running", "stopped", "failed"}]
Instance == [name : Names, life : Life, failed : BOOLEAN, bell : BOOLEAN, moving : BOOLEAN,
             mail : 0..MaxMail]
Event == [what : {"started", "stopped", "failed", "migrated"}, name : Names, inst : Nat]
Order == [what : {"register", "deregister"}, name : Names, inst : Nat]

Supervised(n) == agents[n] # NoEntry
Alive(i) == insts[i].life # "stopped"
InstancesOf(n) == {i \in DOMAIN insts : insts[i].name = n}
MaxDelay == CHOOSE d \in Delays : \A e \in Delays : e <= d

Init ==
  /\ agents = [n \in Names |-> NoEntry]
  /\ insts = <<>>
  /\ supQ = <<>>
  /\ regQ = <<>>
  /\ registry = [n \in Names |-> 0]
  /\ timers = <<>>
  /\ up = TRUE
  /\ used = [spawns |-> 0, stops |-> 0, failures |-> 0, migrations |-> 0]
  /\ wanted = [n \in Names |-> FALSE]
  /\ raced = [n \in Names |-> FALSE]

Count(k) == used' = [used EXCEPT ![k] = @ + 1]

----------------------------------------------------------------------------
(* The supervisor *)

\* What spawn_agent records: a new actor under the name, its failures forgotten and its
\* backoff at the first step.  The strategy is always the default, backoff, whatever the
\* configuration's restart_strategy says, so it is not part of the entry here.
NewEntry ==
  [inst |-> Len(insts) + 1, failures |-> 0, current_backoff |-> 1, state |-> "starting"]

NewInstance(n) ==
  [name |-> n, life |-> "starting", failed |-> FALSE, bell |-> FALSE, moving |-> FALSE,
   mail |-> 0]

\* spawn_agent(config): refuses a name that exists (no state changes), else starts an actor.
SpawnInto(table, n) ==
  IF table[n] # NoEntry
    THEN agents' = table /\ UNCHANGED insts
    ELSE /\ agents' = [table EXCEPT ![n] = NewEntry]
         /\ insts' = Append(insts, NewInstance(n))

\* Something of an earlier instance of the name is still under way.
Leftovers(n) ==
  \/ \E i \in InstancesOf(n) : Alive(i)
  \/ \E k \in DOMAIN supQ : supQ[k].name = n
  \/ \E k \in DOMAIN regQ : regQ[k].name = n
  \/ \E k \in DOMAIN timers : timers[k].name = n

SpawnAgent(n) ==
  /\ up /\ used.spawns < MaxSpawns
  /\ ~Supervised(n)
  /\ SpawnInto(agents, n)
  /\ wanted' = [wanted EXCEPT ![n] = TRUE]
  /\ raced' = [raced EXCEPT ![n] = @ \/ Leftovers(n)]
  /\ Count("spawns")
  /\ UNCHANGED <<supQ, regQ, registry, timers, up>>

\* Mutant: the actor is forgotten, not asked to stop.
StopAgentSilent(n) ==
  /\ up /\ used.stops < MaxStops
  /\ Supervised(n)
  /\ agents' = [agents EXCEPT ![n] = NoEntry]
  /\ wanted' = [wanted EXCEPT ![n] = FALSE]
  /\ Count("stops")
  /\ UNCHANGED <<insts, supQ, regQ, registry, timers, up, raced>>

\* stop_agent: the entry goes at once, the actor is asked to stop (a dead one hears nothing).
StopAgent(n) ==
  /\ up /\ used.stops < MaxStops
  /\ Supervised(n)
  /\ agents' = [agents EXCEPT ![n] = NoEntry]
  /\ insts' = [insts EXCEPT ![agents[n].inst].bell = Alive(agents[n].inst)]
  /\ wanted' = [wanted EXCEPT ![n] = FALSE]
  /\ Count("stops")
  /\ UNCHANGED <<supQ, regQ, registry, timers, up, raced>>

\* The next delay: doubled, up to `max`.
Backoff(d) == IF 2 * d \in Delays THEN 2 * d ELSE MaxDelay

\* handle_failure: the default strategy always restarts, later each time for one entry.
HandleFailure(n) ==
  IF Supervised(n)
    THEN /\ agents' = [agents EXCEPT ![n].failures = @ + 1, ![n].state = "failed",
                                     ![n].current_backoff = Backoff(@)]
         /\ timers' = Append(timers, [name |-> n, delay |-> agents[n].current_backoff])
    ELSE UNCHANGED <<agents, timers>>

\* The Handler of SupervisionEvent, by name: whichever instance the entry now holds.
HandleStarted(n) ==
  /\ agents' = IF Supervised(n) THEN [agents EXCEPT ![n].state = "running",
                                                    ![n].current_backoff = 1] ELSE agents
  /\ UNCHANGED timers

HandleStopped(n) ==
  /\ agents' = IF Supervised(n) THEN [agents EXCEPT ![n].state = "stopped"] ELSE agents
  /\ UNCHANGED timers

HandleMigrated(n) == agents' = [agents EXCEPT ![n] = NoEntry] /\ UNCHANGED timers

HandleEvent ==
  /\ up /\ supQ # <<>>
  /\ supQ' = Tail(supQ)
  /\ LET e == Head(supQ) IN
       \/ e.what = "started" /\ HandleStarted(e.name)
       \/ e.what = "stopped" /\ HandleStopped(e.name)
       \/ e.what = "failed" /\ HandleFailure(e.name)
       \/ e.what = "migrated" /\ HandleMigrated(e.name)
  /\ UNCHANGED <<insts, regQ, registry, up, used, wanted, raced>>

\* Mutant: the failed entry is left in place, and spawn_agent refuses its name.
RespawnWedged(n) ==
  IF Supervised(n) THEN SpawnInto(agents, n) ELSE UNCHANGED <<agents, insts>>

\* The closure of run_later: whatever entry has the name is removed and its configuration
\* spawned anew, which the wasm runtime may refuse; without an entry nothing happens.
Respawn(n) ==
  IF Supervised(n)
    THEN \/ SpawnInto([agents EXCEPT ![n] = NoEntry], n)
         \/ agents' = [agents EXCEPT ![n] = NoEntry] /\ UNCHANGED insts
    ELSE UNCHANGED <<agents, insts>>

RestartTimer(k) ==
  /\ up /\ k \in DOMAIN timers
  /\ \A j \in 1..(k - 1) : timers[j].delay > timers[k].delay  \* the earlier set, not longer, is first
  /\ Respawn(timers[k].name)
  /\ timers' = RemoveAt(timers, k)
  /\ UNCHANGED <<supQ, regQ, registry, up, used, wanted, raced>>

\* Supervisor::stopping: every supervised agent is asked to stop; timers and mailbox go with it.
SupervisorStopping ==
  /\ up
  /\ up' = FALSE
  /\ insts' = [i \in DOMAIN insts |->
                 [insts[i] EXCEPT !.bell = @ \/ (Alive(i) /\ agents[insts[i].name].inst = i)]]
  /\ timers' = <<>>
  /\ supQ' = <<>>
  /\ UNCHANGED <<agents, regQ, registry, used, wanted, raced>>

----------------------------------------------------------------------------
(* An agent actor *)

\* notify_supervisor: lost when the supervisor is gone.
Notify(i, whats) ==
  supQ' = IF up THEN supQ \o [k \in DOMAIN whats |->
                                 [what |-> whats[k], name |-> insts[i].name, inst |-> i]]
                ELSE supQ

TellRegistry(i, whats) ==
  regQ' = regQ \o [k \in DOMAIN whats |-> [what |-> whats[k], name |-> insts[i].name, inst |-> i]]

\* AgentActor::started with an `init` that succeeds.
Started(i) ==
  /\ insts[i].life = "starting"
  /\ insts' = [insts EXCEPT ![i].life = "running"]
  /\ Notify(i, <<"started">>)
  /\ TellRegistry(i, <<"register">>)
  /\ UNCHANGED <<agents, registry, timers, up, used, wanted, raced>>

\* What `stopping` does, after the events in `before`: deregister, then report.
Stopping(i, before) ==
  /\ TellRegistry(i, <<"deregister">>)
  /\ Notify(i, Append(before, "stopped"))

Dead(i) == [insts[i] EXCEPT !.life = "stopped", !.bell = FALSE, !.moving = FALSE, !.mail = 0]

\* AgentActor::started with an `init` that fails: Failed, ctx.stop(), and so `stopping`.
InitFails(i) ==
  /\ used.failures < MaxFailures
  /\ insts[i].life = "starting"
  /\ insts' = [insts EXCEPT ![i] = [Dead(i) EXCEPT !.failed = TRUE]]
  /\ Stopping(i, <<"failed">>)
  /\ Count("failures")
  /\ UNCHANGED <<agents, registry, timers, up, wanted, raced>>

Stops(i) ==
  /\ insts' = [insts EXCEPT ![i] = Dead(i)]
  /\ Stopping(i, <<>>)
  /\ UNCHANGED <<agents, registry, timers, up, used, wanted, raced>>

\* The Shutdown message; `started` has run before any message is read.
Shutdown(i) ==
  /\ insts[i].bell /\ insts[i].life \in {"running", "migrating"}
  /\ Stops(i)

\* The 10 ms tick of a running agent: the whole mailbox, then `run`, which may ask to stop.
Tick(i) ==
  /\ insts[i].life = "running" /\ insts[i].mail > 0
  /\ insts' = [insts EXCEPT ![i].mail = 0]
  /\ UNCHANGED <<agents, supQ, regQ, registry, timers, up, used, wanted, raced>>

RunEnds(i) ==
  /\ insts[i].life = "running"
  /\ Stops(i)

\* The supervisor's DeliverMessage for a supervised name; a dead actor's mail is lost.
Deliver(n) ==
  /\ up /\ Supervised(n)
  /\ LET i == agents[n].inst IN
       /\ Alive(i) /\ insts[i].mail < MaxMail
       /\ insts' = [insts EXCEPT ![i].mail = @ + 1]
  /\ UNCHANGED <<agents, supQ, regQ, registry, timers, up, used, wanted, raced>>

\* MigrateTo: the state is captured and the rest awaits, the agent not ticking; a capture
\* that fails leaves it running, whatever another request still awaits.
MigrateTo(i) ==
  /\ used.migrations < MaxMigrations
  /\ insts[i].life \in {"running", "migrating"}
  /\ \/ insts' = [insts EXCEPT ![i].life = "migrating", ![i].moving = TRUE]
     \/ insts' = [insts EXCEPT ![i].life = "running"]
  /\ Count("migrations")
  /\ UNCHANGED <<agents, supQ, regQ, registry, timers, up, wanted, raced>>

\* The future's continuation: with a network the agent has moved, without one it runs on.
Migrated(i) ==
  /\ insts[i].moving
  /\ insts' = [insts EXCEPT ![i] = Dead(i)]
  /\ Stopping(i, <<"migrated">>)
  /\ UNCHANGED <<agents, registry, timers, up, used, wanted, raced>>

MigrationFails(i) ==
  /\ insts[i].moving
  /\ insts' = [insts EXCEPT ![i].life = "running", ![i].moving = FALSE]
  /\ UNCHANGED <<agents, supQ, regQ, registry, timers, up, used, wanted, raced>>

----------------------------------------------------------------------------
(* The registry *)

\* RegisterActor and DeregisterActor, both by name.
HandleOrder ==
  /\ regQ # <<>>
  /\ regQ' = Tail(regQ)
  /\ LET o == Head(regQ) IN
       \/ o.what = "register" /\ registry' = [registry EXCEPT ![o.name] = o.inst]
       \/ o.what = "deregister" /\ registry' = [registry EXCEPT ![o.name] = 0]
  /\ UNCHANGED <<agents, insts, supQ, timers, up, used, wanted, raced>>

----------------------------------------------------------------------------
AgentStep(i) ==
  \/ Started(i) \/ InitFails(i) \/ Shutdown(i) \/ Tick(i) \/ RunEnds(i)
  \/ MigrateTo(i) \/ Migrated(i) \/ MigrationFails(i)

Request(n) ==
  \/ SpawnAgent(n)
  \/ StopAgent(n)
  \/ Deliver(n)

Next ==
  \/ \E n \in Names : Request(n)
  \/ HandleEvent
  \/ \E k \in DOMAIN timers : RestartTimer(k)
  \/ SupervisorStopping
  \/ \E i \in DOMAIN insts : AgentStep(i)
  \/ HandleOrder

Spec == Init /\ [][Next]_vars

\* The runtime polls every actor whose mailbox or timer is ready, and `init` returns.
MaxInstances == MaxSpawns + MaxFailures
Here(i, A) == i \in DOMAIN insts /\ A
Fair ==
  /\ WF_vars(HandleEvent)
  /\ WF_vars(\E k \in DOMAIN timers : RestartTimer(k))
  /\ WF_vars(HandleOrder)
  /\ \A i \in 1..MaxInstances :
       /\ WF_vars(Here(i, Started(i) \/ InitFails(i)))
       /\ WF_vars(Here(i, Shutdown(i)))
       /\ WF_vars(Here(i, Tick(i)))
       /\ WF_vars(Here(i, Migrated(i) \/ MigrationFails(i)))

FairSpec == Spec /\ Fair

----------------------------------------------------------------------------
(* Properties *)

Tracks(i) == i \in DOMAIN insts /\ agents[insts[i].name].inst = i

\* Where the last message about a name is in a mailbox, 0 if there is none.
LastAbout(q, n) ==
  LET about == {k \in DOMAIN q : q[k].name = n}
  IN  CHOOSE k \in about \cup {0} : \A j \in about : j <= k

\* What the registry will say of a name once it has read its mailbox.
Settled(n) ==
  LET k == LastAbout(regQ, n)
  IN  IF k = 0 THEN registry[n]
      ELSE IF regQ[k].what = "register" THEN regQ[k].inst ELSE 0

\* Every variable keeps its type, and a restart delay stays one of the steps up to `max`.
TypeOK ==
  /\ agents \in [Names -> Entry \cup {NoEntry}]
  /\ insts \in Seq(Instance)
  /\ supQ \in Seq(Event)
  /\ regQ \in Seq(Order)
  /\ registry \in [Names -> 0..Len(insts)]
  /\ timers \in Seq([name : Names, delay : Delays])
  /\ up \in BOOLEAN
  /\ used \in [{"spawns", "stops", "failures", "migrations"} -> Nat]
  /\ wanted \in [Names -> BOOLEAN]
  /\ raced \in [Names -> BOOLEAN]

\* No live actor escapes supervision: it is the one in the table, or it has been told to stop.
\* (Unless it was spawned while something of its forerunner was under way.)
NoOrphan ==
  \A i \in DOMAIN insts :
    Alive(i) /\ ~raced[insts[i].name] => Tracks(i) \/ insts[i].bell

\* A pending restart never brings back an agent that was stopped for good (`stop_agent`).
StopSticks == \A n \in Names : Supervised(n) => wanted[n]

\* Once the events about a name are read, its entry says "running" just when its actor lives.
StateTruthful ==
  \A n \in Names :
    ( /\ up /\ Supervised(n) /\ ~raced[n]
      /\ \A k \in DOMAIN supQ : supQ[k].name # n
      /\ insts[agents[n].inst].life # "starting" )
    => (agents[n].state = "running" <=> Alive(agents[n].inst))

\* The registry's last word about a name is never an actor that has stopped.
NoDeadRegistered == \A n \in Names : Settled(n) # 0 => Alive(Settled(n))

\* An agent that has started can be looked up: the registry's last word is its actor.
LiveRegistered ==
  \A i \in DOMAIN insts :
    insts[i].life \in {"running", "migrating"} /\ ~raced[insts[i].name]
      => Settled(insts[i].name) = i

\* The supervisor's table, the registry and the actors agree, though each learns of the others
\* by messages that name an agent and not its instance: no orphan, no ghost, no return of an
\* agent that was stopped, and no name that leads nowhere.
SupervisionSafe ==
  /\ TypeOK /\ NoOrphan /\ StopSticks
  /\ StateTruthful /\ NoDeadRegistered /\ LiveRegistered

\* An agent whose `init` failed does not stay in the table: it is restarted, or it was stopped.
FailedRestarts ==
  \A i \in 1..MaxInstances :
    (Tracks(i) /\ insts[i].failed) ~> (~Tracks(i) \/ ~up)

\* A stop takes effect: after stop_agent, or the end of the supervisor, the actor ends.
StopEnds ==
  \A n \in Names :
    (~wanted[n] \/ ~up) ~> ((wanted[n] /\ up) \/ raced[n] \/ \A i \in InstancesOf(n) : ~Alive(i))

HasMail(i) == i \in DOMAIN insts /\ insts[i].mail > 0

\* A message queued at an actor is handled by a tick (process_mailbox), also when a migration
\* has failed in between, or ends with the actor.
MailHandled == \A i \in 1..MaxInstances : HasMail(i) ~> ~HasMail(i)

\* What was asked for comes to pass: a restart after a failure, an end after a stop, a tick for
\* a message.
SupervisionLive == FailedRestarts /\ StopEnds /\ MailHandled
=============================================================================
