----------------------------- MODULE Platform -----------------------------
(***************************************************************************)
(* platform/: the agent management system (ams.rs) and the directory       *)
(* facilitator (df.rs) of the actor system.                                *)
(*                                                                         *)
(* Each is an actor: its handlers run one at a time.  The AMS creates an   *)
(* agent by a message to the supervisor and registers it when the answer   *)
(* comes, so creations and other requests interleave; it stops one by a    *)
(* message it does not wait for.  The supervisor takes its mail in order   *)
(* (its own steps are module Supervision's); here it starts and stops.     *)
(***************************************************************************)
EXTENDS Integers, SequencesExt, Maps

CONSTANTS
  AgentNames,       \* the names "agent", "agent-1", ... that may be generated, in order
  Reserved,         \* reserved_names
  Owners,           \* owners and requesters
  MaxAgents,        \* max_agents (0 = unlimited)
  RequireAuth,      \* require_auth
  MaxCreations,     \* bound on the creations asked for
  Providers,        \* the agents that register services
  Offers,           \* the names of the services
  Versions,         \* the descriptions a service may have
  MaxPerAgent,      \* max_services_per_agent
  MaxTotal,         \* max_total_services (0 = unlimited)
  MaxSubscribed     \* bound on the notifications counted

ASSUME PlatformAssumption ==
  /\ MaxAgents \in Nat /\ RequireAuth \in BOOLEAN /\ MaxCreations \in Nat
  /\ MaxPerAgent \in Nat /\ MaxTotal \in Nat /\ MaxSubscribed \in Nat
  /\ IsFiniteSet(Offers)

VARIABLES
  agents,           \* AMS: the registrations
  creating,         \* AMS: the creations whose answer it awaits
  mail,             \* what the supervisor has not handled yet
  running,          \* the agents the supervisor runs
  created,          \* number of creations accepted
  destroyed,        \* the names a destruction was acknowledged for
  services,         \* DF: services[s], the registrations of service s
  agentServices,    \* DF: agentServices[a], the services a is known to have registered
  subscriptions,    \* DF: the subscribers and the service each one asks about
  notified          \* DF: notifications_sent

amsvars == <<agents, creating, mail, running, created, destroyed>>
dfvars == <<services, agentServices, subscriptions, notified>>

Names == Range(AgentNames) \union Reserved
None == "none"

-----------------------------------------------------------------------------
(* The AMS *)

AMSInit ==
  /\ agents = [n \in {"ams"} |-> [state |-> "Active", owner |-> None]]
  /\ creating = {}
  /\ mail = <<>>
  /\ running = {}
  /\ created = 0
  /\ destroyed = {}

\* Mutant: the name of an agent that was destroyed may be used again.
IsNameAvailableAgain(n) ==
  n \notin {m \in DOMAIN agents : agents[m].state # "Terminated"} \union Reserved

IsNameAvailable(n) == n \notin DOMAIN agents /\ n \notin Reserved

\* generate_unique_name: the first of agent, agent-1, agent-2, ... that is available.
GenerateUniqueName(n) ==
  \E i \in DOMAIN AgentNames :
    /\ n = AgentNames[i] /\ IsNameAvailable(n)
    /\ \A j \in 1 .. i - 1 : ~IsNameAvailable(AgentNames[j])

\* create_agent: an answer is given before the supervisor's is known.
CreateAgent(n, asked, owner) ==
  /\ created < MaxCreations
  /\ IF asked THEN IsNameAvailable(n) ELSE GenerateUniqueName(n)
  /\ MaxAgents = 0 \/ Cardinality(DOMAIN agents) < MaxAgents
  /\ created' = created + 1
  /\ creating' = creating \union {[id |-> created + 1, name |-> n, owner |-> owner, answered |-> FALSE]}
  /\ mail' = Append(mail, [op |-> "spawn", name |-> n, id |-> created + 1])
  /\ UNCHANGED <<agents, running, destroyed>>

\* The continuation registers the agent whatever the supervisor answered.
Register(c) ==
  /\ c.answered
  /\ agents' = With(agents, c.name, [state |-> "Active", owner |-> c.owner])
  /\ creating' = creating \ {c}
  /\ UNCHANGED <<mail, running, created, destroyed>>

DestroyAgent(n, requester) ==
  /\ n \in DOMAIN agents
  /\ RequireAuth => agents[n].owner \in {None, requester}
  /\ mail' = Append(mail, [op |-> "stop", name |-> n, id |-> 0])
  /\ agents' = [agents EXCEPT ![n].state = "Terminated"]
  /\ destroyed' = destroyed \union {n}
  /\ UNCHANGED <<creating, running, created>>

SuspendAgent(n) ==
  /\ n \in DOMAIN agents /\ agents[n].state = "Active"
  /\ agents' = [agents EXCEPT ![n].state = "Suspended"]
  /\ UNCHANGED <<creating, mail, running, created, destroyed>>

ResumeAgent(n) ==
  /\ n \in DOMAIN agents /\ agents[n].state = "Suspended"
  /\ agents' = [agents EXCEPT ![n].state = "Active"]
  /\ UNCHANGED <<creating, mail, running, created, destroyed>>

\* The supervisor: a spawn fails where an agent of that name runs or its module does not load.
Answered(id) ==
  {[c EXCEPT !.answered = c.answered \/ c.id = id] : c \in creating}

SuperviseNext ==
  /\ mail # <<>>
  /\ mail' = Tail(mail)
  /\ LET m == Head(mail)
     IN  \/ m.op = "spawn" /\ running' = running \union {m.name} /\ creating' = Answered(m.id)
         \/ m.op = "spawn" /\ running' = running /\ creating' = Answered(m.id)
         \/ m.op = "stop" /\ running' = running \ {m.name} /\ creating' = creating
  /\ UNCHANGED <<agents, created, destroyed>>

\* An agent fails and is not restarted: the AMS is not told.
AgentFails(n) ==
  /\ n \in running
  /\ running' = running \ {n}
  /\ UNCHANGED <<agents, creating, mail, created, destroyed>>

\* A destruction may be repeated; the supervisor then finds nothing to stop.
AMSNext ==
  \/ \E n \in Names, owner \in Owners \union {None} :
       CreateAgent(n, TRUE, owner) \/ CreateAgent(n, FALSE, owner)
  \/ \E c \in creating : Register(c)
  \/ \E n \in DOMAIN agents, requester \in Owners \union {None} :
       Len(mail) < MaxCreations /\ DestroyAgent(n, requester)
  \/ \E n \in DOMAIN agents : SuspendAgent(n) \/ ResumeAgent(n)
  \/ SuperviseNext
  \/ \E n \in running : AgentFails(n)

AMSSpec == AMSInit /\ [][AMSNext]_amsvars

-----------------------------------------------------------------------------
(* The DF *)

DFInit ==
  /\ services = [s \in Offers |-> <<>>]
  /\ agentServices = [a \in Providers |-> {}]
  /\ subscriptions = <<>>
  /\ notified = 0

Total(svc) == SumFunction([s \in DOMAIN svc |-> Len(svc[s])])

\* The subscribers told of a registration: those whose filter accepts the service and, as the
\* owner is not passed on, names no owner.
Interested(s) ==
  Cardinality({p \in DOMAIN subscriptions :
                 subscriptions[p].name \in {None, s} /\ subscriptions[p].owner = None})

\* ... and of a deregistration, where only the name is compared.
InterestedInEnd(s) ==
  Cardinality({p \in DOMAIN subscriptions : subscriptions[p].name \in {None, s}})

Counted(n) == IF n > MaxSubscribed THEN MaxSubscribed ELSE n

CanRegister(st, a) ==
  /\ Cardinality(st.index[a]) < MaxPerAgent
  /\ MaxTotal = 0 \/ Total(st.services) < MaxTotal

Registered(st, a, s, v) ==
  [services |-> [st.services EXCEPT ![s] = Append(@, [owner |-> a, version |-> v])],
   index |-> [st.index EXCEPT ![a] = @ \union {s}],
   notified |-> Counted(st.notified + Interested(s))]

Deregistered(st, a, s) ==
  [services |-> [st.services EXCEPT ![s] = Retained(@, [owner : Providers \ {a}, version : Versions])],
   index |-> [st.index EXCEPT ![a] = @ \ {s}],
   notified |-> Counted(st.notified + InterestedInEnd(s))]

Provides(st, a, s) == \E i \in DOMAIN st.services[s] : st.services[s][i].owner = a

Df == [services |-> services, index |-> agentServices, notified |-> notified]

Becomes(st) ==
  /\ services' = st.services
  /\ agentServices' = st.index
  /\ notified' = st.notified
  /\ UNCHANGED subscriptions

DFRegister(a, s, v) == CanRegister(Df, a) /\ Becomes(Registered(Df, a, s, v))

DFDeregister(a, s) == Provides(Df, a, s) /\ Becomes(Deregistered(Df, a, s))

\* Mutant: the new registration is made before the old one is taken away.
ModifyRegistersFirst(st, a, s, v) ==
  LET grown == IF CanRegister(st, a) THEN Registered(st, a, s, v) ELSE st
  IN  IF Provides(grown, a, s) THEN Deregistered(grown, a, s) ELSE grown

\* DFModify deregisters, ignoring a failure, and registers.
Modify(st, a, s, v) ==
  LET freed == IF Provides(st, a, s) THEN Deregistered(st, a, s) ELSE st
  IN  IF CanRegister(freed, a) THEN Registered(freed, a, s, v) ELSE freed

DFModify(a, s, v) == Becomes(Modify(Df, a, s, v))

DFSubscribe(a, filter) ==
  /\ subscriptions' = With(subscriptions, a, filter)
  /\ UNCHANGED <<services, agentServices, notified>>

DFUnsubscribe(a) ==
  /\ a \in DOMAIN subscriptions
  /\ subscriptions' = Without(subscriptions, a)
  /\ UNCHANGED <<services, agentServices, notified>>

DFNext ==
  \E a \in Providers :
    \/ \E s \in Offers, v \in Versions : DFRegister(a, s, v) \/ DFModify(a, s, v)
    \/ \E s \in Offers : DFDeregister(a, s)
    \/ \E f \in [name : Offers \union {None}, owner : Providers \union {None}] : DFSubscribe(a, f)
    \/ DFUnsubscribe(a)

DFSpec == DFInit /\ [][DFNext]_dfvars

-----------------------------------------------------------------------------
(* Properties *)

\* Once a destruction was acknowledged and the supervisor has handled its mail for that name, no
\* agent of the name runs, although creations of the same name may have been under way when it
\* was asked for (create_agent, destroy_agent, is_name_available).
DestroyedStaysDown ==
  \A n \in destroyed : (\A i \in DOMAIN mail : mail[i].name # n) => n \notin running

\* The two maps of the DF agree: an agent is charged for a service exactly while a registration of
\* the service by it can be found (register, deregister, DFModify).
IndexAgrees ==
  \A a \in Providers : agentServices[a] = {s \in Offers : Provides(Df, a, s)}

\* Modifying a service that the agent has registered leaves it registered once, with the new
\* description, whatever the limits: the slot it needs is the one it gave back (DFModify).
ModifyKeepsService ==
  \A a \in Providers, s \in Offers, v \in Versions :
    Provides(Df, a, s) =>
      LET after == Modify(Df, a, s, v).services[s]
      IN  Retained(after, [owner : {a}, version : Versions]) = <<[owner |-> a, version |-> v]>>

\* The DF's two maps agree and neither loses a service to a modification.
DirectoryExact == IndexAgrees /\ ModifyKeepsService

\* "Maximum agents allowed on the platform" (max_agents).
AgentLimit == MaxAgents > 0 => Cardinality(DOMAIN agents) <= MaxAgents
=============================================================================
