------------------------------ MODULE Network ------------------------------
(***************************************************************************)
(* network/ and actor/registry.rs: the network actor (routing.rs) with its *)
(* discovery service (discovery.rs) and transport (transport.rs), the name *)
(* registry, and the gRPC service that delivers to local agents (grpc.rs). *)
(*                                                                         *)
(* The actors handle one message at a time.  A gRPC call is a task of its  *)
(* own: it asks the registry for each receiver in turn and then hands the  *)
(* message to the agent, and the agents come and go in between.  The       *)
(* stand-alone service answers every call with a refusal and keeps no      *)
(* state.                                                                  *)
(***************************************************************************)
EXTENDS Integers, SequencesExt, FiniteSetsExt, Maps

CONSTANTS
  Peers,            \* the peers that may be discovered
  Addresses,        \* their addresses
  Kinds,            \* the service names of discovery
  Ttl,              \* peer_cache_ttl
  MaxNow,           \* bound on the clock
  Actors,           \* the local agents
  Nodes,            \* the other nodes
  Calls,            \* the gRPC calls; Calls[c] is the sequence of c's receivers
  MaxRouted         \* bound on the messages routed

NoActor == "none"
Stopped == "stopped"

ASSUME NetworkAssumption ==
  /\ {Ttl, MaxNow, MaxRouted} \subseteq Nat
  /\ \A c \in DOMAIN Calls : Calls[c] \in Seq(Actors)
  /\ {NoActor, Stopped} \intersect Actors = {}

VARIABLES
  peers,            \* DiscoveryService.peers
  providers,        \* DiscoveryService.services
  now,              \* Instant::now
  announced,        \* announced[k], the peers that registered k since they were last removed
  local,            \* ActorRegistry.local_agents: whether the address is of a live agent
  remote,           \* ActorRegistry.remote_agents
  offered,          \* ActorRegistry.services
  calls,            \* calls[c]: the receivers left, the address looked up, delivered, the answer
  took,             \* the receivers that took the message, by call
  pending,          \* NetworkActor.pending_outbound: the sequence numbers, by node
  routed            \* NetworkActor.messages_sent

discoveryvars == <<peers, providers, now, announced>>
registryvars == <<local, remote, offered, calls, took, pending, routed>>

-----------------------------------------------------------------------------
(* Discovery *)

DiscoveryInit ==
  /\ peers = <<>> /\ providers = [k \in Kinds |-> <<>>] /\ now = 0
  /\ announced = [k \in Kinds |-> {}]

\* add_peer, for a peer discovered (Mdns) or connected to (Direct): the first source stays.
AddPeer(p, a, source) ==
  /\ peers' = IF p \in DOMAIN peers
              THEN [peers EXCEPT ![p].addresses = @ \union {a}, ![p].seen = now]
              ELSE With(peers, p, [addresses |-> {a}, source |-> source, seen |-> now])
  /\ UNCHANGED <<providers, now, announced>>

\* remove_peer, for NodeDisconnected and DisconnectPeer.
RemovePeer(p) ==
  /\ peers' = Without(peers, p)
  /\ providers' = [k \in Kinds |-> Retained(providers[k], Peers \ {p})]
  /\ announced' = [k \in Kinds |-> announced[k] \ {p}]
  /\ UNCHANGED now

\* register_service adds the peer again where it is already there.
RegisterProvider(k, p) ==
  /\ Len(providers[k]) < 2
  /\ providers' = [providers EXCEPT ![k] = Append(@, p)]
  /\ announced' = [announced EXCEPT ![k] = @ \union {p}]
  /\ UNCHANGED <<peers, now>>

FindProviders(k) == {providers[k][i] : i \in DOMAIN providers[k]} \intersect DOMAIN peers

\* The interval of NetworkActor::started: peers go, what they provide stays.
CleanupStale ==
  /\ peers' = [p \in {q \in DOMAIN peers : now - peers[q].seen < Ttl} |-> peers[p]]
  /\ UNCHANGED <<providers, now, announced>>

Later == now < MaxNow /\ now' = now + 1 /\ UNCHANGED <<peers, providers, announced>>

DiscoveryNext ==
  \/ \E p \in Peers, a \in Addresses, source \in {"Mdns", "Direct"} : AddPeer(p, a, source)
  \/ \E p \in DOMAIN peers : RemovePeer(p)
  \/ \E k \in Kinds, p \in Peers : RegisterProvider(k, p)
  \/ CleanupStale \/ Later

DiscoverySpec == DiscoveryInit /\ [][DiscoveryNext]_discoveryvars

-----------------------------------------------------------------------------
(* Registry, routing and gRPC *)

RegistryInit ==
  /\ local = <<>> /\ remote = <<>> /\ offered = {}
  /\ calls = [c \in DOMAIN Calls |->
                [left |-> Calls[c], found |-> NoActor, delivered |-> FALSE, answer |-> "none"]]
  /\ took = [c \in DOMAIN Calls |-> {}]
  /\ pending = [n \in Nodes |-> <<>>] /\ routed = 0

RegisterActor(a) ==
  /\ local' = With(local, a, TRUE)
  /\ UNCHANGED <<remote, offered, calls, took, pending, routed>>

\* The agent ends: its address leads nowhere, and stays in the registry until DeregisterActor.
ActorStops(a) ==
  /\ local' = [b \in DOMAIN local |-> local[b] /\ b # a]
  /\ calls' = [c \in DOMAIN calls |-> IF calls[c].found = a THEN [calls[c] EXCEPT !.found = Stopped] ELSE calls[c]]
  /\ UNCHANGED <<remote, offered, took, pending, routed>>

DeregisterActor(a) ==
  /\ local' = Without(local, a)
  /\ UNCHANGED <<remote, offered, calls, took, pending, routed>>

\* UpdateRemoteRegistry, UpdateServiceRegistry.
UpdateRemoteRegistry(a, n, register) ==
  /\ remote' = IF register THEN With(remote, a, n) ELSE Without(remote, a)
  /\ UNCHANGED <<local, offered, calls, took, pending, routed>>

UpdateServiceRegistry(k, a, register) ==
  /\ offered' = IF register THEN offered \union {<<k, a>>} ELSE offered \ {<<k, a>>}
  /\ UNCHANGED <<local, remote, calls, took, pending, routed>>

\* get_agent_node: a local agent hides a remote one of the same name.
AgentNode(a) ==
  IF a \in DOMAIN local THEN "here" ELSE IF a \in DOMAIN remote THEN remote[a] ELSE NoActor

\* SendRemoteMessage numbers the envelope with messages_sent and queues it; nothing sends it.
SendRemote(n) ==
  /\ routed < MaxRouted
  /\ pending' = [pending EXCEPT ![n] = Append(@, routed)]
  /\ routed' = routed + 1
  /\ UNCHANGED <<local, remote, offered, calls, took>>

\* send_message, one receiver: LookupActor ...
Lookup(c) ==
  /\ calls[c].answer = "none" /\ calls[c].left # <<>> /\ calls[c].found = NoActor
  /\ LET a == Head(calls[c].left)
     IN  calls' = IF a \in DOMAIN local THEN [calls EXCEPT ![c].found = IF local[a] THEN a ELSE Stopped]
                                        ELSE [calls EXCEPT ![c].left = Tail(@)]
  /\ UNCHANGED <<local, remote, offered, took, pending, routed>>

\* Mutant: the last receiver decides the answer.
AfterDeliveryLast(call, ok) == [call EXCEPT !.left = Tail(@), !.found = NoActor, !.delivered = ok]

AfterDelivery(call, ok) == [call EXCEPT !.left = Tail(@), !.found = NoActor, !.delivered = @ \/ ok]

\* ... and DeliverMessage: the agent may have stopped by now, or refuse the message.
Deliver(c) ==
  /\ calls[c].found # NoActor
  /\ \E ok \in BOOLEAN :
       LET a == calls[c].found
       IN  /\ ok => a # Stopped
           /\ calls' = [calls EXCEPT ![c] = AfterDelivery(@, ok)]
           /\ took' = [took EXCEPT ![c] = IF ok THEN @ \union {a} ELSE @]
  /\ UNCHANGED <<local, remote, offered, pending, routed>>

Answer(c) ==
  /\ calls[c].answer = "none" /\ calls[c].left = <<>>
  /\ calls' = [calls EXCEPT ![c].answer = IF calls[c].delivered THEN "success" ELSE "failed"]
  /\ UNCHANGED <<local, remote, offered, took, pending, routed>>

RegistryNext ==
  \/ \E a \in Actors : RegisterActor(a)
  \/ \E a \in Actors : ActorStops(a)
  \/ \E a \in DOMAIN local : DeregisterActor(a)
  \/ \E a \in Actors, n \in Nodes, register \in BOOLEAN : UpdateRemoteRegistry(a, n, register)
  \/ \E a \in Actors, k \in Kinds, register \in BOOLEAN : UpdateServiceRegistry(k, a, register)
  \/ \E n \in Nodes : SendRemote(n)
  \/ \E c \in DOMAIN Calls : Lookup(c) \/ Deliver(c) \/ Answer(c)

RegistrySpec == RegistryInit /\ [][RegistryNext]_registryvars

-----------------------------------------------------------------------------
(* Properties *)

\* A peer that was disconnected is not a provider again until it has registered again, also when
\* it was rediscovered meanwhile (remove_peer, find_service).
DisconnectedForgets == \A k \in Kinds : FindProviders(k) \subseteq announced[k]

\* The answer of a gRPC send_message is true: a success says that some receiver took the message,
\* a failure that none did, so that a client that tries again duplicates nothing.
AnswerTruthful ==
  \A c \in DOMAIN Calls :
    calls[c].answer # "none" => (calls[c].answer = "success" <=> took[c] # {})

\* What a node says of others is so: it names no provider that left and has not come back, and no
\* send that did not happen.
KnowsThePresent == DisconnectedForgets /\ AnswerTruthful
=============================================================================
