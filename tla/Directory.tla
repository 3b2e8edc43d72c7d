------------------------------ MODULE Directory ------------------------------
(***************************************************************************)
(* Where an agent is, and who may speak for it, while it moves: the wire   *)
(* gate of a node (process/node.rs: accept_wire, authorize), the AMS       *)
(* agent's records (agents/ams) and a peer's cached route (address_of).    *)
(*                                                                         *)
(* One agent moves from node to node; module Migration is about the moves  *)
(* themselves.  Each commit sends AMS a bind with the next epoch and the   *)
(* handoff signed by the node it left.  The node that hosts AMS and a peer *)
(* the agent talks to each run the same gate.  A signature is modelled by  *)
(* the node that made it, and only real messages are under way.            *)
(***************************************************************************)
EXTENDS Naturals, Sequences, SequencesExt

CONSTANTS
    Nodes,      \* the nodes that may host the agent; each is its own key
    Home,       \* where it starts
    None,       \* no node
    MaxEpoch,   \* bound on the moves
    MaxTalk,    \* bound on the messages the agent sends after its first bind
    Window      \* length of the nonce window (8192 in the code)

ASSUME DirectoryAssumption ==
    /\ Home \in Nodes /\ None \notin Nodes
    /\ MaxEpoch \in Nat /\ MaxTalk \in Nat /\ Window \in Nat \ {0}

VARIABLES
    hist,   \* hist[e + 1]: the node that hosts the agent at epoch e
    nonce,  \* the last nonce used
    wire,   \* the messages under way
    keys,   \* keys[g]: the key gate g has pinned for the agent
    seen,   \* seen[g]: the nonces gate g remembers, oldest first
    rec,    \* AMS's record of the agent
    route,  \* the address the peer has cached for the agent
    calm    \* history: every message so far has arrived once and in the order
            \* it was sent, and AMS's node has not restarted

vars == <<hist, nonce, wire, keys, seen, rec, route, calm>>

Gates == {"ams", "peer"}

\* The node where the agent is live, and its epoch.
Host == Last(hist)
Epoch == Len(hist) - 1

Records == [addr : Nodes \cup {None}, epoch : Nat]
NoRecord == [addr |-> None, epoch |-> 0]

\* A message of the agent: the gate it goes to, the node that signs it, the
\* epoch of a bind, and the node whose handoff it carries.
Msg(gate, kind, node, epoch, handoff, n) ==
    [gate |-> gate, kind |-> kind, node |-> node, epoch |-> epoch,
     handoff |-> handoff, nonce |-> n]

\* Node::register: the first bind has no epoch and no handoff.
Init ==
    /\ hist = <<Home>>
    /\ nonce = 1
    /\ wire = {Msg("ams", "bind", Home, 0, None, 1)}
    /\ keys = [g \in Gates |-> None]
    /\ seen = [g \in Gates |-> <<>>]
    /\ rec = NoRecord
    /\ route = None
    /\ calm = TRUE

----------------------------------------------------------------------------
(* The agent.                                                              *)

\* It is committed at n, which binds it at AMS (commit_migrated).
Move(n) ==
    /\ Epoch < MaxEpoch
    /\ n # Host
    /\ hist' = Append(hist, n)
    /\ nonce' = nonce + 1
    /\ wire' = wire \cup {Msg("ams", "bind", n, Epoch + 1, Host, nonce + 1)}
    /\ UNCHANGED <<keys, seen, rec, route, calm>>

\* It sends AMS or the peer a message, signed by the node it is on.
Talk(g) ==
    /\ nonce < 1 + Epoch + MaxTalk
    /\ nonce' = nonce + 1
    /\ wire' = wire \cup {Msg(g, "talk", Host, 0, None, nonce + 1)}
    /\ UNCHANGED <<hist, keys, seen, rec, route, calm>>

----------------------------------------------------------------------------
(* The gate.                                                               *)

\* Mutant: a handoff is not looked at.
HandoffIgnored(m, known) == FALSE

\* handoff_authorizes: the pinned key hands over to the sender's key.
HandoffAuthorizes(m, known) == m.handoff = known

\* authorize: trust on first use, the pinned key, or a handoff from it.
Authorized(g, m) ==
    keys[g] \in {None, m.node} \/ HandoffAuthorizes(m, keys[g])

\* The nonce window after one more nonce.
Remember(s, n) ==
    LET t == Append(s, n) IN IF Len(t) > Window THEN Tail(t) ELSE t

\* Mutant: a bind is believed whatever its epoch.
MayBindAny(m) == TRUE

\* Mutant: only the first bind counts.
MayBindOnce(m) == rec = NoRecord

\* Ams::on_message, bind: the first one, a later epoch, or the same again.
MayBind(m) ==
    \/ rec = NoRecord
    \/ m.epoch > rec.epoch
    \/ m.epoch = rec.epoch /\ m.node = rec.addr

\* What the message does once it has passed the gate: AMS binds, the peer
\* caches the sender's address (pump).
Effect(m) ==
    /\ rec' = IF m.kind = "bind" /\ MayBind(m)
              THEN [addr |-> m.node, epoch |-> m.epoch] ELSE rec
    /\ route' = IF m.gate = "peer" THEN m.node ELSE route

\* accept_wire: the key is moved before the nonce is looked at.
Pass(m) ==
    LET g == m.gate IN
    /\ Authorized(g, m)
    /\ keys' = [keys EXCEPT ![g] = m.node]
    /\ IF m.nonce \in Range(seen[g])
       THEN UNCHANGED <<seen, rec, route>>
       ELSE /\ seen' = [seen EXCEPT ![g] = Remember(@, m.nonce)]
            /\ Effect(m)

Reject(m) ==
    /\ ~ Authorized(m.gate, m)
    /\ UNCHANGED <<keys, seen, rec, route>>

\* Each node has a connection of its own: its messages to a gate arrive in the
\* order they were sent, and nothing orders those of two nodes.
Arrives(m) ==
    \A k \in wire : k.gate = m.gate /\ k.node = m.node => m.nonce <= k.nonce

InOrder(m) == \A k \in wire : k.gate = m.gate => m.nonce <= k.nonce

AcceptWire(m) ==
    /\ Arrives(m)
    /\ wire' = wire \ {m}
    /\ Pass(m) \/ Reject(m)
    /\ calm' = (calm /\ InOrder(m))
    /\ UNCHANGED <<hist, nonce>>

\* The message arrives, and a second copy of it is still to come: send_to dials
\* anew and sends the frame again when its first write reports an error.
AcceptWireTwice(m) ==
    /\ Arrives(m)
    /\ wire' = wire
    /\ Pass(m) \/ Reject(m)
    /\ calm' = FALSE
    /\ UNCHANGED <<hist, nonce>>

----------------------------------------------------------------------------
(* Looking the agent up.                                                   *)

\* The peer sends the agent something: address_of takes the cached route, else
\* asks AMS and caches its answer.
PeerSends ==
    /\ route = None
    /\ rec.addr # None
    /\ route' = rec.addr
    /\ UNCHANGED <<hist, nonce, wire, keys, seen, rec, calm>>

\* The gate's and AMS's state are in memory only.
AmsRestart ==
    /\ keys' = [keys EXCEPT !["ams"] = None]
    /\ seen' = [seen EXCEPT !["ams"] = <<>>]
    /\ rec' = NoRecord
    /\ calm' = FALSE
    /\ UNCHANGED <<hist, nonce, wire, route>>

Next ==
    \/ \E n \in Nodes : Move(n)
    \/ \E g \in Gates : Talk(g)
    \/ \E m \in wire : AcceptWire(m) \/ AcceptWireTwice(m)
    \/ PeerSends
    \/ AmsRestart

Spec == Init /\ [][Next]_vars

\* A message under way arrives; the peer goes on sending.
Fair ==
    /\ Spec
    /\ WF_vars(\E m \in wire : AcceptWire(m))
    /\ WF_vars(PeerSends)

----------------------------------------------------------------------------
(* Properties.                                                             *)

TypeOK ==
    /\ hist \in Seq(Nodes) /\ hist # <<>> /\ Epoch <= MaxEpoch
    /\ nonce \in 1 .. 1 + MaxEpoch + MaxTalk
    /\ wire \subseteq [gate : Gates, kind : {"bind", "talk"}, node : Nodes,
                       epoch : 0 .. MaxEpoch, handoff : Nodes \cup {None},
                       nonce : 1 .. nonce]
    /\ keys \in [Gates -> Nodes \cup {None}]
    /\ seen \in [Gates -> Seq(1 .. nonce)] /\ \A g \in Gates : Len(seen[g]) <= Window
    /\ rec \in Records
    /\ route \in Nodes \cup {None}
    /\ calm \in BOOLEAN

\* AMS never takes the agent back to an earlier epoch, whatever order binds
\* arrive in and however often, unless its node restarts (agents/ams: "location
\* is MONOTONIC").
ForwardStep == rec'.addr = None \/ rec'.epoch >= rec.epoch

Monotonic == [][ForwardStep]_vars

\* As long as messages arrive in order, the node AMS's gate lets speak for the
\* agent is the node AMS gives out as its address: the pinned key and the record
\* are moved by different code, and agree after every message (authorize, and
\* Ams::on_message).
KeyIsHost == calm /\ rec # NoRecord => keys["ams"] = rec.addr

\* AMS and its gate are well formed, the window of nonces keeps its bound, and the
\* two records of where the agent lives agree.
DirectorySafe == TypeOK /\ KeyIsHost

\* When messages arrive in order, AMS comes to give out where the agent is once
\* it has stopped moving (MOBILITY: "AMS update makes this transient").
CatchesUp == Epoch = MaxEpoch ~> rec.addr = Host \/ ~ calm

----------------------------------------------------------------------------
(* Four claims of the comments and documents.  They do not hold of the     *)
(* code; the README says how to see it.                                    *)

\* KeyIsHost in whatever order messages arrive (MOBILITY: "handoff epochs must
\* strictly increase, preventing a rollback to an older node").
NoKeyRollback == rec # NoRecord => keys["ams"] = rec.addr

\* A copy of a message that has been handled changes nothing (node.rs: "reject a
\* replayed envelope").
ReplayIgnored ==
    [][\A m \in wire : m.nonce \in Range(seen[m.gate]) /\ (AcceptWire(m) \/ AcceptWireTwice(m))
          => UNCHANGED <<keys, rec, route>>]_vars

\* What the agent says from where it lives is heard by whom it was talking to
\* (MOBILITY: "open conversations name the unchanged UUID -> valid across the
\* move").
ConversationsSurvive ==
    [][\A m \in wire \ wire' : m.gate = "peer" /\ m.node = Host => keys'["peer"] = m.node]_vars

\* The peer's sends come to reach the agent once it has stopped moving.
RouteFollows == Epoch = MaxEpoch ~> route = Host \/ ~ calm
=============================================================================
