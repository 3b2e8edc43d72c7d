------------------------------ MODULE Hosting ------------------------------
(***************************************************************************)
(* process/: how a node drives the agents it runs.                         *)
(*                                                                         *)
(* mod.rs and manage.rs: an agent in a process of its own, reached over a  *)
(* socket, and its manager, which rebuilds it when a call fails.  The      *)
(* child answers a request with its emissions and a Done frame; the node   *)
(* reads until Done, an error or a timeout.  Frames carry no number of the *)
(* request they answer: the model tags each with it.                       *)
(*                                                                         *)
(* router.rs: the in-node router, over runtimes of the two sorts of        *)
(* wasm/agent_runtime.rs.  resolve.rs: the resolution of a name over a     *)
(* chain of agent management systems.                                      *)
(***************************************************************************)
EXTENDS Integers, SequencesExt, Maps

CONSTANTS
  MaxRestarts,      \* Recipe.max_restarts
  MaxDeliveries,    \* bound on the deliveries
  MaxEmitted,       \* bound on the emissions of one call
  Ids,              \* the ids agents are added under
  Aliases,          \* the well-known names
  Clients,          \* the external senders
  Native,           \* the ids whose agent is native; the others run as wasm
  MaxInjected,      \* bound on the messages injected
  MaxQueue,         \* bound on the length of the router's queue
  MaxExternal,      \* bound on the envelopes for elsewhere
  Amses,            \* the AMS agents
  MaxHops           \* max_hops

ASSUME HostingAssumption ==
  /\ {MaxRestarts, MaxDeliveries, MaxEmitted, MaxInjected, MaxQueue, MaxExternal, MaxHops} \subseteq Nat
  /\ Native \subseteq Ids

VARIABLES
  child,            \* the process: up, the requests and frames in the socket, frames not yet written
  waiting,          \* whether a deliver is reading frames
  delivery,         \* the number of the last delivery
  restarts,         \* ManagedAgent.restarts
  outbox,           \* ProcessRuntime.outbox
  intact,           \* no restart was refused and none failed so far
  returned,         \* what the deliveries returned
  added,            \* the agents of the router
  aliases,          \* its aliases
  queue,            \* its queue; by is the sender in truth
  external,         \* Router.outbox
  sink,             \* sink[a]: what a's runtime has collected and nobody drained
  injected,         \* number of messages injected
  answers           \* answers[a], what AMS a replies to a locate

managedvars == <<child, waiting, delivery, restarts, outbox, intact, returned>>
routervars == <<added, aliases, queue, external, sink, injected>>

-----------------------------------------------------------------------------
(* The managed agent *)

\* Recipe and start: the child is built, initialised and seeded, and what it emitted is drained.
Fresh == [up |-> TRUE, requests |-> <<>>, frames |-> <<>>, unwritten |-> <<>>]

ManagedInit ==
  /\ child = Fresh
  /\ waiting = FALSE /\ delivery = 0 /\ restarts = 0
  /\ outbox = <<>> /\ intact = TRUE /\ returned = <<>>

\* The child: serve runs the agent, which emits what it likes or fails, and flush writes frames.
ChildHandles ==
  /\ child.up /\ child.requests # <<>> /\ child.unwritten = <<>>
  /\ LET k == Head(child.requests)
         Emit == [tag |-> "Emit", call |-> k]
         Done == [tag |-> "Done", call |-> k]
     IN  \E n \in 0 .. MaxEmitted :
           child' = [child EXCEPT !.requests = Tail(@),
                                  !.unwritten = [i \in 1 .. n |-> Emit] \o <<Done>>]
  /\ UNCHANGED <<waiting, delivery, restarts, outbox, intact, returned>>

ChildWrites ==
  /\ child.up /\ child.unwritten # <<>>
  /\ child' = [child EXCEPT !.frames = Append(@, Head(child.unwritten)), !.unwritten = Tail(@)]
  /\ UNCHANGED <<waiting, delivery, restarts, outbox, intact, returned>>

\* The agent fails, or the process meets a resource limit.
ChildDies ==
  /\ child.up
  /\ child' = [child EXCEPT !.up = FALSE, !.requests = <<>>, !.unwritten = <<>>]
  /\ UNCHANGED <<waiting, delivery, restarts, outbox, intact, returned>>

\* Mutant: a failed call is counted as a restart, and the agent is driven on.
RestartCounts(ok) ==
  /\ restarts < MaxRestarts
  /\ restarts' = restarts + 1
  /\ UNCHANGED <<child, outbox, intact>>

\* restart: the old runtime is dropped, and its process killed, only when start has succeeded.
Restart(ok) ==
  \/ /\ restarts >= MaxRestarts
     /\ intact' = FALSE
     /\ UNCHANGED <<child, outbox, restarts>>
  \/ /\ restarts < MaxRestarts
     /\ restarts' = restarts + 1
     /\ child' = IF ok THEN Fresh ELSE child
     /\ outbox' = IF ok THEN <<>> ELSE outbox
     /\ intact' = (intact /\ ok)

\* deliver: round_trip writes the request, or fails because nobody listens.
Request ==
  /\ ~waiting /\ delivery < MaxDeliveries
  /\ delivery' = delivery + 1
  /\ \/ /\ child.up
        /\ child' = [child EXCEPT !.requests = Append(@, delivery + 1)]
        /\ waiting' = TRUE
        /\ UNCHANGED <<restarts, outbox, intact>>
     \/ /\ ~child.up
        /\ \E ok \in BOOLEAN : Restart(ok)
        /\ waiting' = FALSE
  /\ UNCHANGED returned

ReadEmit ==
  /\ waiting /\ child.frames # <<>> /\ Head(child.frames).tag = "Emit"
  /\ outbox' = Append(outbox, Head(child.frames).call)
  /\ child' = [child EXCEPT !.frames = Tail(@)]
  /\ UNCHANGED <<waiting, delivery, restarts, intact, returned>>

\* round_trip returns and deliver drains the outbox.
ReadDone ==
  /\ waiting /\ child.frames # <<>> /\ Head(child.frames).tag = "Done"
  /\ child' = [child EXCEPT !.frames = Tail(@)]
  /\ waiting' = FALSE /\ outbox' = <<>>
  /\ returned' = Append(returned, [call |-> delivery, output |-> outbox, sound |-> intact])
  /\ UNCHANGED <<delivery, restarts, intact>>

\* The read times out, or finds the socket closed: the child is rebuilt and deliver fails.
ReadFails ==
  /\ waiting /\ child.frames = <<>>
  /\ waiting' = FALSE
  /\ \E ok \in BOOLEAN : Restart(ok)
  /\ UNCHANGED <<delivery, returned>>

ManagedNext ==
  ChildHandles \/ ChildWrites \/ ChildDies \/ Request \/ ReadEmit \/ ReadDone \/ ReadFails

ManagedSpec == ManagedInit /\ [][ManagedNext]_managedvars

-----------------------------------------------------------------------------
(* The router *)

RouterInit ==
  /\ added = {} /\ aliases = <<>> /\ queue = <<>> /\ external = {}
  /\ sink = [a \in Ids |-> <<>>] /\ injected = 0

BindAlias(n, a) ==
  /\ aliases' = With(aliases, n, a)
  /\ UNCHANGED <<added, queue, external, sink, injected>>

\* What agent a emitted, as envelopes; addressed is the name that led to it.
Stamp(addressed, a, targets) ==
  [i \in DOMAIN targets |-> [from |-> a, to |-> targets[i], by |-> a]]

Targets == Ids \union Aliases \union {"elsewhere"}

\* add: the outcome of init is ignored; an agent of that id is replaced.
Add(a) ==
  /\ \E targets \in SeqOf(Targets, 1) :
       /\ Len(queue) + Len(targets) <= MaxQueue
       /\ queue' = queue \o Stamp(a, a, targets)
  /\ added' = added \union {a}
  /\ sink' = [sink EXCEPT ![a] = <<>>]
  /\ UNCHANGED <<aliases, external, injected>>

Inject(c, to) ==
  /\ injected < MaxInjected /\ injected' = injected + 1
  /\ queue' = Append(queue, [from |-> c, to |-> to, by |-> c])
  /\ UNCHANGED <<added, aliases, external, sink>>

IdOf(to) == IF to \in DOMAIN aliases THEN aliases[to] ELSE to

\* config succeeds: what the runtime collected goes out, leftovers of failed calls first.
Handled(a, env, targets) ==
  /\ queue' = Tail(queue) \o Stamp(env.to, a, sink[a] \o targets)
  /\ sink' = [sink EXCEPT ![a] = <<>>]
  /\ UNCHANGED external

\* config fails: a native agent's emissions are discarded, a wasm agent's stay in its sink.
Failed(a, env, targets) ==
  /\ queue' = Tail(queue)
  /\ sink' = [sink EXCEPT ![a] = IF a \in Native THEN @ ELSE @ \o targets]
  /\ UNCHANGED external

Undelivered(env) ==
  /\ queue' = Tail(queue)
  /\ external' = external \union {env}
  /\ UNCHANGED sink

RouterStep ==
  /\ queue # <<>>
  /\ LET env == Head(queue)
         a == IdOf(env.to)
     IN  \/ a \notin added /\ Cardinality(external) < MaxExternal /\ Undelivered(env)
         \/ /\ a \in added
            /\ \E targets \in SeqOf(Targets, 1) :
                 /\ Len(queue) + Len(sink[a]) + Len(targets) <= MaxQueue + 1
                 /\ Handled(a, env, targets) \/ Failed(a, env, targets)
  /\ UNCHANGED <<added, aliases, injected>>

\* run stops at max_steps with one envelope taken and not handled.
RunEnds ==
  /\ queue # <<>> /\ queue' = Tail(queue)
  /\ UNCHANGED <<added, aliases, external, sink, injected>>

RouterNext ==
  \/ \E n \in Aliases, a \in Ids : BindAlias(n, a)
  \/ \E a \in Ids : Add(a)
  \/ \E c \in Clients, to \in Targets : Len(queue) < MaxQueue /\ Inject(c, to)
  \/ RouterStep \/ RunEnds

RouterSpec == RouterInit /\ [][RouterNext]_routervars

-----------------------------------------------------------------------------
(* Resolution *)

\* The replies of an AMS: an address, none, a referral, a referral to nowhere, no usable reply.
NotFound == [kind |-> "NotFound", value |-> ""]
Found(x) == [kind |-> "Found", value |-> x]
Referral(x) == [kind |-> "Referral", value |-> x]
Replies == [kind : {"at"}, value : {"addr", ""}] \union [kind : {"refer"}, value : Amses \union {"gone"}]
             \union [kind : {"none"}, value : {""}]

ResolveInit == answers = [a \in Amses |-> [kind |-> "none", value |-> ""]]

\* bind, set_upstream, and failures, of an AMS.
AmsChanges(a, reply) == answers' = [answers EXCEPT ![a] = reply]

\* What a reply of AMS a means, further stands for the rest of a recursive resolution.
ReplyOf(reply, recursive, further) ==
  CASE reply.kind = "at" -> IF reply.value = "" THEN NotFound ELSE Found(reply.value)
    [] reply.kind = "refer" -> IF recursive THEN further ELSE Referral(reply.value)
    [] OTHER -> NotFound

Resolve(start, recursive, hops) ==
  LET ask[n \in 0 .. hops] ==
        [a \in Amses \union {"gone"} |->
           IF n = 0 \/ a \notin Amses THEN NotFound
           ELSE ReplyOf(answers[a], recursive, ask[n - 1][answers[a].value])]
  IN  ask[hops][start]

ResolveNext == \E a \in Amses, reply \in Replies : AmsChanges(a, reply)

ResolveSpec == ResolveInit /\ [][ResolveNext]_answers

-----------------------------------------------------------------------------
(* Properties *)

\* As long as every failed call was followed by a successful restart, the messages a delivery
\* returns are the ones its own call emitted, although answers carry no number and a child may
\* answer after the node gave up waiting (deliver, restart, round_trip).
OutputOwn ==
  \A i \in DOMAIN returned :
    returned[i].sound => Range(returned[i].output) \subseteq {returned[i].call}

\* "drives an isolated agent exactly like an in-process one" (mod.rs), whose emissions in a failed
\* call are discarded: without the condition.
HostedLikeInProcess ==
  \A i \in DOMAIN returned : Range(returned[i].output) \subseteq {returned[i].call}

\* The sender an envelope names is the agent that emitted it, also for what a failed call left
\* behind and whatever alias it was addressed by (run, add).
FromIsEmitter == \A env \in Range(queue) \union external : env.from = env.by

\* The systems that referrals lead to from start, in n steps.
Reached(start, n) ==
  LET after[k \in 0 .. n] ==
        IF k = 0 THEN {start}
        ELSE {answers[a].value : a \in {b \in after[k - 1] \intersect Amses : answers[b].kind = "refer"}}
  IN  after[n]

\* A recursive resolution finds an address exactly when a chain of at most max_hops systems, each
\* referring to the next, ends in one that knows it; so a loop of referrals is not followed for
\* ever and no answer within the bound is missed (resolve).
ResolvesWithinHops ==
  \A start \in Amses, hops \in 0 .. MaxHops :
    Resolve(start, TRUE, hops) = Found("addr") <=>
      \E n \in 0 .. hops - 1 : \E a \in Reached(start, n) \intersect Amses :
        answers[a] = [kind |-> "at", value |-> "addr"]

\* What comes out of a hosted agent is its own and is named so, and what its name resolves to is
\* what the systems asked know: late answers, leftovers of failed calls, aliases and loops of
\* referrals included.
HostingSound == OutputOwn /\ FromIsEmitter /\ ResolvesWithinHops
=============================================================================
