# fipa-wasm: TLA+ models, checks and proofs

This directory holds the formal models kept beside `fipa-wasm`, a FIPA-style agent
platform: nodes that mount native and wasm agents, carry signed messages between them,
move agents from node to node, and run the platform agents (AMS, DF, PA) and a small
marketplace on top. `PROJECT.json` is the machine-readable index: components, runs,
mutants, the map from definitions to source lines, findings, hazards and theorems.

Source paths below are relative to `src/crates/fipa-wasm-agents/src/` unless they start
with `src/`.

## 1. Inventory

### 1.1 The node and its agents (`process/`, `adapters/`, `manifest.rs`, `src/agents/`)

This is the part `docs/ARCHITECTURE.md` describes as built, and the core of this project.

| Component | State | Operations | Hard behaviour | What makes it correct |
|---|---|---|---|---|
| Migration (`process/node.rs`, `process/migrate.rs`) | `agents` (active or suspended, epoch), `seen` and its durable copy, `keys`, `prepared`; the source's call; the destination's connection thread | `migrate`, `send_migration`, `handle_conn`'s MIGRATE branch, `process_migrate`, `commit_migrated`, `abort_prepared` | three threads and two channels per move, four timeouts, lost or late frames, retries, crashes | the agent is live on at most one node and never lost; a committed epoch never mounts again; what is aborted leaves no trace |
| Wire gate (`accept_wire`, `wire_admit`, `authorize`, `handoff_authorizes`) | `keys` (trust on first use), `nonce_seen` / `nonce_order` | admit or drop a signed message | replays, key changes by handoff, binds overtaking one another, window of 8192 nonces | a message is delivered at most once; a key moves only by a handoff from the current key |
| Location directory (AMS agent, `src/agents/ams`) | `records`, `epochs`, parent for referral | bind, locate, seed | binds delayed, reordered, lost; capacity | a record never goes back to an older epoch; the record ends at the live host |
| Executor (`pump`, `fire_tick`, `supervise`, `apply_*`, `rate_allows`, `net_allows`) | queue, `faults`, `quarantined`, `timers`, `pending_infers`, rate buckets, children | deliver, tick, fault, spawn, infer | message loops, faults while timers are armed, budgets at their limit | a faulty agent is stopped and hears no more messages; slots, threads and the pump keep their bounds; no inference is lost |
| Agent state store (`ScopedKv`, `adapters/store.rs`, `provision_state`) | the store, the `used` counter | get, set, delete, provision | restart between writes, failed writes | the namespace stays within its quota; `used` is what is stored |
| Serve loop's admission (`serve` step 4, `handle_conn`) | connection counters per host | accept, close | a flood, a peer that never closes | counters return to zero; caps hold |
| Escrow ledger (PA agent, `src/agents/pa`) | balances, holds, the saved ledger | reserve, accept, cancel, seed, load | duplicated and reordered messages, crash and restart, a failed save | money is conserved; a hold ends once, one way; receipts say what happened |
| Service directory (DF agent, `src/agents/df`) | service to provider sets, caps | offer, seek, seed | caps | a seek finds every accepted offer |
| Buyer and seller (`src/agents/ba`, `src/agents/bs`) | purchase state machine; sales by hold | one handler per message | messages late, twice or in another order | a buyer that is charged gets the book; the seller delivers only what is paid |
| Router, managed agents, referral chase (`process/router.rs`, `manage.rs`, `resolve.rs`) | message queue, restart budget, hop count | run, handle, chase | loops, faults | bounded work; restart budget; no referral loop |
| Manifest and grants (`manifest.rs`) | none (pure) | `fit`, grant intersection | boundary values | a grant is within the manifest and the profile |

### 1.2 The actor runtime and the FIPA services

| Component | State | Operations | Hard behaviour | What makes it correct |
|---|---|---|---|---|
| Actor supervisor, registry, agent actor (`actor/`) | agents by name, failure history, restart timers, mailboxes, conversations | spawn, stop, restart, deliver, tick, migrate, register, look up | events by name that meet a successor, a restart that fails, stop racing restart | table, registry and actors agree; a stop sticks |
| Interaction protocols (`protocol/`) | one state machine per conversation, its history, bids, rounds, providers | `process`, and the owner's calls (bid, close, open a round, award, consolidate) | late, repeated and reordered messages; calls and messages that move one state | a refused message leaves no trace; an end is an end; an award follows from the offers |
| Behaviours (`behavior/`) | behaviours with status, next run and FSM state | add, remove, block, restart, reset, run, complete, FSM events | the agent changes the behaviour that is running | nothing runs early, and once is once |
| Persistence and recovery (`persistence/`) | snapshots in memory or files, counters, the recovered state | snapshot, background snapshot, cleanup, delete, recover | a state read before the locks and stored after them, a crash between two writes, a torn file, two snapshots in one second, two names in one directory | of every place of snapshots, recovery gives one from no earlier second than the last report and with no older state than the reported one and those being stored with it; every agent is recovered (it is not: `recovery_names`) |
| Consensus (`consensus/`, and the service in `network/grpc.rs`) | log in sled and its cache, vote, state machine, snapshots; term and vote of the service | append, conflict, apply, purge, snapshot, install, vote, restart | truncation, a late snapshot, a restart that loses the cache | a replica shows what a prefix of the agreed requests defines; one vote in a term |
| Platform AMS and DF (`platform/`) | agents with life-cycle states; services by name and by agent | create, destroy, suspend, resume, modify; register, deregister, modify, search, subscribe | creations awaiting an answer while destroyed, limits | a destroyed agent stays down; the two maps of the DF agree |
| Inter-platform channel (`interplatform/`) | buffer, platforms, incoming queue, statistics | send, retry, clear, receive, register a platform | a failed retry, a full buffer, clearing under a retry | nothing the channel took is lost unaccounted for |
| Security (`security/`) | sessions, failures, policy, caches of roles and agents | authenticate, validate, clean up, set a policy, bind, decide | caches outliving their policy, lockouts | a decision is the policy's; a lockout lasts |
| Trust (`trust/`) | web of identities, signatures, owner trust, cached validity, the store | endorse, revoke, set trust, calculate, save, load | a change far down a path, a save cut short | a cached validity was true; a save survives |
| Network (`network/`) | peers, providers, pending sends; gRPC calls | discover, remove, clean up, look up, deliver | agents that come and go under a call | an answer is true; who left is not named |
| MCP bridge (`mcp/`) | agents, messages, services; the transport's queues | nine tools, resources, reader, server, writer | bounded queues, names that look like ids, the end of input | every request is answered once, in order; agents are what clients were told |

### 1.3 Left aside

Content languages and codecs (`content/`, `crates/unl-*`), dashboards and sniffers
(`tools/`), metrics, the command-line programs (`bin/`) and the examples are data conversion
or input and output with little control of their own. They are listed in `PROJECT.json` with
the reason.

## 2. The modules and the code

One module per component, an `MC` module with the instances TLC checks, a `Proofs` module
with the theorems: `MigrationProofs`, `EscrowProofs` (with the purchase of `BookBuy`),
`DirectoryProofs` and `ExecutorProofs`; `SupervisionProofs`, which also has `Persistence` and
the refinement of `ReplicatedDirectory` by `Consensus`; `ServicesProofs` for `Voting` and the
services; `AccessProofs` for `Security`, `Trust`, `Gateway`, `Negotiation` and `Conversation`.
`SumTheorems` has what they need of sums, lists, folds and induction, `Maps` the maps and
lists of the standard library as the modules use them.

Where several components share a run, they share no state: a variable of
the `MC` module (`driver`, `part`, `side`, `service`) is chosen at the start, says which one a
behaviour is about and never changes, so the run is the union of separate state spaces. `PROJECT.json` maps every definition to its lines. Definitions marked
`Mutant` are deliberate errors: each property of a passing run is violated when its mutant
stands in for the definition below it.

### Migration

One mobile agent, any number of nodes and attempts. An attempt is one call of
`Node::migrate` with the connection it dials and the thread that serves it at the
destination. `agent`, `seen`, `keys` and `prepared` are the node's maps at the agent's uuid,
`saved` the `_migrate_seen` record of its store. Frames have no state: one that was sent may
be received until either end stops waiting, so loss, delay and the four timeouts are the
choice between an action that receives and one that gives up.

| Actions | Code |
|---|---|
| `Migrate`, `RecvAck`, `SendFailed` | `migrate`, `send_migration` at the source |
| `RecvPayload`, `GiveUp`, `RecvCommit`, `NoCommit` | the `KIND_MIGRATE` branch of `handle_conn` |
| `Prepare`, `Refuse` | `serve` step 3 and `process_migrate` |
| `CommitMigrated`, `AbortPrepared` | `serve` step 3b |
| `StartServe`, `StopServe`, `Crash`, `Message`, `Replay` | a loop starting and ending, a process dying, a key pinned by traffic, a payload delivered again |

`Faults` names what may go wrong in an instance.

### Directory

The agent of `Migration`, after the moves: where AMS says it is, and whose key may speak
for it. Two gates (AMS's node and a peer) run the same `accept_wire`. Messages are a set, so
they arrive in any order; `AcceptWireTwice` is `send_to` repeating a frame whose first copy
arrived. `calm` is a history variable: everything so far arrived once and in order, and
AMS's node has not restarted.

### Executor

`serve`'s loop on one thread, with `phase` for its stages: messages from the wire (2), due
timers (3c), inferences to start (3d), results to hand out (3e). `pump` runs inside a stage
until its queue is empty or its budget is spent. What an agent does when called is one
arbitrary effect (`Calls`). A panic of a native agent loses its sends; a wasm agent's sends
before a trap are kept by the runtime and delivered.

### Escrow and BookBuy

`Escrow` is PA: one operator per handler, from its state to the next and the messages it
sends. Any account may send anything at any time; `Restart` reloads the store, and
`SeedOnBoot` is `mesh_node` applying `FIPA_SEED` again. `BookBuy` extends it with the buyers,
the seller, DF and AMS and the channels between them: one queue when all are on one node,
one ordered channel per pair when each has its own.

### Supervision

Three actix actors: the supervisor's table and its `run_later` closures, the agent actors
ever started, the registry's table. Mailboxes are sequences, a handler is one action, and
which actor runs next is open. `raced` is a history variable: an agent was spawned under a
name while something of its forerunner (an actor not yet ended, an event, a pending restart)
was still under way. The configuration's `restart_strategy` does not appear because
`spawn_agent` stores `RestartStrategy::default()` in its place, and `Recovered` because
nothing sends it.

### Protocols, Machines, Negotiation and Conversation (`protocol/`, `actor/agent_actor.rs`)

`Protocols` holds the ten tables of `validate_transition` as sets of rows, wildcard rows and
terminal states included. `Machines` has `process` (validate, then record, then move) and each
machine's own calls. `Negotiation` puts one machine into the hands of its owner, who calls
anything in any order while peers send anything. `Conversation` puts the four machines an
agent actor starts behind its mailbox: the capability check on delivery, the tick that
empties the mailbox, rejected and decoded content, traps, statistics, migration and shutdown.

### Persistence, Consensus, ReplicatedDirectory and Voting

`Persistence` is the manager with its two stores, its concurrent callers and its background
task, retention, torn files, crashes, and recovery with its test for terminal states. What is
stored was read before the locks were taken, by the task (`get_agent_state`) or by whoever
passes a state to `snapshot_agent`, so that reading (`ReadsState`) and storing are two steps,
and `under` is what each has in hand. Snapshots are kept in places (`Place`): in memory every
name has a list of its own, on disk a name has the directory of its sanitized form
(`Filename`, any map that leaves a sanitized name as it is), which names such as `x@p`, `x.p`
and `x_p` share. Storing, cleaning up and reading the latest act on the place, and a snapshot
carries the name of its agent, under which the engine files it. `acked` remembers of each
place what the last report of `snapshot_agent` promised: its second, and the oldest state
among the ones being stored at that time (`Rivals`: the stores under way, and the snapshots
of the same second, which the code cannot tell apart by age). Deleting a snapshot withdraws
the promises it may have served. `Consensus` is the store openraft runs on, log and cache
apart, with conflicts, purges, snapshots built and installed late, and restarts;
`ReplicatedDirectory` is what it promises, stated without replaying: an agent is where the
last request about it put it. `Consensus!ImplementsDirectory` is the refinement, with the
committed requests, each node's applied index and what its state machine shows mapped to the
abstract variables. `Voting` is the gRPC service's own voting state.

### Security, Trust and Gateway

`Security` and `Trust` are the two libraries, with their caches modelled as such: the property
compares a cached answer with the answer calculated afresh. `Gateway` is the edge of a node in
five parts: the state handle of an agent and its quota (`Put`, `Del`, `Provision`), the rate of
its sends (`Emit`), the node's key on disk (`LoadKey`, `MintKey`, `WriteKey`, with the process
dying in between), the signed envelope (`Seal`, `KeyringSign`, `WireAdmit`) and the kept channel
to a peer (`SendCached`, `CachedFails`, `Dial`, the handshake, `PeerReads`, `PeerCloses`,
`PeerFloods`, `TakeInbound`). A signature is the pair of key and bytes.

### Platform, Channel, Scheduler, Network, Hosting, Sandbox and Bridge

| Module | Code | Steps that interleave |
|---|---|---|
| `Platform` | `platform/ams.rs`, `platform/df.rs` | a creation waits for the supervisor's answer while other requests are handled |
| `Channel` | `interplatform/` | a send is its checks and the end of its attempt; the retry loop takes a batch out of the buffer and puts back what fails |
| `Scheduler` | `behavior/mod.rs` | the agent uses the scheduler while one of its behaviours runs |
| `Network` | `network/`, `actor/registry.rs` | a gRPC call looks up and delivers receiver by receiver; actors come and go |
| `Hosting` | `process/mod.rs`, `manage.rs`, `router.rs`, `resolve.rs`, `wasm/agent_runtime.rs` | a child answers after the node stopped waiting; a failed call leaves output behind |
| `Sandbox` | `manifest.rs`, `wasm/`, `adapters/engine.rs` | calls that trap or run out of fuel, storage and timers between them |
| `Bridge` | `mcp/` | reader, server and writer over two bounded queues; the name check and the insertion of a creation |

## 3. What the runs show

| Run | Result | What it shows |
|---|---|---|
| `migration_fork` | holds | back and forth between two nodes, four attempts, crashes, shutdowns, lost, late and replayed frames: the right to run is never held twice and no committed epoch mounts again (`MigrationSafe`), commits only advance (`CommitAdvances`) |
| `migration_oneway` | holds | three nodes, never back to one, COMMIT not lost: never lost (`NoLoss`), every move ends with a live agent (`MoveEnds`) |
| `migration_stale_abort` | violated | with no fault at all, the abort of a failed attempt removes the prepared copy of the retry; the entry of "findings" quotes the comment that says otherwise |
| `book` | holds | one book, two buyers: never sold twice, and unless a message is lost it ships only against money (`BookSafe`); on one node every purchase ends and who paid has the book (`BookLive`) |
| `directory` | holds | AMS's record only goes forward (`Monotonic`); while calm, the pinned key is the recorded host (`DirectorySafe`) and AMS catches up (`CatchesUp`) |
| `executor` | holds | slots, threads and queues keep their bounds and no inference is lost (`ExecutorSafe`); a faulty agent's output is discarded and no message reaches it once quarantined (`FaultsContained`); pumps end, timers fire, inferences are answered (`ServeLive`) |
| `supervision` | holds | no orphan, no ghost, no return after a stop, registry and state settle on the truth (`SupervisionSafe`); restarts, stops and messages take effect (`SupervisionLive`) |
| `conversation` | holds | history and state agree and an end is counted once (`ConversationSound`); awards follow from the offers (`NegotiationSound`); what is settled stays settled (`SettledStays`); after any interleaving of stores, crashes and deletions, and whichever names share a directory, recovery gives a snapshot of each place with a promise, from no earlier second and with no older state than was promised (`RecoversTheAcknowledged`), and resumes what can go on (`LiveConversationsResume`) |
| `recovery_names` | violated | two agents whose names share a directory are both stored and acknowledged, and recovery gives back one of them (`RecoversEveryAgent`); the entry of "findings" quotes the comment that says otherwise |
| `durable` | holds | money is conserved (`MoneyConserved`), PA's store is never behind (`EscrowSafe`), holds end once and only buyers pay (`PaymentsFinal`); the consensus store implements the replicated directory (`ImplementsDirectory`); one vote in a term (`OneVotePerTerm`) |
| `access` | holds | decisions and sessions follow the policy and the clock whatever was cached (`AccessSound`, `LockoutHolds`), validities follow the web (`CachedValidityWasTrue`, `WebEvolves`); at a node's edge: state and rates within budget (`AgentWithinBudget`), only sealed envelopes are admitted (`AdmittedWasSealed`), links neither double nor drop a message on their own (`LinkSound`), the identity survives restarts (`IdentityKept`) |
| `services` | holds | `DestroyedStaysDown` and `DirectoryExact` (platform), `AcceptedNotLost` (channel), `RunsOnTime` (behaviours), `KnowsThePresent` (network), `HostingSound` and `WithinGrant` (hosted agents), `BridgeExact` (MCP) |

Most of these are conjunctions of named parts, each with its own comment in its module.

### Bounds

- *Migration*: four attempts on two nodes are a move, its return, and a retry of each, so an
  entry of one attempt can meet the next attempt at either end; three attempts on three nodes
  are two moves and a retry. No handler relates two uuids, so one agent is enough.
- *Directory*: three moves are the fewest in which a node is left, returned to and left; two
  messages let one be repeated after the other; a window of 4 is smaller than the number of
  messages, so it forgets.
- *Executor*: one native and one wasm agent, two timers on one slot, two faults to quarantine,
  two inferences over one thread, a queue of 1 and a pump budget of 3: every limit is reached.
- *Escrow*: three accounts (a buyer, a seller, a stranger), two orders that together ask for
  more than a balance. `MaxU64` 3 equals all the money, so nothing wraps.
- *BookBuy*: two buyers for one book, one lost message.
- *Supervision*: two spawns, two stops and two failed inits under one name are up to four
  instances, enough for a restart to meet its successor. Entries under different names never
  touch.
- *Conversation*: six calls and messages are enough to open, bid or propose twice, close and
  meet a late message; two rounds and two providers reach every limit of the machines.
- *Snapshots*: two names, with one directory on disk and a list each in memory, one caller and
  the background task, two stores over three seconds, one snapshot kept: ties, retention, an
  older state stored after a newer one, a torn latest file and a name hidden by the other all
  happen. A promise is broken by one store that follows or goes with the reported one, so two
  suffice; the theorem has no such bound.
- *Durable*: two replicas, two committed requests, a snapshot under way and a restart; every
  kind of request, and one that cannot be decoded.
- *Access*: three other keys and three signatures make chains of the full length 2, two
  marginal introducers and a revocation; policies with a chain, a diamond, a circle and a
  missing parent; two failures to a lockout that ends within the clock. State keys that run
  together, a quota of 3 for values of 1 and 2 over three mounts, two windows of a rate, four
  keys minted over torn files, four frames (one over the size limit) over three links, with a
  frame cap of 2 and an inbound queue of 1.
- *Services*: every limit of the code (agents, services per agent and in all, buffer, retries,
  restarts, hops, queued sends, quota, queues of the bridge) is set so low that it is reached.
  `Word` is the width at which the storage's usage wraps.

Deadlock is not checked where the system may rest: a purchase that is over (`book`), a moved
agent with nothing to say (`directory`), all requests used up (`supervision`), and
`conversation`, `durable`, `access` and `services`, whose components wait for calls that the
bounds end. Elsewhere it is checked.

### Fairness

Only what the code's own scheduling gives. *Migration*: both ends of a connection have
timeouts, so each wait ends one way or the other, and the loop drains its channels on
every turn; nothing makes a frame arrive. *Executor*: the loop's thread keeps running and
inference threads return (the repository's only backend is a test's, which does).
*BookBuy*: a message under way is delivered unless it is lost. *Directory*: the same for
messages, and the peer sends again. *Supervision*: the actix runtime polls every actor
with mail or a timer, and `init` returns. The operator's requests, crashes and moves are
never fair. The other runs state safety only.

### Claims that do not hold, seen on other instances

What comments, documents or names in the repository say, and the code does not do. Each is
stated in its module and is not part of a run; it is repeated by changing the
configuration of the run named as said and checking the claim.

| Claim | How to see it fail | Why |
|---|---|---|
| `NoLoss` ("no loss", `process/node.rs`) | `migration_oneway` with `Moves <- TwoNodes`, `Faults = {"commit8"}` | COMMIT is not acknowledged: the source has dropped its copy, the destination aborts |
| `NoStrandedCopy` ("leaving no trace") | `migration_oneway` | a payload handled after the thread's 5 s wait is prepared with nobody to commit or abort it |
| `NoFork` when copies that are not live are moved | `migration_oneway` with `Faults = {"stop", "dormant"}` | `migrate` takes a suspended copy as it takes a live one |
| `MoneyConserved` with `FIPA_SEED` still set ("a restart recovers in-flight escrow", `src/agents/pa`) | `durable` with `SeedOnBoot = {ann}` | `mesh_node` seeds on every boot, and `on_seed` overwrites the balance (`docker-compose.yml` sets the variable and restarts on failure) |
| `ReceiptsEcho` ("receipt echoes the current state") | `durable` | `accept` of a cancelled hold answers `paid`, `deny` of a paid one `cancelled` |
| `OneWay` when a write fails | `durable` with `SaveMayFail = TRUE` | the store's error is ignored, and a restart takes the hold back |
| `MoneyConserved` when money exceeds `u64` | `durable` with `MaxU64 = 2` | the release build's `+=` wraps |
| `ShipOnlyPaidLossy` ("on `cancelled` it releases the reservation", `src/agents/bs`) | `book` with `Settings <- OnlyMesh`, `SPECIFICATION BookSpec` | one lost receipt, and PA's `paid` for a cancelled hold makes the seller ship |
| `ChargedGetsBook` with a node per agent | drop its condition, `Settings <- OnlyMesh`, `MaxLost = 0` | `deliver` overtakes the receipt and is ignored |
| `NoKeyRollback` ("handoff epochs must strictly increase", `docs/MOBILITY.md`) | `directory` with `Nodes = {n1, n2}`, `Window = 6`, `SPECIFICATION Spec` | `authorize` accepts a valid handoff of any epoch: a late bind takes the pinned key back to a node the agent has left |
| `CatchesUp` without order | drop `calm`, `directory` | a bind that overtakes another is refused for good |
| `ReplayIgnored` ("reject a replayed envelope") | as `NoKeyRollback` | a replay of a bind is authorised, and moves the key, before its nonce is looked at |
| `ConversationsSurvive`, `RouteFollows` (`docs/MOBILITY.md`) | `directory` with `MaxEpoch = 1` and `Nodes = {n1, n2}` | a peer's pinned key and cached route are never renewed |
| `QuarantineIsolates` ("isolated, not the node") | `executor` | `fire_tick` does not ask whether the agent is quarantined: its armed timers go on |
| `StillDue` (`docs/AGENT_HOST_ABI.md`, `timer_cancel`) | `executor` with `TimerSlots = 2` | the list of due timers is made before the first of them fires |
| `FaultDiscards` for wasm (`docs/NODE_DESIGN.md`, "output discarded") | drop `kind[a] = "native"` | sends before a trap are kept |
| `TimersFire` under endless messages | `executor` with `MaxMessages <- Endless` | a stage ends only when its channel is empty |
| `NoOrphan` without `~raced` ("Remove the failed entry first", `actor/supervisor.rs`) | drop the condition | stop, spawn, then the old restart or a late event: the closure removes a healthy entry and its actor runs on, unsupervised |
| `RoundBudget` ("Maximum rounds allowed", `protocol/iterated_contract_net.rs`) | `conversation` | a Cfp message opens a round without asking `can_continue` |
| `BrokerWaits` ("Required number of responses", `protocol/brokering.rs`) | `conversation` | the first result moves on to consolidating; `required_responses` is not read |
| `StoredLogSurvives` ("Uses openraft with sled for persistent storage", `consensus/mod.rs`) | `durable` | the log is read from the cache alone, which a restart empties |
| `ReplicasAgree` | `durable` | a service is entered with the node that applies the request, not the one that offered it |
| `WithinQuota` ("bounded by a byte quota", `process/node.rs`) | `access` | a remount counts from zero over what is stored |
| `SlidingWindow` ("A sliding one-second window") | `access` | the window starts anew at its end: two limits fit into one second |
| `ReportedArrives` ("a broken channel is transparently re-dialled") | `access` | what was written to a connection that then breaks is not sent again |
| `AgentLimit` ("Maximum agents allowed on the platform", `platform/ams.rs`) | `services` with `MaxAgents = 2` | creations that wait for the supervisor's answer are not counted |
| `RetriesBounded` ("Maximum retries for failed deliveries", `interplatform/acc.rs`) | `services` with `MaxClock = 4`, `MaxBufferSize = 3` | a failed retry is buffered twice, once with a fresh count |
| `RegisteredIsReachable` | `services` | `name@platform` resolves to no URL |
| `WakerOnce` ("Executes once after a delay", `behavior/mod.rs`) | `services` | blocking and restarting a waker that is done makes it ready again |
| `HostedLikeInProcess` ("exactly like an in-process one", `process/mod.rs`) | `services` | after a restart that failed, the same child is driven on and its late answer is taken for the next one |
| `FreshBudget` ("Each agent entry point gets a *fresh* budget", `wasm/runtime.rs`) | `services` | `handle_message` is not refuelled |
| `UsageExact` ("Storage usage in bytes", `wasm/host.rs`) | `services` | `restore_state` replaces the storage and not the usage |
| `QueuedIsKept` ("Message queued for delivery", `mcp/tools.rs`) | `services` | a message to an unknown receiver is not stored |
| `DetailIsOneAgent` (`mcp/resources.rs`) | `services` | `fipa://agents` is a prefix of the agent's URI, and which handler matches first is the hash map's choice |
| `MessagesByEither` ("Agent ID or name", `mcp/tools.rs`) | `services` | a message keeps what its sender wrote, id or name, and is found by that only |

Differences that need no run, met while modelling:

- `actor/supervisor.rs`: `docs/ARCHITECTURE.md:428` lists restart strategies per agent, of
  which only the default is used; a restart makes a new entry whose backoff starts again.
  `GetStatus` counts finished conversations as active.
- `persistence/`: background snapshots hold no conversations, the file store's clean-up
  deletes nothing, recovery loads no services, and one unreadable latest file fails all of it.
  A state read before another was acknowledged may be stored after it and be the latest, and
  of the snapshots of one second any may be: `RecoversTheAcknowledged` promises no more than
  that the state is no older than all of these.
- `protocol/dutch_auction.rs`: `new_as_auctioneer` takes a starting price under the reserve,
  and the first bid then sells under it.
- `interplatform/acc.rs`: only the first receiver of an envelope is served and nothing calls
  `process_buffer`. `process/router.rs`: `run` takes an envelope from the queue before it
  checks `max_steps`, and loses it.
- `network/`: stale providers stay, pending outbound messages are never sent, services outlive
  their actor's registration. `platform/df.rs`: leases are kept and not enforced.
- `security/`: the YAML form that `from_yaml` documents loads no permission, a diamond of roles
  is reported as a circle, `session_timeout_secs` is not read, and a session that was logged
  out is authorised until it expires. `trust/`: an expired signature leaves the cached validity.
- `adapters/crypto.rs`: `load_or_mint` mints over a key file it cannot read, and `mesh_node`
  goes on with a fresh key when `load_key` fails.

## 4. What is proved

TLAPS checks these for every value of the constants that satisfies the `ASSUME` of the
module, which only says what kind of thing each constant is; conditions beyond it are in the
statement and in the table. Each proof has the same shape: an inductive invariant (the first
state has it, one lemma per action shows that a step keeps it, it implies the property);
TLC finds the property true on the run's instance. Every safety invariant and every action
property of the passing runs is stated by a theorem.

### The node and its agents

| Theorem | Statement | Argument |
|---|---|---|
| `TypeCorrect`, `EscrowTypeCorrect`, `DirectoryTypeCorrect` | `Spec => []TypeOK` | inductive; for Escrow with `PartiesKnown` (the parties of a hold are accounts, so a receipt has an address), for Directory with a bound on the nonce (`DirInv`), since the messages' types mention it |
| `OneTokenHolds`, `NoForkHolds` | the agent is live on at most one node, if only live copies are moved | `NoFork` alone is not inductive: a source that waits may resume and a COMMIT under way may activate. `OneToken` says that a live copy, a waiting source and a COMMIT under way exclude one another, and it is |
| `ReplayGuardHolds`, `CommitsAdvance` | a committed epoch is never mounted again; every commit is past all before it | `GuardInv` adds that a durable node's memory and store agree when memory has a record, and that a node with a move under way is not serving |
| `MigrationSafeHolds` | the invariant `migration_fork` checks, under the condition of `OneTokenHolds` | the three above together |
| `NoLossHolds` | the agent is never lost, if no node is returned to (`OneWayMoves`: some rank grows with every move), COMMIT reaches a destination that runs on and only live copies are moved (`Faults \subseteq {"wait5", "replay"}`); these are the conditions of `migration_oneway`, and without them the claim is false (section 3) | `NoLossInv`: a copy that waits is the one its attempt brought and no other attempt waits there (`HeldInv`), whoever may run the agent has the latest epoch (`EpochInv`), and no node ahead of the agent has committed it (`AheadInv`), so a payload of the newest attempt is never refused as a replay and an abort never meets a retry |
| `SavedHolds`, `OneWayHolds`, `EscrowSafeHolds` | if writes succeed and the seed is applied once (`Durable`), the store is the memory and a finished hold never changes | each handler either changes nothing or writes what it changed; a boot then reloads the same state |
| `MoneyConservedHolds` | if moreover all the money there is fits a `u64` (`Solvent`), balances and open holds add up to the seed | `MoneyInv`; a handler moves one amount between two summands (`SumChange`), and no summand exceeds the sum (`SumAtLeast`), so nothing wraps |
| `OnlyBuyerPaysHolds`, `PaymentsFinalHolds` | under `Durable` and `Solvent`, a balance falls only by its owner's own reserve, and holds end once | by cases on the handlers, with `MoneyInv` |
| `MonotonicHolds` | AMS's record never goes back except by a restart | `DirInv`, and `MayBind` in each action that handles a message |
| `DirectorySafeHolds` | while messages arrive once and in order, the key AMS's node has pinned is the key of the host AMS has on record | `OrderInv`: every message was sent from the host of some epoch, after the binds up to it and before the others (`SentInv`), and in a calm state the binds under way are exactly those AMS has not seen (`CalmInv`), so the first of them is the one it expects and carries the handoff of the key it has |
| `BookSafeHolds` | one book is sold to one buyer, and while nothing is lost it is shipped to the buyer who paid only | `BookInv`: everything under way is about PA's one hold (`MailOK`), whom the seller keeps the book for and who has it is that hold's buyer (`OneBuyer`), and while nothing is lost no `paid` and no `deliver` is under way of a hold that is open, and no `deliver` of a cancelled one, whose release the seller hears first (`InOrder`) |
| `ExecutorTheorem`, `ContainedTheorem` | slots, threads and the pump keep their bounds and every inference is waiting, running, answered or accounted for; a quarantined agent hears no message and a panicking native agent's sends are discarded | `ExecutorInv`: the agents, the queues and the counters, each kept apart from the others |
| `SupervisionTheorem` | `SupervisionSafe`: no orphan, a stop sticks, the table tells the truth once its events are read, and the registry's last word is the living, started actor | `SupervisionInv`: of the events that will have a name restarted or removed and the restarts that wait there is at most one (`EndsInv`), and none while an actor of the name lives (`AliveInv`), so a restart finds nobody alive and a removal nobody untold; the mailboxes are read to their end in the invariant, the registry's by `Settled` (`WordInv`) and the supervisor's by `Hears` (`HeardInv`), so reading a message changes neither |

### The services, and the edge of a node

| Theorem | Statement | Argument |
|---|---|---|
| `VotingTheorem` | `OneVotePerTerm` | `VoteRemembered`: a grant of this life is of a past term, or it is the recorded vote |
| `DestroyedTheorem` | `DestroyedStaysDown` | `StopFollows`: what runs or will be spawned under a destroyed name has a stop behind it in the supervisor's mail |
| `DirectoryFacilitatorTheorem` | `DirectoryExact` | `DFInv`: the index is the list read backwards, and the limits hold for the sums over it |
| `ChannelTheorem` | `AcceptedNotLost` | `PutBackSpare`: the message whose retry failed is buffered or counted already, without the copy the loop is about to put back, unless the buffer was cleared since |
| `SchedulerTheorem` | `RunsOnTime` | `Remembers`: an entry's next time and its runs say what the history says of it |
| `PresentTheorem` | `KnowsThePresent` | `ListedAnnounced`; `CallsSincere`: a call under way says it delivered just when some receiver took the message |
| `HostingTheorem` | `HostingSound` | `ManagedInv`: until a restart fails, what is in the socket is one answer to the delivery that waits; `RouterInv`: every envelope in the queue or outside is from who emitted it |
| `GrantTheorem` | `WithinGrant` | `SendsInv`; `StorageInv`: until a state is restored the usage is the sum of what is stored, within the quota, so it never wraps at `Word`; `TimersInv`: the timers that wait, have fired and are over part the numbers given |
| `BridgeTheorem` | `BridgeExact` | `LinesInv`: the lines queued, the one being served and the answers are consecutive; `AgentsInv`: an agent is under an id that was drawn, and while the server has looked for a name the name is free |
| `LockoutTheorem` | `LockoutHolds` | `LockoutInv`: the stored count and end of the lockout are the ones the history defines |
| `SessionsTheorem`, `AgentCacheTheorem` | two parts of `AccessSound`: sessions are honoured; the agents' cache is what the bindings say | the calls that change the policy, a binding or a role empty the cache |
| `AccessSoundHolds` | `AccessSound`: the engine decides as the policy in force says | `EngineFits`: the roles cached are the ones that reach each other role along one path, with the permissions of all they reach. The walk of `resolve_role_permissions` is shown to succeed exactly there (`ResolveIsExact`), by induction on the number of names not visited yet (`WalkHonest`): a role over disjoint trees of its parents is a tree (`ForestIsTree`), and what each parent reaches of a tree is a tree, disjoint from the others (`BranchIsTree`, `BranchesDisjoint`). A policy read from a file has its shape by induction on the lines (`FromYamlFits`) |
| `CachedValidityTheorem` | `CachedValidityWasTrue` | every call that changes the web empties the cache |
| `SavedWebTheorem` | the half of `WebEvolves` about restarts | `StoreInv`: what was saved is on disk, but for the owner's own trust, which loading sets |
| `WebEvolvesHolds` | `WebEvolves`: a new endorsement makes nobody less valid, a new revocation nobody more valid, and a restart takes nothing | `Fewer`: a web with no more valid endorsements has no more paths of any length (`LongerGrow`, then by induction on the length), the best weight of a path is monotone in the set of paths, and so is the validity; a signature added last changes the set of valid endorsements the way it says; `StoreInv` for restarts |
| `IdentityTheorem` | `IdentityKept` | `IdentityInv`: while nothing went wrong, the key last served under is in the file |
| `AdmittedTheorem` | `AdmittedWasSealed` | every signature in the world was made, and an agent's bytes are never an envelope's |
| `BudgetTheorem` | `AgentWithinBudget` | `KvInv`: what is stored is within a quota for each mount, by sums over the keys; `RateInv`: a window has counted its own second, and the one before it at most a limit |
| `LinkTheorem` | `LinkSound` | `LinkInv`: a frame is in one place (`Once`), a reported one is in some place unless its link closed |

### Conversations, recovery and the replicated directory

| Theorem | Statement | Argument |
|---|---|---|
| `NegotiationSoundHolds` | `NegotiationSound`, if every Dutch auction is opened at or above its reserve (`OpensAboveReserve`: `new_as_auctioneer` does not ask for it, and without it the first bid sells under the reserve) | `MachineOK`: the shape of each machine with what its state says of its bids, prices and rounds; machines start as their constructors make them (`NegotiationAssumption`), with any amounts |
| `SettledStaysHolds` | `SettledStays` | the same invariant and the ten tables: no row leads out of a terminal state |
| `ConversationSoundHolds` | `ConversationSound` | `ConversationInv`: the replay of each history is the state, a fold that grows by one step with each message, and the completions are the conversations that are over, at most those started |
| `LiveConversationsResumeHolds` | `LiveConversationsResume` | the words `is_terminal_state` looks for are in the name of no state that a row of the tables leads out of (`TerminalStatesEnd`) |
| `RecoversTheAcknowledgedHolds` | `RecoversTheAcknowledged`, for any names and any sharing of directories | `PersistenceInv`: in a place with a promise, some file, or the first of the list in memory, is from no earlier second, and whatever is as new, or is still to be stored there, has a state no older than promised (`Kept`; what a report promises has this by the choice of `Rivals`, `RivalsLeast`). Every snapshot has its own number, is of a name that has the place, and is from no later second (`Numbered`), so that clean-up, which in memory cuts the older end and on disk finds nothing to delete, leaves one, and the engine files what it is given under a name of that place |
| `ImplementsDirectoryHolds` | `RSpec => ImplementsDirectory`, the refinement | `ReplicaInv`: each node and each snapshot under way reflects a beginning of the committed requests. The initial states map to initial states, and each step appends a request, moves one node to the directory of another beginning, or stutters (`Moves`); that the fold over the log shows what `ReplicatedDirectory` defines without folding is by induction on the beginning |

`BudgetTheorem`, `PresentTheorem`, `GrantTheorem` and `HostingTheorem` are about components
that share no state, so their statements assume one specification for each
(`KvSpec /\ RateSpec => ...`); in the runs these are alternatives of one `MC` module.

### Induction

The library's induction rules take an operator as a parameter, which the installed provers
cannot instantiate. `SumTheorems` states induction with sets instead (`LeastNat`,
`NatSetInduction`, `FiniteSetInduction`: a set that has the first and with each the next has
all), which is first-order, shows with it that the recursion behind the community modules'
`FoldFunctionOnSet` and `FoldLeft` has a solution, and so proves the laws of sums that
`Escrow`, `Platform`, `Gateway` and `Sandbox` need, and what a fold along a list keeps
(`Replay`, the walk over roles, the parser of a policy file). A fold takes an operator, so
each of them has its own such lemma, about functions on the sets of places of the list.

A few definitions are written so that they can be reasoned about, and mean the same: where
the last message about a name is (`LastAbout`) or the elements a list keeps (`Retained`)
instead of `SelectSeq`, which snapshots are listed before one (`ListedBefore`) instead of a
sort, the places of the valid endorsements instead of their list (`ValidEndorsements`), the
roles reached as the least set that is closed under inheritance (`Reached`), and chains of
`IF` where the guards of a `CASE` overlapped. The assumptions on constants say what kind of
thing each is: the names of agents and messages in a purchase are distinct, a machine starts
as its constructor makes it, a policy has finitely many roles with lists of parents.

### Only model-checked

Liveness: `MoveEnds`, `BookLive`, `CatchesUp`, `ServeLive` and `SupervisionLive`. Fairness and
`ENABLED` are outside the prover's reach.

## 5. Plan

What is left, in this order:

1. *Refinement*: an abstract single agent that `Migration` implements, now that the
   invariant it needs (`NoLossInv`) is proved.
2. *Composition*: `Platform` over `Supervision` instead of the supervisor's summary it has
   now; `Gateway`'s links under `Directory`'s messages.
3. *Liveness* of the parts that have an owner's loop: the channel's retry loop and the
   background snapshots, if something in the repository comes to call them.

## 6. Not modelled, and why

Section 1.3's parts have no state of their own. Cryptography is a model value: a signature
is made by the key that made it, and no action forges one. Payloads, code and addresses are
single values, except where a property is about how they run together (the keys of the state
store, the bytes that are signed). Wall-clock time is counted in few ticks where a window or
an expiry compares times; elsewhere a timeout is the choice to stop waiting, and in
`Supervision` an earlier timer that is not longer fires first. A native agent that never
returns, an inference backend that panics and a full disk other than as a failed or torn
write are left out. The Raft protocol is openraft's: `Consensus` takes from it which entries
are committed. DF's caps and AMS's limit on records, the counter of open connections, HTTP,
gRPC and libp2p glue, and the wasm engines behind their calls are left out; `PROJECT.json`
marks those components `partly`.
