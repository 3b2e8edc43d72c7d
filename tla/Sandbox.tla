------------------------------ MODULE Sandbox ------------------------------
(***************************************************************************)
(* What an agent may use: manifest.rs, the grant a node's profile admits   *)
(* it with; wasm/runtime.rs, wasm/wasmi_engine.rs and adapters/engine.rs,  *)
(* the fuel of its calls and the messages it may queue; wasm/host.rs, the  *)
(* storage and the timers the host keeps for it.                           *)
(*                                                                         *)
(* A guest may do anything its engine lets it: spend fuel, emit messages,  *)
(* trap.  Fuel is counted in units of the smallest budget that is told     *)
(* apart, memory and storage in the manifest's units.                      *)
(***************************************************************************)
EXTENDS Integers, FiniteSetsExt, Functions, Maps

CONSTANTS
  Manifests,        \* the manifests that may be loaded
  Unlimited,        \* u64::MAX, the normal profile's ceiling of fuel
  CallFuel,         \* call_fuel
  MaxQueuedSends,   \* MAX_QUEUED_SENDS
  MaxMailbox,       \* bound on the host mailbox
  Keys,             \* the keys of the storage
  Sizes,            \* the lengths of values
  Quota,            \* storage_quota_bytes
  Word,             \* 2^64, the range of the usage
  MaxTimers,        \* bound on the timers scheduled
  Delays,           \* delay_ms of timers
  MaxTick           \* bound on the clock

Caps == {"Messaging", "Log", "Discovery", "State", "Time", "Llm", "Crypto", "Spawn"}
Core == {"Messaging", "Log"}
Scopes == {"none", "platform", "node", "any"}

ASSUME SandboxAssumption ==
  /\ {Unlimited, CallFuel, MaxQueuedSends, MaxMailbox, Quota, MaxTimers, MaxTick} \subseteq Nat
  /\ Unlimited >= 1
  /\ \A m \in Manifests :
       /\ m.grants \subseteq Caps /\ m.net \in Scopes
       /\ {m.mem, m.fuel, m.state, m.timers, m.msgs} \subseteq Nat
  /\ \E m \in Manifests : m.grants = {}
  /\ IsFiniteSet(Keys) /\ Sizes \subseteq Nat /\ Delays \subseteq Nat
  /\ Word \in Nat /\ \A n \in Sizes : Quota + n < Word

VARIABLES
  loaded,           \* the manifest under consideration
  gas,              \* the fuel left in the store
  budget,           \* the fuel the last entry point began with
  sends,            \* number of messages queued and not drained
  mailbox,          \* number of messages in HostState.mailbox
  stored,           \* HostState.storage: the length of each value
  usage,            \* HostState.storage_usage
  restored,         \* whether restore_state was used
  timers,           \* HostState.timers
  nextTimer,        \* HostState.next_timer_id
  fired,            \* HostState.fired_timers: how often each id is in it
  ended,            \* the timers cancelled or taken
  clock             \* the time of day

fitvars == <<loaded>>
enginevars == <<gas, budget, sends, mailbox>>
hostvars == <<stored, usage, restored, timers, nextTimer, fired, ended, clock>>

-----------------------------------------------------------------------------
(* The load-time fit *)

\* net_rank: everything between none and any is the same.
NetRank(scope) == IF scope = "none" THEN 0 ELSE IF scope = "any" THEN 2 ELSE 1

Normal ==
  [caps |-> Caps, mem |-> 1048576, fuel |-> Unlimited, state |-> 1048576, timers |-> 1024,
   msgs |-> 100000, net |-> "any"]

Iot ==
  [caps |-> Caps \ {"Llm", "Spawn"}, mem |-> 512, fuel |-> 1, state |-> 64, timers |-> 4,
   msgs |-> 50, net |-> "platform"]

Admits(profile, m) ==
  /\ m.grants \subseteq profile.caps
  /\ \A r \in {"mem", "fuel", "state", "timers", "msgs"} : m[r] <= profile[r]
  /\ NetRank(m.net) <= NetRank(profile.net)

\* The grant of an admitted manifest: its capabilities and the core ones, its own budget.
GrantOf(m) == [caps |-> m.grants \union Core, budget |-> [m EXCEPT !.grants = {}]]

FitInit == loaded = CHOOSE m \in Manifests : m.grants = {}

\* Manifest::from_json of another bundle.
LoadManifest(m) == loaded' = m

FitNext == \E m \in Manifests : LoadManifest(m)

FitSpec == FitInit /\ [][FitNext]_fitvars

-----------------------------------------------------------------------------
(* The engine *)

EngineInit == gas = CallFuel /\ budget = CallFuel /\ sends = 0 /\ mailbox = 0

\* send-unl, n times: the queue is full at the cap, drained or not.
Queued(n) == IF sends + n > MaxQueuedSends THEN MaxQueuedSends ELSE sends + n

\* A call with so much fuel: the guest spends some of it and returns, traps, or runs out; what it
\* emitted stays queued in any case.
Runs(fuel) ==
  /\ budget' = fuel
  /\ \E spent \in 0 .. fuel, n \in 0 .. MaxQueuedSends + 1 :
       gas' = fuel - spent /\ sends' = Queued(n)

\* call_init, call_run, call_shutdown, call_deliver, call_config, call_snapshot, call_restore: each
\* resets the fuel first, config after a deliver that is not exported once more.
EntryPoint == Runs(CallFuel) /\ UNCHANGED mailbox

\* handle_message: what is left of the fuel.
HandleMessage == mailbox < MaxMailbox /\ mailbox' = mailbox + 1 /\ Runs(gas)

\* receive-message.
ReceiveMessage == mailbox > 0 /\ mailbox' = mailbox - 1 /\ Runs(gas)

\* take_unl_sends, take_sends: not after a call that failed.
TakeSends == sends > 0 /\ sends' = 0 /\ UNCHANGED <<gas, budget, mailbox>>

EngineNext == EntryPoint \/ HandleMessage \/ ReceiveMessage \/ TakeSends

EngineSpec == EngineInit /\ [][EngineNext]_enginevars

-----------------------------------------------------------------------------
(* The host state *)

HostInit ==
  /\ stored = <<>> /\ usage = 0 /\ restored = FALSE
  /\ timers = <<>> /\ nextTimer = 1 /\ fired = <<>> /\ ended = {} /\ clock = 0

Size(k) == IF k \in DOMAIN stored THEN stored[k] ELSE 0

\* Mutant: the value that is replaced is not given back.
NewUsageOnly(k, n) == (usage + n) % Word

\* The usage after a store, in u64: a release build wraps (a debug build panics).
NewUsage(k, n) == (usage + n - Size(k)) % Word

Store(k, n) ==
  /\ NewUsage(k, n) <= Quota
  /\ usage' = NewUsage(k, n)
  /\ stored' = With(stored, k, n)
  /\ UNCHANGED <<restored, timers, nextTimer, fired, ended, clock>>

Delete(k) ==
  /\ k \in DOMAIN stored
  /\ usage' = (usage - stored[k]) % Word
  /\ stored' = Without(stored, k)
  /\ UNCHANGED <<restored, timers, nextTimer, fired, ended, clock>>

\* restore_state replaces the storage and leaves the usage.
RestoreState(s) ==
  /\ stored' = s /\ restored' = TRUE
  /\ UNCHANGED <<usage, timers, nextTimer, fired, ended, clock>>

ScheduleTimer(d) ==
  /\ nextTimer <= MaxTimers
  /\ timers' = With(timers, nextTimer, clock + d)
  /\ nextTimer' = nextTimer + 1
  /\ UNCHANGED <<stored, usage, restored, fired, ended, clock>>

CancelTimer(t) ==
  /\ t \in DOMAIN timers
  /\ timers' = Without(timers, t)
  /\ ended' = ended \union {t}
  /\ UNCHANGED <<stored, usage, restored, nextTimer, fired, clock>>

Due == {t \in DOMAIN timers : clock >= timers[t]}
Times(t) == IF t \in DOMAIN fired THEN fired[t] ELSE 0

CheckTimers ==
  /\ Due # {}
  /\ timers' = [t \in DOMAIN timers \ Due |-> timers[t]]
  /\ fired' = [t \in DOMAIN fired \union Due |-> Times(t) + (IF t \in Due THEN 1 ELSE 0)]
  /\ UNCHANGED <<stored, usage, restored, nextTimer, ended, clock>>

TakeFiredTimers ==
  /\ fired # <<>> /\ fired' = <<>>
  /\ ended' = ended \union DOMAIN fired
  /\ UNCHANGED <<stored, usage, restored, timers, nextTimer, clock>>

\* The wall clock may be set back.
ClockMoves ==
  /\ clock' \in {clock + 1, clock - 1} \intersect 0 .. MaxTick
  /\ UNCHANGED <<stored, usage, restored, timers, nextTimer, fired, ended>>

HostNext ==
  \/ \E k \in Keys, n \in Sizes : Store(k, n)
  \/ \E k \in Keys : Delete(k)
  \/ \E ks \in SUBSET Keys : \E s \in [ks -> Sizes] : RestoreState(s)
  \/ \E d \in Delays : ScheduleTimer(d)
  \/ \E t \in DOMAIN timers : CancelTimer(t)
  \/ CheckTimers \/ TakeFiredTimers \/ ClockMoves

HostSpec == HostInit /\ [][HostNext]_hostvars

-----------------------------------------------------------------------------
(* Properties *)

\* A manifest the constrained profile admits is admitted by the full one, so that an agent can
\* always move from an edge node to a normal one; and where a profile admits it, the agent gets no
\* capability beyond the profile's, the core ones included (fit, net_rank, the two profiles).
FitMonotone ==
  /\ Admits(Iot, loaded) => Admits(Normal, loaded)
  /\ \A profile \in {Iot, Normal} : Admits(profile, loaded) => GrantOf(loaded).caps \subseteq profile.caps
  /\ Admits(Iot, loaded) => loaded.net # "any" /\ GrantOf(loaded).caps \intersect {"Llm", "Spawn"} = {}

\* However many calls fail before the node drains the queue, a guest has at most MAX_QUEUED_SENDS
\* messages on the host's heap (send-unl, audit note M3).
SendsBounded == sends <= MaxQueuedSends

\* "Each agent entry point gets a *fresh* budget" (call_fuel).
FreshBudget == budget = CallFuel

StoredBytes == SumFunction(stored)

\* Until a state is restored, the usage charged to an agent is what it stores, within its quota,
\* after any sequence of overwrites and deletions; and a timer has exactly one fate: it waits, has
\* fired once and is to be collected, or was collected or cancelled (store, delete, check_timers,
\* cancel_timer, take_fired_timers).
HostAccounts ==
  /\ ~restored => usage = StoredBytes /\ usage <= Quota
  /\ \A t \in 1 .. nextTimer - 1 :
       LET fates == <<DOMAIN timers, DOMAIN fired, ended>>
       IN  Cardinality({i \in 1 .. 3 : t \in fates[i]}) = 1
  /\ \A t \in DOMAIN fired : fired[t] = 1

\* "Storage usage in bytes" (HostState): without the condition.
UsageExact == usage = StoredBytes

\* An agent stays within what it was granted: at its admission, in a call, and in what the host
\* keeps for it.
WithinGrant == FitMonotone /\ SendsBounded /\ HostAccounts
=============================================================================
