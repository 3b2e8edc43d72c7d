------------------------------ MODULE Executor ------------------------------
(***************************************************************************)
(* A node's main loop (process/node.rs: serve) and the executor it drives: *)
(* pump and its work budget, the supervisor's fault count and quarantine,  *)
(* timer slots, spawning, and inferences on threads of their own.          *)
(*                                                                         *)
(* The loop is one thread: it drains the messages from the wire, fires the *)
(* timers that are due, starts inferences and hands out their results,     *)
(* round after round.  What an agent does when it is called is arbitrary,  *)
(* within one kind of effect a call; the wasm runtimes leave the timer,    *)
(* inference and spawning hooks at their defaults, so a wasm agent only    *)
(* sends.  Grants are taken as given, and no agent migrates (Migration).   *)
(***************************************************************************)
EXTENDS Integers, Sequences, FiniteSets, SequencesExt, Functions

CONSTANTS
    Natives,      \* native agents, mounted from the start
    Spawnable,    \* uuids that agents ask a wasm agent to be spawned at
    Timers,       \* timer ids
    TimerSlots,   \* budget.timers
    MaxFaults,    \* MAX_FAULTS (3)
    PumpBudget,   \* the work budget of one pump (10 000)
    Backends,     \* whether set_llm may, or may not, have been called
    MaxInflight,  \* MAX_INFLIGHT_INFER (32)
    MaxAsks,      \* bound on the inferences asked for
    MaxMessages,  \* bound on the messages from the wire; -1: they never end
    InboxSize     \* length of the inbound queue (1024)

Agents == Natives \cup Spawnable

ASSUME ExecutorAssumption ==
    /\ {TimerSlots, MaxAsks, InboxSize} \subseteq Nat
    /\ {MaxFaults, PumpBudget, MaxInflight} \subseteq Nat \ {0}
    /\ MaxMessages \in Nat \cup {-1}
    /\ IsFiniteSet(Natives) /\ IsFiniteSet(Spawnable) /\ IsFiniteSet(Timers)
    /\ Backends \subseteq BOOLEAN

VARIABLES
    llm,         \* whether there is an inference backend
    kind,        \* kind[a]: the runtime mounted at a, if any
    faults,      \* consecutive faults
    quarantined, \* agents stopped after repeated faults
    armed,       \* armed[a]: a's timers
    expired,     \* those of them whose deadline has passed
    inbox,       \* messages decoded by connection threads, not handled yet
    arrived,     \* how many have come from the wire
    q,           \* pump's queue; pump returns when it is empty
    budget,      \* what is left of pump's budget
    outbox,      \* what a tick sent, to be pumped one by one
    phase,       \* where the loop is
    due,         \* the timers this round fires, as it found them
    asked,       \* asked[a]: the inferences a has asked for
    pending,     \* of those, how many are in pending_infers
    requeued,    \* how many this round has put back there
    running,     \* how many run on threads
    infl,        \* the count of busy threads
    answers,     \* results in the channel llm_rx
    told         \* results handed to a

agentVars == <<kind, faults, quarantined, armed, expired, asked, pending>>
nodeVars == <<llm, inbox, arrived>>
pumpVars == <<q, budget, outbox>>
threadVars == <<requeued, running, infl, answers, told>>
vars == <<agentVars, nodeVars, pumpVars, phase, due, threadVars>>

Zero == [a \in Agents |-> 0]
Total(f) == SumFunction(f)
Up(f, a) == [f EXCEPT ![a] = @ + 1]
Down(f, a) == [f EXCEPT ![a] = @ - 1]

Init ==
    /\ llm \in Backends
    /\ kind = [a \in Agents |-> IF a \in Natives THEN "native" ELSE "none"]
    /\ faults = Zero
    /\ quarantined = {}
    /\ armed = [a \in Agents |-> {}]
    /\ expired = [a \in Agents |-> {}]
    /\ inbox = <<>> /\ arrived = 0
    /\ q = <<>> /\ budget = 0 /\ outbox = <<>>
    /\ phase = "wire"
    /\ due = <<>>
    /\ asked = Zero /\ pending = Zero /\ requeued = Zero
    /\ running = Zero /\ infl = 0
    /\ answers = Zero /\ told = Zero

----------------------------------------------------------------------------
(* One call of an agent.                                                   *)

Quiet == [ok : BOOLEAN, do : {"nothing"}, on : {"nothing"}]
Sends == [ok : BOOLEAN, do : {"send"}, on : {SetToSeq(A) : A \in SUBSET Agents \ {{}}}]
Requests ==
    [ok : {TRUE}, do : {"arm", "cancel"}, on : Timers]
        \cup [ok : {TRUE}, do : {"ask"}, on : {"llm"}]
        \cup [ok : {TRUE}, do : {"spawn"}, on : Spawnable]

\* What a call may come to: whether it failed, and what it asked for.  A native
\* agent that panics loses what it asked for; a wasm agent that traps has
\* already put its sends where take_sends finds them.
Calls(a) ==
    IF kind[a] = "wasm" THEN Quiet \cup Sends
    ELSE Quiet \cup {c \in Sends : c.ok} \cup Requests

\* The wasm runtimes leave tick at its default.
Ticks(a) == IF kind[a] = "wasm" THEN {c \in Quiet : c.ok} ELSE Calls(a)

\* supervise: success clears the count, a fault adds to it.
Supervise(a, ok) ==
    /\ faults' = [faults EXCEPT ![a] = IF ok THEN 0 ELSE @ + 1]
    /\ quarantined' = IF faults'[a] >= MaxFaults THEN quarantined \cup {a} ELSE quarantined

\* apply_timer_ops: within the slot budget, a set (re-)arms and a cancel disarms.
TimerOps(slots, c) ==
    CASE c.do = "arm" /\ (c.on \in slots \/ Cardinality(slots) < TimerSlots) -> slots \cup {c.on}
      [] c.do = "cancel" -> slots \ {c.on}
      [] OTHER -> slots

\* apply_infer_reqs.
Infer(a, c) ==
    IF c.do = "ask" /\ Total(asked) < MaxAsks
    THEN asked' = Up(asked, a) /\ pending' = Up(pending, a)
    ELSE UNCHANGED <<asked, pending>>

\* apply_spawn_reqs: the child replaces whatever has its uuid, unless its
\* manifest or its code is refused.
Spawn(c) ==
    \/ c.do = "spawn" /\ kind' = [kind EXCEPT ![c.on] = "wasm"]
    \/ UNCHANGED kind

\* What the node does about a call, apart from the sends.  slots are the timers
\* of a at the time; to arm one again gives it a new deadline.
Handle(a, slots, c) ==
    /\ Supervise(a, c.ok)
    /\ armed' = [armed EXCEPT ![a] = TimerOps(slots, c)]
    /\ expired' = [expired EXCEPT ![a] =
                     (@ \cap TimerOps(slots, c)) \ (IF c.do = "arm" THEN {c.on} ELSE {})]
    /\ Infer(a, c)
    /\ Spawn(c)

Sent(c) == IF c.do = "send" THEN c.on ELSE <<>>

----------------------------------------------------------------------------
(* pump.                                                                   *)

\* Mutant: a quarantined agent is called.
CallsAnyone(a) == kind[a] # "none"

\* pump calls an agent that is mounted and not quarantined.
Callable(a) == kind[a] # "none" /\ a \notin quarantined

StartPump(m) == q' = <<m>> /\ budget' = PumpBudget

\* The rest of the queue, with one unit of the budget spent.
ContinuePump(rest) ==
    /\ q' = rest
    /\ budget' = IF rest = <<>> THEN 0 ELSE budget - 1

\* The budget is used up: the rest is dropped.
PumpExhausted ==
    /\ q # <<>> /\ budget = 1
    /\ ContinuePump(<<>>)
    /\ UNCHANGED <<agentVars, nodeVars, outbox, phase, due, threadVars>>

\* Nobody has the uuid (the message goes to the sink), or it is quarantined.
PumpDrops ==
    /\ q # <<>> /\ budget > 1
    /\ ~ Callable(Head(q))
    /\ ContinuePump(Tail(q))
    /\ UNCHANGED <<agentVars, nodeVars, outbox, phase, due, threadVars>>

PumpCalls ==
    /\ q # <<>> /\ budget > 1
    /\ Callable(Head(q))
    /\ \E c \in Calls(Head(q)) :
          /\ Handle(Head(q), armed[Head(q)], c)
          /\ ContinuePump(Tail(q) \o Sent(c))
    /\ UNCHANGED <<nodeVars, outbox, phase, due, threadVars>>

----------------------------------------------------------------------------
(* The loop.                                                               *)

AtLoop(p) == q = <<>> /\ outbox = <<>> /\ phase = p

Enter(p) ==
    /\ phase' = p
    /\ UNCHANGED <<agentVars, nodeVars, pumpVars, threadVars>>

\* 2. Messages from the wire, until there is none.
HandleMessage ==
    /\ AtLoop("wire") /\ inbox # <<>>
    /\ inbox' = Tail(inbox)
    /\ StartPump(Head(inbox))
    /\ UNCHANGED <<agentVars, llm, arrived, outbox, phase, due, threadVars>>

\* Mutant: a quarantined agent's timers are passed over.
DueTimersHealthy == {at \in Agents \X Timers : at[2] \in expired[at[1]] /\ at[1] \notin quarantined}

DueTimers == {at \in Agents \X Timers : at[2] \in expired[at[1]]}

\* 3c. The timers that are due are listed, then fired one by one.
ListDue ==
    /\ AtLoop("wire") /\ inbox = <<>>
    /\ due' = SetToSeq(DueTimers)
    /\ Enter("timers")

\* fire_tick: the slot is emptied, the agent called (quarantined or not), and
\* what it sends dispatched.
FireTick ==
    /\ AtLoop("timers") /\ due # <<>>
    /\ LET a == Head(due)[1]
           t == Head(due)[2] IN
       \E c \in Ticks(a) :
          /\ Handle(a, armed[a] \ {t}, c)
          /\ outbox' = Sent(c)
    /\ due' = Tail(due)
    /\ UNCHANGED <<nodeVars, q, budget, phase, threadVars>>

\* dispatch: each send is a pump of its own.
Dispatch ==
    /\ q = <<>> /\ outbox # <<>>
    /\ outbox' = Tail(outbox)
    /\ StartPump(Head(outbox))
    /\ UNCHANGED <<agentVars, nodeVars, phase, due, threadVars>>

TimersDone ==
    /\ AtLoop("timers") /\ due = <<>>
    /\ UNCHANGED due
    /\ Enter("infer")

\* Mutant: the cap is off by one.
HasSlotLate == infl <= MaxInflight

\* 3d. Every pending inference is looked at once: it starts while fewer than
\* the cap run, and is put back otherwise.
HasSlot == infl < MaxInflight

StartInference(a) ==
    /\ llm
    /\ AtLoop("infer") /\ pending[a] > 0 /\ HasSlot
    /\ pending' = Down(pending, a)
    /\ running' = Up(running, a)
    /\ infl' = infl + 1
    /\ UNCHANGED <<kind, faults, quarantined, armed, expired, asked, nodeVars, pumpVars,
                   phase, due, requeued, answers, told>>

PutBack(a) == Up(requeued, a)

Requeue(a) ==
    /\ llm
    /\ AtLoop("infer") /\ pending[a] > 0 /\ ~ HasSlot
    /\ pending' = Down(pending, a)
    /\ requeued' = PutBack(a)
    /\ UNCHANGED <<kind, faults, quarantined, armed, expired, asked, nodeVars, pumpVars,
                   phase, due, running, infl, answers, told>>

\* No backend: what is pending is dropped.
DropInferences ==
    /\ ~ llm
    /\ AtLoop("infer") /\ pending # Zero
    /\ pending' = Zero
    /\ UNCHANGED <<kind, faults, quarantined, armed, expired, asked, nodeVars, pumpVars,
                   phase, due, threadVars>>

InferencesStarted ==
    /\ AtLoop("infer") /\ pending = Zero
    /\ pending' = requeued /\ requeued' = Zero
    /\ phase' = "answers"
    /\ UNCHANGED <<kind, faults, quarantined, armed, expired, asked, nodeVars, pumpVars,
                   due, running, infl, answers, told>>

\* 3e. Results are handed out as messages from "llm".
HandOut(a) ==
    /\ AtLoop("answers") /\ answers[a] > 0
    /\ answers' = Down(answers, a)
    /\ told' = Up(told, a)
    /\ StartPump(a)
    /\ UNCHANGED <<agentVars, nodeVars, outbox, phase, due, requeued, running, infl>>

\* 4. A connection is accepted, or the loop sleeps; the next round begins.
NextRound ==
    /\ AtLoop("answers") /\ answers = Zero
    /\ UNCHANGED due
    /\ Enter("wire")

----------------------------------------------------------------------------
(* What happens next to the loop.                                          *)

\* A connection thread waits while the queue is full.
HasRoom == Len(inbox) < InboxSize

Arrive(a) ==
    /\ HasRoom
    /\ IF MaxMessages = -1 THEN arrived' = arrived ELSE arrived < MaxMessages /\ arrived' = arrived + 1
    /\ inbox' = Append(inbox, a)
    /\ UNCHANGED <<agentVars, llm, pumpVars, phase, due, threadVars>>

\* A deadline passes.
Expire(a, t) ==
    /\ t \in armed[a] \ expired[a]
    /\ expired' = [expired EXCEPT ![a] = @ \cup {t}]
    /\ UNCHANGED <<kind, faults, quarantined, armed, asked, pending, nodeVars, pumpVars,
                   phase, due, threadVars>>

\* A thread sends its result, and only then gives back its slot.
FinishInference(a) ==
    /\ running[a] > 0
    /\ running' = Down(running, a)
    /\ answers' = Up(answers, a)
    /\ UNCHANGED <<agentVars, nodeVars, pumpVars, phase, due, requeued, infl, told>>

ReleaseSlot ==
    /\ infl > Total(running)
    /\ infl' = infl - 1
    /\ UNCHANGED <<agentVars, nodeVars, pumpVars, phase, due, requeued, running, answers, told>>

Loop ==
    \/ PumpExhausted \/ PumpDrops \/ PumpCalls
    \/ HandleMessage \/ ListDue \/ FireTick \/ Dispatch \/ TimersDone
    \/ \E a \in Agents : StartInference(a) \/ Requeue(a)
    \/ DropInferences \/ InferencesStarted
    \/ \E a \in Agents : HandOut(a)
    \/ NextRound

Next ==
    \/ Loop
    \/ \E a \in Agents : Arrive(a) \/ FinishInference(a)
    \/ ReleaseSlot
    \/ \E a \in Agents, t \in Timers : Expire(a, t)

Spec == Init /\ [][Next]_vars

\* The loop's thread keeps running, and inferences return.
FairSpec ==
    /\ Spec
    /\ WF_vars(Loop)
    /\ \A a \in Agents : WF_vars(FinishInference(a))
    /\ WF_vars(ReleaseSlot)

----------------------------------------------------------------------------
(* Properties.                                                             *)

\* The types; the inbound queue never outgrows its bound (M1).
TypeOK ==
    /\ kind \in [Agents -> {"native", "wasm", "none"}]
    /\ faults \in [Agents -> Nat]
    /\ quarantined \subseteq Agents
    /\ {armed, expired} \subseteq [Agents -> SUBSET Timers]
    /\ inbox \in Seq(Agents) /\ Len(inbox) <= InboxSize
    /\ arrived \in Nat
    /\ q \in Seq(Agents) /\ outbox \in Seq(Agents)
    /\ budget \in 0 .. PumpBudget
    /\ phase \in {"wire", "timers", "infer", "answers"}
    /\ due \in Seq(Agents \X Timers)
    /\ {asked, pending, requeued, running, answers, told} \subseteq [Agents -> Nat]
    /\ infl \in Nat

\* No agent has more timers than its slots, whatever it arms, cancels and arms
\* again from messages and from ticks (apply_timer_ops).
WithinSlots == \A a \in Agents : Cardinality(armed[a]) <= TimerSlots /\ expired[a] \subseteq armed[a]

\* At most MaxInflight threads run inferences, and with a backend no inference
\* is lost or answered twice on its way from the agent through pending_infers, a
\* thread and llm_rx back to the agent (serve, 3d and 3e).
InferencesAccounted ==
    /\ Total(running) <= infl /\ infl <= MaxInflight
    /\ llm => \A a \in Agents :
          asked[a] = pending[a] + requeued[a] + running[a] + answers[a] + told[a]

\* The executor's queues, slots and counters stay within their bounds, and no
\* inference is lost or answered twice, however messages, ticks, spawns and
\* answers interleave.
ExecutorSafe == TypeOK /\ WithinSlots /\ InferencesAccounted

\* A quarantined agent does nothing any more: it is not called, so it neither
\* succeeds nor fails, arms no timer and asks for nothing (supervise: "a
\* misbehaving agent is isolated, not the node").  It does not hold: fire_tick does
\* not ask, and its timers go on (README, section 3).
QuarantineIsolates ==
    [][\A a \in quarantined :
          faults'[a] = faults[a] /\ armed'[a] \subseteq armed[a] /\ asked'[a] = asked[a]]_vars

\* A timer about to fire is armed, and its own delay is over (AGENT_HOST_ABI:
\* "timer_cancel - disarm it"), whatever earlier ticks of the round did.  Nor does
\* this: serve collects the due timers before it fires the first.
StillDue == \A i \in 1 .. Len(due) : due[i][2] \in expired[due[i][1]]

\* What does: once quarantined, only timers it armed itself reach it, never a message from the
\* wire, from another agent or from "llm" (pump: "receives nothing further").
QuarantinedIsDeaf ==
    \A a \in quarantined : q # <<>> =>
        faults'[a] = faults[a] /\ armed'[a] = armed[a] /\ asked'[a] = asked[a]

\* A native agent's call that fails sends nothing, to agents called later in
\* the same pump or in the next (NODE_DESIGN: "output discarded").
FaultDiscards ==
    \A a \in Agents : kind[a] = "native" /\ faults'[a] > faults[a]
        => q' = (IF q = <<>> THEN <<>> ELSE Tail(q)) /\ outbox' = outbox

\* A fault stays with the agent that has it: a failed call sends nothing, and an
\* agent that has failed too often hears nothing more (supervise, pump).
FaultsContained == [][QuarantinedIsDeaf /\ FaultDiscards]_vars

\* A timer whose deadline has passed comes to fire or to be disarmed (serve, 3c).
TimersFire == \A a \in Agents, t \in Timers : t \in expired[a] ~> t \notin expired[a]

\* Every inference asked for is answered, over the cap or not (serve, 3d: "stays
\* queued for a later iteration").
InferencesAnswered ==
    llm => \A a \in Agents, n \in 1 .. MaxAsks : asked[a] >= n ~> told[a] >= n

\* A local message loop does not hold the node: pump comes to an end, whatever
\* agents send each other (pump: "cannot exhaust the node").
PumpEnds == q # <<>> ~> q = <<>>

\* The serve loop comes round: pumps end, and timers and inferences are served
\* whatever the agents send each other.
ServeLive == TimersFire /\ InferencesAnswered /\ PumpEnds
=============================================================================
