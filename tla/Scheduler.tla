----------------------------- MODULE Scheduler -----------------------------
(***************************************************************************)
(* behavior/mod.rs: the scheduler of an agent's behaviours.                *)
(*                                                                         *)
(* The host picks a behaviour that should run, marks it running, calls the *)
(* agent, and reports the completion.  During the call the agent may use   *)
(* the scheduler on any behaviour, the running one included.  The members  *)
(* of composite behaviours are not run by the scheduler: sequential_index  *)
(* and parallel_completed are only ever set to zero and are left out.      *)
(***************************************************************************)
EXTENDS Integers, FiniteSetsExt, Maps

CONSTANTS
  MaxBehaviors,     \* bound on the behaviours that are added
  BehaviorNames,    \* the names they may have
  Interval,         \* tick_interval_ms and wake_after_ms of the configurations
  MaxMs,            \* bound on the clock
  MaxRuns,          \* run counts are told apart up to this one
  FsmStates,        \* the states of FSM behaviours, "start" the initial one
  FsmEvents,        \* events
  Transitions       \* fsm_transitions: a set of <<from, event, to>>

Types == {"OneShot", "Cyclic", "Ticker", "Waker", "Sequential", "FSM"}

ASSUME SchedulerAssumption ==
  /\ MaxBehaviors \in Nat /\ Interval \in Nat /\ MaxMs \in Nat /\ MaxRuns \in Nat \ {0}
  /\ Transitions \subseteq FsmStates \X FsmEvents \X FsmStates
  /\ "start" \in FsmStates

VARIABLES
  behaviors,        \* the behaviours by id
  nextId,           \* next_id
  nameToId,         \* name_to_id
  current,          \* the behaviour the agent is executing, 0 if none
  ms,               \* the clock
  history           \* history[id]: when a waker was added, a ticker last run unless that completed it, runs since a reset

schedulervars == <<behaviors, nextId, nameToId, current, ms, history>>

SchedulerInit ==
  /\ behaviors = <<>> /\ nextId = 1 /\ nameToId = <<>>
  /\ current = 0 /\ ms = 0
  /\ history = <<>>

-----------------------------------------------------------------------------
(* The agent's calls *)

\* add_behavior: a waker is due after its delay, a ticker at once.
NextRun(type) == IF type = "Waker" THEN ms + Interval ELSE 0

AddBehavior(name, type) ==
  /\ nextId <= MaxBehaviors
  /\ behaviors' = With(behaviors, nextId, [name |-> name, type |-> type, status |-> "Ready", next |-> NextRun(type),
                                            runs |-> 0, started |-> FALSE, fsm |-> "start"])
  /\ nameToId' = With(nameToId, name, nextId)
  /\ nextId' = nextId + 1
  /\ history' = With(history, nextId, [added |-> IF type = "Waker" THEN ms ELSE 0, last |-> 0 - Interval, runs |-> 0])
  /\ UNCHANGED <<current, ms>>

\* The name goes with the behaviour, even where a later behaviour has taken it.
RemoveBehavior(id) ==
  /\ behaviors' = Without(behaviors, id)
  /\ nameToId' = Without(nameToId, behaviors[id].name)
  /\ UNCHANGED <<nextId, current, ms, history>>

Sets(id, b) ==
  /\ behaviors' = [behaviors EXCEPT ![id] = b]
  /\ UNCHANGED <<nextId, nameToId, current, ms>>

BlockBehavior(id) ==
  /\ behaviors[id].status # "Running"
  /\ Sets(id, [behaviors[id] EXCEPT !.status = "Blocked"])
  /\ UNCHANGED history

RestartBehavior(id) ==
  /\ behaviors[id].status = "Blocked"
  /\ Sets(id, [behaviors[id] EXCEPT !.status = "Ready"])
  /\ UNCHANGED history

BehaviorDone(id) ==
  /\ Sets(id, [behaviors[id] EXCEPT !.status = "Done"])
  /\ UNCHANGED history

\* Mutant: a behaviour that is reset is due again at once.
ResetToNow(b) == [b EXCEPT !.status = "Ready", !.runs = 0, !.started = FALSE, !.fsm = "start", !.next = 0]

Reset(b) == [b EXCEPT !.status = "Ready", !.runs = 0, !.started = FALSE, !.fsm = "start"]

ResetBehavior(id) ==
  /\ Sets(id, Reset(behaviors[id]))
  /\ history' = [history EXCEPT ![id] = [@ EXCEPT !.runs = 0]]

\* fsm_event: the first transition that matches; there is one per state and event here.
FsmEvent(id, event) ==
  /\ behaviors[id].type = "FSM"
  /\ \E t \in Transitions :
       t[1] = behaviors[id].fsm /\ t[2] = event /\ Sets(id, [behaviors[id] EXCEPT !.fsm = t[3]])
  /\ UNCHANGED history

-----------------------------------------------------------------------------
(* The host *)

OneMore(n) == IF n < MaxRuns THEN n + 1 ELSE n

ShouldRun(b) ==
  /\ b.status = "Ready"
  /\ b.type = "OneShot" => b.runs = 0
  /\ b.type \in {"Ticker", "Waker"} => ms >= b.next

\* The past of a behaviour that begins a run.
Begun(h, type) == [h EXCEPT !.last = IF type = "Ticker" THEN ms ELSE @, !.runs = OneMore(@)]

\* get_runnable, mark_running, and mark_started after the onStart call.
RunBehavior(id) ==
  /\ current = 0 /\ ShouldRun(behaviors[id])
  /\ current' = id
  /\ behaviors' = [behaviors EXCEPT ![id] = [@ EXCEPT !.status = "Running", !.started = TRUE]]
  /\ history' = [history EXCEPT ![id] = Begun(@, behaviors[id].type)]
  /\ UNCHANGED <<nextId, nameToId, ms>>

\* after_run: the status it had is overwritten.
AfterRun(b, done) ==
  [b EXCEPT !.runs = OneMore(@),
            !.status = IF done \/ b.type = "Waker" THEN "Done" ELSE "Ready",
            !.next = IF b.type = "Ticker" /\ ~done THEN ms + Interval ELSE @]

\* handle_completion; the behaviour may have been removed meanwhile.
HandleCompletion(done) ==
  /\ current # 0 /\ current' = 0
  /\ behaviors' = IF current \in DOMAIN behaviors
                  THEN [behaviors EXCEPT ![current] = AfterRun(@, done)] ELSE behaviors
  /\ history' = IF done THEN [history EXCEPT ![current] = [@ EXCEPT !.last = 0 - Interval]] ELSE history
  /\ UNCHANGED <<nextId, nameToId, ms>>

ClockTicks == ms < MaxMs /\ ms' = ms + 1 /\ UNCHANGED <<behaviors, nextId, nameToId, current, history>>

SchedulerNext ==
  \/ \E name \in BehaviorNames, type \in Types : AddBehavior(name, type)
  \/ \E id \in DOMAIN behaviors :
       \/ RemoveBehavior(id) \/ BlockBehavior(id) \/ RestartBehavior(id) \/ BehaviorDone(id)
       \/ ResetBehavior(id) \/ RunBehavior(id)
       \/ \E event \in FsmEvents : FsmEvent(id, event)
  \/ \E done \in BOOLEAN : HandleCompletion(done)
  \/ ClockTicks

SchedulerSpec == SchedulerInit /\ [][SchedulerNext]_schedulervars

-----------------------------------------------------------------------------
(* Properties *)

\* Whatever blocking, restarting, completing and resetting came between: a one-shot behaviour
\* starts once unless it is reset, a ticker that has not completed starts no sooner than its
\* interval after its last start, a waker not before its delay has passed (should_run, after_run, reset_behavior).
RunsOnTime ==
  [][\A id \in DOMAIN behaviors :
       (current # id /\ current' = id) =>
         /\ behaviors[id].type = "OneShot" => history[id].runs = 0
         /\ behaviors[id].type = "Ticker" => ms - history[id].last >= Interval
         /\ behaviors[id].type = "Waker" => ms - history[id].added >= Interval]_schedulervars

\* "Executes once after a delay" (BehaviorType::Waker).
WakerOnce ==
  \A id \in DOMAIN behaviors : behaviors[id].type = "Waker" => history[id].runs <= 1
=============================================================================
