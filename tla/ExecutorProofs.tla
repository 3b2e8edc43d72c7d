--------------------------- MODULE ExecutorProofs ---------------------------
(***************************************************************************)
(* Theorems about Executor, for every set of agents, timers and messages   *)
(* and every bound: the loop's queues, slots and counters stay within      *)
(* their limits, no inference is lost or answered twice, and a fault stays *)
(* with the agent that has it.                                             *)
(***************************************************************************)
EXTENDS Executor, SumTheorems, FiniteSetTheorems, TLAPS

-----------------------------------------------------------------------------
(* Sequences made of sets, and what a call may come to *)

LEMMA SetToSeqType ==
  ASSUME NEW S, IsFiniteSet(S)
  PROVE  SetToSeq(S) \in Seq(S)
<1>1. Cardinality(S) \in Nat /\ ExistsBijection(1 .. Cardinality(S), S)
  BY FS_CardinalityType
<1>2. \E f \in [1 .. Cardinality(S) -> S] : IsInjective(f)
  BY <1>1 DEF ExistsBijection, Bijection, Injection, IsInjective
<1>3. SetToSeq(S) \in [1 .. Cardinality(S) -> S]
  BY <1>2 DEF SetToSeq
<1> QED BY <1>1, <1>3

LEMMA AgentsFinite == IsFiniteSet(Agents) /\ IsFiniteSet(Timers)
  BY ExecutorAssumption, FS_Union DEF Agents

\* Whatever a call comes to, it names what there is; and what a native agent's failed call asked for
\* is lost.
LEMMA CallParts ==
  ASSUME NEW a, NEW c \in Calls(a) \cup Ticks(a)
  PROVE  /\ c.ok \in BOOLEAN
         /\ Sent(c) \in Seq(Agents)
         /\ c.do \in {"arm", "cancel"} => c.on \in Timers
         /\ c.do = "spawn" => c.on \in Spawnable
         /\ kind[a] = "native" /\ ~c.ok => Sent(c) = <<>>
<1>0. <<>> \in Seq(Agents)
  OBVIOUS
<1>1. c \in Quiet \/ c \in Sends \/ c \in Requests
  BY DEF Calls, Ticks
<1>2. CASE c \in Quiet
  BY <1>0, <1>2 DEF Quiet, Sent
<1>3. CASE c \in Sends
  <2>1. c.ok \in BOOLEAN /\ c.do = "send" /\ c.on \in {SetToSeq(A) : A \in SUBSET Agents \ {{}}}
    BY <1>3 DEF Sends
  <2>2. PICK A \in SUBSET Agents : c.on = SetToSeq(A)
    BY <2>1
  <2>3. c.on \in Seq(Agents)
    <3>1. SetToSeq(A) \in Seq(A)
      BY AgentsFinite, FS_Subset, SetToSeqType
    <3>2. Seq(A) \subseteq Seq(Agents)
      OBVIOUS
    <3> QED BY <2>2, <3>1, <3>2
  <2>4. Sent(c) = c.on
    BY <2>1 DEF Sent
  <2>5. kind[a] = "native" => c.ok
    BY <2>1 DEF Calls, Ticks, Quiet, Requests
  <2> QED BY <2>1, <2>3, <2>4, <2>5
<1>4. CASE c \in Requests
  <2>1. c.ok = TRUE /\ c.do \in {"arm", "cancel", "ask", "spawn"} /\ Sent(c) = <<>>
    BY <1>4 DEF Requests, Sent
  <2>2. (c.do \in {"arm", "cancel"} => c.on \in Timers) /\ (c.do = "spawn" => c.on \in Spawnable)
    BY <1>4 DEF Requests
  <2> QED BY <1>0, <2>1, <2>2
<1> QED BY <1>1, <1>2, <1>3, <1>4

-----------------------------------------------------------------------------
(* What the calls of agents do to them *)

calledVars == <<kind, faults, quarantined, armed, expired>>

AgentsInv ==
  /\ kind \in [Agents -> {"native", "wasm", "none"}]
  /\ faults \in [Agents -> Nat]
  /\ quarantined \subseteq Agents
  /\ armed \in [Agents -> SUBSET Timers] /\ expired \in [Agents -> SUBSET Timers]
  /\ WithinSlots

LEMMA TimerOpsBound ==
  ASSUME NEW slots \in SUBSET Timers, Cardinality(slots) <= TimerSlots,
         NEW c, c.do \in {"arm", "cancel"} => c.on \in Timers
  PROVE  TimerOps(slots, c) \in SUBSET Timers /\ Cardinality(TimerOps(slots, c)) <= TimerSlots
<1>0. IsFiniteSet(slots) /\ Cardinality(slots) \in Nat /\ TimerSlots \in Nat
  BY AgentsFinite, ExecutorAssumption, FS_Subset, FS_CardinalityType
<1>1. CASE c.do = "arm" /\ (c.on \in slots \/ Cardinality(slots) < TimerSlots)
  <2>1. TimerOps(slots, c) = slots \cup {c.on} /\ c.on \in Timers
    BY <1>1 DEF TimerOps
  <2>2. Cardinality(slots \cup {c.on}) = IF c.on \in slots THEN Cardinality(slots) ELSE Cardinality(slots) + 1
    BY <1>0, FS_AddElement
  <2>3. Cardinality(slots \cup {c.on}) <= TimerSlots
    BY <1>0, <1>1, <2>2
  <2> QED BY <2>1, <2>3
<1>2. CASE c.do = "cancel"
  <2>1. TimerOps(slots, c) = slots \ {c.on}
    BY <1>2 DEF TimerOps
  <2>2. Cardinality(slots \ {c.on}) <= Cardinality(slots) /\ Cardinality(slots \ {c.on}) \in Nat
    BY <1>0, FS_Subset, FS_CardinalityType
  <2>3. Cardinality(slots \ {c.on}) <= TimerSlots
    BY <1>0, <2>2
  <2> QED BY <2>1, <2>3
<1>3. CASE c.do # "cancel" /\ ~(c.do = "arm" /\ (c.on \in slots \/ Cardinality(slots) < TimerSlots))
  <2>1. TimerOps(slots, c) = slots
    BY <1>3 DEF TimerOps
  <2> QED BY <2>1
<1> QED BY <1>1, <1>2, <1>3

LEMMA HandleAgents ==
  ASSUME AgentsInv, NEW a \in Agents, NEW slots \in SUBSET Timers, slots \subseteq armed[a],
         NEW c \in Calls(a) \cup Ticks(a), Handle(a, slots, c)
  PROVE  AgentsInv'
<1> DEFINE T == TimerOps(slots, c)
<1>1. Cardinality(slots) <= TimerSlots
  <2>1. IsFiniteSet(armed[a]) /\ Cardinality(armed[a]) <= TimerSlots /\ TimerSlots \in Nat
    BY AgentsFinite, ExecutorAssumption, FS_Subset DEF AgentsInv, WithinSlots
  <2>2. Cardinality(slots) <= Cardinality(armed[a]) /\ Cardinality(slots) \in Nat /\ Cardinality(armed[a]) \in Nat
    BY <2>1, FS_Subset, FS_CardinalityType
  <2> QED BY <2>1, <2>2
<1>2. T \in SUBSET Timers /\ Cardinality(T) <= TimerSlots
  BY <1>1, CallParts, TimerOpsBound
<1> HIDE DEF T
<1>3. armed' = [armed EXCEPT ![a] = T]
  BY DEF Handle, T
<1>4. \E E \in SUBSET T : expired' = [expired EXCEPT ![a] = E]
  <2>1. expired' = [expired EXCEPT ![a] = (expired[a] \cap T) \ (IF c.do = "arm" THEN {c.on} ELSE {})]
    BY DEF Handle, T
  <2> QED BY <2>1
<1>5. kind' \in [Agents -> {"native", "wasm", "none"}]
  <2>1. c.do = "spawn" => c.on \in Agents
    BY CallParts DEF Agents
  <2> QED BY <2>1 DEF Handle, Spawn, AgentsInv
<1>6. faults' \in [Agents -> Nat] /\ quarantined' \subseteq Agents
  BY DEF Handle, Supervise, AgentsInv
<1>7. armed' \in [Agents -> SUBSET Timers] /\ expired' \in [Agents -> SUBSET Timers]
  BY <1>2, <1>3, <1>4 DEF AgentsInv
<1>8. WithinSlots'
  BY <1>2, <1>3, <1>4 DEF AgentsInv, WithinSlots
<1> QED BY <1>5, <1>6, <1>7, <1>8 DEF AgentsInv

LEMMA AgentsStep ==
  ASSUME AgentsInv, q \in Seq(Agents), due \in Seq(Agents \X Timers), [Next]_vars
  PROVE  AgentsInv'
<1>1. CASE PumpCalls
  <2>1. q # <<>> /\ Head(q) \in Agents
    BY <1>1 DEF PumpCalls
  <2>2. PICK c \in Calls(Head(q)) : Handle(Head(q), armed[Head(q)], c)
    BY <1>1 DEF PumpCalls
  <2>3. armed[Head(q)] \in SUBSET Timers
    BY <2>1 DEF AgentsInv
  <2> QED BY <2>1, <2>2, <2>3, HandleAgents
<1>2. CASE FireTick
  <2> DEFINE a == Head(due)[1]
             t == Head(due)[2]
  <2>1. due # <<>> /\ Head(due) \in Agents \X Timers
    BY <1>2 DEF FireTick
  <2>2. a \in Agents
    BY <2>1
  <2>3. PICK c \in Ticks(a) : Handle(a, armed[a] \ {t}, c)
    BY <1>2 DEF FireTick
  <2>4. armed[a] \ {t} \in SUBSET Timers /\ armed[a] \ {t} \subseteq armed[a]
    BY <2>2 DEF AgentsInv
  <2> HIDE DEF a, t
  <2> QED BY <2>2, <2>3, <2>4, HandleAgents
<1>3. ASSUME NEW a \in Agents, NEW t \in Timers, Expire(a, t) PROVE AgentsInv'
  <2>1. t \in armed[a] /\ expired' = [expired EXCEPT ![a] = expired[a] \cup {t}] /\ UNCHANGED <<kind, faults, quarantined, armed>>
    BY <1>3 DEF Expire
  <2> QED BY <2>1 DEF AgentsInv, WithinSlots
<1>4. CASE UNCHANGED calledVars
  BY <1>4 DEF AgentsInv, WithinSlots, calledVars
<1> QED BY <1>1, <1>2, <1>3, <1>4
        DEF Next, Loop, PumpExhausted, PumpDrops, HandleMessage, ListDue, Dispatch, TimersDone, StartInference,
            Requeue, DropInferences, InferencesStarted, HandOut, NextRound, Arrive, FinishInference, ReleaseSlot,
            Enter, vars, agentVars, calledVars

-----------------------------------------------------------------------------
(* The queues of the loop *)

QueuesInv ==
  /\ inbox \in Seq(Agents) /\ Len(inbox) <= InboxSize
  /\ arrived \in Nat
  /\ q \in Seq(Agents) /\ outbox \in Seq(Agents)
  /\ budget \in 0 .. PumpBudget
  /\ phase \in {"wire", "timers", "infer", "answers"}
  /\ due \in Seq(Agents \X Timers)

LEMMA ContinuePumpQueues ==
  ASSUME QueuesInv, NEW rest \in Seq(Agents), budget >= 1, ContinuePump(rest)
  PROVE  q' \in Seq(Agents) /\ budget' \in 0 .. PumpBudget
  BY ExecutorAssumption DEF ContinuePump, QueuesInv

LEMMA StartPumpQueues ==
  ASSUME NEW m \in Agents, StartPump(m)
  PROVE  q' \in Seq(Agents) /\ budget' \in 0 .. PumpBudget
  BY ExecutorAssumption DEF StartPump

LEMMA QueuesStep == QueuesInv /\ [Next]_vars => QueuesInv'
<1> SUFFICES ASSUME QueuesInv, [Next]_vars PROVE QueuesInv'
  OBVIOUS
<1>0. /\ inbox \in Seq(Agents) /\ Len(inbox) <= InboxSize /\ arrived \in Nat
      /\ q \in Seq(Agents) /\ outbox \in Seq(Agents) /\ budget \in 0 .. PumpBudget
      /\ phase \in {"wire", "timers", "infer", "answers"} /\ due \in Seq(Agents \X Timers)
  BY DEF QueuesInv
<1>e. <<>> \in Seq(Agents) /\ <<>> \in Seq(Agents \X Timers)
  OBVIOUS
<1>1. CASE PumpExhausted
  <2>1. ContinuePump(<<>>) /\ budget >= 1 /\ UNCHANGED <<inbox, arrived, outbox, phase, due>>
    BY <1>0, <1>1 DEF PumpExhausted, nodeVars
  <2>2. q' \in Seq(Agents) /\ budget' \in 0 .. PumpBudget
    BY <1>e, <2>1, ContinuePumpQueues
  <2> QED BY <2>1, <2>2 DEF QueuesInv
<1>2. CASE PumpDrops
  <2>1. ContinuePump(Tail(q)) /\ q # <<>> /\ budget >= 1 /\ UNCHANGED <<inbox, arrived, outbox, phase, due>>
    BY <1>0, <1>2 DEF PumpDrops, nodeVars
  <2>2. Tail(q) \in Seq(Agents)
    BY <1>0, <2>1
  <2>3. q' \in Seq(Agents) /\ budget' \in 0 .. PumpBudget
    BY <2>1, <2>2, ContinuePumpQueues
  <2> QED BY <2>1, <2>3 DEF QueuesInv
<1>3. CASE PumpCalls
  <2>1. q # <<>> /\ budget >= 1 /\ UNCHANGED <<inbox, arrived, outbox, phase, due>>
    BY <1>0, <1>3 DEF PumpCalls, nodeVars
  <2>2. PICK c \in Calls(Head(q)) : ContinuePump(Tail(q) \o Sent(c))
    BY <1>3 DEF PumpCalls
  <2>3. Sent(c) \in Seq(Agents)
    BY CallParts
  <2>4. Tail(q) \o Sent(c) \in Seq(Agents)
    BY <1>0, <2>1, <2>3
  <2>5. q' \in Seq(Agents) /\ budget' \in 0 .. PumpBudget
    BY <2>1, <2>2, <2>4, ContinuePumpQueues
  <2> QED BY <2>1, <2>5 DEF QueuesInv
<1>4. CASE HandleMessage
  <2>1. inbox # <<>> /\ inbox' = Tail(inbox) /\ StartPump(Head(inbox)) /\ UNCHANGED <<arrived, outbox, phase, due>>
    BY <1>4 DEF HandleMessage
  <2>2. Head(inbox) \in Agents /\ inbox' \in Seq(Agents) /\ Len(inbox') <= InboxSize
    BY <1>0, <2>1, ExecutorAssumption
  <2>3. q' \in Seq(Agents) /\ budget' \in 0 .. PumpBudget
    BY <2>1, <2>2, StartPumpQueues
  <2> QED BY <2>1, <2>2, <2>3 DEF QueuesInv
<1>5. CASE ListDue
  <2>1. due' = SetToSeq(DueTimers) /\ phase' = "timers" /\ UNCHANGED <<inbox, arrived, q, budget, outbox>>
    BY <1>5 DEF ListDue, Enter, nodeVars, pumpVars
  <2>2. IsFiniteSet(DueTimers) /\ DueTimers \subseteq Agents \X Timers
    <3>1. IsFiniteSet(Agents \X Timers)
      BY AgentsFinite, FS_Product
    <3>2. DueTimers \subseteq Agents \X Timers
      BY DEF DueTimers
    <3> QED BY <3>1, <3>2, FS_Subset
  <2>3. due' \in Seq(Agents \X Timers)
    <3>1. SetToSeq(DueTimers) \in Seq(DueTimers)
      BY <2>2, SetToSeqType
    <3>2. Seq(DueTimers) \subseteq Seq(Agents \X Timers)
      BY <2>2
    <3> QED BY <2>1, <3>1, <3>2
  <2> QED BY <1>0, <2>1, <2>3 DEF QueuesInv
<1>6. CASE FireTick
  <2>1. due # <<>> /\ due' = Tail(due) /\ UNCHANGED <<inbox, arrived, q, budget, phase>>
    BY <1>6 DEF FireTick, nodeVars
  <2>2. PICK c \in Ticks(Head(due)[1]) : outbox' = Sent(c)
    BY <1>6 DEF FireTick
  <2>3. outbox' \in Seq(Agents)
    BY <2>2, CallParts
  <2>4. due' \in Seq(Agents \X Timers)
    BY <1>0, <2>1
  <2> QED BY <1>0, <2>1, <2>3, <2>4 DEF QueuesInv
<1>7. CASE Dispatch
  <2>1. outbox # <<>> /\ outbox' = Tail(outbox) /\ StartPump(Head(outbox)) /\ UNCHANGED <<inbox, arrived, phase, due>>
    BY <1>7 DEF Dispatch, nodeVars
  <2>2. Head(outbox) \in Agents /\ outbox' \in Seq(Agents)
    BY <1>0, <2>1
  <2>3. q' \in Seq(Agents) /\ budget' \in 0 .. PumpBudget
    BY <2>1, <2>2, StartPumpQueues
  <2> QED BY <1>0, <2>1, <2>2, <2>3 DEF QueuesInv
<1>8. CASE TimersDone \/ InferencesStarted \/ NextRound
  <2>1. phase' \in {"wire", "infer", "answers"} /\ UNCHANGED <<inbox, arrived, q, budget, outbox, due>>
    BY <1>8 DEF TimersDone, InferencesStarted, NextRound, Enter, nodeVars, pumpVars
  <2> QED BY <1>0, <2>1 DEF QueuesInv
<1>9. ASSUME NEW a \in Agents, HandOut(a) PROVE QueuesInv'
  <2>1. StartPump(a) /\ UNCHANGED <<inbox, arrived, outbox, phase, due>>
    BY <1>9 DEF HandOut, nodeVars
  <2>2. q' \in Seq(Agents) /\ budget' \in 0 .. PumpBudget
    BY <2>1, StartPumpQueues
  <2> QED BY <1>0, <2>1, <2>2 DEF QueuesInv
<1>10. ASSUME NEW a \in Agents, Arrive(a) PROVE QueuesInv'
  <2>1. inbox' = Append(inbox, a) /\ Len(inbox) < InboxSize /\ UNCHANGED <<q, budget, outbox, phase, due>>
    BY <1>10 DEF Arrive, HasRoom, pumpVars
  <2>2. arrived' \in Nat
    BY <1>0, <1>10 DEF Arrive
  <2>3. inbox' \in Seq(Agents) /\ Len(inbox') <= InboxSize
    BY <1>0, <2>1, ExecutorAssumption
  <2> QED BY <1>0, <2>1, <2>2, <2>3 DEF QueuesInv
<1>11. CASE UNCHANGED <<inbox, arrived, q, budget, outbox, phase, due>>
  BY <1>0, <1>11 DEF QueuesInv
<1>12. ASSUME NEW a \in Agents, StartInference(a) \/ Requeue(a) \/ DropInferences \/ FinishInference(a) PROVE QueuesInv'
  BY <1>11, <1>12 DEF StartInference, Requeue, DropInferences, FinishInference, nodeVars, pumpVars
<1>13. CASE ReleaseSlot \/ \E a \in Agents, t \in Timers : Expire(a, t)
  BY <1>11, <1>13 DEF ReleaseSlot, Expire, nodeVars, pumpVars
<1>14. CASE UNCHANGED vars
  BY <1>11, <1>14 DEF vars, nodeVars, pumpVars
<1>15. CASE DropInferences
  BY <1>11, <1>15 DEF DropInferences, nodeVars, pumpVars
<1> QED BY <1>1, <1>2, <1>3, <1>4, <1>5, <1>6, <1>7, <1>8, <1>9, <1>10, <1>12, <1>13, <1>14, <1>15 DEF Next, Loop

-----------------------------------------------------------------------------
(* The inferences *)

Counts == [Agents -> Nat]

CountsInv ==
  /\ llm \in BOOLEAN
  /\ asked \in Counts /\ pending \in Counts /\ requeued \in Counts
  /\ running \in Counts /\ answers \in Counts /\ told \in Counts
  /\ infl \in Nat
  /\ InferencesAccounted

\* One more and one less of an agent.
LEMMA UpDown ==
  ASSUME NEW f \in Counts, NEW a \in Agents
  PROVE  /\ Total(f) \in Nat
         /\ Up(f, a) \in Counts /\ Total(Up(f, a)) = Total(f) + 1
         /\ \A b \in Agents : Up(f, a)[b] = f[b] + (IF b = a THEN 1 ELSE 0)
         /\ f[a] > 0 => /\ Down(f, a) \in Counts /\ Total(Down(f, a)) = Total(f) - 1
                        /\ \A b \in Agents : Down(f, a)[b] = f[b] - (IF b = a THEN 1 ELSE 0)
<1> DEFINE u == Up(f, a)
           d == Down(f, a)
<1>1. IsFiniteSet(Agents) /\ f \in [Agents -> Nat] /\ f \in [Agents -> Int] /\ f[a] \in Nat /\ DOMAIN f = Agents
  BY AgentsFinite DEF Counts
<1>2. \A h \in [Agents -> Int] : Total(h) = SumFunctionOnSet(h, Agents)
  BY DEF Total, SumFunction
<1>3. u \in [Agents -> Nat] /\ u \in [Agents -> Int] /\ u[a] = f[a] + 1 /\ \A b \in Agents \ {a} : u[b] = f[b]
  BY <1>1 DEF Up
<1>4. d \in [Agents -> Int] /\ d[a] = f[a] - 1 /\ \A b \in Agents \ {a} : d[b] = f[b]
  BY <1>1 DEF Down
<1>5. SumFunctionOnSet(f, Agents) \in Nat
  BY <1>1, SumType
<1> HIDE DEF u, d
<1>6. SumFunctionOnSet(u, Agents) = SumFunctionOnSet(f, Agents) - f[a] + u[a]
  BY <1>1, <1>3, SumChange
<1>7. SumFunctionOnSet(d, Agents) = SumFunctionOnSet(f, Agents) - f[a] + d[a]
  BY <1>1, <1>4, SumChange
<1>8. Total(f) \in Nat /\ Total(u) = Total(f) + 1 /\ Total(d) = Total(f) - 1
  BY <1>1, <1>2, <1>3, <1>4, <1>5, <1>6, <1>7
<1>9. f[a] > 0 => d \in [Agents -> Nat]
  BY <1>1, <1>4
<1>10. \A b \in Agents : u[b] = f[b] + (IF b = a THEN 1 ELSE 0)
  BY <1>1, <1>3
<1>11. \A b \in Agents : d[b] = f[b] - (IF b = a THEN 1 ELSE 0)
  BY <1>1, <1>4
<1> QED BY <1>3, <1>8, <1>9, <1>10, <1>11 DEF u, d, Counts

LEMMA ZeroCounts == Zero \in Counts /\ Total(Zero) = 0 /\ \A a \in Agents : Zero[a] = 0
<1>1. Zero \in Counts /\ DOMAIN Zero = Agents /\ \A a \in Agents : Zero[a] = 0
  BY DEF Zero, Counts
<1>2. SumFunctionOnSet(Zero, Agents) = 0
  BY <1>1, AgentsFinite, SumZero
<1> QED BY <1>1, <1>2 DEF Total, SumFunction

\* What an agent asks for is pending.
LEMMA InferCounts ==
  ASSUME CountsInv, NEW a \in Agents, NEW c, Infer(a, c), UNCHANGED <<llm, requeued, running, infl, answers, told>>
  PROVE  CountsInv'
<1>1. CASE asked' = Up(asked, a) /\ pending' = Up(pending, a)
  <2>1. asked' \in Counts /\ \A b \in Agents : asked'[b] = asked[b] + (IF b = a THEN 1 ELSE 0)
    BY <1>1, UpDown DEF CountsInv
  <2>2. pending' \in Counts /\ \A b \in Agents : pending'[b] = pending[b] + (IF b = a THEN 1 ELSE 0)
    BY <1>1, UpDown DEF CountsInv
  <2>3. ASSUME llm, NEW b \in Agents
        PROVE  asked'[b] = pending'[b] + requeued[b] + running[b] + answers[b] + told[b]
    <3>1. asked[b] = pending[b] + requeued[b] + running[b] + answers[b] + told[b]
      BY <2>3 DEF CountsInv, InferencesAccounted
    <3>2. {asked[b], pending[b], requeued[b], running[b], answers[b], told[b]} \subseteq Nat
      BY DEF CountsInv, Counts
    <3> QED BY <2>1, <2>2, <3>1, <3>2
  <2> QED BY <2>1, <2>2, <2>3 DEF CountsInv, InferencesAccounted
<1>2. CASE UNCHANGED <<asked, pending>>
  BY <1>2 DEF CountsInv, InferencesAccounted
<1> QED BY <1>1, <1>2 DEF Infer

LEMMA CountsStep == QueuesInv /\ CountsInv /\ [Next]_vars => CountsInv'
<1> SUFFICES ASSUME QueuesInv, CountsInv, [Next]_vars PROVE CountsInv'
  OBVIOUS
<1>0. /\ llm \in BOOLEAN /\ infl \in Nat /\ MaxInflight \in Nat /\ Total(running) <= infl /\ infl <= MaxInflight
      /\ asked \in Counts /\ pending \in Counts /\ requeued \in Counts
      /\ running \in Counts /\ answers \in Counts /\ told \in Counts
  BY ExecutorAssumption DEF CountsInv, InferencesAccounted
<1>n. \A b \in Agents : {asked[b], pending[b], requeued[b], running[b], answers[b], told[b]} \subseteq Nat
  BY <1>0 DEF Counts
<1>a. llm => \A b \in Agents : asked[b] = pending[b] + requeued[b] + running[b] + answers[b] + told[b]
  BY DEF CountsInv, InferencesAccounted
<1>1. CASE PumpCalls
  <2>1. q # <<>> /\ Head(q) \in Agents /\ UNCHANGED <<llm, requeued, running, infl, answers, told>>
    BY <1>1 DEF PumpCalls, QueuesInv, nodeVars, threadVars
  <2>2. PICK c \in Calls(Head(q)) : Infer(Head(q), c)
    BY <1>1 DEF PumpCalls, Handle
  <2> QED BY <2>1, <2>2, InferCounts
<1>2. CASE FireTick
  <2>1. due # <<>> /\ Head(due) \in Agents \X Timers /\ UNCHANGED <<llm, requeued, running, infl, answers, told>>
    BY <1>2 DEF FireTick, QueuesInv, nodeVars, threadVars
  <2>2. Head(due)[1] \in Agents
    BY <2>1
  <2>3. PICK c \in Ticks(Head(due)[1]) : Infer(Head(due)[1], c)
    BY <1>2 DEF FireTick, Handle
  <2> QED BY <2>1, <2>2, <2>3, InferCounts
<1>3. ASSUME NEW a \in Agents, StartInference(a) PROVE CountsInv'
  <2>1. pending[a] > 0 /\ infl < MaxInflight /\ pending' = Down(pending, a) /\ running' = Up(running, a) /\ infl' = infl + 1
        /\ UNCHANGED <<llm, asked, requeued, answers, told>>
    BY <1>3 DEF StartInference, HasSlot, nodeVars
  <2>2. pending' \in Counts /\ \A b \in Agents : pending'[b] = pending[b] - (IF b = a THEN 1 ELSE 0)
    BY <1>0, <2>1, UpDown
  <2>3. running' \in Counts /\ Total(running') = Total(running) + 1 /\ Total(running) \in Nat
        /\ \A b \in Agents : running'[b] = running[b] + (IF b = a THEN 1 ELSE 0)
    BY <1>0, <2>1, UpDown
  <2>4. ASSUME llm, NEW b \in Agents
        PROVE  asked[b] = pending'[b] + requeued[b] + running'[b] + answers[b] + told[b]
    BY <1>a, <1>n, <2>2, <2>3, <2>4
  <2>5. Total(running') <= infl' /\ infl' <= MaxInflight /\ infl' \in Nat
    BY <1>0, <2>1, <2>3
  <2> QED BY <1>0, <2>1, <2>2, <2>3, <2>4, <2>5 DEF CountsInv, InferencesAccounted
<1>4. ASSUME NEW a \in Agents, Requeue(a) PROVE CountsInv'
  <2>1. pending[a] > 0 /\ pending' = Down(pending, a) /\ requeued' = Up(requeued, a)
        /\ UNCHANGED <<llm, asked, running, infl, answers, told>>
    BY <1>4 DEF Requeue, PutBack, nodeVars
  <2>2. pending' \in Counts /\ \A b \in Agents : pending'[b] = pending[b] - (IF b = a THEN 1 ELSE 0)
    BY <1>0, <2>1, UpDown
  <2>3. requeued' \in Counts /\ \A b \in Agents : requeued'[b] = requeued[b] + (IF b = a THEN 1 ELSE 0)
    BY <1>0, <2>1, UpDown
  <2>4. ASSUME llm, NEW b \in Agents
        PROVE  asked[b] = pending'[b] + requeued'[b] + running[b] + answers[b] + told[b]
    BY <1>a, <1>n, <2>2, <2>3, <2>4
  <2> QED BY <1>0, <2>1, <2>2, <2>3, <2>4 DEF CountsInv, InferencesAccounted
<1>5. CASE DropInferences
  <2>1. ~llm /\ pending' = Zero /\ UNCHANGED <<llm, asked, requeued, running, infl, answers, told>>
    BY <1>5 DEF DropInferences, nodeVars, threadVars
  <2> QED BY <1>0, <2>1, ZeroCounts DEF CountsInv, InferencesAccounted
<1>6. CASE InferencesStarted
  <2>1. pending = Zero /\ pending' = requeued /\ requeued' = Zero /\ UNCHANGED <<llm, asked, running, infl, answers, told>>
    BY <1>6 DEF InferencesStarted, nodeVars
  <2>2. ASSUME llm, NEW b \in Agents
        PROVE  asked[b] = pending'[b] + requeued'[b] + running[b] + answers[b] + told[b]
    BY <1>a, <1>n, <2>1, <2>2, ZeroCounts
  <2> QED BY <1>0, <2>1, <2>2, ZeroCounts DEF CountsInv, InferencesAccounted
<1>7. ASSUME NEW a \in Agents, HandOut(a) PROVE CountsInv'
  <2>1. answers[a] > 0 /\ answers' = Down(answers, a) /\ told' = Up(told, a)
        /\ UNCHANGED <<llm, asked, pending, requeued, running, infl>>
    BY <1>7 DEF HandOut, agentVars, nodeVars
  <2>2. answers' \in Counts /\ \A b \in Agents : answers'[b] = answers[b] - (IF b = a THEN 1 ELSE 0)
    BY <1>0, <2>1, UpDown
  <2>3. told' \in Counts /\ \A b \in Agents : told'[b] = told[b] + (IF b = a THEN 1 ELSE 0)
    BY <1>0, <2>1, UpDown
  <2>4. ASSUME llm, NEW b \in Agents
        PROVE  asked[b] = pending[b] + requeued[b] + running[b] + answers'[b] + told'[b]
    BY <1>a, <1>n, <2>2, <2>3, <2>4
  <2> QED BY <1>0, <2>1, <2>2, <2>3, <2>4 DEF CountsInv, InferencesAccounted
<1>8. ASSUME NEW a \in Agents, FinishInference(a) PROVE CountsInv'
  <2>1. running[a] > 0 /\ running' = Down(running, a) /\ answers' = Up(answers, a)
        /\ UNCHANGED <<llm, asked, pending, requeued, infl, told>>
    BY <1>8 DEF FinishInference, agentVars, nodeVars
  <2>2. running' \in Counts /\ Total(running') = Total(running) - 1 /\ Total(running) \in Nat
        /\ \A b \in Agents : running'[b] = running[b] - (IF b = a THEN 1 ELSE 0)
    BY <1>0, <2>1, UpDown
  <2>3. answers' \in Counts /\ \A b \in Agents : answers'[b] = answers[b] + (IF b = a THEN 1 ELSE 0)
    BY <1>0, <2>1, UpDown
  <2>4. ASSUME llm, NEW b \in Agents
        PROVE  asked[b] = pending[b] + requeued[b] + running'[b] + answers'[b] + told[b]
    BY <1>a, <1>n, <2>2, <2>3, <2>4
  <2>5. Total(running') <= infl
    BY <1>0, <2>2
  <2> QED BY <1>0, <2>1, <2>2, <2>3, <2>4, <2>5 DEF CountsInv, InferencesAccounted
<1>9. CASE ReleaseSlot
  <2>1. infl > Total(running) /\ infl' = infl - 1 /\ UNCHANGED <<llm, asked, pending, requeued, running, answers, told>>
    BY <1>9 DEF ReleaseSlot, agentVars, nodeVars
  <2>2. Total(running) \in Nat
    <3>1. CASE \E a \in Agents : TRUE
      BY <1>0, <3>1, UpDown
    <3>2. CASE Agents = {}
      <4>1. SumFunctionOnSet(running, {}) = 0 /\ DOMAIN running = {}
        BY <1>0, <3>2, SumEmpty DEF Counts
      <4>2. Total(running) = 0
        BY <4>1, Zenon DEF Total, SumFunction
      <4> QED BY <4>2
    <3> QED BY <3>1, <3>2
  <2>3. Total(running) <= infl' /\ infl' \in Nat /\ infl' <= MaxInflight
    BY <1>0, <2>1, <2>2
  <2> QED BY <1>0, <1>a, <2>1, <2>3 DEF CountsInv, InferencesAccounted
<1>10. CASE UNCHANGED <<llm, asked, pending, requeued, running, infl, answers, told>>
  BY <1>10 DEF CountsInv, InferencesAccounted
<1> QED BY <1>1, <1>2, <1>3, <1>4, <1>5, <1>6, <1>7, <1>8, <1>9, <1>10
        DEF Next, Loop, PumpExhausted, PumpDrops, HandleMessage, ListDue, Dispatch, TimersDone, NextRound, Arrive,
            Expire, Enter, vars, agentVars, nodeVars, threadVars

-----------------------------------------------------------------------------
(* The theorems *)

ExecutorInv == AgentsInv /\ QueuesInv /\ CountsInv

LEMMA ExecutorInit == Init => ExecutorInv
<1> SUFFICES ASSUME Init PROVE ExecutorInv
  OBVIOUS
<1>e. <<>> \in Seq(Agents) /\ <<>> \in Seq(Agents \X Timers) /\ Len(<<>>) = 0
  OBVIOUS
<1>1. AgentsInv
  <2>1. Cardinality({}) = 0 /\ 0 <= TimerSlots
    BY FS_EmptySet, ExecutorAssumption
  <2>2. \A a \in Agents : armed[a] = {} /\ expired[a] = {}
    BY DEF Init
  <2>3. WithinSlots
    BY <2>1, <2>2 DEF WithinSlots
  <2> QED BY <2>3 DEF Init, AgentsInv, Zero
<1>2. QueuesInv
  BY <1>e, ExecutorAssumption DEF Init, QueuesInv
<1>3. CountsInv
  <2>1. llm \in BOOLEAN
    BY ExecutorAssumption DEF Init
  <2>2. asked = Zero /\ pending = Zero /\ requeued = Zero /\ running = Zero /\ infl = 0 /\ answers = Zero /\ told = Zero
    BY DEF Init
  <2>3. 0 <= MaxInflight
    BY ExecutorAssumption
  <2> QED BY <2>1, <2>2, <2>3, ZeroCounts DEF CountsInv, InferencesAccounted
<1> QED BY <1>1, <1>2, <1>3 DEF ExecutorInv

LEMMA ExecutorStep == ExecutorInv /\ [Next]_vars => ExecutorInv'
  BY AgentsStep, QueuesStep, CountsStep DEF ExecutorInv, QueuesInv

LEMMA ExecutorKeeps == Spec => []ExecutorInv
  BY ExecutorInit, ExecutorStep, PTL DEF Spec

\* The executor's queues, slots and counters stay within their bounds and no inference is lost or
\* answered twice, for any agents, timers and messages (serve, pump, apply_timer_ops, apply_infer_reqs).
THEOREM ExecutorTheorem == Spec => []ExecutorSafe
<1>1. ExecutorInv => ExecutorSafe
  <2> SUFFICES ASSUME ExecutorInv PROVE ExecutorSafe
    OBVIOUS
  <2>1. TypeOK
    <3>1. {armed, expired} \subseteq [Agents -> SUBSET Timers]
      BY DEF ExecutorInv, AgentsInv
    <3>2. {asked, pending, requeued, running, answers, told} \subseteq [Agents -> Nat]
      BY DEF ExecutorInv, CountsInv, Counts
    <3> QED BY <3>1, <3>2 DEF ExecutorInv, AgentsInv, QueuesInv, CountsInv, TypeOK
  <2> QED BY <2>1 DEF ExecutorInv, AgentsInv, CountsInv, ExecutorSafe
<1> QED BY <1>1, ExecutorKeeps, PTL

LEMMA ContainedStep == ExecutorInv /\ [Next]_vars => [QuarantinedIsDeaf /\ FaultDiscards]_vars
<1> SUFFICES ASSUME ExecutorInv, Next PROVE QuarantinedIsDeaf /\ FaultDiscards
  OBVIOUS
<1>0. AgentsInv /\ q \in Seq(Agents) /\ due \in Seq(Agents \X Timers)
      /\ asked \in [Agents -> Nat] /\ faults \in [Agents -> Nat] /\ armed \in [Agents -> SUBSET Timers]
      /\ quarantined \subseteq Agents
  BY DEF ExecutorInv, AgentsInv, QueuesInv, CountsInv, Counts
<1>h. ASSUME NEW a \in Agents, NEW slots, NEW c \in Calls(a) \cup Ticks(a), Handle(a, slots, c)
      PROVE  /\ \A b \in Agents \ {a} : faults'[b] = faults[b] /\ armed'[b] = armed[b] /\ asked'[b] = asked[b]
             /\ faults'[a] > faults[a] => ~c.ok
  <2>1. faults' = [faults EXCEPT ![a] = IF c.ok THEN 0 ELSE faults[a] + 1] /\ armed' = [armed EXCEPT ![a] = TimerOps(slots, c)]
    BY <1>h DEF Handle, Supervise
  <2>2. asked' = Up(asked, a) \/ asked' = asked
    BY <1>h DEF Handle, Infer
  <2>3. \A b \in Agents \ {a} : asked'[b] = asked[b]
    BY <1>0, <2>2 DEF Up
  <2>4. faults'[a] = IF c.ok THEN 0 ELSE faults[a] + 1
    BY <1>0, <2>1
  <2>5. faults[a] \in Nat
    BY <1>0
  <2>6. faults'[a] > faults[a] => ~c.ok
    BY <2>4, <2>5
  <2> QED BY <1>0, <2>1, <2>3, <2>6
<1>1. CASE PumpCalls
  <2> DEFINE a == Head(q)
  <2>1. q # <<>> /\ a \in Agents /\ a \notin quarantined /\ outbox' = outbox
    BY <1>0, <1>1 DEF PumpCalls, Callable
  <2>2. PICK c \in Calls(a) : Handle(a, armed[a], c) /\ ContinuePump(Tail(q) \o Sent(c))
    BY <1>1 DEF PumpCalls
  <2>3. /\ \A b \in Agents \ {a} : faults'[b] = faults[b] /\ armed'[b] = armed[b] /\ asked'[b] = asked[b]
        /\ faults'[a] > faults[a] => ~c.ok
    BY <1>h, <2>1, <2>2
  <2>4. QuarantinedIsDeaf
    BY <1>0, <2>1, <2>3 DEF QuarantinedIsDeaf
  <2>5. ASSUME NEW b \in Agents, kind[b] = "native", faults'[b] > faults[b]
        PROVE  q' = (IF q = <<>> THEN <<>> ELSE Tail(q)) /\ outbox' = outbox
    <3>1. b = a
      <4>1. ~(faults[b] > faults[b])
        BY <1>0
      <4> QED BY <2>3, <2>5, <4>1
    <3>2. ~c.ok /\ kind[a] = "native"
      BY <2>3, <2>5, <3>1
    <3>3. Sent(c) = <<>>
      BY <3>2, CallParts
    <3>4. Tail(q) \o <<>> = Tail(q)
      BY <1>0, <2>1
    <3>5. q' = Tail(q)
      BY <2>2, <3>3, <3>4 DEF ContinuePump
    <3> QED BY <2>1, <3>5
  <2> QED BY <2>4, <2>5 DEF FaultDiscards
<1>2. CASE FireTick
  <2> DEFINE a == Head(due)[1]
  <2>1. q = <<>> /\ outbox = <<>> /\ q' = q /\ due # <<>> /\ Head(due) \in Agents \X Timers
    BY <1>0, <1>2 DEF FireTick, AtLoop
  <2>2. a \in Agents
    BY <2>1
  <2>3. PICK c \in Ticks(a) : Handle(a, armed[a] \ {Head(due)[2]}, c) /\ outbox' = Sent(c)
    BY <1>2 DEF FireTick
  <2> HIDE DEF a
  <2>4. /\ \A b \in Agents \ {a} : faults'[b] = faults[b] /\ armed'[b] = armed[b] /\ asked'[b] = asked[b]
        /\ faults'[a] > faults[a] => ~c.ok
    BY <1>h, <2>2, <2>3
  <2>5. ASSUME NEW b \in Agents, kind[b] = "native", faults'[b] > faults[b]
        PROVE  outbox' = <<>>
    <3>1. b = a
      <4>1. ~(faults[b] > faults[b])
        BY <1>0
      <4> QED BY <2>4, <2>5, <4>1
    <3>2. ~c.ok /\ kind[a] = "native"
      BY <2>4, <2>5, <3>1
    <3> QED BY <2>3, <3>2, CallParts
  <2> QED BY <2>1, <2>5 DEF QuarantinedIsDeaf, FaultDiscards
<1>3. CASE UNCHANGED <<faults, armed, asked>>
  <2>1. \A b \in Agents : ~(faults'[b] > faults[b])
    BY <1>0, <1>3
  <2> QED BY <1>3, <2>1 DEF QuarantinedIsDeaf, FaultDiscards
<1> QED BY <1>1, <1>2, <1>3
        DEF Next, Loop, PumpExhausted, PumpDrops, HandleMessage, ListDue, Dispatch, TimersDone, StartInference,
            Requeue, DropInferences, InferencesStarted, HandOut, NextRound, Arrive, FinishInference, ReleaseSlot,
            Expire, Enter, vars, agentVars

\* A failed call of a native agent sends nothing and a quarantined agent hears nothing more, for any
\* agents and messages (supervise, pump, fire_tick).
THEOREM ContainedTheorem == Spec => FaultsContained
<1>1. Spec => [][QuarantinedIsDeaf /\ FaultDiscards]_vars
  BY ExecutorKeeps, ContainedStep, PTL DEF Spec
<1> QED BY <1>1 DEF FaultsContained
=============================================================================
