---------------------------- MODULE Conversation ----------------------------
(***************************************************************************)
(* The conversations of one agent actor (actor/agent_actor.rs).  Messages  *)
(* are queued by the DeliverMessage handler after the capability check and *)
(* handled by the tick, which empties the mailbox: rejected content is     *)
(* answered, decoded content goes to the agent, and the rest goes to the   *)
(* machine of its conversation or to the WASM module.  Peers send anything *)
(* in any order, any number of times.                                      *)
(***************************************************************************)
EXTENDS Machines

CONSTANTS Allowed,       \* capabilities.allowed_protocols
          Started,       \* the protocols callers ask to start
          Inbox,         \* the messages peers may send
          MaxConvs,      \* bound: conversations started
          MaxMail,       \* bound: messages queued at once
          MaxMessages    \* bound: messages delivered

ASSUME ConversationAssumption ==
  /\ Allowed \subseteq Kinds /\ Started \subseteq Kinds
  /\ \A msg \in Inbox : msg.content \in {"rejected", "decoded", "opaque"}
  /\ MaxConvs \in Nat /\ MaxMail \in Nat /\ MaxMessages \in Nat

VARIABLES convs,         \* conversations: the machines, by the order of their ids
          mailbox,       \* messages queued
          stats,         \* AgentStats
          phase          \* AgentRuntimeState, from Running on

cvars == <<convs, mailbox, stats, phase>>

CInit ==
  /\ convs = <<>> /\ mailbox = <<>> /\ phase = "running"
  /\ stats = [received |-> 0, sent |-> 0, started |-> 0, completed |-> 0, errors |-> 0]

-----------------------------------------------------------------------------
\* create_state_machine: four of the ten protocols can be started.
CreateStateMachine(p) ==
  CASE p = "Request" -> Some(NewRequest)
    [] p = "Query" -> Some(NewQuery)
    [] p = "ContractNet" -> Some(NewContractNet)
    [] p = "Subscribe" -> Some(NewSubscribe)
    [] OTHER -> None

StartConversation(p) ==
  /\ phase # "stopped" /\ Len(convs) < MaxConvs
  /\ CreateStateMachine(p) # None
  /\ convs' = Append(convs, CreateStateMachine(p)[1])
  /\ stats' = [stats EXCEPT !.started = @ + 1]
  /\ UNCHANGED <<mailbox, phase>>

\* A message names its protocol, none, or a number that is no protocol ("unknown"): only a
\* protocol that is known and not allowed is turned away.
MayDeliver(msg) == msg.proto \in Kinds => msg.proto \in Allowed

DeliverMessage(msg) ==
  /\ phase # "stopped"
  /\ Len(mailbox) < MaxMail /\ stats.received + Len(mailbox) < MaxMessages
  /\ MayDeliver(msg)
  /\ mailbox' = Append(mailbox, msg)
  /\ UNCHANGED <<convs, stats, phase>>

-----------------------------------------------------------------------------
Count(st, field) == [st EXCEPT !.stats[field] = @ + 1]

\* handle_protocol_result
ProtocolResult(st, c) ==
  CASE ProcessResult(st.convs[c]) = "complete" -> Count(st, "completed")
    [] ProcessResult(st.convs[c]) = "failed" -> Count(st, "errors")
    [] OTHER -> st

\* The part of a conversation: refused messages are errors and change nothing else.
ToConversation(st, msg) ==
  IF Accepts(st.convs[msg.conv], msg)
  THEN ProtocolResult([st EXCEPT !.convs[msg.conv] = Process(@, msg)], msg.conv)
  ELSE Count([st EXCEPT !.convs[msg.conv] = Process(@, msg)], "errors")

\* handle_acl_message
HandleAcl(st0, msg) ==
  LET st == Count(st0, "received") IN
  CASE msg.content = "rejected" -> Count(st, "sent")        \* not-understood
    [] msg.content = "decoded" -> IF msg.trap THEN Count(st, "errors") ELSE st
    [] msg.content = "opaque" ->
         IF msg.conv \in DOMAIN st.convs THEN ToConversation(st, msg)
         ELSE IF msg.trap THEN Count(st, "errors") ELSE st

\* The run interval: process_mailbox, then the agent's run tick.
Tick(run) ==
  /\ phase = "running"
  /\ LET st == FoldLeft(HandleAcl, [convs |-> convs, stats |-> stats], mailbox) IN
       /\ convs' = st.convs
       /\ stats' = [st.stats EXCEPT !.errors = IF run = "error" THEN @ + 1 ELSE @]
  /\ mailbox' = <<>>
  /\ phase' = IF run = "stop" THEN "stopped" ELSE phase

\* MigrateTo: while the package is on its way the ticks do nothing.
MigrateTo == phase = "running" /\ phase' = "migrating" /\ UNCHANGED <<convs, mailbox, stats>>
MigrationDone(ok) ==
  phase = "migrating" /\ phase' = (IF ok THEN "stopped" ELSE "running")
    /\ UNCHANGED <<convs, mailbox, stats>>
Shutdown == phase # "stopped" /\ phase' = "stopped" /\ UNCHANGED <<convs, mailbox, stats>>

CNext ==
  \/ \E p \in Started : StartConversation(p)
  \/ \E msg \in Inbox : DeliverMessage(msg)
  \/ mailbox # <<>> /\ \E run \in {"continue", "stop", "error"} : Tick(run)
  \/ MigrateTo
  \/ \E ok \in BOOLEAN : MigrationDone(ok)
  \/ Shutdown

CSpec == CInit /\ [][CNext]_cvars

-----------------------------------------------------------------------------
\* The state a history leads to, by the table alone.
Replay(p, hist) ==
  FoldLeft(LAMBDA S, perf : UNION {Targets(p, TRUE, s, perf) : s \in S}, {"not_started"}, hist)

(* message_history is the whole story: replaying it through the protocol's
   table gives the state of the machine, so no refused, duplicated or late
   message has left a trace (process validates before it records). *)
HistoryIsTheState ==
  \A c \in DOMAIN convs : Replay(convs[c].proto, convs[c].hist) = {convs[c].state}

(* A conversation is counted as completed at most once, whatever arrives after
   its end: completions never outnumber the conversations started. *)
CompletesOnce == stats.completed <= stats.started

(* Both: what a conversation did is what it recorded, and it ended once, though
   messages repeat, overtake each other and arrive after the end. *)
ConversationSound == HistoryIsTheState /\ CompletesOnce
=============================================================================
