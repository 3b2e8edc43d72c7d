------------------------------- MODULE Bridge -------------------------------
(***************************************************************************)
(* The MCP bridge (mcp/transport.rs, server.rs, tools.rs, resources.rs): a *)
(* reader task, the server that handles one request at a time, a writer    *)
(* task, and the platform the tools act on.  A line that is neither a      *)
(* request nor a notification is dropped, and a notification changes       *)
(* nothing that is read again.                                             *)
(*                                                                         *)
(* Agents and messages draw their ids from one counter; the id of number n *)
(* is BridgeIds[n], and a client may name an agent as it likes, by the id  *)
(* of another too.  Texts are left out: an answer is what it tells.        *)
(***************************************************************************)
EXTENDS Integers, Sequences, SequencesExt, FiniteSets, Functions, Maps

CONSTANTS
  BridgeIds,        \* the ids, in the order next_id gives them
  BridgeNames,      \* the names clients give to agents
  BridgeServices,   \* the names of services
  QueueCap,         \* capacity of the channels of the transport
  MaxCalls          \* bound on the requests

ASSUME BridgeAssumption ==
  /\ QueueCap \in Nat \ {0} /\ MaxCalls \in Nat
  /\ DOMAIN BridgeIds = 1 .. Len(BridgeIds) /\ Len(BridgeIds) \in Nat /\ Len(BridgeIds) >= MaxCalls
  /\ IsInjective(BridgeIds)

VARIABLES
  order,            \* which handler a hash map yields first for a detail uri, once it is built
  asked,            \* number of requests read from stdin
  rx,               \* the requests queued for the server
  busy,             \* the request in progress, none or one
  checked,          \* whether create_agent has looked for the name
  mcpAgents,        \* PlatformState.agents: the name under each id
  mcpServices,      \* PlatformState.services: the agent_id under each service name
  mcpMessages,      \* PlatformState.messages: the receivers, in order
  lastId,           \* PlatformState.next_id
  made, unmade,     \* number of create and destroy requests that were told they succeeded
  answered,         \* number of requests answered
  last,             \* the last answer
  out,              \* number of answers queued for the writer
  bridge            \* "up", "eof" once stdin ended, "deaf" once the writer ended, "down"

platformvars == <<mcpAgents, mcpServices, mcpMessages, lastId, made, unmade>>
bridgevars == <<order, asked, rx, busy, checked, platformvars, answered, last, out, bridge>>

Refs == BridgeNames \union ToSet(BridgeIds)

\* tools/call of the tools that change or look at the platform, resources/read of one agent and of the
\* lists; what fails to parse as one of these, or names no tool or resource, is answered by an error.
Requests ==
  [op : {"create"}, name : BridgeNames] \union
  [op : {"destroy", "send", "messages", "query", "detail"}, name : Refs] \union
  [op : {"register"}, name : BridgeServices, by : BridgeNames] \union
  [op : {"agents", "services", "resource", "info", "unknown"}]

BridgeInit ==
  /\ order = "unset" /\ asked = 0 /\ rx = <<>> /\ busy = <<>> /\ checked = FALSE
  /\ mcpAgents = <<>> /\ mcpServices = <<>> /\ mcpMessages = <<>> /\ lastId = 0
  /\ made = 0 /\ unmade = 0 /\ answered = 0 /\ last = [call |-> 0, tells |-> "nothing"]
  /\ out = 0 /\ bridge = "up"

\* ResourceRegistry: both patterns of the agents resource match the uri of one agent.
BuildRegistry ==
  /\ order = "unset" /\ order' \in {"list", "detail"}
  /\ UNCHANGED <<asked, rx, busy, checked, platformvars, answered, last, out, bridge>>

-----------------------------------------------------------------------------
(* The transport *)

\* The reader task parses a line; it waits while the channel is full.
ReadLine(r) ==
  /\ order # "unset" /\ bridge \in {"up", "deaf"} /\ asked < MaxCalls /\ Len(rx) < QueueCap
  /\ asked' = asked + 1 /\ rx' = Append(rx, <<asked + 1, r>>)
  /\ UNCHANGED <<order, busy, checked, platformvars, answered, last, out, bridge>>

\* The end of stdin, or an error on it: the reader leaves.
EndOfInput ==
  /\ order # "unset" /\ bridge = "up" /\ bridge' = "eof"
  /\ UNCHANGED <<order, asked, rx, busy, checked, platformvars, answered, last, out>>

\* The writer task puts an answer on stdout.
WriteLine ==
  /\ out > 0 /\ bridge \in {"up", "eof"} /\ out' = out - 1
  /\ UNCHANGED <<order, asked, rx, busy, checked, platformvars, answered, last, bridge>>

\* stdout fails: the writer leaves, and its channel closes.
WriterFails ==
  /\ out > 0 /\ bridge = "up" /\ bridge' = "deaf" /\ out' = 0
  /\ UNCHANGED <<order, asked, rx, busy, checked, platformvars, answered, last>>

-----------------------------------------------------------------------------
(* The server *)

\* run_stdio takes the next request.
TakeRequest ==
  /\ bridge # "down" /\ busy = <<>> /\ rx # <<>>
  /\ busy' = Head(rx) /\ rx' = Tail(rx)
  /\ UNCHANGED <<order, asked, checked, platformvars, answered, last, out, bridge>>

\* Every request is done and the reader left: run_stdio returns and the program ends, with what the
\* writer has not written.
ServerEnds ==
  /\ bridge = "eof" /\ busy = <<>> /\ rx = <<>>
  /\ bridge' = "down" /\ out' = 0
  /\ UNCHANGED <<order, asked, rx, busy, checked, platformvars, answered, last>>

Op == busy[2]
Doing(op) == bridge # "down" /\ busy # <<>> /\ busy[2].op = op

\* JsonRpcResponse, success or error, with the id of the request; send_response waits while the channel
\* is full, and ends the server once the writer is gone.
Respond(tells) ==
  /\ busy' = <<>> /\ checked' = FALSE /\ UNCHANGED <<order, asked, rx>>
  /\ IF bridge = "deaf"
       THEN bridge' = "down" /\ UNCHANGED <<answered, last, out>>
       ELSE /\ out < QueueCap /\ out' = out + 1
            /\ answered' = answered + 1 /\ last' = [call |-> busy[1], tells |-> tells]
            /\ UNCHANGED bridge

\* Mutant: the name is looked up among the ids.
TakenId(name) == name \in DOMAIN mcpAgents

Taken(name) == name \in Range(mcpAgents)

\* CreateAgentTool, up to the end of its read lock.
CreateChecks ==
  /\ Doing("create") /\ ~checked
  /\ IF Taken(Op.name)
       THEN Respond("error") /\ UNCHANGED platformvars
       ELSE checked' = TRUE
            /\ UNCHANGED <<order, asked, rx, busy, platformvars, answered, last, out, bridge>>

\* CreateAgentTool, from next_id on.
CreateInserts ==
  /\ Doing("create") /\ checked
  /\ lastId' = lastId + 1 /\ mcpAgents' = With(mcpAgents, BridgeIds[lastId + 1], Op.name)
  /\ made' = made + 1
  /\ Respond("created") /\ UNCHANGED <<mcpServices, mcpMessages, unmade>>

\* The agents a reference stands for: the one with this id, else one with this name.
Stands(ref) ==
  IF ref \in DOMAIN mcpAgents THEN {ref} ELSE {id \in DOMAIN mcpAgents : mcpAgents[id] = ref}

\* DestroyAgentTool: the services of the agent stay.
Destroy ==
  /\ Doing("destroy")
  /\ \/ Stands(Op.name) = {} /\ Respond("error") /\ UNCHANGED <<mcpAgents, unmade>>
     \/ \E id \in Stands(Op.name) :
          /\ mcpAgents' = Without(mcpAgents, id)
          /\ unmade' = unmade + 1 /\ Respond("destroyed")
  /\ UNCHANGED <<mcpServices, mcpMessages, lastId, made>>

\* SendMessageTool: a message to an agent that is not there is not kept.
SendMessage ==
  /\ Doing("send")
  /\ IF Stands(Op.name) = {}
       THEN Respond("queued") /\ UNCHANGED platformvars
       ELSE /\ lastId' = lastId + 1 /\ mcpMessages' = Append(mcpMessages, Op.name)
            /\ Respond("sent") /\ UNCHANGED <<mcpAgents, mcpServices, made, unmade>>

\* RegisterServiceTool: the agent need not exist, and a service of the same name is replaced.
RegisterService ==
  /\ Doing("register")
  /\ mcpServices' = With(mcpServices, Op.name, Op.by)
  /\ Respond("registered") /\ UNCHANGED <<mcpAgents, mcpMessages, lastId, made, unmade>>

\* GetMessagesTool: the messages to this very reference.
GetMessages ==
  /\ Doing("messages")
  /\ Respond(IF Op.name \in Range(mcpMessages) THEN "messages" ELSE "no messages")
  /\ UNCHANGED platformvars

\* QueryAgentTool.
QueryAgent ==
  /\ Doing("query")
  /\ Respond(IF Stands(Op.name) = {} THEN "missing" ELSE "agent")
  /\ UNCHANGED platformvars

\* resources/read of the uri of one agent: the handler the hash map yields first.
ReadDetail ==
  /\ Doing("detail")
  /\ Respond(IF order = "list" THEN "list" ELSE IF Stands(Op.name) = {} THEN "error" ELSE "agent")
  /\ UNCHANGED platformvars

\* ListAgentsTool.
ListAgents ==
  /\ Doing("agents")
  /\ Respond(IF mcpAgents = <<>> THEN "no agents" ELSE "list")
  /\ UNCHANGED platformvars

\* SearchServicesTool.
SearchServices ==
  /\ Doing("services")
  /\ Respond(IF mcpServices = <<>> THEN "no services" ELSE "list")
  /\ UNCHANGED platformvars

\* resources/read of the agents, the services, the platform or the messages.
ReadResource == Doing("resource") /\ Respond("list") /\ UNCHANGED platformvars

\* initialize, initialized, tools/list, resources/list, ping: told from what never changes.
Info == Doing("info") /\ Respond("info") /\ UNCHANGED platformvars

\* An unknown method, tool or uri, or parameters that do not parse.
Unknown == Doing("unknown") /\ Respond("error") /\ UNCHANGED platformvars

BridgeNext ==
  \/ BuildRegistry \/ EndOfInput \/ WriteLine \/ WriterFails \/ TakeRequest \/ ServerEnds
  \/ CreateChecks \/ CreateInserts \/ Destroy \/ SendMessage \/ RegisterService \/ GetMessages
  \/ QueryAgent \/ ReadDetail \/ ListAgents \/ SearchServices \/ ReadResource \/ Info \/ Unknown
  \/ \E r \in Requests : ReadLine(r)

BridgeSpec == BridgeInit /\ [][BridgeNext]_bridgevars

-----------------------------------------------------------------------------
(* Properties *)

\* No two agents have the same name, and there are as many as clients were told, though ids are shared
\* with messages, names may look like ids and the name is checked before the lock that inserts is taken
\* (CreateAgentTool, DestroyAgentTool, next_id).
AgentsAccounted ==
  /\ IsInjective(mcpAgents)
  /\ Cardinality(DOMAIN mcpAgents) = made - unmade

\* While the bridge serves, every request read is answered once and in order: answered, in progress or
\* queued, errors and full channels included (run_stdio, handle_request, StdioTransport).
CallsAnswered ==
  bridge \in {"up", "eof"} =>
    /\ asked = answered + Len(rx) + (IF busy = <<>> THEN 0 ELSE 1)
    /\ last.call = answered

\* The bridge tells its client the truth about its agents, and tells it every time it is asked.
BridgeExact == AgentsAccounted /\ CallsAnswered

-----------------------------------------------------------------------------
(* Claims of the repository that the code does not keep *)

\* tools.rs:441 "Message queued for delivery."
QueuedIsKept == [][last'.tells = "queued" /\ answered' > answered => Len(mcpMessages') > Len(mcpMessages)]_bridgevars

\* resources.rs:179 "Detailed information about a specific agent".
DetailIsOneAgent == [][Doing("detail") /\ answered' > answered => last'.tells # "list"]_bridgevars

\* tools.rs:676 the messages of an agent, by "Agent ID or name".
MessagesByEither ==
  [][\A id \in DOMAIN mcpAgents :
       Doing("messages") /\ Op.name = id /\ answered' > answered /\ mcpAgents[id] \in Range(mcpMessages)
         => last'.tells = "messages"]_bridgevars
=============================================================================
