SPECIFICATION ServicesSpec
CONSTANTS
  AgentNames <- MCAgentNames
  Reserved = {"ams"}
  Owners = {"o1"}
  MaxAgents = 3
  RequireAuth = TRUE
  MaxCreations = 3
  Providers = {"p1", "p2"}
  Offers = {"s1", "s2"}
  Versions = {1, 2}
  MaxPerAgent = 2
  MaxTotal = 3
  MaxSubscribed = 2
  m1 = m1
  m2 = m2
  m3 = m3
  m4 = m4
  Messages = {m1, m2, m3, m4}
  Dest <- MCDest
  HasMtp = TRUE
  HasCallback = TRUE
  EnableBuffering = TRUE
  MaxBufferSize = 2
  MaxRetries = 2
  RetryDelayMs = 1500
  MaxClock = 2
  Remote = {"far"}
  MaxBehaviors = 2
  BehaviorNames = {"b"}
  Interval = 2
  MaxMs = 3
  MaxRuns = 2
  FsmStates = {"start", "end"}
  FsmEvents = {"go"}
  Transitions <- MCTransitions
  Peers = {"q1", "q2"}
  Addresses = {"a1"}
  Kinds = {"k"}
  Ttl = 2
  MaxNow = 3
  Actors = {"x", "y"}
  Nodes = {"n1"}
  Calls <- MCCalls
  MaxRouted = 2
  MaxRestarts = 2
  MaxDeliveries = 4
  MaxEmitted = 2
  Ids = {"a", "b"}
  Aliases = {"df"}
  Clients = {"client"}
  Native = {"a"}
  MaxInjected = 2
  MaxQueue = 2
  MaxExternal = 1
  Amses = {"r", "s", "t"}
  MaxHops = 3
  Manifests <- MCManifests
  Unlimited = 1000000
  CallFuel = 3
  MaxQueuedSends = 3
  MaxMailbox = 2
  Keys = {"k1", "k2"}
  Sizes = {1, 2}
  Quota = 3
  Word = 8
  MaxTimers = 2
  Delays = {0, 1}
  MaxTick = 2
  BridgeIds <- MCBridgeIds
  BridgeNames = {"x", "agent-2"}
  BridgeServices = {"s"}
  QueueCap = 1
  MaxCalls = 3
INVARIANTS  DirectoryExact AcceptedNotLost KnowsThePresent HostingSound WithinGrant BridgeExact
PROPERTY RunsOnTime
CHECK_DEADLOCK FALSE
