CONSTANTS
  Me = me
  Others = {k1, k2, k3}
  MaxPathLength = 2
  MarginalsNeeded = 2
  CompletesNeeded = 1
  AllowMarginal = TRUE
  MaxSigs = 3
  MaxOwned = 1
  MaxLives = 2
  Principals <- MCPrincipals
  Policies <- MCPolicies
  Files <- MCFiles
  Bindings <- MCBindings
  Queries <- MCQueries
  MaxFailures = 2
  LockoutTime = 2
  SessionTime = 2
  MaxTime = 3
  MaxSessions = 2
  MaxBindings = 4
  Namespaces <- MCNamespaces
  Stateful <- MCNamespaces
  StateKeys <- MCStateKeys
  Lengths = {1, 2}
  StateQuota = 3
  MaxMounts = 3
  MsgPerS = 2
  Scope = "none"
  Second = 3
  MaxTicks = 6
  MaxMinted = 4
  Senders = {"a", "b", "ams"}
  ReservedSenders = {"ams"}
  ReturnAddrs = {"x", "y"}
  MaxSigned = 2
  Frames = 4
  Oversized = {3}
  FrameCap = 2
  InboundCap = 1
  MaxLinks = 3
SPECIFICATION Spec
SYMMETRY OtherKeys
INVARIANTS AccessSound CachedValidityWasTrue AgentWithinBudget AdmittedWasSealed LinkSound
PROPERTIES LockoutHolds WebEvolves IdentityKept
CHECK_DEADLOCK FALSE
