CONSTANTS
  a1 = a1
  a2 = a2
  c1 = c1
  NoAgent = NoAgent
  Agents = {a1, a2}
  Amounts = {0, 1, 2, 3}
  Openings <- MCOpenings
  MaxCalls = 6
  Allowed = {"Request", "Query"}
  Started = {"Request", "Query", "ContractNet", "Subscribe", "Propose"}
  Inbox <- MCInbox
  MaxConvs = 2
  MaxMail = 2
  MaxMessages = 5
  Hosted = {a1, a2}
  Filename <- MCFilename
  Callers = {c1}
  MaxSnapshots = 1
  StaleAfter = 0
  Talks <- MCTalks
  MaxClock = 2
  MaxTaken = 2
SPECIFICATION Spec
INVARIANTS ConversationSound NegotiationSound LiveConversationsResume
PROPERTIES SettledStays RecoversTheAcknowledged
CHECK_DEADLOCK FALSE
