CONSTANTS
  ann = ann
  bob = bob
  eve = eve
  NoOne = NoOne
  Accounts = {ann, bob, eve}
  o1 = o1
  o2 = o2
  Orders = {o1, o2}
  MaxU64 = 3
  MaxAmount = 2
  Seed <- MCSeed
  SeedOnBoot = {}
  SaveMayFail = FALSE
  Nodes = {1, 2}
  Commands <- MCCommands
  MaxLog = 2
  MaxTerm = 2
  MaxBuilt = 1
  MaxRestarts = 1
  Members = {1, 2}
  Terms = {1, 2}
  MaxLives = 2
SPECIFICATION DurableSpec
INVARIANTS EscrowSafe MoneyConserved OneVotePerTerm
PROPERTIES PaymentsFinal ImplementsDirectory
CHECK_DEADLOCK FALSE
