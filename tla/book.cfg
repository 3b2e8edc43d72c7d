CONSTANTS
  ann = ann
  bob = bob
  bs = bs
  NoOne = NoOne
  LtG = LtG
  Accounts = {ann, bob, bs}
  Buyers = {ann, bob}
  Orders = {LtG}
  MaxU64 = 3
  MaxAmount = 1
  Price = 1
  Seed <- BothRich
  SeedOnBoot = {}
  SaveMayFail = FALSE
  HasLtG = TRUE
  Settings <- Both
  MaxLost = 1
SPECIFICATION BookFair
CHECK_DEADLOCK FALSE
INVARIANT BookSafe
PROPERTY BookLive
