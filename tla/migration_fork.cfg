CONSTANTS
  A = A
  B = B
  C = C
  NoNode = NoNode
  Nodes = {A, B}
  Birth = A
  Durable = {B}
  Fit = {A, B}
  Moves <- BackAndForth
  MaxAttempt = 4
  Attempts <- MCAttempts
  Faults = {"crash", "stop", "wait5", "commit8", "replay"}
SPECIFICATION Spec
INVARIANT MigrationSafe
PROPERTIES CommitAdvances
