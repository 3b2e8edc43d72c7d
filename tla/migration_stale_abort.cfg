CONSTANTS
  A = A
  B = B
  C = C
  NoNode = NoNode
  Nodes = {A, B}
  Birth = A
  Durable = {B}
  Fit = {A, B}
  Moves <- BackAndForth
  MaxAttempt = 4
  Attempts <- MCAttempts
  Faults = {}
SPECIFICATION Spec
INVARIANTS NoLoss
