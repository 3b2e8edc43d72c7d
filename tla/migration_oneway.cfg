CONSTANTS
  A = A
  B = B
  C = C
  NoNode = NoNode
  Nodes = {A, B, C}
  Birth = A
  Durable = {B}
  Fit = {A, B, C}
  Moves <- OneWay
  MaxAttempt = 3
  Attempts <- MCAttempts
  Faults = {"wait5", "replay"}
SPECIFICATION LiveSpec
INVARIANTS NoLoss
PROPERTY MoveEnds
