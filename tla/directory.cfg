CONSTANTS
  n1 = n1
  n2 = n2
  n3 = n3
  Nodes = {n1, n2, n3}
  Home = n1
  None = None
  MaxEpoch = 3
  MaxTalk = 2
  Window = 4
SPECIFICATION Fair
CHECK_DEADLOCK FALSE
INVARIANT DirectorySafe
PROPERTIES Monotonic CatchesUp
