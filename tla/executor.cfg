CONSTANTS
  a1 = a1
  w1 = w1
  Natives = {a1}
  Spawnable = {a1, w1}
  Timers = {1, 2}
  TimerSlots = 1
  MaxFaults = 2
  PumpBudget = 3
  Backends = {TRUE, FALSE}
  MaxInflight = 1
  MaxAsks = 2
  MaxMessages = 2
  InboxSize = 1
SPECIFICATION FairSpec
INVARIANT ExecutorSafe
PROPERTIES FaultsContained ServeLive
