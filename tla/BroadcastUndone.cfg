CONSTANTS
  Free = Free
  Threads = {a, b, x, y}
  Native = FALSE
  Early = {a, b, x, y}
  Callers = {x, y}
  CallKinds = {"broadcast"}
  Waits = 1
SPECIFICATION FairSpec
PROPERTIES
  BroadcastUnblocksAll
