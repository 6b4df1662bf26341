CONSTANTS
  Free = Free
  Threads = {a, b, x, y}
  Native = FALSE
  Early = {x, y}
  Callers = {x, y}
  CallKinds = {"signal", "broadcast"}
  Waits = 3
SPECIFICATION Spec
INVARIANTS
  BuiltBeforeUse
  LoneBroadcastReaches
PROPERTIES
  HandleInTime
