CONSTANTS
  Free = Free
  None = None
  Threads = {p, q, r, s}
  Takers = {r, s}
  Native = TRUE
  Elements = {e1, e2, e3, e4}
  Takes = 2
SPECIFICATION FairSpec
INVARIANTS
  NoLostWakeup
PROPERTIES
  RefinesFifo
  EveryTakeReturns
