CONSTANTS
  Free = Free
  None = None
  Threads = {p, q, r, s}
  Takers = {r, s}
  Native = FALSE
  Elements = {e1, e2}
  Takes = 1
SPECIFICATION FairSpec
PROPERTIES
  EveryTakeReturns
