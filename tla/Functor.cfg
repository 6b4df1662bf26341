CONSTANTS
  loop = loop
  p = p
  q = q
  Free = Free
  None = None
  Threads <- MCThreads
  Loop = loop
  Jobs = {f1, f2, f3, f4}
  Empty = {f3}
SPECIFICATION FairSpec
INVARIANTS
  TypeOK
  NoLostWakeup
PROPERTIES
  RefinesExecutor
  EveryFunctorRuns
