CONSTANTS
  loopA = loopA
  loopB = loopB
  w1 = w1
  w2 = w2
  w3 = w3
  Free = Free
  None = None
  Works = {w1, w2, w3}
  Workers = {t1, t2}
  Loops <- TwoLoops
  LoopOf <- LastElsewhere
SPECIFICATION FairSpec
INVARIANTS
  NoUseAfterFree
  InOnePlace
  SomeWorkerAwake
  LoopIsCalled
PROPERTIES
  RefinesFairContract
