CONSTANTS
  i1 = i1
  a1 = a1
  t1 = t1
  NoHandle = NoHandle
  Handles <- OneEach
  Kind <- KindOfEach
  Listeners <- NetworkHandles
  MaxReqs = 1
SPECIFICATION FairSpec
INVARIANTS
  TypeOK
  NoDanglingPointer
  NoLeak
  ActiveCountExact
PROPERTIES
  CallbackFindsWrapper
  RunFinishesCloses
  RefinesFairContract
  LoopDrains
