CONSTANTS
  a = a
  b = b
  NoStream = NoStream
  Streams = {a, b}
  Incoming <- MostForB
  MaxWrites <- OnlyOnB
  Slab = 2
  Stops = {b}
  Refused = {}
  ClosesInEnd = {}
  Steady = {a}
SPECIFICATION FairSpec
INVARIANTS
  ReadReqOnce
  CountsExact
PROPERTIES
  EndOnlyByPeer
  RefinesFairContract
  DataIsRead
