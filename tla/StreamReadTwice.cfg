CONSTANTS
  a = a
  b = b
  NoStream = NoStream
  Streams = {b}
  Incoming <- One
  MaxWrites <- NoWrites
  Slab = 2
  Stops = {b}
  Refused = {b}
  ClosesInEnd = {}
  Steady = {}
SPECIFICATION Spec
INVARIANTS
  ReadReqOnce
