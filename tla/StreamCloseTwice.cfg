CONSTANTS
  a = a
  b = b
  NoStream = NoStream
  Streams = {b}
  Incoming <- One
  MaxWrites <- NoWrites
  Slab = 2
  Stops = {}
  Refused = {}
  ClosesInEnd = {b}
  Steady = {}
SPECIFICATION Spec
PROPERTIES
  ClosesOnce
