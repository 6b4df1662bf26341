CONSTANTS
  Clients = {c1}
  Requests = {r1, r2, r3}
  Conns = {n1, n2, n3}
  MaxFaults = 2
  None = None
SPECIFICATION FairSpec
INVARIANTS
  AcceptReqsSafe
  NoRequestLost
  OwnedUntilClosed
  EstablishedOnce
PROPERTIES
  ServerFreed
  ConnectAnswered
