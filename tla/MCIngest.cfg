SPECIFICATION Spec
CONSTANTS
  Conn = {c1, c2, c3}
  Loopback = Loopback
  Addrs = {home}
  None = None
  MaxConns = 2
  MaxPerAddr = 1
  Budget = 1
  Sizes = {2}
  MaxSent = 2
SYMMETRY Symmetry
CHECK_DEADLOCK FALSE
INVARIANTS
  PublisherIsThere
  OthersClose
  RoomComes
PROPERTIES
  StreamIsWhole
  PublisherIsKept
