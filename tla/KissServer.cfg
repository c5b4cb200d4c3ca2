CONSTANTS
  Clients = {c1, c2}
  Ports = {p1, p2}
  Sizes = {1}
  FramesPerMinute = 2
  BytesPerMinute = 9
  MaxQueue = 1
  MaxAge = 2
  Minute = 3
  NoPort = NoPort
  Burst = 1
  Refill = 3
  Second = 2
  MaxClients = 2
  MaxChunk = 2
  MaxReads = 3
  MaxOffers = 4
  MaxNow = 5
SPECIFICATION Spec
SYMMETRY Symmetry
INVARIANTS NoLostWakeup SendsPaced FramesAccounted
CHECK_DEADLOCK FALSE
