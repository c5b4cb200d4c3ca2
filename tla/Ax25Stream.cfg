CONSTANTS
  A = A
  B = B
  Basic = 3
  Extended = 8
  Mod = 3
  Window = 2
  N2 = 1
  Srej = FALSE
  Caller = {}
  Established = TRUE
  SendIn = {"connected", "recovering"}
  Talker = {A, B}
  MaxMsgs = 4
  MaxConnects = 0
  MaxDisconnects = 0
  MaxProbes = 0
  MaxLosses = 1
  MaxPremature = 1
SPECIFICATION Spec
INVARIANT TypeOK
PROPERTY IsReliableStream
CHECK_DEADLOCK FALSE
