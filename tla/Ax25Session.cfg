CONSTANTS
  A = A
  B = B
  Basic = 4
  Extended = 8
  Mod = 8
  Window = 2
  N2 = 1
  Srej = FALSE
  Caller = {A, B}
  Established = FALSE
  SendIn = {"connected", "recovering"}
  Talker = {A}
  MaxMsgs = 2
  MaxConnects = 2
  MaxDisconnects = 1
  MaxProbes = 1
  MaxLosses = 2
  MaxPremature = 1
SPECIFICATION FairSpec
INVARIANT InOrder
PROPERTY RequestsEnd
CHECK_DEADLOCK FALSE
