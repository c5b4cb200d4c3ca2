CONSTANTS
  Mod = 3
  Window = 2
  N2 = 1
  MaxTxq = 3
  A = A
  B = B
  Dialers = {A}
  Talkers = {A}
  First <- MCFirst
  MaxFrags = 2
  MaxMsgs = 2
  MaxCircuits = 3
  MaxDials = 2
  MaxHangups = 1
  MaxLosses = 1
  MaxPremature = 1
SPECIFICATION FairSpec
INVARIANTS OneStream OneCircuitPerDial
PROPERTIES RequestsEnd Delivered
CHECK_DEADLOCK FALSE
