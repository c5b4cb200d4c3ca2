CONSTANTS
  Basic = 3
  Extended = 4
  Mod = 4
  Window = 2
  N2 = 1
  Srej = TRUE
  MaxMsgs = 3
SPECIFICATION Spec
INVARIANTS SentOK  GivesUp
CHECK_DEADLOCK FALSE
