CONSTANTS
  MaxKey = 2
  OpTimeout = 1
  PlayMax = 3
  StopWait = 1
  Attempts = 2
  QueueMax = 1
  MaxExceptions = 1
SPECIFICATION FairSpec
   
PROPERTIES  FlowsEnd
CHECK_DEADLOCK FALSE
