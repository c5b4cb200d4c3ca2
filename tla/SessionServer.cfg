CONSTANTS
  Caller = {c1, c2}
  MaxSessions = 1
  Deadline = 1
  MaxPending = 1
  Kinds = {"now", "later", "bye", "onward"}
  MaxCalls = 2
  MaxLines = 3
  MaxRepeats = 1
SPECIFICATION FairSpec
INVARIANTS NoOrphan AnswersInOrder
PROPERTIES WarmupEnds EveryLineAnswered
CHECK_DEADLOCK FALSE
