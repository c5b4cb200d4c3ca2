CONSTANTS
  Pusher = {p1}
  MaxGaps = 1
  MaxRev = 4
  MaxEdits = 1
  MaxTombs = 2
  MaxPushes = 1
  MaxFails = 2
  MaxCuts = 1
SPECIFICATION FairSpec
INVARIANTS MarkIsTrue DeletedStaysDeleted
  
