CONSTANTS
  Caller = Caller
  Called = Called
  Mail <- MCMail
  MaxBlock = 2
  MaxBig = 1
  MaxBreaks = 2
  MaxFails = 1
  MaxLate = 1
SPECIFICATION FairSpec
INVARIANTS MarkedIsStored NobodyWaits
PROPERTIES SessionEnds MailArrives
