SPECIFICATION FairSpec
CONSTANTS
  NoFinality = NoFinality
  Finality = NoFinality
  MustSucceed = TRUE
  Interval = 2
  Timeout = 5
  MaxClock = 7
INVARIANTS
  MustSucceedHonoured
