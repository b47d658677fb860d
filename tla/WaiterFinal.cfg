SPECIFICATION FairSpec
CONSTANTS
  NoFinality = NoFinality
  Finality = "ACCEPTED_ON_L2"
  MustSucceed = TRUE
  Interval = 2
  Timeout = 5
  MaxClock = 7
INVARIANTS
  TypeOK
  MustSucceedHonoured
  VerdictIsFinal
PROPERTIES
  Paced
  Ends
