SPECIFICATION Spec
CONSTANTS
    Interval = 1
    Timeout = 2
    MaxClock = 3
    NoFinality = NoFinality
INVARIANT TypeOK
PROPERTIES HandsOutWhatItSaw WaitsEnd AchievedEndsWait
