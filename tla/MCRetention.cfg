SPECIFICATION FairSpec
CONSTANTS
    Day = 2
    MaxPerDay = 1
    DiskCap = 3
    MaxClock = 4
    MaxEvents = 4
    MaxSweeps = 2
INVARIANTS
    OrphansExplained
    OnlyVictimsStripped
    CapsHold
PROPERTIES
    SweepEnds
CHECK_DEADLOCK FALSE
