SPECIFICATION Spec
CONSTANTS
    w1 = w1
    w2 = w2
    p1 = p1
    p2 = p2
    nobody = nobody
    broken = broken
    Writers <- MCTwoWriters
    Purges <- MCOnePurge
    Nobody = nobody
    Broken = broken
    Day = 2
    MaxClock = 4
    MaxEvents = 2
INVARIANTS
    OwnPictures
    AnnouncedIsStored
    PurgeKeepsItsWord
PROPERTIES
    IsEventLog
    
SYMMETRY Symmetry
