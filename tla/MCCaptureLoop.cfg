SPECIFICATION Spec
CONSTANTS
    Views <- MCViews
    MaxDist = 1
    MinFrames = 2
    MaxFrames = 7
    MaxSessions = 2
INVARIANTS
    TypeOK
    OneRide
    NoBlobTwice
    PictureShowsVehicle
    NoTrackForgotten
CHECK_DEADLOCK FALSE
