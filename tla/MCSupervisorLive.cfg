SPECIFICATION FairSpec
CONSTANTS
    r1 = r1
    r2 = r2
    usb = usb
    webcam = webcam
    typo = typo
    full = full
    lane = lane
    empty = empty
    nobody = nobody
    lifespan = lifespan
    Requests <- MCRequests
    Source <- MCSources
    KnownSource <- MCKnown
    Exclusive <- MCKnown
    Crop <- MCFull
    Defaults <- MCDefaults
    Empty = empty
    Nobody = nobody
    Lifespan = lifespan
    MaxSaves = 3
    MaxBoots = 1
PROPERTIES
    EveryRequestAnswered
    StoppedThreadsEnd
    CameraHandedOver
