SPECIFICATION Spec
CONSTANTS
    r1 = r1
    r2 = r2
    usb = usb
    webcam = webcam
    typo = typo
    full = full
    lane = lane
    empty = empty
    nobody = nobody
    lifespan = lifespan
    Requests <- MCRequests
    Source <- MCSources
    KnownSource <- MCKnown
    Exclusive <- MCKnown
    Crop <- MCCrops
    Defaults <- MCDefaults
    Empty = empty
    Nobody = nobody
    Lifespan = lifespan
    MaxSaves = 3
    MaxBoots = 2
SYMMETRY Symmetry
INVARIANTS
    OneCapture
    Converged
    SavedMeansApplied
PROPERTIES
    KeepsPromise
