SPECIFICATION Spec
CONSTANTS
    r1 = r1
    r2 = r2
    nobody = nobody
    Requests <- MCRequests
    Nobody = nobody
    Foreign = 9
    MaxKeys = 2
    MaxTokens = 1
    MaxCals = 2
SYMMETRY Symmetry
INVARIANTS
    KeyStable
    GateStaysOpen
    TokensKept
    ScaleKept
