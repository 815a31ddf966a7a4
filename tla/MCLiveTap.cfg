SPECIFICATION TapFairSpec
CONSTANTS
    wizard = wizard
    dashboard = dashboard
    Streams <- MCTwoStreams
    Gap = 1
    MaxRunners = 2
INVARIANTS
    TapTypeOK
    CountsViewers
PROPERTIES
    CountedIsServed
