SPECIFICATION MqttSpec
CONSTANTS
    b1 = b1
    b2 = b2
    t1 = t1
    t2 = t2
    Brokers <- MCBrokers
    Task = task
    Tests <- MCTwoTests
    NoBroker = none
    MaxPublishers = 4
INVARIANTS
    RightBroker
    NoStrayClient
SYMMETRY Symmetry
CHECK_DEADLOCK FALSE
