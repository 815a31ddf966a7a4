SPECIFICATION FairSpec
CONSTANTS
    detector = detector
    threadpool = threadpool
    ticker = ticker
    dashboard = dashboard
    dispatcher = dispatcher
    Threads <- MCOneThread
    Ticker = ticker
    Clients <- MCClients
    Maxsize = 2
    MaxSent = 3
PROPERTIES
    CatchesUp
    IsLossyStream
