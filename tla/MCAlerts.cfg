SPECIFICATION FairSpec
CONSTANTS
    ntfy = ntfy
    webhook = webhook
    r1 = r1
    r2 = r2
    never = never
    Channels <- MCChannels
    Configs <- MCConfigs
    Requests <- MCTwoRequests
    Outcomes = {TRUE, FALSE}
    Maxsize = 2
    Never = never
    MaxClock = 3
    MaxSaves = 2
    MaxLoad = 3
INVARIANTS
    StaleIsExplained
    SilencedAfterSend
PROPERTIES
    SettingsReachDispatcher
CHECK_DEADLOCK FALSE
