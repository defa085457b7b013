SPECIFICATION FairSpec
CONSTANTS
    d1 = d1
    d2 = d2
    All = All
    Devices <- OneDevice
    Kinds = {"control", "ir", "config", "group", "scene", "poll", "broadcast"}
    NFrames = 2
    NResps = 2
    MaxRequests = 3
    MaxBroadcasts = 1
    MaxMistagged = 1
PROPERTIES
    EveryRequestSettled
    SettledOnce
CHECK_DEADLOCK FALSE
