SPECIFICATION FairSpec
CONSTANTS
    d1 = d1
    d2 = d2
    Services = {}
    Reached = {}
    Fragile = {}
    Limit <- NoLimits
    PingEvery = 0
    MaxLag = 0
    Devices <- OneDevice
    Pages <- OnePage
    PageOf <- OnePageMap
    QueueSize = 1
    MaxReports = 2
    MaxRequests = 0
    MaxBus = 2
    MaxDrops = 2
PROPERTY CloudCatchesUp
PROPERTY ReconnectsForGood
