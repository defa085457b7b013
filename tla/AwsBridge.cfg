SPECIFICATION Spec
CONSTANTS
    d1 = d1
    d2 = d2
    Services = {}
    Reached = {}
    Fragile = {}
    Limit <- NoLimits
    PingEvery = 0
    MaxLag = 0
    Devices <- TwoDevices
    Pages <- TwoPages
    PageOf <- PageMap
    QueueSize = 1
    MaxReports = 2
    MaxRequests = 2
    MaxBus = 2
    MaxDrops = 1
INVARIANT TypeOK
INVARIANT NothingLostQuietly
INVARIANT BuriedStaysBuried
PROPERTY NeverOlder
