SPECIFICATION Spec
CONSTANTS
    d1 = d1
    d2 = d2
    All = All
    Devices <- MCDevices
    Kinds = {"control", "group", "broadcast"}
    NFrames = 3
    NResps = 2
    MaxRequests = 4
    MaxBroadcasts = 2
    MaxMistagged = 0
SYMMETRY DeviceSymmetry
INVARIANT TypeOK
PROPERTIES
    LossOnlyInLongBurst
    SentInOrder
    AckWasHeard
    NoFalseTimeout
    ChannelSpec
CHECK_DEADLOCK FALSE
