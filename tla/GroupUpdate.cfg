SPECIFICATION FairSpec
CONSTANTS
    g1 = g1
    g2 = g2
    Groups <- OneGroup
    LinkGroups = {}
    Elements <- TwoLights
    NoRow = NoRow
    Patient = TRUE
    MaxRequests = 2
    MaxTtl = 1
    MaxRestarts = 1
    MaxFaults = 1
CHECK_DEADLOCK FALSE
INVARIANT TypeOK
INVARIANT NoUseOfFreed
INVARIANT SettledGroups
INVARIANT PublishedIsSaved
INVARIANT QuietMembers
PROPERTY QuietRemovals
PROPERTY EveryRequestEnds
