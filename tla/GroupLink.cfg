SPECIFICATION Spec
CONSTANTS
    g1 = g1
    g2 = g2
    Groups <- OneGroup
    LinkGroups <- OneGroup
    Elements <- TwoButtons
    NoRow = NoRow
    Patient = TRUE
    MaxRequests = 1
    MaxTtl = 0
    MaxRestarts = 0
    MaxFaults = 1
CHECK_DEADLOCK FALSE
INVARIANT ButtonsAreSubscribed
