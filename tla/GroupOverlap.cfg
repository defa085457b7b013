SPECIFICATION Spec
CONSTANTS
    g1 = g1
    g2 = g2
    Groups <- MCGroups
    LinkGroups = {}
    Elements <- TwoLights
    NoRow = NoRow
    Patient = FALSE
    MaxRequests = 2
    MaxTtl = 0
    MaxRestarts = 0
    MaxFaults = 0
CHECK_DEADLOCK FALSE
PROPERTY PushesItsGroup
