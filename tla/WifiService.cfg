SPECIFICATION FairSpec
CONSTANTS
    QueueSize = 1
    MaxNumberRetry = 6
    RefetchAt = 3
    MaxTokenTries = 1
    MaxCommands = 3
    MaxTroubles = 2
INVARIANT TypeOK
PROPERTY GivenUpForAReason
INVARIANT DoneIsExecuted
PROPERTY EveryCommandEnds
