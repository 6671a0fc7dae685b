SPECIFICATION FairSpec
CONSTANTS
    reader = reader
    sleeper = sleeper
    Client <- Readers
    Healthy <- Readers
    Depth = 1
    Warps = {1}
    Snapshots <- OneSnapshot
    MaxSteps = 1
    MaxTicks = 2
PROPERTY ResumedWorldTicks
CHECK_DEADLOCK FALSE
