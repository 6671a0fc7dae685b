SPECIFICATION FairSpec
CONSTANTS
    reader = reader
    sleeper = sleeper
    Client <- Clients
    Healthy <- Readers
    Depth = 1
    Warps = {1, 2}
    Snapshots <- OneSnapshot
    MaxSteps = 1
    MaxTicks = 3
 
PROPERTIES ClientsServed TicksGoOn
CHECK_DEADLOCK FALSE
