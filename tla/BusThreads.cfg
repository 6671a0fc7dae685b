SPECIFICATION FairSpec
CONSTANTS
    Thread = {loop, worker}
    MaxEvents = 4
INVARIANTS EventsKept NothingStranded
PROPERTY ImplementsDelivery
CHECK_DEADLOCK FALSE
