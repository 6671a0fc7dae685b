SPECIFICATION SnapSpec
CONSTANTS
    Validator = {0, 1}
    Byzantine = {}
    Winner = {}
    Capacity = 2
    MaxPayload = 1
    MaxMatches = 1
    MaxBlocks = 1
    MaxForeign = 0
    MaxBoots = 1
    MaxSaves = 2
INVARIANT PointerMeansIntactSnapshot
CHECK_DEADLOCK FALSE
