SPECIFICATION SnapSpec
CONSTANTS
    Validator = {0, 1}
    Byzantine = {}
    Winner = {1}
    Capacity = 2
    MaxPayload = 1
    MaxMatches = 1
    MaxBlocks = 1
    MaxForeign = 0
    MaxBoots = 0
    MaxSaves = 2
PROPERTY FinalisedWinnersCredited
CHECK_DEADLOCK FALSE
