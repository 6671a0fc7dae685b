SPECIFICATION SnapSpec
CONSTANTS
    Validator = {0, 1}
    Byzantine = {}
    Winner = {}
    Capacity = 2
    MaxPayload = 1
    MaxMatches = 1
    MaxBlocks = 1
    MaxForeign = 0
    MaxBoots = 2
    MaxSaves = 2
PROPERTY ResumedNodeSound
CHECK_DEADLOCK FALSE
