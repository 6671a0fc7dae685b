SPECIFICATION FairSpec
CONSTANTS
    Validator = {0, 1}
    Byzantine = {1}
    Winner = {1, 3}
    Capacity = 3
    MaxPayload = 2
    MaxMatches = 4
    MaxBlocks = 6
    MaxForeign = 2
INVARIANTS
    OutcomesSound
    HashLinked
    ActiveXorSlashed
    SlashingsSound
    OneFinalitySignaturePerHeight
    OnlyEquivocatorsSlashed
PROPERTY ImplementsLedger
CHECK_DEADLOCK FALSE
