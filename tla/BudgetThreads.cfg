CONSTANTS
    Total = 41
    PerRelease = 20
    QueryEpsilon = {1, 20}
SPECIFICATION FairSpec
INVARIANTS SpendingAccounted LowBudgetAnnounced
PROPERTIES ExhaustionDegrades
