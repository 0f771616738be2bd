SPECIFICATION FairSpec
CONSTANTS
    MaxItems = 3
    Limits = {1, 2}
    JobRoom = 3
INVARIANTS
    ItemInOnePlace
    BusyHasTurn
    AcceptedIsReported
PROPERTIES
    OneTurnPerWorker
    GrowsWithinLimit
    PoolDrains
