CONSTANTS
    Capacity = 2
    MaxTicket = 2
    MaxBlocks = 2
    Regions = {r1, r2}
    CounterMod = 16
SPECIFICATION Spec
SYMMETRY RegionSymmetry
INVARIANTS
    TypeOK
    RegionOwnership
    StoreSourceLive
    QueueAccounting
    SubmitHeadroom
