CONSTANTS
    Capacity = 1
    MaxTicket = 1
    MaxBlocks = 1
    Regions = {r1}
    CounterMod = 16
SPECIFICATION Spec
INVARIANTS
    StoreOwnsRelease
