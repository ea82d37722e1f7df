CONSTANTS
    Models <- MCModels
    EstimateOf <- MCEstimate
    Pinned = {"d"}
    WithTtl = {"a"}
    Budget = 4
    Leases = {l1, l2, l3}
    MaxLoads = 4
    Clients = {"a", "b"}
    MaxRequests = 1
    NumRanks = 3
    NumSlots = 2
    MaxWaiting = 2
    MaxTokens = 2
    Words = {w1, w2}
    Modes = {"threads", "relay"}
    HangUps = {"a"}
    MaxFaults = 1
    MaxPreempts = 2
SPECIFICATION ServingSpec
SYMMETRY Symmetry
INVARIANTS
    LeasedStaysLoaded
    EstimateExact
    CountExact
    SameOrder
    FollowersAgree
PROPERTY
    LeastRecentFirst
CHECK_DEADLOCK FALSE
