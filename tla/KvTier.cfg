CONSTANTS
    Requests = {"a", "b", "c"}
    Want <- MCWant
    Depth = 2
    NumRegions = 3
    HighWater = 2
    LowWater = 0
    QueueCap = 2
    HangUps = {"b", "c"}
    MaxFaults = 1
    MaxDemotes = 4
SPECIFICATION FairSpec
INVARIANTS
    FetchTablesAgree
    WaiterServed
    StoreTablesAgree
PROPERTY
    FetchAnswered
CHECK_DEADLOCK FALSE
