CONSTANTS
    BlockTokens = 2
    Prompts <- MCPrompts
    Requests = {r1}
    NumPages = 3
    NumLogical = 0
    MaxRefs = 2
    MaxEvictions = 2
SPECIFICATION CacheSpec
INVARIANTS
    BlockIndexInSync
CHECK_DEADLOCK FALSE
