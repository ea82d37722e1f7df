CONSTANTS
    Pages = {p1, p2, p3}
    MorePages = {p4}
    Slots = {s1, s2}
    PageSize = 2
    BlockSize = 2
    Tokens = {a}
    CrossSlotAttach = TRUE
    CopyMayFail = FALSE
    FastPages = TRUE
    UploadMayFail = TRUE
    MaxLen = 3
    MaxRef = 1
    MaxEpoch = 1
    BlockTokens = 2
    Prompts <- MCPrompts
    Requests = {"a", "b"}
    NumPages = 2
    NumLogical = 2
    MaxRefs = 2
    MaxEvictions = 2
SPECIFICATION IndexSpec
CONSTRAINT Undamaged
SYMMETRY Symmetry
VIEW View
INVARIANTS
    MetadataCurrent
    LookupSound
    BlockIndexExact
    HeldBlocksLive
CHECK_DEADLOCK FALSE
