CONSTANTS
    Pages = {p1, p2, p3}
    Slots = {s1, s2}
    PageSize = 2
    BlockSize = 2
    Tokens = {a, b}
    CrossSlotAttach = TRUE
    CopyMayFail = TRUE
    MaxLen = 3
    MaxRef = 2
    MaxEpoch = 2
    ArenaBytes = 7
    SizeSets = {{2}, {1, 2, 3}}
    Nodes = {"a", "b"}
    LocalNode = "a"
    MaxInodes = 8
    MaxPuts = 3
    MaxFaults = 1
    MaxLosses = 2
    Fields <- MCFields
    MaxAppends = 3
    MaxCrashes = 2
SPECIFICATION StorageSpec
SYMMETRY Symmetry
INVARIANTS
    AttachExactButLostCopies
    FreeExactlyUnreferenced
    KVIntact
    ArenaTiled
    SpaceComesBack
    CanonicalNeverPartial
    AckedBlockSurvives
    ReplayFaithful
CHECK_DEADLOCK FALSE
