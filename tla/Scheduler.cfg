CONSTANTS
    Clients = {"a", "b"}
    NumSlots = 2
    Prompt <- MCPrompt
    MaxTokens <- MCMaxTokens
    StopClients = {"b"}
    PoolPages = 8
    ChunkTokens = 1
    StreamInterval = 2
    Setups <- MCSetups
    HangUps = {"a"}
    InputSlack = 1
    MaxFaults = 1
SPECIFICATION Spec
INVARIANTS
    NoSlotForgotten
    GateAnswered
    ReadbackOwner
    PagesBalanced
    TextMatchesUsage
PROPERTIES
    StreamPromise
