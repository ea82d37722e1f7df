CONSTANTS
    Clients = {"a", "b"}
    NumSlots = 2
    Prompt <- MCPrompt
    MaxTokens <- MCMaxTokens
    StopClients = {"b"}
    PoolPages = 8
    ChunkTokens = 1
    StreamInterval = 2
    Setups <- MCSetups
    HangUps = {}
    InputSlack = 1
    MaxFaults = 0
SPECIFICATION FairSpec
PROPERTIES
    Answered
