CONSTANTS
    Clients = {"a", "b", "c"}
    Prompt <- MCPrompt
    MaxTokens <- MCMaxTokens
    EndsAt <- MCEndsAt
    StopStrings = {"b"}
    Params <- MCParams
    Priority <- MCPriority
    MaxRunning = 3
    MaxBatchTokens = 3
    MaxWaiting = 2
    HangUps = {"a", "c"}
    MaxFaults = 1
SPECIFICATION MetalSpec
INVARIANTS
    TablesAgree
    RowsAligned
PROPERTY
    Served
CHECK_DEADLOCK FALSE
