CONSTANTS
    Clients = {"a", "b", "c"}
    Prompt <- MCPrompt
    MaxTokens <- MCMaxTokens
    EndsAt <- MCEndsAt
    StopStrings = {"b"}
    Params <- MCParams
    Priority <- MCPriority
    MaxRunning = 3
    MaxBatchTokens = 3
    MaxWaiting = 2
    HangUps = {}
    MaxFaults = 0
SPECIFICATION MetalSpec
INVARIANT OneNewTokenPerCall
CHECK_DEADLOCK FALSE
