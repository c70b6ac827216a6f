SPECIFICATION Spec
CONSTANTS
    Token = {"x", "y"}
    Prompts <- PromptsMC
    PrefillChunk = 2
    MaxAnswer = 1
    MaxRequests = 2
    ClearsOnFallback = FALSE
INVARIANT ReuseIsExact
CHECK_DEADLOCK FALSE
