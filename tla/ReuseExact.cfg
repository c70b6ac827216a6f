SPECIFICATION Spec
CONSTANTS
    Token = {"x", "y"}
    Prompts <- PromptsMC
    PrefillChunk = 2
    MaxAnswer = 1
    MaxRequests = 3
    ClearsOnFallback = TRUE
INVARIANTS IInv ReuseIsExact SnapshotWhole CaptureHonoured
PROPERTIES PrefixSpared RequestEnds
CHECK_DEADLOCK FALSE
