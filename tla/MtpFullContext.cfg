SPECIFICATION Spec
CONSTANTS
    NCtx = 4
    NBatch = 3
    NMax = 2
    NeedsCkpt = FALSE
    PromptLens <- Prompts
    Budget = 6
    MaxGens = 1
INVARIANTS VerifyBelowContext
CHECK_DEADLOCK FALSE
