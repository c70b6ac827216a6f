SPECIFICATION Spec
CONSTANTS
    NCtx = 8
    NBatch = 3
    NMax = 2
    NeedsCkpt = TRUE
    PromptLens <- Prompts
    Budget = 7
    MaxGens = 2
INVARIANTS IInv EmittedIsContinuation CachesAgree RecurrentClean AbortsOnlyWhenFull SamplerInSync
PROPERTIES CommitEmits ImplementsDecoding GenerationEnds
CHECK_DEADLOCK FALSE
