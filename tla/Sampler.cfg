SPECIFICATION Spec
CONSTANTS
    Vocab = 3
    Eog = 2
    Language <- Sentences
    Trigger = 1
    Levels = 2
    K = 2
    LastN = 2
    Chains <- SomeChains
    MaxAccepts = 3
INVARIANTS TypeOK SaidFollowsGrammar OnlyKnownAborts
CHECK_DEADLOCK FALSE
