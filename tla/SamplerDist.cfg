SPECIFICATION Spec
CONSTANTS
    Vocab = 3
    Eog = 2
    Language <- Sentences
    Trigger = 1
    Levels = 2
    K = 2
    LastN = 2
    Chains <- DistChain
    MaxAccepts = 3
INVARIANTS DrawnPermitted
CHECK_DEADLOCK FALSE
