SPECIFICATION Spec
CONSTANTS
    Seqs = {0, 1}
    Capacity = 2
    SeqMax = 1
    Lengths = {1, 2, 3}
    MaxPos = 1
    Inputs <- SomeInputs
    ImageTokens = 2
    MaxPast = 5
    MaxHandles = 2
INVARIANTS SliceIsLive
