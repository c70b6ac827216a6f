SPECIFICATION Spec
CONSTANTS
    Seqs = {0, 1}
    Top = 1
    Bounds <- EdgeBounds
    Tokens = {0}
    Shifts <- Back
    MaxCells = 2
    MaxKept = 1
INVARIANTS RangesAsDocumented
PROPERTIES RestoreRewinds LoadReturnsAll
VIEW NoResult
