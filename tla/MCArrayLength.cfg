SPECIFICATION Spec
CONSTANTS
    Values = {1, 2}
    Undefined = Undefined
    Null = Null
    Cutoff = 2
    MaxLength = 4
    MaxArgs = 1
    MaxSorted = 2
    CutsAtElement = TRUE
INVARIANT LengthAboveIndices
