CONSTANTS
    N = 2
    Capacity = 2
    MaxPrice = 3
    MaxAmount = 2
    NumSlices = 2
    Inputs <- MCInputs
SPECIFICATION Spec
INVARIANTS
    MergeIsTopN
    TiesKeepSliceOrder
PROPERTIES
    DeepLevelsAreIrrelevant
CHECK_DEADLOCK FALSE
