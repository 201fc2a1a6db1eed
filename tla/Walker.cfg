CONSTANTS
    FracDigits = 2
    POW10 <- MCPow10
    Word = 1024
    Depth = 2
    Inputs <- MCInputs
SPECIFICATION Spec
CHECK_DEADLOCK FALSE
INVARIANTS
    FusedAgreesWithParse
    DecimalIsRoundedDown
    WalkReadsTheBook
    SpreadIsSigned
