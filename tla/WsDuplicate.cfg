CONSTANTS
    Handler = "binance"
    MaxSeq = 2
    MaxFrames = 3
    MaxAttempts = 2
SPECIFICATION FairSpec
PROPERTY DuplicatesAreDropped
CHECK_DEADLOCK FALSE
