CONSTANTS
    Handler = "bitstamp"
    MaxSeq = 2
    MaxFrames = 3
    MaxAttempts = 7
SPECIFICATION FairSpec
INVARIANTS
    ConnectedDuringSession
    NumberingIsOfThisSession
    BackoffIsExponential
PROPERTIES
    NumberedBooksIncrease
    CancelEndsThread
    KeepsTrying
CHECK_DEADLOCK FALSE
