CONSTANTS
    NumExchanges = 2
    StaleThreshold = 1
    MaxBooks = 1
    MaxTime = 3
SPECIFICATION FairSpec
PROPERTY StaleBookLeaves
CHECK_DEADLOCK FALSE
