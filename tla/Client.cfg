CONSTANTS
    Summaries <- MCSummaries
    MAX_DISPLAY = 2
    BAR_WIDTH = 5
    MaxKeys = 3
    MaxUpdates = 2
SPECIFICATION FairSpec
INVARIANTS
    TerminalRestored
    RowsShowRunningTotals
PROPERTY QuitIsHeeded
CHECK_DEADLOCK FALSE
