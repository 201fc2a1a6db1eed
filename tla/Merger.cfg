CONSTANTS
    NumExchanges = 2
    StaleThreshold = 1
    MaxBooks = 2
    MaxTime = 2
SPECIFICATION FairSpec
INVARIANTS
    FreshAndClose
    SummaryIsStore
    NoSlotIsStarved
PROPERTIES
    NoRollback
    SlotsAreMailboxes
    MergerStops
CHECK_DEADLOCK FALSE
