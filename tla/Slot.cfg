CONSTANT MaxSends = 5
SPECIFICATION FairMOSpec
INVARIANTS
    DistinctIndices
    NoUseAfterFree
    AbandonedIsExact
    PublicationOrdered
    FreeOrdered
PROPERTIES
    EventuallyReceived
    EventuallyFreed
    ImplementsMailbox
CHECK_DEADLOCK FALSE
