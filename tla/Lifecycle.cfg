CONSTANTS
    NumExchanges = 2
    Clients = {c1, c2}
    MaxSummaries = 2
SPECIFICATION FairSpec
INVARIANTS
    StreamEndsWithLatest
    CleanExit
PROPERTIES
    YieldsAreNew
    LateClientIsServed
    ShutdownCompletes
CHECK_DEADLOCK FALSE
