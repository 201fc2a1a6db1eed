CONSTANT MaxSends = 5
SPECIFICATION StaleSpec
INVARIANT ReuseOrdered
CHECK_DEADLOCK FALSE
