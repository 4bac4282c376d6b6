CONSTANTS
    Candidates <- AllPrograms
    Retries = 1
    Supervised = TRUE
    MaxSignals = 3
    MaxFailures = 3
    MaxLost = 2
SPECIFICATION FairSpec
INVARIANTS EndsForAReason
PROPERTIES  ReturnsToWait ReloadRereads
CHECK_DEADLOCK FALSE
