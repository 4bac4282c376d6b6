CONSTANTS
    Candidates <- MCLine
    Retries = 0
    Supervised = FALSE
    MaxSignals = 1
    MaxFailures = 0
    MaxLost = 0
SPECIFICATION FairSpec
PROPERTY ReloadOfWaiting
CHECK_DEADLOCK FALSE
