CONSTANTS
    N = 2
    Pids <- MCPids
    Strangers = {6}
    Missing = {}
    ForkMayFail = FALSE
    Recycle = FALSE
    MaxGen = 2
    MaxSignals = 2
    MaxCrashes = 1
SPECIFICATION FairSpec
PROPERTIES GoneIsRestarted StopEndsWatch
CHECK_DEADLOCK FALSE
