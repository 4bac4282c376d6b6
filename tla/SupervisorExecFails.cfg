CONSTANTS
    N = 2
    Pids <- MCPids
    Strangers = {}
    Missing = {2}
    ForkMayFail = FALSE
    Recycle = FALSE
    MaxGen = 1
    MaxSignals = 1
    MaxCrashes = 1
SPECIFICATION FairSpec
PROPERTY GoneIsRestarted
CHECK_DEADLOCK FALSE
