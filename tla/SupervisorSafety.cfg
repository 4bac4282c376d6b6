CONSTANTS
    N = 2
    Pids <- MCPids
    Strangers = {6}
    Missing = {2}
    ForkMayFail = TRUE
    Recycle = TRUE
    MaxGen = 2
    MaxSignals = 2
    MaxCrashes = 1
SPECIFICATION Spec
INVARIANTS NoOrphans AllAskedWhenDone
PROPERTY StrangersSpared
CHECK_DEADLOCK FALSE
