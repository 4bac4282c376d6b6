CONSTANTS
    None = None
    nothing = nothing
    cut = cut
    empty = empty
    big = big
    good = good
    other = other
    Packets <- MCPackets
    Size <- MCSize
    Allowed <- MCAllowed
    Declared <- MCDeclared
    Failing = {{"control"}, {"dump", "out"}}
    Retries = 1
    MaxPackets = 2
    MaxSignals = 1
    MaxFaults = 1
SPECIFICATION FairSpec
INVARIANTS ControlTellsAll NoPacketEndsIt
PROPERTIES DumpedBeforeSent Forwards
CHECK_DEADLOCK FALSE
