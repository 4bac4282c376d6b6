CONSTANTS
    realpath <- MCPaths
    accounts <- MCAccounts
    Files <- MCFiles
    Builds <- MCBuilds
    Odd = Odd
    NoFile = NoFile
    MaxLoads = 3
    ToolLines <- MCToolLines
    ByHand <- MCByHand
    MaxTools = 1
    MaxOutlive = 2
SPECIFICATION BusSpec
INVARIANTS ProgramsObeyFile PipelineLinked RefusedForAReason
PROPERTY ReloadChangesNothing
CHECK_DEADLOCK FALSE
