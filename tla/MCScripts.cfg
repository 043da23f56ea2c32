SPECIFICATION FairSpec
CONSTANTS
    ScanOrder <- MCScanOrder
    Providers <- MCProviders
    ToolSets <- MCToolSets
    HostOrder <- MCHostOrder
    Pipx <- MCPipx
    LeftOut <- MCPipx
    MaxRuns = 2
CHECK_DEADLOCK FALSE
INVARIANTS
    OutcomeTrue
    ArtifactsTrue
    NothingLeft
PROPERTIES
    NoLateSignal
    RunEnds
