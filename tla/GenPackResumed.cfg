CONSTANTS
    Configs <- MCConfigs
    Paths <- MCPaths
    Statement <- MCStatement
    GenProgress <- MCGenProgress
    NoState = NoState
    NoProgress = NoProgress
    DiskFaults = FALSE
    NumTables = 2
    Versions <- MCVersions
    Literal <- MCLiteral
    Drift <- MCDrift
    Refusable <- MCRefusable
    OutPath <- MCOutPath
    MaxStarts = 2
    MaxChanges = 0
SPECIFICATION GenSpec
INVARIANT
    ResumedPackConverges
CHECK_DEADLOCK FALSE
