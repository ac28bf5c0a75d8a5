CONSTANTS
    Configs <- MCConfigs
    Paths <- MCPaths
    Statement <- MCStatement
    GenProgress <- MCGenProgress
    NoState = NoState
    NoProgress = NoProgress
    DiskFaults = TRUE
    NumTables = 2
    Versions <- MCVersions
    Literal <- MCLiteral
    Drift <- MCDrift
    Refusable <- MCRefusable
    OutPath <- MCOutPath
    MaxStarts = 3
    MaxChanges = 1
SPECIFICATION GenSpec
INVARIANTS
    CheckpointConsistent
    RowsOnce
    
    ResumeValidated
CHECK_DEADLOCK FALSE
