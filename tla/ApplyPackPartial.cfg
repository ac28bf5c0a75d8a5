CONSTANTS
    pack1 = pack1
    pack2 = pack2
    Configs <- MCConfigs
    Paths <- MCPaths
    Statement <- MCStatement
    GenProgress <- MCGenProgress
    NoState = NoState
    NoProgress = NoProgress
    DiskFaults = FALSE
    Packs <- MCPacks
    Ddl <- MCNoDdl
    CheckpointBatch = 2
    MaxRuns = 3
    MaxOutside = 1
SPECIFICATION ApplySpec
SYMMETRY MCSymmetry
INVARIANT
    NeverPartial
CHECK_DEADLOCK FALSE
