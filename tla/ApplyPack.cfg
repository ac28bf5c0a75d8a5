CONSTANTS
    pack1 = pack1
    pack2 = pack2
    Configs <- MCConfigs
    Paths <- MCPaths
    Statement <- MCStatement
    GenProgress <- MCGenProgress
    NoState = NoState
    NoProgress = NoProgress
    DiskFaults = TRUE
    Packs <- MCPacks
    Ddl <- MCDdl
    CheckpointBatch = 2
    MaxRuns = 3
    MaxOutside = 1
SPECIFICATION ApplySpec
SYMMETRY MCSymmetry
INVARIANTS
    ApplyTypeOK
    WholePacks
    PiecesOfPack
    ProgressOnlyFromKill
PROPERTY
    ImplementsAtomicApply
CHECK_DEADLOCK FALSE
