CONSTANTS
    t1 = t1
    t2 = t2
    t3 = t3
    Tables <- MCTables
    Batches <- MCBatches
    Parallel <- MCParallel
    Nobody = Nobody
    NoFile = NoFile
SPECIFICATION ParallelSpec
INVARIANTS
    ParallelTypeOK
    AllOrTheError
    RacesOnlyInCheckpoint
    WholeWhenSequential
PROPERTY
    Returns
CHECK_DEADLOCK FALSE
