CONSTANTS
    Null = Null
    Lower <- MCLower
    Scanned <- MCScanned
    Trimmed <- MCTrimmed
    AfterAs <- MCAfterAs
    Normal <- MCNormal
    IgnoreTables = {"AUDIT"}
    IgnoreViews = {"tmp"}
    IgnoreRoutines = {}
    IgnoreTriggers = {}
    IgnoreSequences = {}
    Drivers = {"mysql", "postgres", "sqlite", "mssql", "oracle"}
    Worlds <- MCWorlds
    MaxAttempts = 3
    MaxChanges = 1
SPECIFICATION DiffSpec
INVARIANTS
    PartsStood
    VerdictSound
    HandlesClosed
PROPERTY CommandReturns
CHECK_DEADLOCK FALSE
