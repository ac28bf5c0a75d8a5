CONSTANTS
    Columns = 2
    Values <- MCValues
    Keys <- MCKeys
    Versions <- MCVersions
    Kinds <- MCKinds
    BatchSizes <- MCBatchSizes
    NoCursor = NoCursor
    Absent = Absent
    MaxWrites = 1
SPECIFICATION FairKeysetSpec
INVARIANTS
    QuietScanIsFull
    StableRowsJudged
PROPERTY ExactScansEnd
CHECK_DEADLOCK FALSE
