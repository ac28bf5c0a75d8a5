CONSTANT
    Words <- MCWords
    Diffs <- MCDiffs
SPECIFICATION OrderSpec
INVARIANTS
    NeedsComeFirst
    WarnedWaitForCycle
    CyclesAreReported
CHECK_DEADLOCK FALSE
