CONSTANTS
    r1 = r1
    r2 = r2
    r3 = r3
    Rows <- MCRows
    TableOf <- MCTableOf
    Strategy <- MCStrategy
    Missing = Missing
    Torn = Torn
    NoPack = NoPack
    MaxSessions = 3
SPECIFICATION FairResolveSpec
INVARIANTS
    ResumeKeepsDecisions
    AnswersStand
    NothingOverlooked
    DecisionsReachDisk
PROPERTY SessionsEnd
CHECK_DEADLOCK FALSE
