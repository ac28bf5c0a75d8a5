CONSTANTS
    p1 = p1
    p2 = p2
    main = main
    feature = feature
    Procs <- MCProcs
    Branches <- MCBranches
    Main = main
    NoBranch = NoBranch
    MaxCommits = 3
    MaxCommands = 5
SYMMETRY MCSymmetry
SPECIFICATION VersionSpec
INVARIANTS
    VersionTypeOK
    EveryHashLoads
    CommitExtendsTip
    QuietHistoryKept
CHECK_DEADLOCK FALSE
