CONSTANTS
    Procs = {p1}
    Users = {"alice", "bob"}
    Intervals = {0, 2}
    Lifetimes = {0, 6}
    Timeout = 3
SPECIFICATION IdentitySpec
INVARIANTS
    AskedAsTold
    AuthorsVerified
PROPERTY InitReturns
