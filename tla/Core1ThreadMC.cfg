CONSTANTS
    Funcs = {f1, f2, f3}
    Mutexes = {a, b}
    MaxDepth = 2
    NoFunc = NoFunc
    Handshake = TRUE
    JoinFirst = TRUE
SPECIFICATION FairSpec
INVARIANTS
    CleanStart
    DomainsLaunched
PROPERTIES
    JoinAfterFinish
    MainReturns
CHECK_DEADLOCK FALSE
