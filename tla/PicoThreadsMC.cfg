CONSTANTS
    Cores = {c0, c1}
    Mutexes = {a, x}
    Pooled = {a}
    Conds = {v}
    NoCore = NoCore
    NoMutex = NoMutex
    NoCond = NoCond
    PollEvery = 2
    LoopCap = 2
    MaxDepth = 2
    MaxGen = 2
SPECIFICATION FairSpec
INVARIANTS
    MutualExclusion
    TrackingAccurate
    NoLostWakeup
    CamlStateMatchesLock
PROPERTIES
    ImplementsMonitors
    StwCompletes
    WakeDelivered
