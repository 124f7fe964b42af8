CONSTANTS
    Cores = {c0, c1}
    Creators = {c0}
    o1 = o1
    d1 = d1
    d2 = d2
    d3 = d3
    Objs = {o1, o2, o3}
    Static = {o1, o2}
    MAX = 2
    Conds = {d1, d2, d3}
    StaticConds = {d1}
    MutexOf <- MCMutexOf
    MaxConds = 2
    MaxGen = 2
    NoCore = NoCore
    NoObj = NoObj
SPECIFICATION PoolsSpec
INVARIANTS
    DistinctSlots
    ObjectExclusion
    WaitersReachable
CHECK_DEADLOCK FALSE
