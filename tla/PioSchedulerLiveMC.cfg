CONSTANTS
    Main = m
    Children = {c1}
    MaxTimeout = 1
    MaxData = 1
    MaxEffects = 3
    Shared = FALSE
    NoFiber = NoFiber
SPECIFICATION FairSpec
PROPERTIES
    ChildServed
    Returns
CHECK_DEADLOCK FALSE
