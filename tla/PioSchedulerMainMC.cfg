CONSTANTS
    Main = m
    Children = {c1, c2}
    MaxTimeout = 1
    MaxData = 1
    MaxEffects = 2
    Shared = FALSE
    NoFiber = NoFiber
SPECIFICATION Spec
INVARIANT MainCompletes
CHECK_DEADLOCK FALSE
