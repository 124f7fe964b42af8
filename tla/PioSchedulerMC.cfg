CONSTANTS
    Main = m
    Children = {c1, c2}
    MaxTimeout = 2
    MaxData = 1
    MaxEffects = 2
    Shared = TRUE
    NoFiber = NoFiber
SPECIFICATION Spec
INVARIANTS
    ResumedOnce
    NotForgotten
    WakersSeeSettled
    SettledAtTheEnd
    WatchedSocketsOpen
    NoPhantomFibers
    ReturnAbandonsNoIo
CHECK_DEADLOCK FALSE
