CONSTANTS
    Second = 2
    Day = 10
    Half = 16
    Resync = 4
    MaxQuery = 2
    MaxLag = 2
    MaxFails = 1
SPECIFICATION Spec
INVARIANTS
    TypeOK
    MixedOnce
PROPERTY FrameAccurate
