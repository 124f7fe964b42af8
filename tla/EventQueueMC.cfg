CONSTANTS
    Events = {e1, e2, e3}
    NoEvent = NoEvent
    N = 4
SPECIFICATION Spec
INVARIANTS
    SlotsDisjoint
PROPERTY ImplementsFifo
