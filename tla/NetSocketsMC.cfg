CONSTANTS
    Users = {u1, u2}
    TcpPcbs = {p1, p2}
    UdpPcbs = {q1}
    MaxSockets = 2
    Capacity = 2
    Window = 2
    HeapBufs = 2
    MaxSent = 3
    Careful = TRUE
    NoPcb = NoPcb
SPECIFICATION Spec
INVARIANTS
    NoDanglingPcb
    CallbackReachesOwner
    NoBufferLeak
    StreamInOrder
    EndAfterAllData
