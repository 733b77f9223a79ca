\* 3 requests that write, 1 identity, 2 requests in a window of 2 seconds.
SPECIFICATION Spec
CONSTANTS
    Ops = {o1, o2, o3}
    Clients = {k}
    Sources = {"s"}
    Asks <- MCAsks
    MaxRequests = 2
    Window = 4
    TicksPerSecond = 2
    MinOverlap = 20
    MaxOverlap = 120
SYMMETRY Symmetry
INVARIANTS
    LimitHolds
    LaterRequestsWin
    LossHasCause
    ChunksCoverTexts
