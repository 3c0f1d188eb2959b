CONSTANTS
    Conns = {c1, c2, c3}
    Extra = c4
    None = None
    ListenFd = 1
    FirstFd = 2
    MaxFd = 4
    MAX_TASK = 4
    MAX_EVENTS = 2
    MaxRequests = 1
    MaxArrivals = 3
SPECIFICATION PoolSpec
SYMMETRY Symmetry
INVARIANTS
    TypeOK
    TaskOwnership
    NoStaleEvent
    TasksAimRight
    OneAcceptPerEdge
    ExhaustedAfterOverrun
CHECK_DEADLOCK FALSE
