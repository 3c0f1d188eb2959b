CONSTANTS
    Workers = {w1, w2}
    Callers = {c1, c2}
    Requests = {r1, NULL}
    NULL = NULL
    Nobody = Nobody
    MaxRequests = 1
    MaxAppends = 4
    MaxInterrupts = 1
SPECIFICATION ServerSpec
INVARIANTS
    TypeOK
    TokenBalance
    EmptyOnlyAfterInterrupt
    QueueBounded
    ExactlyOnceInOrder
PROPERTIES
    ImplementsJobQueue
    ResetIsClosed
    AcceptedUnlessMissed
    CallsReturn
CHECK_DEADLOCK FALSE
