CONSTANTS
    Workers = {w1, w2}
    Loop = Loop
    App = App
    Free = Free
    Echo = TRUE
    Stdin = {"end"}
    ReadMax = 2
    MaxSends = 2
SPECIFICATION Spec
SYMMETRY Symmetry
INVARIANTS
    TypeOK
    RecvBufWhole
    ReplyIntact
    NoStrandedBytes
CHECK_DEADLOCK FALSE
