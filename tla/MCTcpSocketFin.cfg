CONSTANTS
    Workers = {w1, w2}
    Loop = Loop
    App = App
    Free = Free
    Echo = TRUE
    Stdin = {"end"}
    ReadMax = 1
    MaxSends = 1
SPECIFICATION FairSpec
PROPERTIES
    ClosedForPeer
CHECK_DEADLOCK FALSE
