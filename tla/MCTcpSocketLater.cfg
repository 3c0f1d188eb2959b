CONSTANTS
    Workers = {w1, w2}
    Loop = Loop
    App = App
    Free = Free
    Echo = TRUE
    Stdin = {"end"}
    ReadMax = 2
    MaxSends = 2
SPECIFICATION Spec
INVARIANTS
    ReadLater
CHECK_DEADLOCK FALSE
