CONSTANTS
    Workers = {w1, w2}
    Loop = Loop
    App = App
    Free = Free
    Echo = FALSE
    Stdin = {"end"}
    ReadMax = 2
    MaxSends = 2
SPECIFICATION Spec
INVARIANTS
    HelloIsSixBytes
CHECK_DEADLOCK FALSE
