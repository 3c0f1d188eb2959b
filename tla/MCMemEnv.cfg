\* One name, one file and one open file at a time.
SPECIFICATION Spec
CHECK_DEADLOCK FALSE
CONSTANTS
    Names = {"a"}
    MaxFiles = 1
    Slots = {"s1"}
    MaxSize = 1
    BlockSize = 1
    AppendNew = TRUE
INVARIANT NamesHaveFiles
