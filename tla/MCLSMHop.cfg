\* A snapshot keeps two entries of one key apart, in files of one entry.
SPECIFICATION Spec
CHECK_DEADLOCK FALSE
CONSTANTS
    NumKeys = 1
    Batches <- Puts
    MaxWrites = 3
    MaxSnapshots = 1
    Levels = 3
    MaxMemLevel = 1
    L0Trigger = 2
    BaseBytes = 1
    FileSize = 1
    MaxGrandparent = 2
    ExpandLimit = 10
    Manual = FALSE
    Seeks = FALSE
INVARIANT NoEntryHops
