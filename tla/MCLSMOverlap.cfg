\* A flush beside a manual compaction, with files of two entries.
SPECIFICATION Spec
CHECK_DEADLOCK FALSE
CONSTANTS
    NumKeys = 3
    Batches <- Puts
    MaxWrites = 5
    MaxSnapshots = 0
    Levels = 2
    MaxMemLevel = 1
    L0Trigger = 10
    BaseBytes = 100
    FileSize = 2
    MaxGrandparent = 2
    ExpandLimit = 10
    Manual = TRUE
    Seeks = FALSE
INVARIANT MustNotOverlap
