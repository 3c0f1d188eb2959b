\* The concurrent parts, each by itself; see MCConcurrent.tla for the instances.
SPECIFICATION FairSpec
CHECK_DEADLOCK FALSE
CONSTANT Parts = {"groups", "manual", "failing", "skip list", "processes", "one process", "env", "repair", "socket", "timeout", "sem", "shm", "undo", "calls"}
INVARIANT OneHolder
INVARIANT RepairRight
INVARIANT TransfersExact
INVARIANT TimeoutsRight
INVARIANT TakenInOrder
INVARIANT CallsAimRight
PROPERTY WritesRight
PROPERTY ListRight
PROPERTY IpcRight
PROPERTY EveryCallReturns
