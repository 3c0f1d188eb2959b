\* Each part of leveldb by itself; see MCLevelDB.tla for the instances.
SPECIFICATION Spec
CHECK_DEADLOCK FALSE
CONSTANT Parts = {"log", "files", "reuse", "busy", "block", "table", "damaged table", "iterator", "old iterator", "store", "by hand", "three keys", "mem env refs", "mem env reads", "edits", "names", "cache", "mmaps"}
INVARIANT LogReadsRight
INVARIANT WritesSurvive
INVARIANT FilesInUseStay
INVARIANT TableReadsRight
INVARIANT IteratorRight
INVARIANT LevelsRight
INVARIANT MemEnvRight
INVARIANT EncodingsReadBack
INVARIANT PoolsExact
PROPERTY BlockReadsRight
PROPERTY ImplementsStore
