------------------------------ MODULE MCLevelDB ------------------------------
(***************************************************************************)
(* The parts of leveldb that store and find data, for TLC.  They have no    *)
(* variable in common, so a behaviour here is one of one part and the state  *)
(* graph is the sum of theirs.  The parts share the variables v1, v2, ...:   *)
(* the first, second, ... variable that the module of the part declares.     *)
(***************************************************************************)
EXTENDS Naturals, Sequences, FiniteSets

CONSTANT Parts      \* the parts to explore

VARIABLES part, v1, v2, v3, v4, v5, v6, v7, v8, v9, v10, v11, v12
vars == <<part, v1, v2, v3, v4, v5, v6, v7, v8, v9, v10, v11, v12>>

\* The variables from the n-th on are not those of the part.
Unused(n) ==
    /\ n <= 4 => v4 = 0
    /\ n <= 5 => v5 = 0
    /\ n <= 6 => v6 = 0
    /\ n <= 7 => v7 = 0
    /\ n <= 8 => v8 = 0
    /\ n <= 9 => v9 = 0
    /\ n <= 10 => v10 = 0 /\ v11 = 0 /\ v12 = 0
Kept(n) ==
    /\ n <= 4 => UNCHANGED v4
    /\ n <= 5 => UNCHANGED v5
    /\ n <= 6 => UNCHANGED v6
    /\ n <= 7 => UNCHANGED v7
    /\ n <= 8 => UNCHANGED v8
    /\ n <= 9 => UNCHANGED v9
    /\ n <= 10 => UNCHANGED <<v10, v11, v12>>

-----------------------------------------------------------------------------
\* Blocks of six cells with headers of two: three empty records fill a block and one
\* record of 7 ends a cell before the end of one, which is its trailer, or, after an
\* empty record, has a first, a middle and a last fragment.
Log == INSTANCE LogFile WITH
    file <- v1, block_offset_ <- v2, writing <- v3, fault <- v4, damaged <- v5, added <- v6,
    BlockSize <- 6, HeaderSize <- 2, Lengths <- {0, 7}, MaxRecords <- 3,
    Faults <- {"cut", "zeros", "tear", "fail", "flip", "unreadable", "reuse"}

\* An existing database under crashes of the process and the machine.  fdatasync() of
\* a new file keeps its name, here and below; the code syncs the directory only for a
\* MANIFEST.
Files == INSTANCE DBFiles WITH
    fs <- v1, db <- v2, flush <- v3, merge <- v4, apply <- v5, writer <- v6, acked <- v7, written <- v8, crashes <- v9,
    ReuseLogs <- FALSE, Fresh <- FALSE, SyncKeepsName <- TRUE, MaxWrites <- 2, MaxCrashes <- 2,
    MaxNumber <- 8, MaxEdits <- 4, Faults <- {"process", "machine"}

\* A new database that reuses its logs, with writes of the manifest that fail.
Reuse == INSTANCE DBFiles WITH
    fs <- v1, db <- v2, flush <- v3, merge <- v4, apply <- v5, writer <- v6, acked <- v7, written <- v8, crashes <- v9,
    ReuseLogs <- TRUE, Fresh <- TRUE, SyncKeepsName <- TRUE, MaxWrites <- 2, MaxCrashes <- 2,
    MaxNumber <- 6, MaxEdits <- 3, Faults <- {"process", "manifest"}

\* A flush, a compaction and a flush within it, with numbers enough for all, one crash of
\* the machine before or after, and writes of the manifest that fail.
Busy == INSTANCE DBFiles WITH
    fs <- v1, db <- v2, flush <- v3, merge <- v4, apply <- v5, writer <- v6, acked <- v7, written <- v8, crashes <- v9,
    ReuseLogs <- FALSE, Fresh <- FALSE, SyncKeepsName <- TRUE, MaxWrites <- 2, MaxCrashes <- 1,
    MaxNumber <- 11, MaxEdits <- 3, Faults <- {"machine", "manifest"}

\* Every block of up to five keys of up to two characters.
Blocks == INSTANCE Block WITH
    b <- v1, it <- v2, added <- v3, expect <- v4, damaged <- v5,
    Chars <- {0, 1}, MaxLength <- 2, MaxEntries <- 5, Interval <- 2, Damage <- TRUE

\* User keys of one and two bytes, 2 for 0xff; a hash of 6 bits.
Entries == {[u |-> u, s |-> 1] : u \in {<<0>>, <<0, 1>>, <<1>>, <<2, 2>>}} \cup {[u |-> <<1>>, s |-> 2]}
KeyHash(u) == (u[1] * 37 + (IF Len(u) = 2 THEN u[2] * 11 + 5 ELSE 0) + 9) % 64
Tables == INSTANCE Table WITH
    b <- v1, file <- v2, failed <- v3, harm <- v4, t <- v5, cache <- v6, res <- v7,
    Top <- 2, MaxSeq <- 2, Hash <- KeyHash, W <- 6, Turn <- 3, BitsPerKey <- 5, MinBits <- 4,
    Entries <- Entries, MaxEntries <- 4, Sizes <- {1, 2}, BlockSize <- 2, Trailer <- 1, FilterBase <- 4,
    Filters <- TRUE, Fails <- TRUE, Harm <- {}, Paranoid <- TRUE, Verify <- {TRUE}, FillCache <- FALSE
Damaged == INSTANCE Table WITH
    b <- v1, file <- v2, failed <- v3, harm <- v4, t <- v5, cache <- v6, res <- v7,
    Top <- 2, MaxSeq <- 2, Hash <- KeyHash, W <- 6, Turn <- 3, BitsPerKey <- 5, MinBits <- 4,
    Entries <- {e \in Entries : e.u[1] < 2}, MaxEntries <- 3, Sizes <- {1}, BlockSize <- 2, Trailer <- 1, FilterBase <- 4,
    Filters <- TRUE, Fails <- FALSE, Harm <- {"bits", "type", "io"}, Paranoid <- TRUE, Verify <- BOOLEAN,
    FillCache <- TRUE

\* All that three writes of two keys can leave in a memtable and one level, read as
\* of the second and as of the third write.
IterOld == INSTANCE DBIter WITH
    data <- v1, bad <- v2, it <- v3, expect <- v4, scan <- v5, NumKeys <- 2, MaxSeq <- 3, Snapshot <- 2, Faults <- TRUE
IterNew == INSTANCE DBIter WITH
    data <- v1, bad <- v2, it <- v3, expect <- v4, scan <- v5, NumKeys <- 2, MaxSeq <- 3, Snapshot <- 3, Faults <- TRUE

Op(k, del) == [k |-> k, del |-> del]
\* Puts of two keys, deletions of the first.
Singles == {<<Op(1, FALSE)>>, <<Op(2, FALSE)>>, <<Op(1, TRUE)>>}
Store == INSTANCE LSM WITH
    mem <- v1, imm <- v2, seq <- v3, pend <- v4, snaps <- v5, lv <- v6, next <- v7, cptr <- v8, ftc <- v9, comp <- v10,
    bgerr <- v11, seen <- v12,
    NumKeys <- 2, Batches <- Singles, MaxWrites <- 3, MaxSnapshots <- 1, Levels <- 3, MaxMemLevel <- 1, L0Trigger <- 2,
    BaseBytes <- 1, FileSize <- 10, MaxGrandparent <- 2, ExpandLimit <- 10, Manual <- FALSE, Seeks <- TRUE
\* Batches of one, and of a Put and a Delete of one key; files of one entry.
Pairs == {<<Op(1, FALSE)>>, <<Op(2, FALSE)>>, <<Op(2, TRUE)>>, <<Op(1, FALSE), Op(1, TRUE)>>}
ByHand == INSTANCE LSM WITH
    mem <- v1, imm <- v2, seq <- v3, pend <- v4, snaps <- v5, lv <- v6, next <- v7, cptr <- v8, ftc <- v9, comp <- v10,
    bgerr <- v11, seen <- v12,
    NumKeys <- 2, Batches <- Pairs, MaxWrites <- 3,
    MaxSnapshots <- 0, Levels <- 3, MaxMemLevel <- 1, L0Trigger <- 2, BaseBytes <- 1, FileSize <- 1, MaxGrandparent <- 2,
    ExpandLimit <- 10, Manual <- TRUE, Seeks <- TRUE
Puts == {<<Op(k, FALSE)>> : k \in 1 .. 3}
ThreeKeys == INSTANCE LSM WITH
    mem <- v1, imm <- v2, seq <- v3, pend <- v4, snaps <- v5, lv <- v6, next <- v7, cptr <- v8, ftc <- v9, comp <- v10,
    bgerr <- v11, seen <- v12,
    NumKeys <- 3, Batches <- Puts, MaxWrites <- 4, MaxSnapshots <- 0, Levels <- 3,
    MaxMemLevel <- 1, L0Trigger <- 2, BaseBytes <- 1, FileSize <- 10, MaxGrandparent <- 0, ExpandLimit <- 10,
    Manual <- FALSE, Seeks <- FALSE

\* Small files with many references, and one file that is read and written.
Refs == INSTANCE MemEnv WITH
    map <- v1, files <- v2, open <- v3, last <- v4, crashed <- v5,
    Names <- {"a", "b"}, MaxFiles <- 2, Slots <- {"s1", "s2"}, MaxSize <- 1, BlockSize <- 1, AppendNew <- FALSE
Reads == INSTANCE MemEnv WITH
    map <- v1, files <- v2, open <- v3, last <- v4, crashed <- v5,
    Names <- {"a", "b"}, MaxFiles <- 1, Slots <- {"s1", "s2"}, MaxSize <- 3, BlockSize <- 2, AppendNew <- TRUE

\* Bytes of three bits and a flag, numbers at the edges of their lengths.
Edits == INSTANCE VersionEdit WITH
    edit <- v1, rec <- v2, cut <- v3, got <- v4,
    GroupBits <- 3, W32 <- 5, W64 <- 8, Numbers <- {8, 255}, NumLevels <- 7, Levels <- {6},
    Slices <- {<<>>, <<9, 0>>}, MaxItems <- 2
\* Numbers to base 5 in five bits.
Names == INSTANCE FileNames WITH
    name <- v1, at <- v2, v <- v3, result <- v4, Base <- 5, W <- 5, Pad <- 2, MaxDigits <- 3

\* Two of three keys share a bucket and a hash.
CacheHash == [k \in 1 .. 3 |-> IF k = 3 THEN 3 ELSE 1]
LRU == INSTANCE Cache WITH
    c <- v1, pc <- v2, deleted <- v3,
    Keys <- 1 .. 3, Hash <- CacheHash, Threads <- {"t1", "t2"}, Capacity <- 1,
    InitialLength <- 1, Charges <- {1, 2}
\* Fewer slots than threads.
Mmaps == INSTANCE MmapLimiter WITH
    allowed <- v1, pc <- v2, fds <- v3, mapped <- v4, preads <- v5,
    Threads <- {"t1", "t2", "t3"}, Limit <- 2, MaxFiles <- 2

-----------------------------------------------------------------------------
\* A step of part p, whose variables are the first n - 1.
In(p, n) == part = p /\ UNCHANGED part /\ Kept(n)

Init ==
    /\ part \in Parts
    /\ \/ part = "log" /\ Log!Init /\ Unused(7)
       \/ part = "files" /\ Files!Init /\ Unused(10)
       \/ part = "reuse" /\ Reuse!Init /\ Unused(10)
       \/ part = "busy" /\ Busy!Init /\ Unused(10)
       \/ part = "block" /\ Blocks!Init /\ Unused(6)
       \/ part = "table" /\ Tables!Init /\ Unused(8)
       \/ part = "damaged table" /\ Damaged!Init /\ Unused(8)
       \/ part = "old iterator" /\ IterOld!Init /\ Unused(6)
       \/ part = "iterator" /\ IterNew!Init /\ Unused(6)
       \/ part = "store" /\ Store!Init
       \/ part = "by hand" /\ ByHand!Init
       \/ part = "three keys" /\ ThreeKeys!Init
       \/ part = "mem env refs" /\ Refs!Init /\ Unused(6)
       \/ part = "mem env reads" /\ Reads!Init /\ Unused(6)
       \/ part = "edits" /\ Edits!Init /\ Unused(5)
       \/ part = "names" /\ Names!Init /\ Unused(5)
       \/ part = "cache" /\ LRU!Init /\ Unused(4)
       \/ part = "mmaps" /\ Mmaps!Init /\ Unused(6)
Next ==
    \/ In("log", 7) /\ Log!Next
    \/ In("files", 10) /\ Files!Next
    \/ In("reuse", 10) /\ Reuse!Next
    \/ In("busy", 10) /\ Busy!Next
    \/ In("block", 6) /\ Blocks!Next
    \/ In("table", 8) /\ Tables!Next
    \/ In("damaged table", 8) /\ Damaged!Next
    \/ In("old iterator", 6) /\ IterOld!Next
    \/ In("iterator", 6) /\ IterNew!Next
    \/ In("store", 13) /\ Store!Next
    \/ In("by hand", 13) /\ ByHand!Next
    \/ In("three keys", 13) /\ ThreeKeys!Next
    \/ In("mem env refs", 6) /\ Refs!Next
    \/ In("mem env reads", 6) /\ Reads!Next
    \/ In("edits", 5) /\ Edits!Next
    \/ In("names", 5) /\ Names!Next
    \/ In("cache", 4) /\ LRU!Next
    \/ In("mmaps", 6) /\ Mmaps!Next
Spec == Init /\ [][Next]_vars

-----------------------------------------------------------------------------
\* A log gives back the records that were added, in order, each whole or not at all;
\* a cut or zeros cost only records that they touch, a flipped bit only those with a
\* fragment in its block, a block that cannot be read those from it on; what is lost in
\* the middle is reported (log::Writer and log::Reader).
LogReadsRight == part = "log" => Log!TypeOK /\ Log!ReadsRight

\* Whatever crash comes between two system calls, also those of one record: an existing
\* database can be opened again, holds every write that was acknowledged, and synced if
\* the machine ended, and gives no sequence number twice, on a file system that keeps
\* the name of a file that was synced.  When its manifest could not be written, it holds
\* them if it opens.  One that reuses its logs and its manifest loses acknowledged writes
\* only behind a torn record of them (DBImpl::Recover, VersionSet::LogAndApply).
WritesSurvive ==
    /\ part = "files" => Files!TypeOK /\ Files!NothingAcknowledgedIsLost /\ Files!OpenNeverCorrupt /\ Files!SequencesUnique
    /\ part = "reuse" => Reuse!LostOnlyBehindTorn
    /\ part = "busy" => Busy!NothingAcknowledgedIsLost

\* DeleteObsoleteFiles() takes no table that a version, an iterator or a compaction
\* under way still uses, a flush within that compaction included, nor its output, and
\* none that the manifest on disk names.
FilesInUseStay == part = "busy" => Busy!LiveTablesExist /\ Busy!ManifestIsBacked

\* A block's iterator is where any mix of seeks and steps should leave it, keys are
\* whole at restart points, restart_index_ is near, and a scan that a damaged entry
\* ends early has an error (Block::Iter, BlockBuilder).
BlockReadsRight ==
    /\ [](part = "block" => Blocks!IteratorExact /\ Blocks!RestartsWhole /\ Blocks!RestartIndexNear)
    /\ [][part = "block" => Blocks!EarlyEndIsError]_vars

\* A lookup in a finished table finds exactly what was added, by way of shortened
\* index keys and Bloom filters that deny nothing; a table whose Finish() said OK is
\* whole; damage to a block is an error and not an answer of a lookup that verifies
\* checksums, which is not the default, unless a lookup that does not has put the block
\* in the cache (TableBuilder, Table::InternalGet; with Options::paranoid_checks, or
\* the index and the filter are not verified).
TableReadsRight ==
    /\ part = "table" => /\ Tables!OkMeansWhole /\ Tables!IndexSeparates /\ Tables!FilterDeniesNone
                         /\ Tables!OffsetsGrow /\ Tables!GetExact
    /\ part = "damaged table" => Damaged!DamageReported

\* The iterator of a database shows each key that is there as of its snapshot once,
\* with its newest value, in both directions, and a forward scan past a block that cannot
\* be read has an error (DBIter, MergingIterator, TwoLevelIterator).
IteratorRight ==
    /\ part = "iterator" => IterNew!IteratorExact /\ IterNew!InternalPosition /\ IterNew!ScanReportsError
    /\ part = "old iterator" => IterOld!IteratorExact /\ IterOld!InternalPosition /\ IterOld!ScanReportsError

\* Memtables, levels, compactions and snapshots implement KVStore: a batch appears at
\* once, and no flush, move or compaction changes what Get() returns (files hold either
\* all entries of a user key, or there is no snapshot: see LevelsRight).
ImplementsStore ==
    /\ (part = "store" => Store!KV!Init) /\ (part = "by hand" => ByHand!KV!Init)
    /\ [][/\ part = "store" => [Store!KV!Next]_(Store!KV!vars)
          /\ part = "by hand" => [ByHand!KV!Next]_(ByHand!KV!vars)]_vars

\* What Get() and the compactions rest on: newer entries lie above older ones, the
\* files of a level past 0 are apart, and no input of a compaction goes away
\* (Version::Get, VersionSet::PickCompaction).  Newer entries lie above only if files
\* hold all entries of a user key or there is no snapshot, and files are apart only if
\* no flush comes within a compaction by hand: MCLSM has what the code does otherwise.
LevelsRight ==
    /\ part = "store" => Store!NewerAbove /\ Store!InputsStay
    /\ part = "by hand" => ByHand!NewerAbove
    /\ part = "three keys" => ThreeKeys!LevelsDisjoint

\* A file of InMemoryEnv lives as long as its name or an open file refers to it, in a
\* program that asks NewAppendableFile() only for files that exist; reads return what was
\* appended across its blocks, until a name that NewAppendableFile() left without a file
\* is used (NamesHaveFiles).
MemEnvRight ==
    /\ part = "mem env refs" => Refs!RefsExact
    /\ part = "mem env reads" => Reads!ReadExact

\* A version edit survives its record, and a cut record is an error or has whole
\* items; a file's name gives back the number and kind it was made from, and digits
\* that do not fit in 64 bits are refused (VersionEdit, ParseFileName).
EncodingsReadBack ==
    /\ part = "edits" => Edits!RoundTrip /\ Edits!CutIsSeen
    /\ part = "names" => Names!NumberExact /\ Names!MadeNamesParse

\* A handle of the LRU cache stays good until it is released, references and usage
\* are exact, and the hash table has what the list has; PosixEnv never maps more files
\* than MmapLimiter allows, and loses no slot and no descriptor.
PoolsExact ==
    /\ part = "cache" => LRU!HandleIsGood /\ LRU!RefsExact /\ LRU!UsageBounded /\ LRU!TableMatchesList
    /\ part = "mmaps" => Mmaps!WithinLimit /\ Mmaps!SlotsConserved /\ Mmaps!DescriptorsMatch
===============================================================================
