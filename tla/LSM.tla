--------------------------------- MODULE LSM ---------------------------------
(***************************************************************************)
(* The data of the database: memtables, files in levels, the compactions    *)
(* that merge them, snapshots, and what Get() finds.  An entry is a user    *)
(* key k, its sequence number s and whether it is a deletion; the value put *)
(* is the sequence number.  The size of a file is its number of entries.    *)
(* The background thread's steps with the mutex held are atomic; the merge  *)
(* of a compaction reads only files that it holds, so it is one step, and   *)
(* writers, readers and flushes come before or after it.                    *)
(***************************************************************************)
EXTENDS Naturals, Sequences, FiniteSets, SequencesExt, FiniteSetsExt

CONSTANTS NumKeys,          \* user keys are 1 .. NumKeys
          Batches,          \* the batches written: sequences of [k, del]
          MaxWrites,        \* bound on the entries written
          MaxSnapshots,     \* bound on the snapshots held at once
          Levels,           \* config::kNumLevels
          MaxMemLevel,      \* config::kMaxMemCompactLevel
          L0Trigger,        \* config::kL0_CompactionTrigger
          BaseBytes,        \* MaxBytesForLevel(1)
          FileSize,         \* kTargetFileSize
          MaxGrandparent,   \* kMaxGrandParentOverlapBytes
          ExpandLimit,      \* kExpandedCompactionByteSizeLimit
          Manual,           \* may CompactRange() be called?
          Seeks             \* do reads use up the seeks a file is allowed?

VARIABLES mem, imm,     \* the memtables: sets of entries; imm = {} is imm_ == NULL
          seq,          \* last_sequence_
          pend,         \* the batch being inserted: what is left of it
          snaps,        \* snapshots_: the sequence numbers, oldest first
          lv,           \* the files of the current version, by level
          next,         \* next file number; only those of level 0 are ever compared
          cptr,         \* compact_pointer_
          ftc,          \* file_to_compact_ of the version and its level: a set, {} is NULL
          comp,         \* the compaction under way: a set, {} is none
          bgerr,        \* bg_error_ is set
          seen          \* history: what Get() returns now and at each snapshot
vars == <<mem, imm, seq, pend, snaps, lv, next, cptr, ftc, comp, bgerr, seen>>

Keys == 1 .. NumKeys
LevelNumbers == 0 .. Levels - 1
NoBatch == [ops |-> <<>>, done |-> 0]

\* InternalKeyComparator: user keys up, sequence numbers down.
IKey(k, s) == k * (MaxWrites + 1) - s
Rank(e) == IKey(e.k, e.s)
First(es) == CHOOSE e \in es : \A o \in es : Rank(e) <= Rank(o)
Final(es) == CHOOSE e \in es : \A o \in es : Rank(e) >= Rank(o)
TotalFileSize(files) == Cardinality(UNION {{<<i, e>> : e \in files[i].es} : i \in DOMAIN files})
SortBy(S, Less(_, _)) == [i \in 1 .. Cardinality(S) |-> CHOOSE x \in S : Cardinality({y \in S : Less(y, x)}) = i - 1]
\* FileMetaData: the number, the contents, and the keys it starts and ends with.
File(n, es) == [n |-> n, es |-> es, smallest |-> First(es), largest |-> Final(es)]

Start ==
    /\ mem = {} /\ imm = {} /\ seq = 0 /\ pend = NoBatch /\ snaps = <<>>
    /\ lv = [l \in LevelNumbers |-> <<>>] /\ next = 1
    /\ cptr = [l \in LevelNumbers |-> 0] /\ ftc = {} /\ comp = {} /\ bgerr = FALSE

-----------------------------------------------------------------------------
\* Finding keys

\* FindFile(): the first file that ends at or after a key, as a set of indices.
FindFile(files, key) ==
    {i \in DOMAIN files : Rank(files[i].largest) >= key /\ \A j \in 1 .. i - 1 : Rank(files[j].largest) < key}

\* The entry that a Seek() to (k, s) stops at, when it is one of k.
Lookup(es, k, s) == {e \in es : e.k = k /\ e.s <= s /\ \A o \in es : o.k = k /\ o.s <= s => o.s <= e.s}

NewestFirst(f, g) == f.n > g.n

\* The files that Get() and ForEachOverlapping() visit, as <<level, file>>, and
\* their order.
FilesToRead(k, s) ==
    {<<0, f>> : f \in {f \in ToSet(lv[0]) : f.smallest.k <= k /\ k <= f.largest.k}}
    \cup UNION {{<<l, lv[l][i]>> : i \in {i \in FindFile(lv[l], IKey(k, s)) : lv[l][i].smallest.k <= k}}
                : l \in 1 .. Levels - 1}
Before(x, y) == x[1] < y[1] \/ (x[1] = 0 /\ y[1] = 0 /\ NewestFirst(x[2], y[2]))

\* Version::Get(): the first file that has the key decides.
FirstHit(files, k, s) ==
    UNION {Lookup(x[2].es, k, s) :
           x \in {x \in files : \A y \in files : Before(y, x) => Lookup(y[2].es, k, s) = {}}}
VersionGet(k, s) == FirstHit(FilesToRead(k, s), k, s)

\* DBImpl::Get() at a snapshot: 0 is NotFound.
Found(k, s) ==
    IF Lookup(mem, k, s) # {} THEN Lookup(mem, k, s)
    ELSE IF Lookup(imm, k, s) # {} THEN Lookup(imm, k, s) ELSE VersionGet(k, s)
Get(k, s) == Max({0} \cup {e.s : e \in {e \in Found(k, s) : ~e.del}})
Reads == [now |-> [k \in Keys |-> Get(k, seq)],
          at |-> [i \in DOMAIN snaps |-> [k \in Keys |-> Get(k, snaps[i])]]]
Init == Start /\ seen = Reads
Observe == seen' = Reads'

-----------------------------------------------------------------------------
\* Writers and snapshots

\* DBImpl::Write() with room: the batch gets the next sequence numbers.
StartWrite(b) ==
    /\ pend = NoBatch /\ ~bgerr /\ seq + Len(b) <= MaxWrites
    /\ pend' = [ops |-> b, done |-> 0]
    /\ UNCHANGED <<mem, imm, seq, snaps, lv, next, cptr, ftc, comp, bgerr, seen>>

\* MemTableInserter: the sequence number of the i-th entry of a batch.
EntrySequence(i) == seq + i

\* WriteBatch::Iterate() calls Put() or Delete(), without the mutex.
InsertEntry ==
    /\ pend.done < Len(pend.ops)
    /\ LET op == pend.ops[pend.done + 1]
       IN mem' = mem \cup {[k |-> op.k, s |-> EntrySequence(pend.done + 1), del |-> op.del]}
    /\ pend' = [pend EXCEPT !.done = @ + 1]
    /\ UNCHANGED <<imm, seq, snaps, lv, next, cptr, ftc, comp, bgerr>> /\ Observe

\* Where SetLastSequence() goes after a batch.
LastSequence(ops) == seq + Len(ops)

EndWrite ==
    /\ pend.ops # <<>> /\ pend.done = Len(pend.ops)
    /\ seq' = LastSequence(pend.ops)
    /\ pend' = NoBatch
    /\ UNCHANGED <<mem, imm, snaps, lv, next, cptr, ftc, comp, bgerr>> /\ Observe

\* MakeRoomForWrite(), when the memtable is full or must go.
SwitchMem ==
    /\ pend = NoBatch /\ mem # {} /\ imm = {} /\ ~bgerr
    /\ imm' = mem /\ mem' = {}
    /\ UNCHANGED <<seq, pend, snaps, lv, next, cptr, ftc, comp, bgerr>> /\ Observe

GetSnapshot ==
    /\ Len(snaps) < MaxSnapshots
    /\ snaps' = Append(snaps, seq)
    /\ UNCHANGED <<mem, imm, seq, pend, lv, next, cptr, ftc, comp, bgerr>> /\ Observe
ReleaseSnapshot ==
    /\ \E i \in DOMAIN snaps : snaps' = RemoveAt(snaps, i)
    /\ UNCHANGED <<mem, imm, seq, pend, lv, next, cptr, ftc, comp, bgerr>> /\ Observe

-----------------------------------------------------------------------------
\* Versions

\* Builder::SaveTo(): a level without some files and with others, in order.
Applied(files, gone, added) ==
    SortBy({f \in ToSet(files) : f \notin gone} \cup added,
                 LAMBDA f, g : IF Rank(f.smallest) # Rank(g.smallest) THEN Rank(f.smallest) < Rank(g.smallest)
                               ELSE f.n < g.n)

\* LogAndApply(): a new version, which no seek has charged yet.
InstallVersion(newlv) == lv' = newlv /\ ftc' = {}

\* SomeFileOverlapsRange() of user keys.
OverlapInLevel(l, lo, hi) ==
    IF l = 0 THEN \E f \in ToSet(lv[0]) : lo <= f.largest.k /\ f.smallest.k <= hi
    ELSE \E i \in FindFile(lv[l], IKey(lo, MaxWrites)) : lv[l][i].smallest.k <= hi

\* GetOverlappingInputs(): in level 0 the range grows with the files found.
RECURSIVE Overlapping(_, _, _)
Overlapping(l, lo, hi) ==
    LET in == SelectSeq(lv[l], LAMBDA f : f.largest.k >= lo /\ f.smallest.k <= hi)
        lo2 == Min({lo} \cup {f.smallest.k : f \in ToSet(in)})
        hi2 == Max({hi} \cup {f.largest.k : f \in ToSet(in)})
    IN IF l = 0 /\ <<lo2, hi2>> # <<lo, hi>> THEN Overlapping(0, lo2, hi2) ELSE in

\* A memtable may go down from level l.
MayGoBelow(l, lo, hi) ==
    /\ l < MaxMemLevel /\ ~OverlapInLevel(l + 1, lo, hi)
    /\ l + 2 < Levels => TotalFileSize(Overlapping(l + 2, lo, hi)) <= MaxGrandparent

PickLevelForMemTableOutput(lo, hi) ==
    IF OverlapInLevel(0, lo, hi) THEN 0
    ELSE Max({l \in 0 .. MaxMemLevel : \A j \in 0 .. l - 1 : MayGoBelow(j, lo, hi)})

\* CompactMemTable().  A compaction under way does not hold it up.
CompactMemTable ==
    /\ imm # {} /\ ~bgerr
    /\ LET l == PickLevelForMemTableOutput(First(imm).k, Final(imm).k)
           n == IF l = 0 THEN next ELSE 0
       IN /\ InstallVersion([lv EXCEPT ![l] = Applied(@, {}, {File(n, imm)})])
          /\ next' = IF l = 0 THEN next + 1 ELSE next
    /\ imm' = {}
    /\ UNCHANGED <<mem, seq, pend, snaps, cptr, comp, bgerr>> /\ Observe

\* Version::UpdateStats(): a file has no seeks left.  Get() charges the first file
\* when it did not have the key and a second was read.
Charge(x, files) ==
    /\ files # {x} /\ \A y \in files : ~Before(y, x)
    /\ ftc' = {x}
    /\ UNCHANGED <<mem, imm, seq, pend, snaps, lv, next, cptr, comp, bgerr, seen>>
GetCharges(files, k, s) ==
    /\ Lookup(mem \cup imm, k, s) = {}
    /\ \E x \in files : Lookup(x[2].es, k, s) = {} /\ Charge(x, files)

\* RecordReadSample(): an iterator at an entry charges the first of two files.
SampleCharges(files) == \E x \in files : Charge(x, files)

\* A seek to the key as of sequence number s, while no file waits for a compaction.
Seek(k, s) ==
    /\ Seeks /\ ftc = {}
    /\ \E files \in {FilesToRead(k, s)} : GetCharges(files, k, s) \/ SampleCharges(files)

-----------------------------------------------------------------------------
\* Compactions

\* Finalize(): the score of a level is Amount / Limit, the best level the first
\* with the highest.
Amount(l) == IF l = 0 THEN Len(lv[0]) ELSE TotalFileSize(lv[l])
Limit(l) == IF l = 0 THEN L0Trigger ELSE BaseBytes * 10 ^ (l - 1)
BestOf(amount) ==
    CHOOSE l \in DOMAIN amount : \A j \in DOMAIN amount :
      /\ amount[l] * Limit(j) >= amount[j] * Limit(l)
      /\ j < l => amount[l] * Limit(j) > amount[j] * Limit(l)
BestLevel == BestOf([l \in 0 .. Levels - 2 |-> Amount(l)])

\* GetRange(): the user keys, and the largest internal key, of files.
LowKey(files) == Min({f.smallest.k : f \in ToSet(files)})
HighKey(files) == Max({f.largest.k : f \in ToSet(files)})

\* Mutant: files of the next level are taken for the first input file alone.
FirstRange(l, in0) == Overlapping(l + 1, in0[1].smallest.k, in0[1].largest.k)

\* The files of the next level that the inputs overlap.
NextInputs(l, in0) == Overlapping(l + 1, LowKey(in0), HighKey(in0))

\* SetupOtherInputs(): the inputs of the level grow when that adds none of the
\* next level; then the files of the level after that.
Both(c) == c.in0 \o c.in1
More(c) == Overlapping(c.level, LowKey(Both(c)), HighKey(Both(c)))
Expanded(c) ==
    IF /\ c.in1 # <<>> /\ Len(More(c)) > Len(c.in0)
       /\ TotalFileSize(c.in1) + TotalFileSize(More(c)) < ExpandLimit
       /\ Len(NextInputs(c.level, More(c))) = Len(c.in1)
    THEN [c EXCEPT !.in0 = More(c)] ELSE c
WithGrandparents(c) ==
    [level |-> c.level, in0 |-> c.in0, in1 |-> c.in1,
     gp |-> IF c.level + 2 < Levels THEN Overlapping(c.level + 2, LowKey(Both(c)), HighKey(Both(c))) ELSE <<>>,
     largest |-> Max({Rank(f.largest) : f \in ToSet(c.in0)})]
SetupOtherInputs(inputs) ==
    {WithGrandparents(c) : c \in {Expanded(c) : c \in
       {[level |-> x[1], in0 |-> x[2], in1 |-> NextInputs(x[1], x[2])] : x \in inputs}}}

\* The file that PickCompaction() starts from: the first one past
\* compact_pointer_, or the first of all.
PickedFile(l) ==
    LET after == SelectSeq(lv[l], LAMBDA f : cptr[l] = 0 \/ Rank(f.largest) > cptr[l])
    IN IF after = <<>> THEN lv[l][1] ELSE after[1]

\* Mutant: level-0 files that overlap the picked one stay behind.
OnlyPicked(l, f) == <<f>>

WithOverlaps(l, f) == IF l = 0 THEN Overlapping(0, f.smallest.k, f.largest.k) ELSE <<f>>

PickFrom(best) ==
    SetupOtherInputs({<<x[1], WithOverlaps(x[1], x[2])>> :
        x \in IF Amount(best) >= Limit(best) THEN {<<best, PickedFile(best)>>} ELSE ftc})
PickCompaction == PickFrom(BestLevel)

UpToFileSize(files) ==
    SubSeq(files, 1, Min({Len(files)} \cup {i \in DOMAIN files : TotalFileSize(SubSeq(files, 1, i)) >= FileSize}))

\* CompactRange() of a level, which takes only as much as one file holds.
CompactRange(l, lo, hi) ==
    SetupOtherInputs({<<l, IF l = 0 THEN all ELSE UpToFileSize(all)>> : all \in {Overlapping(l, lo, hi)} \ {<<>>}})

IsTrivialMove(c) == Len(c.in0) = 1 /\ c.in1 = <<>> /\ TotalFileSize(c.gp) <= MaxGrandparent

Idle == comp = {} /\ imm = {} /\ ~bgerr

TrivialMove(c) ==
    /\ InstallVersion([lv EXCEPT ![c.level] = Applied(@, {c.in0[1]}, {}),
                                 ![c.level + 1] = Applied(@, {}, {File(0, c.in0[1].es)})])
    /\ cptr' = [cptr EXCEPT ![c.level] = c.largest]
    /\ UNCHANGED <<mem, imm, seq, pend, snaps, next, comp, bgerr>> /\ Observe

SmallestSnapshot == IF snaps = <<>> THEN seq ELSE Head(snaps)

\* The first part of DoCompactionWork(), before the mutex is released.
StartCompaction(c) ==
    /\ comp' = {[c |-> c, base |-> lv, snap |-> SmallestSnapshot]}
    /\ cptr' = [cptr EXCEPT ![c.level] = c.largest]
    /\ UNCHANGED <<mem, imm, seq, pend, snaps, lv, next, ftc, bgerr, seen>>
AutoCompaction == Idle /\ \E c \in PickCompaction : IF IsTrivialMove(c) THEN TrivialMove(c) ELSE StartCompaction(c)
ManualCompaction(l, lo, hi) == Idle /\ Manual /\ \E c \in CompactRange(l, lo, hi) : StartCompaction(c)

\* IsBaseLevelForKey(): the first file of each deeper level that ends at or after
\* the key does not hold it.
IsBaseLevelForKey(w, k) ==
    \A l \in w.c.level + 2 .. Levels - 1 :
      LET later == SelectSeq(w.base[l], LAMBDA f : k <= f.largest.k)
      IN later = <<>> \/ k < later[1].smallest.k

\* ShouldStopBefore() and the end of a full file: the outputs "outs" and the
\* entries "cur" of the file being written.
Cut(m) == IF m.cur = {} THEN m ELSE [m EXCEPT !.outs = Append(@, m.cur), !.cur = {}]
StopBefore(w, m, e) ==
    LET passed == {i \in m.gpi .. Len(w.c.gp) : Rank(w.c.gp[i].largest) < Rank(e)}
        bytes == m.bytes + IF m.seen THEN TotalFileSize([i \in passed |-> w.c.gp[i]]) ELSE 0
        stop == bytes > MaxGrandparent
        n == [m EXCEPT !.gpi = @ + Cardinality(passed), !.seen = TRUE, !.bytes = IF stop THEN 0 ELSE bytes]
    IN IF stop THEN Cut(n) ELSE n

\* Mutant: an entry that an older snapshot sees is dropped.
DropHidden(w, m, e) == m.key = e.k

\* Rule (A), and obsolete deletion markers.
Drop(w, m, e) ==
    LET last == IF m.key = e.k THEN m.last ELSE MaxWrites + 1
    IN last <= w.snap \/ (e.del /\ e.s <= w.snap /\ IsBaseLevelForKey(w, e.k))

\* The loop body of DoCompactionWork().
MergeEntry(w, m, e) ==
    LET n == [StopBefore(w, m, e) EXCEPT !.key = e.k, !.last = e.s]
        full == [n EXCEPT !.cur = @ \cup {e}]
    IN IF Drop(w, m, e) THEN n
       ELSE IF Cardinality(full.cur) >= FileSize THEN Cut(full) ELSE full

RECURSIVE MergeAll(_, _, _)
MergeAll(w, m, es) ==
    IF es = {} THEN Cut(m).outs ELSE MergeAll(w, MergeEntry(w, m, First(es)), es \ {First(es)})
Merge(w) ==
    MergeAll(w, [outs |-> <<>>, cur |-> {}, key |-> 0, last |-> 0, gpi |-> 1, seen |-> FALSE, bytes |-> 0],
             UNION {f.es : f \in ToSet(w.c.in0 \o w.c.in1)})

\* InstallCompactionResults()
FinishCompaction ==
    /\ \E w \in comp :
         LET c == w.c
             added == {File(0, es) : es \in ToSet(Merge(w))}
         IN InstallVersion([lv EXCEPT ![c.level] = Applied(@, ToSet(c.in0), {}),
                                      ![c.level + 1] = Applied(@, ToSet(c.in1), added)])
    /\ comp' = {}
    /\ UNCHANGED <<mem, imm, seq, pend, snaps, next, cptr, bgerr>> /\ Observe

\* An error while it reads or writes: the outputs are left, and RecordBackgroundError().
FailCompaction ==
    /\ comp # {} /\ ~bgerr
    /\ comp' = {} /\ bgerr' = TRUE
    /\ UNCHANGED <<mem, imm, seq, pend, snaps, lv, next, cptr, ftc, seen>>

Next ==
    \/ (\E b \in Batches : StartWrite(b)) \/ InsertEntry \/ EndWrite \/ SwitchMem
    \/ GetSnapshot \/ ReleaseSnapshot \/ CompactMemTable
    \/ (\E k \in Keys : Seek(k, seq))
    \/ AutoCompaction
    \/ (\E l \in 0 .. Levels - 2 : \E lo \in Keys : \E hi \in lo .. NumKeys : ManualCompaction(l, lo, hi))
    \/ FinishCompaction \/ FailCompaction
Spec == Init /\ [][Next]_vars

-----------------------------------------------------------------------------
\* The store behaves as a map with snapshots: a batch becomes visible at once,
\* and no flush, compaction, move or failure ever changes what Get() returns, now
\* or at a snapshot.
KV == INSTANCE KVStore WITH MaxBatch <- Max({Len(b) : b \in Batches}),
        clock <- seq, store <- seen.now, views <- seen.at
ImplementsStore == KV!Spec

\* Files of a level past 0 are in order and share no entry, and no user key of one
\* lies within another: MaybeAddFile() asserts it.
LevelsDisjoint ==
    \A l \in 1 .. Levels - 1 : \A i \in 1 .. Len(lv[l]) - 1 : Rank(lv[l][i].largest) < Rank(lv[l][i + 1].smallest)

\* For a user key, what lies in a smaller level, or in a newer file of level 0, is
\* newer than what lies in later levels: what lets Get() stop at the first hit.
NewerAbove ==
    \A l \in LevelNumbers : \A f \in ToSet(lv[l]) : \A e \in f.es :
      /\ \A o \in mem \cup imm : o.k = e.k => o.s > e.s
      /\ \A j \in l + 1 .. Levels - 1 : \A g \in ToSet(lv[j]) : \A o \in g.es : o.k = e.k => o.s < e.s
      /\ l = 0 => \A g \in ToSet(lv[0]) : g.n < f.n => \A o \in g.es : o.k = e.k => o.s < e.s

\* The inputs of a compaction under way stay where they are until it ends, and a
\* seek never asks for a compaction of the last level.
InputsStay ==
    /\ \A w \in comp : /\ ToSet(w.c.in0) \subseteq ToSet(lv[w.c.level])
                       /\ ToSet(w.c.in1) \subseteq ToSet(lv[w.c.level + 1])
    /\ \A lf \in ftc : lf[1] + 1 < Levels /\ lf[2] \in ToSet(lv[lf[1]])
===============================================================================
