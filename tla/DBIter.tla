-------------------------------- MODULE DBIter --------------------------------
(***************************************************************************)
(* The iterators of the database, one on top of the other: TwoLevelIterator *)
(* over the blocks of a file or the files of a level, MergingIterator over  *)
(* these, and DBIter, which shows one entry per user key as of a sequence   *)
(* number.  An entry is [k, s, del]; its value is s.  A block that cannot   *)
(* be read is an EmptyIterator with an error.                               *)
(***************************************************************************)
EXTENDS Naturals, Sequences, FiniteSets, SequencesExt, FiniteSetsExt

CONSTANTS NumKeys,      \* user keys are 1 .. NumKeys
          MaxSeq,       \* entries have sequence numbers 1 .. MaxSeq
          Snapshot,     \* sequence_ of the iterator
          Faults        \* may a block be unreadable?

VARIABLES data,     \* the blocks of each of the two children, a block a sorted sequence
          bad,      \* the block of child 2 that cannot be read, 0: none
          it,       \* the DBIter and what is below it
          expect,   \* the user key it should show, 0: not valid
          scan      \* all keys since SeekToFirst() were stepped over
vars == <<data, bad, it, expect, scan>>

Keys == 1 .. NumKeys
Rank(e) == e.k * (MaxSeq + 1) - e.s
Sorted(es) == [i \in 1 .. Cardinality(es) |-> CHOOSE e \in es : Cardinality({o \in es : Rank(o) < Rank(e)}) = i - 1]

\* What the memtable and one level can hold: sequence numbers in some order of
\* keys, in one or the other, and the level cut into at most two blocks.
Slots == [k : Keys, del : BOOLEAN] \cup {[k |-> 0, del |-> FALSE]}
Contents == {{[s |-> n, k |-> f[n].k, del |-> f[n].del] : n \in {n \in 1 .. MaxSeq : f[n].k # 0}} : f \in [1 .. MaxSeq -> Slots]}
CutAt(seq, n) == IF seq = <<>> THEN <<>> ELSE IF n = 0 THEN <<seq>> ELSE <<SubSeq(seq, 1, n), SubSeq(seq, n + 1, Len(seq))>>

-----------------------------------------------------------------------------
\* TwoLevelIterator: idx is where the index iterator is (past the end: not valid),
\* open the block of the data iterator (0: NULL), pos where it is (0: not valid).

NewChild(i) == [i |-> i, idx |-> Len(data[i]) + 1, open |-> 0, pos |-> 0, err |-> FALSE]
Broken(c) == c.open # 0 /\ c.i = 2 /\ c.open = bad
Blk(c) == IF Broken(c) THEN <<>> ELSE data[c.i][c.open]
ChildValid(c) == c.pos # 0
Entry(c) == data[c.i][c.open][c.pos]

FirstNotBefore(seq, t) == Min({Len(seq) + 1} \cup {p \in DOMAIN seq : Rank(seq[p]) >= t})
DataSeek(c, t) == [c EXCEPT !.pos = IF FirstNotBefore(Blk(c), t) > Len(Blk(c)) THEN 0 ELSE FirstNotBefore(Blk(c), t)]
DataFirst(c) == [c EXCEPT !.pos = IF Blk(c) = <<>> THEN 0 ELSE 1]
DataLast(c) == [c EXCEPT !.pos = Len(Blk(c))]
DataNext(c) == [c EXCEPT !.pos = IF @ = Len(Blk(c)) THEN 0 ELSE @ + 1]
DataPrev(c) == [c EXCEPT !.pos = @ - 1]

\* Mutant: the error of the block that is left is forgotten.
ErrorLeft(c) == c.err

SavedError(c) == c.err \/ Broken(c)

SetDataIterator(c, blk) == [c EXCEPT !.err = SavedError(c), !.open = blk, !.pos = 0]
InitDataBlock(c) ==
    IF c.idx > Len(data[c.i]) THEN SetDataIterator(c, 0)
    ELSE IF c.open = c.idx THEN c ELSE SetDataIterator(c, c.idx)

RECURSIVE SkipForward(_), SkipBackward(_)
SkipForward(c) ==
    IF ChildValid(c) THEN c
    ELSE IF c.idx > Len(data[c.i]) THEN SetDataIterator(c, 0)
    ELSE LET d == InitDataBlock([c EXCEPT !.idx = @ + 1]) IN SkipForward(IF d.open = 0 THEN d ELSE DataFirst(d))

\* LevelFileNumIterator::Prev(), and that of a block: from the first to not valid.
IndexPrev(c) == [c EXCEPT !.idx = IF @ = 1 THEN Len(data[c.i]) + 1 ELSE @ - 1]
SkipBackward(c) ==
    IF ChildValid(c) THEN c
    ELSE IF c.idx > Len(data[c.i]) THEN SetDataIterator(c, 0)
    ELSE LET d == InitDataBlock(IndexPrev(c)) IN SkipBackward(IF d.open = 0 THEN d ELSE DataLast(d))

\* The index is searched by the last key of each block.
IndexSeek(c, t) ==
    [c EXCEPT !.idx = Min({Len(data[c.i]) + 1} \cup {b \in DOMAIN data[c.i] : Rank(Last(data[c.i][b])) >= t})]
ChildSeek(c, t) ==
    LET d == InitDataBlock(IndexSeek(c, t)) IN SkipForward(IF d.open = 0 THEN d ELSE DataSeek(d, t))
ChildFirst(c) ==
    LET d == InitDataBlock([c EXCEPT !.idx = 1]) IN SkipForward(IF d.open = 0 THEN d ELSE DataFirst(d))
ChildLast(c) ==
    LET n == Len(data[c.i])
        d == InitDataBlock([c EXCEPT !.idx = IF n = 0 THEN 1 ELSE n])
    IN SkipBackward(IF d.open = 0 THEN d ELSE DataLast(d))
ChildNext(c) == SkipForward(DataNext(c))
ChildPrev(c) == SkipBackward(DataPrev(c))

-----------------------------------------------------------------------------
\* MergingIterator: m.cur is current_ (0: NULL), m.fwd the direction.

ValidOnes(ch) == {i \in 1 .. 2 : ChildValid(ch[i])}
FindSmallest(ch) ==
    [ch |-> ch, fwd |-> TRUE, cur |-> IF ValidOnes(ch) = {} THEN 0 ELSE
       CHOOSE i \in ValidOnes(ch) : \A j \in ValidOnes(ch) : Rank(Entry(ch[i])) <= Rank(Entry(ch[j]))]
FindLargest(ch) ==
    [ch |-> ch, fwd |-> FALSE, cur |-> IF ValidOnes(ch) = {} THEN 0 ELSE
       CHOOSE i \in ValidOnes(ch) : \A j \in ValidOnes(ch) : Rank(Entry(ch[i])) >= Rank(Entry(ch[j]))]
MValid(m) == m.cur # 0
MEntry(m) == Entry(m.ch[m.cur])

MFirst(m) == FindSmallest([i \in 1 .. 2 |-> ChildFirst(m.ch[i])])
MLast(m) == FindLargest([i \in 1 .. 2 |-> ChildLast(m.ch[i])])
MSeek(m, t) == FindSmallest([i \in 1 .. 2 |-> ChildSeek(m.ch[i], t)])

\* Mutant: the other child stays where it was when the direction changes.
OtherStays(c, t) == c

\* The other children when the direction changes: after, or before, the key.
SeekAfter(c, t) ==
    LET d == ChildSeek(c, t) IN IF ChildValid(d) /\ Rank(Entry(d)) = t THEN ChildNext(d) ELSE d
SeekBefore(c, t) ==
    LET d == ChildSeek(c, t) IN IF ChildValid(d) THEN ChildPrev(d) ELSE ChildLast(d)

MNext(m) ==
    FindSmallest([i \in 1 .. 2 |-> IF i = m.cur THEN ChildNext(m.ch[i])
                                  ELSE IF m.fwd THEN m.ch[i] ELSE SeekAfter(m.ch[i], Rank(MEntry(m)))])
MPrev(m) ==
    FindLargest([i \in 1 .. 2 |-> IF i = m.cur THEN ChildPrev(m.ch[i])
                                 ELSE IF m.fwd THEN SeekBefore(m.ch[i], Rank(MEntry(m))) ELSE m.ch[i]])

\* status() of the children.
Failed(m) == \E i \in 1 .. 2 : m.ch[i].err \/ Broken(m.ch[i])

-----------------------------------------------------------------------------
\* DBIter: valid_, direction_, saved_key_ (0: empty) and saved_value_.

NewIter == [m |-> [ch |-> [i \in 1 .. 2 |-> NewChild(i)], fwd |-> TRUE, cur |-> 0],
            valid |-> FALSE, fwd |-> TRUE, key |-> 0, value |-> 0]

\* An entry is hidden by a newer one of its key, or is the one stepped over.
Hidden(e, skip) == e.k <= skip

\* skip = 0: skipping is off.
RECURSIVE FindNextUserEntry(_, _, _)
FindNextUserEntry(d, m, skip) ==
    IF ~MValid(m) THEN [d EXCEPT !.m = m, !.valid = FALSE, !.key = 0]
    ELSE LET e == MEntry(m)
         IN IF e.s <= Snapshot /\ ~e.del /\ ~Hidden(e, skip)
            THEN [d EXCEPT !.m = m, !.valid = TRUE, !.key = 0]
            ELSE FindNextUserEntry(d, MNext(m), IF e.s <= Snapshot /\ e.del THEN e.k ELSE skip)

EarlierKey(e, k) == e.k < k

\* t: value_type is that of a value.
RECURSIVE FindPrevUserEntry(_, _, _)
FindPrevUserEntry(d, m, t) ==
    LET more == MValid(m)
        seen == more /\ MEntry(m).s <= Snapshot
    IN IF ~more \/ (seen /\ t /\ EarlierKey(MEntry(m), d.key))
       THEN IF t THEN [d EXCEPT !.m = m, !.valid = TRUE]
            ELSE [d EXCEPT !.m = m, !.valid = FALSE, !.key = 0, !.value = 0, !.fwd = TRUE]
       ELSE IF ~seen THEN FindPrevUserEntry(d, MPrev(m), t)
       ELSE FindPrevUserEntry([d EXCEPT !.key = IF MEntry(m).del THEN 0 ELSE MEntry(m).k,
                                        !.value = IF MEntry(m).del THEN 0 ELSE MEntry(m).s],
                              MPrev(m), ~MEntry(m).del)

\* The part of Prev() that leaves the entries of the current key.
RECURSIVE BeforeKey(_, _)
BeforeKey(m, k) == IF MValid(m) /\ MEntry(m).k >= k THEN BeforeKey(MPrev(m), k) ELSE m

Key(d) == IF d.fwd THEN MEntry(d.m).k ELSE d.key
Value(d) == IF d.fwd THEN MEntry(d.m).s ELSE d.value

NextOf(d) ==
    IF d.fwd THEN FindNextUserEntry(d, d.m, Key(d))
    ELSE LET m == IF MValid(d.m) THEN MNext(d.m) ELSE MFirst(d.m)
         IN FindNextUserEntry([d EXCEPT !.fwd = TRUE], m, d.key)
PrevOf(d) ==
    IF ~d.fwd THEN FindPrevUserEntry(d, d.m, FALSE)
    ELSE LET m == BeforeKey(MPrev(d.m), Key(d))
         IN IF MValid(m) THEN FindPrevUserEntry([d EXCEPT !.fwd = FALSE, !.key = Key(d)], m, FALSE)
            ELSE [d EXCEPT !.m = m, !.valid = FALSE, !.key = 0, !.value = 0]

-----------------------------------------------------------------------------
\* What the iterator should show: keys whose newest visible entry is a value.
All == UNION {ToSet(data[i][b]) : <<i, b>> \in {<<i, b>> \in (1 .. 2) \X (1 .. 2) : b <= Len(data[i])}}
NewestOf(k) == {e \in All : e.k = k /\ e.s <= Snapshot /\ \A o \in All : o.k = k /\ o.s <= Snapshot => o.s <= e.s}
Shown == {k \in Keys : \E e \in NewestOf(k) : ~e.del}
Least(S) == Min({NumKeys + 1} \cup S) % (NumKeys + 1)
Greatest(S) == Max({0} \cup S)

Init ==
    /\ \E E \in Contents : \E M \in SUBSET E : \E n \in 0 .. Cardinality(E \ M) :
         /\ n < Cardinality(E \ M) \/ n = 0
         /\ data = <<CutAt(Sorted(M), 0), CutAt(Sorted(E \ M), n)>>
    /\ bad \in {0} \cup IF Faults THEN DOMAIN data[2] ELSE {}
    /\ it = NewIter /\ expect = 0 /\ scan = FALSE

Do(d, e, s) == it' = d /\ expect' = e /\ scan' = s /\ UNCHANGED <<data, bad>>
Seek(t) ==
    LET m == MSeek(it.m, t * (MaxSeq + 1) - Snapshot)
        d == [it EXCEPT !.fwd = TRUE, !.value = 0]
    IN Do(FindNextUserEntry(d, m, 0), Least({k \in Shown : k >= t}), FALSE)
SeekToFirst == Do(FindNextUserEntry([it EXCEPT !.fwd = TRUE, !.value = 0], MFirst(it.m), 0), Least(Shown), TRUE)
SeekToLast == Do(FindPrevUserEntry([it EXCEPT !.fwd = FALSE, !.value = 0], MLast(it.m), FALSE), Greatest(Shown), FALSE)
IterNext == it.valid /\ Do(NextOf(it), Least({k \in Shown : k > expect}), scan)
IterPrev == it.valid /\ Do(PrevOf(it), Greatest({k \in Shown : k < expect}), FALSE)

Next == (\E t \in Keys : Seek(t)) \/ SeekToFirst \/ SeekToLast \/ IterNext \/ IterPrev
Spec == Init /\ [][Next]_vars

-----------------------------------------------------------------------------
\* However seeks and steps in both directions are mixed, the iterator shows the
\* keys that are there as of the snapshot, each once, in order, with the newest
\* value, and it ends where they end.
IteratorExact ==
    bad = 0 => /\ it.valid <=> expect # 0
               /\ it.valid => Key(it) = expect /\ {Value(it)} = {e.s : e \in NewestOf(expect)}

\* When moving backwards, the internal iterator is before all entries of the key
\* shown, and between them lies nothing that the snapshot sees.
InternalPosition ==
    (bad = 0 /\ it.valid /\ ~it.fwd) =>
      IF MValid(it.m) THEN /\ MEntry(it.m).k < it.key
                           /\ \A e \in All : e.s <= Snapshot /\ Rank(e) > Rank(MEntry(it.m)) => e.k >= it.key
      ELSE \A e \in All : e.s <= Snapshot => e.k >= it.key

\* A scan from the first key to the end reports a block that could not be read,
\* and reports nothing else.
ScanReportsError == (scan /\ ~it.valid) => (Failed(it.m) <=> bad # 0)
===============================================================================
