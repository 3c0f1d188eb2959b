-------------------------------- MODULE Table --------------------------------
(***************************************************************************)
(* A table file from TableBuilder::Add() to Table::InternalGet(): data      *)
(* blocks, the filter block (FilterBlockBuilder, FilterBlockReader), the    *)
(* metaindex, the index and the footer, written one after the other by a    *)
(* file that may fail, then opened and read with one piece of it damaged,   *)
(* through a block cache.  Sizes are in units; a block of the file is       *)
(* [kind, off, size, what]; the order inside a data block is Block's.       *)
(***************************************************************************)
EXTENDS InternalKeys, BloomFilter, SequencesExt

CONSTANTS Entries,      \* the internal keys that may be added
          MaxEntries,   \* bound on the entries of a table
          Sizes,        \* sizes of an entry
          BlockSize,    \* options.block_size
          Trailer,      \* kBlockTrailerSize
          FilterBase,   \* kFilterBase
          Filters,      \* is options.filter_policy set?
          Fails,        \* may a write fail?
          Harm,         \* what may happen to one block of the file: {}, or some of
                        \* "bits", "type", "io"
          Paranoid,     \* options.paranoid_checks
          Verify,       \* values of ReadOptions::verify_checksums
          FillCache     \* is the block cache filled?

VARIABLES b,        \* the TableBuilder
          file,     \* the blocks written
          failed,   \* history: a write failed
          harm,     \* [n, how]: what happened to file[n]; n = 0: nothing
          t,        \* the Table
          cache,    \* the data blocks in the block cache, by offset, and as history
                    \* whether each was verified when it was read
          res       \* the last InternalGet(), and as history whether what it used was
vars == <<b, file, failed, harm, t, cache, res>>

Added == b.added
NoFilterData == [result |-> <<>>, size |-> 0, offsets |-> <<>>, keys |-> <<>>]
Closed == [open |-> FALSE, index |-> <<>>, filter |-> NoFilterData, useFilter |-> FALSE, ok |-> TRUE]
NoResult == [k |-> [u |-> <<>>, s |-> 0], found |-> <<>>, ok |-> TRUE, verified |-> FALSE, done |-> FALSE]

-----------------------------------------------------------------------------
\* FilterBlockBuilder: result_ is the sequence of filters and their total length.

GenerateFilter(f) ==
    IF f.keys = <<>> THEN [f EXCEPT !.offsets = Append(@, f.size)]
    ELSE LET filter == CreateFilter(ToSet(f.keys), Len(f.keys))
         IN [result |-> Append(f.result, [at |-> f.size, filter |-> filter]), size |-> f.size + filter.len,
             offsets |-> Append(f.offsets, f.size), keys |-> <<>>]

RECURSIVE StartBlock(_, _)
StartBlock(f, off) ==
    IF off \div FilterBase > Len(f.offsets) THEN StartBlock(GenerateFilter(f), off) ELSE f
AddKey(f, key) == [f EXCEPT !.keys = Append(@, key.u)]
FinishFilter(f) == IF f.keys = <<>> THEN f ELSE GenerateFilter(f)

\* FilterBlockReader::KeyMayMatch(): the array of offsets is followed by its own.
LimitOf(f, i) == IF i = Len(f.offsets) THEN f.size ELSE f.offsets[i + 1]
FilterSlice(f, i) ==
    IF f.offsets[i] = LimitOf(f, i) THEN [len |-> 0, k |-> 0, set |-> {}]
    ELSE (CHOOSE g \in ToSet(f.result) : g.at = f.offsets[i]).filter
FilterMayMatch(f, off, key) ==
    LET i == off \div FilterBase + 1 IN i <= Len(f.offsets) => KeyMayMatch(key.u, FilterSlice(f, i))

-----------------------------------------------------------------------------
\* TableBuilder, as operators on w = [b, file]; which of the writes fails is chosen
\* by the caller ("" for none).

SizeOf(es) == FoldLeft(LAMBDA n, e : n + e.size, 0, es)

WriteBlock(w, kind, what, size, fails) ==
    IF ~w.b.ok THEN w
    ELSE IF fails THEN [w EXCEPT !.b.ok = FALSE]
    ELSE [b |-> [w.b EXCEPT !.offset = @ + size + Trailer],
          file |-> Append(w.file, [kind |-> kind, off |-> w.b.offset, size |-> size, what |-> what])]

\* Mutant: what Flush() of the file returns is the status.
StatusOfFlush(w, fail) == fail # "flush"

StatusAfter(w, fail) == w.b.ok /\ fail # "flush"

Flush(w, fail) ==
    IF ~w.b.ok \/ w.b.block = <<>> THEN w
    ELSE LET x == WriteBlock(w, "data", w.b.block, SizeOf(w.b.block), fail = "data")
         IN [x EXCEPT !.b.block = <<>>, !.b.handle = w.b.offset, !.b.pending = x.b.ok, !.b.ok = StatusAfter(x, fail),
                      !.b.fb = IF Filters THEN StartBlock(@, x.b.offset) ELSE @]

\* The index entry of the block before, once the key that follows is known.
IndexEntry(bb, key) == [bb EXCEPT !.index = Append(@, [key |-> key, off |-> bb.handle]), !.pending = FALSE]

AddOf(key, size, fail) ==
    LET c == IF b.pending THEN IndexEntry(b, FindShortestSeparator(b.last, key)) ELSE b
        d == [c EXCEPT !.fb = IF Filters THEN AddKey(@, key) ELSE @, !.last = key,
                       !.block = Append(@, [key |-> key, size |-> size]), !.added = Append(@, key)]
        w == [b |-> d, file |-> file]
    IN IF SizeOf(d.block) >= BlockSize THEN Flush(w, fail) ELSE w

Points == {""} \cup IF Fails THEN {"data", "flush", "filter", "meta", "index", "footer"} ELSE {}
Written(w) ==
    /\ b' = w.b /\ file' = w.file
    /\ failed' = (failed \/ (b.ok /\ ~w.b.ok))
    /\ UNCHANGED <<harm, t, cache, res>>

Add(key) ==
    /\ ~b.closed /\ b.ok /\ Len(b.added) < MaxEntries
    /\ b.added = <<>> \/ Before(b.last, key)
    /\ \E size \in Sizes, fail \in Points \ {"filter", "meta", "index", "footer"} : Written(AddOf(key, size, fail))

FinishOf(fail) ==
    LET x0 == Flush([b |-> b, file |-> file], fail)
        fb == FinishFilter(x0.b.fb)
        x1 == IF Filters THEN WriteBlock(x0, "filter", fb, 1, fail = "filter") ELSE x0
        x2 == WriteBlock(x1, "meta", x0.b.offset, 1, fail = "meta")
        x3 == IF x2.b.ok /\ x2.b.pending THEN [x2 EXCEPT !.b = IndexEntry(@, FindShortSuccessor(x2.b.last))] ELSE x2
        x4 == WriteBlock(x3, "index", x3.b.index, 1, fail = "index")
        x5 == WriteBlock(x4, "footer", [meta |-> x1.b.offset, index |-> x3.b.offset], 1, fail = "footer")
    IN [x5 EXCEPT !.b.closed = TRUE, !.b.finished = TRUE]
Finish == ~b.closed /\ \E fail \in Points : Written(FinishOf(fail))

Abandon ==
    /\ ~b.closed
    /\ b' = [b EXCEPT !.closed = TRUE]
    /\ UNCHANGED <<file, failed, harm, t, cache, res>>

-----------------------------------------------------------------------------
\* Table: reading a block, opening a file and looking up a key.

At(off) == CHOOSE n \in DOMAIN file : file[n].off = off

\* What a block holds once bits of it have changed: here, nothing.
Altered(p) ==
    CASE p.kind = "filter" -> [p.what EXCEPT !.result = [i \in DOMAIN @ |-> [@[i] EXCEPT !.filter.set = {}]]]
      [] p.kind \in {"data", "index"} -> <<>>
      [] OTHER -> 0

\* ReadBlock(): does it return an error?
ReadFails(n, verify) == harm.n = n /\ (verify \/ harm.how # "bits")
Contents(n) == IF harm.n = n THEN Altered(file[n]) ELSE file[n].what

Footer == file[Len(file)].what
IsTable == file # <<>> /\ file[Len(file)].kind = "footer"

\* ReadMeta() and ReadFilter(): every error only means that there is no filter.
ReadMeta ==
    LET m == At(Footer.meta)
    IN IF ~Filters \/ ReadFails(m, Paranoid) \/ harm.n = m THEN [use |-> FALSE, f |-> NoFilterData]
       ELSE LET n == At(Contents(m))
            IN IF ReadFails(n, Paranoid) THEN [use |-> FALSE, f |-> NoFilterData] ELSE [use |-> TRUE, f |-> Contents(n)]

Open ==
    /\ b.closed /\ ~t.open /\ t.ok
    /\ LET ok == IsTable /\ harm.n # Len(file) /\ ~ReadFails(At(Footer.index), Paranoid)
       IN t' = IF ~ok THEN [t EXCEPT !.ok = FALSE]
               ELSE [open |-> TRUE, index |-> Contents(At(Footer.index)), filter |-> ReadMeta.f, useFilter |-> ReadMeta.use, ok |-> TRUE]
    /\ UNCHANGED <<b, file, failed, harm, cache, res>>

First(es, Test(_)) == LET S == {i \in DOMAIN es : Test(es[i])} IN IF S = {} THEN 0 ELSE Min(S)

\* Mutant: the first index key after key.
SeekPast(key) == First(t.index, LAMBDA x : Before(key, x.key))

IndexSeek(key) == First(t.index, LAMBDA x : NotBefore(x.key, key))

\* BlockReader(): a block in the cache is not read again, nor verified.
InternalGet(key, verify) ==
    LET i == IndexSeek(key)
        off == t.index[i].off
        n == At(off)
        hit == off \in DOMAIN cache
        ok == hit \/ ~ReadFails(n, verify)
        blk == IF hit THEN cache[off].blk ELSE Contents(n)
        verified == verify /\ (hit => cache[off].verified)
        p == First(blk, LAMBDA e : NotBefore(e.key, key))
        none == [k |-> key, found |-> <<>>, ok |-> TRUE, verified |-> verify, done |-> TRUE]
        read == [none EXCEPT !.ok = ok, !.verified = verified]
    IN IF i = 0 \/ (t.useFilter /\ ~FilterMayMatch(t.filter, off, key))
       THEN res' = none /\ cache' = cache
       ELSE /\ res' = IF ~ok \/ p = 0 THEN read ELSE [read EXCEPT !.found = <<blk[p].key>>]
            /\ cache' = IF ~hit /\ ok /\ FillCache THEN (off :> [blk |-> blk, verified |-> verify]) @@ cache
                        ELSE cache
Get(key) == t.open /\ \E v \in Verify : InternalGet(key, v) /\ UNCHANGED <<b, file, failed, harm, t>>

ApproximateOffsetOf(key) == IF IndexSeek(key) = 0 THEN Footer.meta ELSE t.index[IndexSeek(key)].off

\* A block of the finished file goes bad, before or after the file is opened.
GoBad ==
    /\ b.finished /\ b.ok /\ harm.n = 0
    /\ \E n \in DOMAIN file, how \in Harm : harm' = [n |-> n, how |-> how]
    /\ UNCHANGED <<b, file, failed, t, cache, res>>

Init ==
    /\ b = [ok |-> TRUE, offset |-> 0, block |-> <<>>, index |-> <<>>, last |-> [u |-> <<>>, s |-> 0], pending |-> FALSE,
            handle |-> 0, closed |-> FALSE, finished |-> FALSE, fb |-> NoFilterData, added |-> <<>>]
    /\ file = <<>> /\ failed = FALSE /\ harm = [n |-> 0, how |-> ""]
    /\ t = Closed /\ cache = <<>> /\ res = NoResult
Next == (\E key \in Entries : Add(key) \/ Get(key)) \/ Finish \/ Abandon \/ Open \/ GoBad
Spec == Init /\ [][Next]_vars

-----------------------------------------------------------------------------
\* The entry a lookup of key should find: the newest not newer than key.
Wanted(key) == {e \in ToSet(Added) : e.u = key.u /\ e.s <= key.s /\ \A o \in ToSet(Added) : o.u = key.u /\ o.s <= key.s => o.s <= e.s}
SavedOf(r) == {e \in ToSet(r.found) : e.u = r.k.u}

\* A lookup in a table that is as it was written finds the newest entry of its
\* user key that is not newer than it, and only that, with or without a filter.
GetExact == (res.done /\ harm.n = 0) => res.ok /\ SavedOf(res) = Wanted(res.k)

\* A lookup with ReadOptions::verify_checksums that returns no error is never wrong
\* about an entry, whatever block of the file has gone bad, unless it met in the
\* cache a block that a lookup without it had read.  (The index and the filter are
\* verified with Options::paranoid_checks.)
DamageReported == (res.done /\ res.ok /\ res.verified) => SavedOf(res) = Wanted(res.k)

\* Finish() returns success only if every write did, and then the file can be
\* opened and its index leads to all entries in order.
OkMeansWhole ==
    (b.finished /\ b.ok) =>
      /\ ~failed /\ IsTable
      /\ Added = FlattenSeq([i \in DOMAIN b.index |-> LET blk == file[At(b.index[i].off)].what IN [j \in DOMAIN blk |-> blk[j].key]])

\* An index key is not before any key of its block and before all of the next.
IndexSeparates ==
    \A i \in DOMAIN b.index :
      /\ \A e \in ToSet(file[At(b.index[i].off)].what) : NotBefore(b.index[i].key, e.key)
      /\ \A j \in DOMAIN b.index : j > i => \A e \in ToSet(file[At(b.index[j].off)].what) : Before(b.index[i].key, e.key)

\* No filter of a table denies a user key of the blocks that start in its range,
\* for the block that holds it.
FilterDeniesNone ==
    (t.open /\ t.useFilter /\ harm.n = 0) =>
      \A n \in DOMAIN file : file[n].kind = "data" =>
        \A e \in ToSet(file[n].what) : FilterMayMatch(t.filter, file[n].off, e.key)

\* Approximate offsets grow with the keys, also between and after those of the table.
OffsetsGrow ==
    (t.open /\ harm.n = 0) => \A k, l \in Entries : Before(k, l) => ApproximateOffsetOf(k) <= ApproximateOffsetOf(l)
===============================================================================
