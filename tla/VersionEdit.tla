----------------------------- MODULE VersionEdit -----------------------------
(***************************************************************************)
(* A VersionEdit is filled, encoded as a record of the manifest and decoded *)
(* into a fresh one, as VersionSet::Recover() does, whole or cut short.     *)
(* Numbers are varints: bytes of GroupBits bits (7 in the code) and a flag  *)
(* for more.  An item of an edit is [tag, fields]; Shape gives the fields.  *)
(***************************************************************************)
EXTENDS Integers, Sequences, FiniteSets, SequencesExt

CONSTANTS GroupBits,    \* bits of a number in one byte
          W32, W64,     \* the widths of uint32_t and uint64_t
          Numbers,      \* file, log and sequence numbers and file sizes
          NumLevels,    \* config::kNumLevels
          Levels,       \* levels an edit may name
          Slices,       \* comparator names and internal keys, sequences of bytes
          MaxItems      \* bound on the items of an edit

VARIABLES edit,     \* the edit: the items set so far
          rec,      \* its record, once encoded
          cut,      \* how many bytes of the record are left
          got       \* what DecodeFrom() made of them: [ok, items]
vars == <<edit, rec, cut, got>>

-----------------------------------------------------------------------------
\* coding.cc

B == 2^GroupBits

RECURSIVE PutVarint(_)
PutVarint(v) == IF v >= B THEN <<(v % B) + B>> \o PutVarint(v \div B) ELSE <<v>>
PutLengthPrefixedSlice(s) == PutVarint(Len(s)) \o s

\* The most bytes of a varint of w bits.
MaxBytes(w) == (w + GroupBits - 1) \div GroupBits
Failure == [ok |-> FALSE, v |-> 0, rest |-> <<>>]

RECURSIVE GetVarintAt(_, _, _, _)
GetVarintAt(input, n, w, result) ==
    IF n > MaxBytes(w) \/ n > Len(input) THEN Failure
    ELSE LET v == (result + (input[n] % B) * 2^(GroupBits * (n - 1))) % 2^w
         IN IF input[n] >= B THEN GetVarintAt(input, n + 1, w, v)
            ELSE [ok |-> TRUE, v |-> v, rest |-> SubSeq(input, n + 1, Len(input))]
GetVarint32(input) == GetVarintAt(input, 1, W32, 0)
GetVarint64(input) == GetVarintAt(input, 1, W64, 0)
GetLengthPrefixedSlice(input) ==
    LET len == GetVarint32(input)
    IN IF len.ok /\ Len(len.rest) >= len.v
       THEN [ok |-> TRUE, v |-> SubSeq(len.rest, 1, len.v), rest |-> SubSeq(len.rest, len.v + 1, Len(len.rest))]
       ELSE Failure

ValidLevel(l) == l < NumLevels

GetLevel(input) == LET l == GetVarint32(input) IN IF l.ok /\ ValidLevel(l.v) THEN l ELSE Failure

-----------------------------------------------------------------------------
\* VersionEdit

Singles == {2, 3, 4, 9}     \* kLogNumber, kNextFileNumber, kLastSequence, kPrevLogNumber
Tags == {1, 5, 6, 7} \cup Singles
Shape(tag) ==
    CASE tag \in Singles -> <<"number">>
      [] tag = 1 -> <<"slice">>                                             \* kComparator
      [] tag = 5 -> <<"level", "slice">>                                    \* kCompactPointer
      [] tag = 6 -> <<"level", "number">>                                   \* kDeletedFile
      [] tag = 7 -> <<"level", "number", "number", "slice", "slice">>       \* kNewFile

PutField(kind, v) == IF kind = "slice" THEN PutLengthPrefixedSlice(v) ELSE PutVarint(v)
PutItem(item) == PutVarint(item.tag) \o FlattenSeq([i \in DOMAIN item.fields |-> PutField(Shape(item.tag)[i], item.fields[i])])

\* Deleted files are a set of pairs and come out in order.
Pairs(items) == {item \in ToSet(items) : item.tag = 6}
PairBefore(a, b) == a.fields[1] < b.fields[1] \/ (a.fields[1] = b.fields[1] /\ a.fields[2] <= b.fields[2])
Of(tag) == SelectSeq(edit, LAMBDA item : item.tag = tag)
InOrder == Of(1) \o Of(2) \o Of(9) \o Of(3) \o Of(4) \o Of(5) \o SetToSortSeq(Pairs(edit), PairBefore) \o Of(7)

GetField(kind, input) ==
    CASE kind = "slice" -> GetLengthPrefixedSlice(input) [] kind = "level" -> GetLevel(input) [] OTHER -> GetVarint64(input)
RECURSIVE GetFields(_, _, _)
GetFields(shape, input, fields) ==
    IF shape = <<>> THEN [ok |-> TRUE, v |-> fields, rest |-> input]
    ELSE LET f == GetField(Head(shape), input) IN IF f.ok THEN GetFields(Tail(shape), f.rest, Append(fields, f.v)) ELSE Failure

\* Mutant: what is left when no tag can be read is not looked at.
AnyEnd(input) == TRUE

CleanEnd(input) == input = <<>>

RECURSIVE DecodeItems(_, _)
DecodeItems(input, items) ==
    LET tag == GetVarint32(input)
    IN IF ~tag.ok THEN [ok |-> CleanEnd(input), items |-> items]
       ELSE IF tag.v \notin Tags THEN [ok |-> FALSE, items |-> items]
       ELSE LET fs == GetFields(Shape(tag.v), tag.rest, <<>>)
            IN IF fs.ok THEN DecodeItems(fs.rest, Append(items, [tag |-> tag.v, fields |-> fs.v])) ELSE [ok |-> FALSE, items |-> items]

NotYet == [ok |-> FALSE, items |-> <<>>]
Init == edit = <<>> /\ rec = <<>> /\ cut = -1 /\ got = NotYet
Item(tag, fields) == [tag |-> tag, fields |-> fields]
Filling == cut = -1 /\ Len(edit) < MaxItems
Add(item) == Filling /\ edit' = Append(edit, item) /\ UNCHANGED <<rec, cut, got>>

\* The setters of single fields overwrite, an insertion into the set of deleted
\* files that is there already changes nothing.
Set(item) ==
    /\ Filling
    /\ edit' = Append(SelectSeq(edit, LAMBDA i : i.tag # item.tag), item)
    /\ UNCHANGED <<rec, cut, got>>
SetNumber == \E tag \in Singles, n \in Numbers : Set(Item(tag, <<n>>))
SetComparatorName == \E s \in Slices : Set(Item(1, <<s>>))
SetCompactPointer == \E l \in Levels, s \in Slices : Add(Item(5, <<l, s>>))
DeleteFile == \E l \in Levels, n \in Numbers : Item(6, <<l, n>>) \notin ToSet(edit) /\ Add(Item(6, <<l, n>>))
AddFile == \E l \in Levels, n, size \in Numbers, s, t \in Slices : Add(Item(7, <<l, n, size, s, t>>))

EncodeTo ==
    /\ cut = -1
    /\ rec' = FlattenSeq([i \in DOMAIN InOrder |-> PutItem(InOrder[i])])
    /\ cut' \in 0 .. Len(rec')
    /\ UNCHANGED <<edit, got>>
DecodeFrom ==
    /\ cut # -1 /\ got = NotYet
    /\ got' = DecodeItems(SubSeq(rec, 1, cut), <<>>)
    /\ UNCHANGED <<edit, rec, cut>>

Next == SetNumber \/ SetComparatorName \/ SetCompactPointer \/ DeleteFile \/ AddFile \/ EncodeTo \/ DecodeFrom
Spec == Init /\ [][Next]_vars

-----------------------------------------------------------------------------
\* A record that was written whole is decoded to the edit it was made from.
RoundTrip == (got # NotYet /\ cut = Len(rec)) => got.ok /\ got.items = InOrder

\* A record cut short is an error unless the cut lies between two items, and what
\* was decoded are the first items of the edit: nothing is made up from a part of
\* an item, not even a shorter number.
CutIsSeen ==
    got # NotYet =>
      /\ got.items = SubSeq(InOrder, 1, Len(got.items))
      /\ got.ok <=> Len(FlattenSeq([i \in DOMAIN got.items |-> PutItem(got.items[i])])) = cut
===============================================================================
