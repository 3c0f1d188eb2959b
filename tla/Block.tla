-------------------------------- MODULE Block --------------------------------
(***************************************************************************)
(* BlockBuilder and Block::Iter: keys are added in order, prefixes that     *)
(* they share with the key before are left out except at restart points,    *)
(* and an iterator finds its way with the restart points only.  A key is a  *)
(* short sequence of characters.  Offsets in the block are numbers of       *)
(* entries, 0 the first; the values of entries are not looked at.           *)
(***************************************************************************)
EXTENDS Naturals, Sequences, FiniteSets, SequencesExt, FiniteSetsExt

CONSTANTS Chars, MaxLength,     \* characters, and the bound on the length of a key
          MaxEntries,           \* bound on the entries of a block
          Interval,             \* options.block_restart_interval
          Damage                \* may one entry be damaged before it is read?

VARIABLES b,        \* the builder: buffer_, restarts_, counter_, last_key_, finished_
          it,       \* the iterator
          added,    \* history: the keys
          expect,   \* where the iterator should be: an index of added, 0: not valid
          damaged
vars == <<b, it, added, expect, damaged>>

Keys == UNION {[1 .. n -> Chars] : n \in 0 .. MaxLength}

\* BytewiseComparator: memcmp(), then the length.
Shared(s, t) == Max({0} \cup {n \in 1 .. Min({Len(s), Len(t)}) : SubSeq(s, 1, n) = SubSeq(t, 1, n)})
Less(s, t) ==
    LET n == Shared(s, t)
    IN IF n < Len(s) /\ n < Len(t) THEN s[n + 1] < t[n + 1] ELSE Len(s) < Len(t)

N == Len(b.buffer)
NumRestarts == Len(b.restarts)
NoIter == [current |-> 0, next |-> 0, ri |-> 0, key |-> <<>>, ok |-> TRUE]
Invalid(i) == [i EXCEPT !.current = N, !.ri = NumRestarts]

Init ==
    /\ b = [buffer |-> <<>>, restarts |-> <<0>>, counter |-> 0, last_key |-> <<>>, finished |-> FALSE]
    /\ it = NoIter /\ added = <<>> /\ expect = 0 /\ damaged = FALSE

-----------------------------------------------------------------------------
\* BlockBuilder

\* How much of the key is left out.
SharedPart(key) == IF b.counter < Interval THEN Shared(b.last_key, key) ELSE 0

Add(key) ==
    /\ ~b.finished /\ N < MaxEntries
    /\ b.buffer = <<>> \/ Less(b.last_key, key)
    /\ LET shared == SharedPart(key)
           restart == b.counter >= Interval
       IN b' = [b EXCEPT !.buffer = Append(@, [shared |-> shared, delta |-> SubSeq(key, shared + 1, Len(key))]),
                         !.restarts = IF restart THEN Append(@, N) ELSE @,
                         !.counter = IF restart THEN 1 ELSE @ + 1,
                         !.last_key = key]
    /\ added' = Append(added, key)
    /\ UNCHANGED <<it, expect, damaged>>

\* Finish(), and NewIterator() of the block: not valid yet.
Finish ==
    /\ ~b.finished /\ N > 0
    /\ b' = [b EXCEPT !.finished = TRUE]
    /\ it' = [Invalid(NoIter) EXCEPT !.next = N]
    /\ UNCHANGED <<added, expect, damaged>>

\* The block is read back with an entry that shares more than there is.
DamageEntry ==
    /\ Damage /\ b.finished /\ ~damaged /\ it.current = N /\ it.ok
    /\ \E n \in 1 .. N : b' = [b EXCEPT !.buffer[n].shared = MaxLength + 1]
    /\ damaged' = TRUE
    /\ UNCHANGED <<it, added, expect>>

-----------------------------------------------------------------------------
\* Block::Iter

RestartPoint(i) == b.restarts[i + 1]

SeekToRestartPoint(i, index) == [i EXCEPT !.key = <<>>, !.ri = index, !.next = RestartPoint(index)]

\* Mutant: the iterator only becomes invalid.
SilentEnd(i) == [Invalid(i) EXCEPT !.key = <<>>, !.next = 0]

CorruptionError(i) == [Invalid(i) EXCEPT !.ok = FALSE, !.key = <<>>, !.next = 0]

\* The loop at the end of ParseNextKey().
RestartIndex(ri, current) ==
    Max({ri} \cup {j \in ri + 1 .. NumRestarts - 1 : \A h \in ri + 1 .. j : RestartPoint(h) < current})

WholeKey(key, e) == SubSeq(key, 1, e.shared) \o e.delta

ParseNextKey(i) ==
    LET at == i.next IN
    IF at >= N THEN Invalid([i EXCEPT !.next = N])
    ELSE LET e == b.buffer[at + 1] IN
         IF Len(i.key) < e.shared THEN CorruptionError(i)
         ELSE [i EXCEPT !.current = at, !.next = at + 1, !.key = WholeKey(i.key, e),
                        !.ri = RestartIndex(i.ri, at)]

Valid(i) == i.current < N

\* Loops of ParseNextKey(): while entries end before "stop", and until a key is
\* not less than target.
RECURSIVE ParseUntil(_, _)
ParseUntil(i, stop) ==
    LET j == ParseNextKey(i) IN IF Valid(j) /\ j.next < stop THEN ParseUntil(j, stop) ELSE j

RECURSIVE ParseTo(_, _)
ParseTo(i, target) ==
    LET j == ParseNextKey(i) IN IF Valid(j) /\ Less(j.key, target) THEN ParseTo(j, target) ELSE j

\* Mutant: the restart point at the entry itself will do.
RestartAt(i) == {j \in 0 .. i.ri : RestartPoint(j) <= i.current}

\* Prev() scans back to these restart points.
RestartBefore(i) == {j \in 0 .. i.ri : RestartPoint(j) < i.current}

PrevOf(i) ==
    IF RestartBefore(i) = {} THEN Invalid(i)
    ELSE ParseUntil(SeekToRestartPoint(i, Max(RestartBefore(i))), i.current)

Middle(left, right) == (left + right + 1) \div 2

RestartIsBefore(key, target) == Less(key, target)

\* The binary search of Seek(): a restart point, or none when one is damaged.
RECURSIVE BinarySearch(_, _, _)
BinarySearch(target, left, right) ==
    IF left >= right THEN {left}
    ELSE LET mid == Middle(left, right)
             e == b.buffer[RestartPoint(mid) + 1]
         IN IF e.shared # 0 THEN {}
            ELSE IF RestartIsBefore(e.delta, target) THEN BinarySearch(target, mid, right)
            ELSE BinarySearch(target, left, mid - 1)

SeekOf(i, target) ==
    LET found == BinarySearch(target, 0, NumRestarts - 1)
    IN IF found = {} THEN CorruptionError(i)
       ELSE ParseTo(SeekToRestartPoint(i, Max(found)), target)

\* Where the key that an operation should find is.
FirstNotBefore(target) == {n \in 1 .. N : ~Less(added[n], target)}
Step(i, e) == it' = i /\ expect' = e /\ UNCHANGED <<b, added, damaged>>

Seek(target) ==
    /\ b.finished
    /\ Step(SeekOf(it, target), IF FirstNotBefore(target) = {} THEN 0 ELSE Min(FirstNotBefore(target)))
SeekToFirst == b.finished /\ Step(ParseNextKey(SeekToRestartPoint(it, 0)), 1)
SeekToLast == b.finished /\ Step(ParseUntil(SeekToRestartPoint(it, NumRestarts - 1), N), N)
IterNext == b.finished /\ Valid(it) /\ Step(ParseNextKey(it), IF expect < N THEN expect + 1 ELSE 0)
IterPrev == b.finished /\ Valid(it) /\ Step(PrevOf(it), IF expect > 0 THEN expect - 1 ELSE 0)

Next ==
    \/ (\E key \in Keys : Add(key)) \/ Finish \/ DamageEntry
    \/ (\E target \in Keys : Seek(target)) \/ SeekToFirst \/ SeekToLast \/ IterNext \/ IterPrev
Spec == Init /\ [][Next]_vars

-----------------------------------------------------------------------------
\* Whatever Seek(), SeekToFirst(), SeekToLast(), Next() and Prev() are called in
\* which order, the iterator is at the entry it should be at, with its whole key,
\* and is not valid exactly when there is none.
IteratorExact ==
    (b.finished /\ ~damaged) =>
      /\ it.ok
      /\ IF expect = 0 THEN ~Valid(it) ELSE it.current = expect - 1 /\ it.key = added[expect]

\* The entry at a restart point holds its whole key, and no more than Interval
\* entries follow each other without one.
RestartsWhole ==
    ~damaged =>
      /\ \A i \in 1 .. NumRestarts : N > 0 => b.buffer[b.restarts[i] + 1].delta = added[b.restarts[i] + 1]
      /\ \A n \in 0 .. N - 1 : \E i \in 1 .. NumRestarts : b.restarts[i] <= n /\ n < b.restarts[i] + Interval

\* A valid iterator knows a restart point at or before its entry, the last or
\* the last but one, so that Prev() can start from there.
RestartIndexNear ==
    (b.finished /\ Valid(it)) =>
      /\ RestartPoint(it.ri) <= it.current
      /\ it.ri + 1 < NumRestarts => it.current <= RestartPoint(it.ri + 1)

\* A scan that ends before the last entry (or, backwards, before the first) was
\* ended by a damaged entry and leaves an error: it never looks complete.
EarlyEndIsError ==
    /\ (IterNext /\ ~Valid(it')) => (it.current = N - 1 \/ ~it'.ok)
    /\ (IterPrev /\ ~Valid(it')) => (it.current = 0 \/ ~it'.ok)
===============================================================================
