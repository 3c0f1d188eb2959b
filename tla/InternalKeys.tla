---------------------------- MODULE InternalKeys -----------------------------
(***************************************************************************)
(* The order of the database's keys and the two shortenings of a key that   *)
(* index blocks use: BytewiseComparator on user keys, a user key being a    *)
(* sequence of bytes 0 .. Top, and InternalKeyComparator on internal keys   *)
(* [u, s] (user key, sequence number; the larger number comes first).       *)
(***************************************************************************)
EXTENDS Naturals, Sequences, FiniteSetsExt

CONSTANTS Top,      \* the largest byte, 0xff
          MaxSeq    \* kMaxSequenceNumber
\* Where two keys differ first: the length of their common prefix.
DiffIndex(a, b) ==
    Max({0} \cup {n \in 1 .. Min({Len(a), Len(b)}) : SubSeq(a, 1, n) = SubSeq(b, 1, n)})
UserLess(a, b) ==
    LET n == DiffIndex(a, b)
    IN IF n < Len(a) /\ n < Len(b) THEN a[n + 1] < b[n + 1] ELSE Len(a) < Len(b)

\* Mutant: the byte that differs is counted up even if it then equals limit's.
UpToLimit(a, b, n) == n < Len(a) /\ n < Len(b) /\ a[n + 1] < Top /\ a[n + 1] < b[n + 1]

\* Is there a byte between the first two that differ?
CanShorten(a, b, n) == n < Len(a) /\ n < Len(b) /\ a[n + 1] < Top /\ a[n + 1] + 1 < b[n + 1]
CountUp(a, n) == Append(SubSeq(a, 1, n), a[n + 1] + 1)
UserSeparator(start, limit) ==
    LET n == DiffIndex(start, limit) IN IF CanShorten(start, limit, n) THEN CountUp(start, n) ELSE start
UserSuccessor(key) ==
    LET free == {i \in DOMAIN key : key[i] # Top} IN IF free = {} THEN key ELSE CountUp(key, Min(free) - 1)

Before(a, b) == UserLess(a.u, b.u) \/ (a.u = b.u /\ a.s > b.s)
NotBefore(a, b) == ~Before(a, b)

\* Only a user key that became shorter and larger is used, with the number that
\* comes first.
Shortened(key, tmp) == IF Len(tmp) < Len(key.u) /\ UserLess(key.u, tmp) THEN [u |-> tmp, s |-> MaxSeq] ELSE key
FindShortestSeparator(start, limit) == Shortened(start, UserSeparator(start.u, limit.u))
FindShortSuccessor(key) == Shortened(key, UserSuccessor(key.u))
===============================================================================
