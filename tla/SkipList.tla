------------------------------- MODULE SkipList ------------------------------
(***************************************************************************)
(* The skip list of a MemTable: one writer at a time, readers without any   *)
(* lock.  Nodes are their keys, 1 .. Keys; 0 is head_ and Null sorts after  *)
(* all keys.  A link of a node that was not written yet is Garbage.  Every  *)
(* load of a link is a step of a reader.                                    *)
(***************************************************************************)
EXTENDS Naturals, FiniteSets, FiniteSetsExt

CONSTANTS Keys, MaxHeight, Readers, MaxOps    \* MaxOps: bound on the operations of a reader

VARIABLES next,        \* next[level][node]
          max_height, height,
          w,           \* the writer: the key it inserts, the level it is at, prev[]
          r, ops       \* the readers, and how many operations they have begun
vars == <<next, max_height, height, w, r, ops>>

Null == Keys + 1
Garbage == Keys + 2
Levels == 0 .. MaxHeight - 1
NoInsert == [pc |-> "idle", key |-> 0, level |-> 0, prev |-> [l \in Levels |-> 0]]
NoOp == [op |-> "none", key |-> 0, x |-> 0, level |-> 0, start |-> {}]

Init ==
    /\ next = [l \in Levels |-> [n \in 0 .. Keys |-> IF n = 0 THEN Null ELSE Garbage]]
    /\ max_height = 1 /\ height = [n \in 1 .. Keys |-> 0]
    /\ w = NoInsert /\ r = [i \in Readers |-> NoOp] /\ ops = [i \in Readers |-> 0]

\* Node::Next()
NextOf(n, l) == next[l][n]

\* RandomHeight()
RandomHeights == 1 .. MaxHeight

\* The keys that can be reached: a node is in the list once level 0 leads to it.
In(nx) == {k \in 1 .. Keys : \E n \in 0 .. Keys : nx[0][n] = k}

\* FindGreaterOrEqual(key, prev) of the writer, which nobody disturbs.
Before(l, key) == Max({0} \cup {n \in In(next) : height[n] > l /\ n < key})

\* Insert() up to NewNode(): prev[] is head_ above max_height_.
InsertStart(key, h) ==
    /\ w.pc = "idle" /\ key \notin In(next) /\ height[key] = 0
    /\ w' = [pc |-> "link", key |-> key, level |-> 0,
             prev |-> [l \in Levels |-> IF l < max_height THEN Before(l, key) ELSE 0]]
    /\ height' = [height EXCEPT ![key] = h]
    /\ max_height' = Max({max_height, h})
    /\ UNCHANGED <<next, r, ops>>

\* Mutant: the link of the new node is left out.
NotLinked(l) == next[l][w.key]

LinkValue(l) == next[l][w.prev[l]]

\* x->NoBarrier_SetNext(i, prev[i]->NoBarrier_Next(i))
Link ==
    /\ w.pc = "link"
    /\ next' = [next EXCEPT ![w.level][w.key] = LinkValue(w.level)]
    /\ w' = [w EXCEPT !.pc = "publish"]
    /\ UNCHANGED <<max_height, height, r, ops>>

\* Mutant: the node after the last one is lost.
PublishAtHead(l) == 0

PublishedFrom(l) == w.prev[l]

\* prev[i]->SetNext(i, x)
Publish ==
    /\ w.pc = "publish"
    /\ next' = [next EXCEPT ![w.level][PublishedFrom(w.level)] = w.key]
    /\ w' = IF w.level + 1 < height[w.key] THEN [w EXCEPT !.pc = "link", !.level = @ + 1] ELSE NoInsert
    /\ UNCHANGED <<max_height, height, r, ops>>

\* A reader begins: Seek(key), Prev() from key, SeekToLast().  It reads some
\* value max_height_ has had.
Begin(i, op, key, h) ==
    /\ r[i].op = "none" /\ ops[i] < MaxOps
    /\ op = "prev" => key \in In(next)          \* an iterator was there
    /\ op = "last" => key = 1
    /\ r' = [r EXCEPT ![i] = [op |-> op, key |-> key, x |-> 0, level |-> h - 1, start |-> In(next)]]
    /\ ops' = [ops EXCEPT ![i] = @ + 1]
    /\ UNCHANGED <<next, max_height, height, w>>

\* Does the search go on along this level?  KeyIsAfterNode() for a seek.
KeepSearching(op, key, n) ==
    CASE op = "seek" -> n # Null /\ n < key
      [] op = "prev" -> n # Null /\ n < key
      [] op = "last" -> n # Null

LevelBelow(l) == l - 1

\* One turn of the loops of FindGreaterOrEqual(), FindLessThan(), FindLast().
Search(i) ==
    /\ r[i].op \in {"seek", "prev", "last"}
    /\ LET n == NextOf(r[i].x, r[i].level) IN
       \/ KeepSearching(r[i].op, r[i].key, n) /\ r' = [r EXCEPT ![i].x = n]
       \/ /\ ~KeepSearching(r[i].op, r[i].key, n) /\ r[i].level > 0
          /\ r' = [r EXCEPT ![i].level = LevelBelow(@)]
       \/ /\ ~KeepSearching(r[i].op, r[i].key, n) /\ r[i].level = 0
          /\ r' = [r EXCEPT ![i].x = IF r[i].op = "seek" THEN n ELSE @,
                            ![i].op = CASE r[i].op = "seek" -> "found" [] r[i].op = "prev" -> "before"
                                        [] r[i].op = "last" -> "end"]
    /\ UNCHANGED <<next, max_height, height, w, ops>>

\* Next() of an iterator that is at a node; SeekToFirst() is Next() of head_.
\* Otherwise the operation is over.
IterNext(i) ==
    /\ r[i].op \in {"found", "before"} /\ r[i].x # Null
    /\ r' = [r EXCEPT ![i] = [op |-> "found", key |-> r[i].x + 1, x |-> NextOf(r[i].x, 0), level |-> 0,
                              start |-> In(next)]]
    /\ UNCHANGED <<next, max_height, height, w, ops>>

End(i) ==
    /\ r[i].op \in {"found", "before", "end"}
    /\ r' = [r EXCEPT ![i] = NoOp]
    /\ UNCHANGED <<next, max_height, height, w, ops>>

Rest == w.pc = "idle" /\ (\A i \in Readers : r[i].op = "none" /\ ops[i] = MaxOps)
        /\ In(next) = 1 .. Keys /\ UNCHANGED vars

Next ==
    \/ \E key \in 1 .. Keys, h \in RandomHeights : InsertStart(key, h)
    \/ Link \/ Publish \/ Rest
    \/ \E i \in Readers :
         \/ \E op \in {"seek", "prev", "last"}, key \in 1 .. Keys, h \in 1 .. max_height : Begin(i, op, key, h)
         \/ Search(i) \/ IterNext(i) \/ End(i)

Spec == Init /\ [][Next]_vars

-----------------------------------------------------------------------------
\* A reader never loads a link that was not written: a node is published on a
\* level after its link there, and from the bottom up.
NoGarbage == \A i \in Readers : r[i].x # Garbage /\ (r[i].x \in 1 .. Keys => next[r[i].level][r[i].x] # Garbage)

\* The list is a sorted list on every level, and the nodes of a level are all
\* in the level below.
Sorted ==
    \A l \in Levels, n \in {0} \cup In(next) :
      next[l][n] \in In(next) => next[l][n] > n

\* Seek() and Next() stop at the first key that is not before the target:
\* at one that is in the list, and past none that was there when they began.
SeekIsExact ==
    \A i \in Readers : r[i].op = "found" =>
      /\ r[i].x >= r[i].key /\ (r[i].x # Null => r[i].x \in In(next))
      /\ ~\E k \in r[i].start : r[i].key <= k /\ k < r[i].x

\* Prev() stops right before the key it came from, SeekToLast() at the last one.
PrevIsExact ==
    \A i \in Readers :
      /\ r[i].op = "before" => r[i].x < r[i].key /\ ~\E k \in r[i].start : r[i].x < k /\ k < r[i].key
      /\ r[i].op = "end" => \A k \in r[i].start : k <= r[i].x

\* What a reader that takes no lock may rely on, at any moment of an insertion.
ListRight == NoGarbage /\ Sorted /\ SeekIsExact /\ PrevIsExact

\* What is in the list stays in it.
OnlyGrows == In(next) \subseteq In(next')

\* A search must end, whatever the writer does meanwhile.
Called(i) == r[i].op \in {"seek", "prev", "last"}
Returned(i) == r[i].op \in {"found", "before", "end"}
===============================================================================
