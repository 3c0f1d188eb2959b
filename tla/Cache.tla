-------------------------------- MODULE Cache --------------------------------
(***************************************************************************)
(* An LRUCache shard with its HandleTable, as TableCache uses it: threads   *)
(* find, open and release tables while tables are evicted and the cache is  *)
(* pruned.  Every call of the cache holds mutex_.  An entry is a number     *)
(* that malloc() gives; a freed number is given again.                      *)
(***************************************************************************)
EXTENDS Naturals, Sequences, FiniteSets, SequencesExt, FiniteSetsExt

CONSTANTS Keys, Hash,           \* file numbers and their hashes
          Threads, Capacity,
          InitialLength,        \* of the HandleTable: 4 in the code
          Charges               \* 1 for a table, the size for a block

VARIABLES c,      \* the cache: entries, list (oldest first), buckets, usage_
          pc,     \* the threads: what they do, for which key, with which handle
          deleted \* history: how often the deleter was called for each entry's value
vars == <<c, pc, deleted>>

\* Threads hold at most one handle each, and one entry is added before others go.
Entries == 1 .. Capacity + Cardinality(Threads) + 1
Free == [key |-> CHOOSE k \in Keys : TRUE, charge |-> 0, refs |-> 0]
Idle == [at |-> "idle", key |-> Free.key, h |-> 0]

Init ==
    /\ c = [ent |-> [e \in Entries |-> Free], lru |-> <<>>, table |-> [b \in 1 .. InitialLength |-> <<>>],
            usage |-> 0]
    /\ pc = [t \in Threads |-> Idle]
    /\ deleted = [e \in Entries |-> 1]

-----------------------------------------------------------------------------
\* HandleTable

Length(x) == Len(x.table)
Bucket(k, n) == (Hash[k] % n) + 1
Elems(x) == FoldLeft(LAMBDA n, b : n + Len(b), 0, x.table)

\* Mutant: hashes are compared, keys are not.
SameHash(x, e, k) == Hash[x.ent[e].key] = Hash[k]

Matches(x, e, k) == Hash[x.ent[e].key] = Hash[k] /\ x.ent[e].key = k

\* FindPointer(): the entry of k in its bucket, as a set of positions.
FindPointer(x, k) ==
    LET b == x.table[Bucket(k, Length(x))]
        hits == {i \in DOMAIN b : Matches(x, b[i], k)}
    IN IF hits = {} THEN {} ELSE {Min(hits)}

TableLookup(x, k) == {x.table[Bucket(k, Length(x))][i] : i \in FindPointer(x, k)}

NewBucket(x, e, n) == Bucket(x.ent[e].key, n)

RECURSIVE Doubled(_, _)
Doubled(n, elems) == IF n < elems THEN Doubled(2 * n, elems) ELSE n

\* Resize(): each entry is pushed on the front of its new bucket.
Resize(x) ==
    LET n == Doubled(InitialLength, Elems(x))
        all == FoldLeft(\o, <<>>, x.table)
    IN [x EXCEPT !.table = FoldLeft(LAMBDA t, e : [t EXCEPT ![NewBucket(x, e, n)] = <<e>> \o @],
                                    [b \in 1 .. n |-> <<>>], all)]

TableInsert(x, e) ==
    LET k == x.ent[e].key
        b == Bucket(k, Length(x))
        at == FindPointer(x, k)
        y == [x EXCEPT !.table[b] = IF at = {} THEN Append(@, e) ELSE [@ EXCEPT ![Min(at)] = e]]
    IN IF at = {} /\ Elems(y) > Length(y) THEN Resize(y) ELSE y

TableRemove(x, k) ==
    LET b == Bucket(k, Length(x)) IN
    [x EXCEPT !.table[b] = IF FindPointer(x, k) = {} THEN @ ELSE RemoveAt(@, Min(FindPointer(x, k)))]

-----------------------------------------------------------------------------
\* LRUCache

\* Unref(); the deleter runs when refs becomes 0.
Unref(x, e) == [x EXCEPT !.ent[e].refs = @ - 1,
                         !.usage = IF x.ent[e].refs = 1 THEN @ - x.ent[e].charge ELSE @]

LRU_Remove(x, e) == [x EXCEPT !.lru = SelectSeq(@, LAMBDA a : a # e)]
LRU_Append(x, e) == [x EXCEPT !.lru = Append(@, e)]

Ref(x, e) == [x EXCEPT !.ent[e].refs = @ + 1]

\* Lookup() of an entry that is there.
Used(x, e) == LRU_Append(LRU_Remove(Ref(x, e), e), e)

TooMuch(x) == x.usage > Capacity

\* The last loop of Insert(): the oldest go, those in use too.
RECURSIVE EvictOldest(_)
EvictOldest(x) ==
    IF TooMuch(x) /\ x.lru # <<>>
    THEN LET e == Head(x.lru) IN EvictOldest(Unref(TableRemove(LRU_Remove(x, e), x.ent[e].key), e))
    ELSE x

\* Insert(): refs is 2, one of the cache and one of the handle.
Insert(x, e, k, charge) ==
    LET new == LRU_Append([x EXCEPT !.ent[e] = [key |-> k, charge |-> charge, refs |-> 2],
                                    !.usage = @ + charge], e)
        old == TableLookup(x, k)
        y == TableInsert(new, e)
        z == IF old = {} THEN y ELSE LET o == Min(old) IN Unref(LRU_Remove(y, o), o)
    IN EvictOldest(z)

Erase(x, k) ==
    LET e == TableLookup(x, k)
    IN IF e = {} THEN x ELSE Unref(LRU_Remove(TableRemove(x, k), Min(e)), Min(e))

\* Prune() of one entry of the list.
PruneEntry(x, e) == IF x.ent[e].refs = 1 THEN Unref(LRU_Remove(TableRemove(x, x.ent[e].key), e), e) ELSE x

Prune(x) == FoldLeft(PruneEntry, x, x.lru)

-----------------------------------------------------------------------------
\* Entries whose last reference a step dropped were given to the deleter.
Deleted(x, y) == {e \in Entries : x.ent[e].refs > 0 /\ y.ent[e].refs = 0}
Becomes(x) ==
    /\ c' = x
    /\ deleted' = [e \in Entries |-> IF e \in Deleted(c, x) THEN deleted[e] + 1 ELSE deleted[e]]

\* FindTable(): Lookup() hits, and the table is used,
Hit(t, k) ==
    /\ pc[t].at = "idle" /\ TableLookup(c, k) # {}
    /\ LET e == Min(TableLookup(c, k)) IN
       /\ Becomes(Used(c, e))
       /\ pc' = [pc EXCEPT ![t] = [at |-> "using", key |-> k, h |-> e]]

\* or misses, and the file is opened without mutex_:
Miss(t, k) ==
    /\ pc[t].at = "idle" /\ TableLookup(c, k) = {}
    /\ pc' = [pc EXCEPT ![t] = [at |-> "open", key |-> k, h |-> 0]]
    /\ UNCHANGED <<c, deleted>>

\* an error is not cached,
OpenFails(t) ==
    /\ pc[t].at = "open"
    /\ pc' = [pc EXCEPT ![t] = Idle]
    /\ UNCHANGED <<c, deleted>>

\* a table is inserted, whoever has inserted the same meanwhile.
InsertTable(t, charge) ==
    /\ pc[t].at = "open"
    /\ LET e == Min({f \in Entries : c.ent[f].refs = 0})
           x == Insert(c, e, pc[t].key, charge)
       IN /\ c' = x
          /\ deleted' = [f \in Entries |-> IF f = e THEN 0
                                           ELSE IF f \in Deleted(c, x) THEN deleted[f] + 1 ELSE deleted[f]]
          /\ pc' = [pc EXCEPT ![t].at = "using", ![t].h = e]

\* Get() or an iterator is done with the table.
Release(t) ==
    /\ pc[t].at = "using"
    /\ Becomes(Unref(c, pc[t].h))
    /\ pc' = [pc EXCEPT ![t] = Idle]

Evict(k) == Becomes(Erase(c, k)) /\ UNCHANGED pc
PruneAll == Becomes(Prune(c)) /\ UNCHANGED pc

Next ==
    \/ \E t \in Threads : OpenFails(t) \/ Release(t) \/ (\E k \in Keys : Hit(t, k) \/ Miss(t, k))
                          \/ \E charge \in Charges : InsertTable(t, charge)
    \/ (\E k \in Keys : Evict(k)) \/ PruneAll
Spec == Init /\ [][Next]_vars

-----------------------------------------------------------------------------
Holders(e) == {t \in Threads : pc[t].h = e}
Live == {e \in Entries : c.ent[e].refs > 0}

\* A handle stays good until it is released: its entry is of the key that was
\* asked for and its table was not deleted, although it may have been evicted,
\* erased, pruned or replaced meanwhile.
HandleIsGood ==
    \A t \in Threads : pc[t].at = "using" =>
      pc[t].h \in Live /\ c.ent[pc[t].h].key = pc[t].key /\ deleted[pc[t].h] = 0

\* References are counted exactly: one for the list, one for each handle; so
\* every table is deleted once, when the last of them goes.
RefsExact ==
    \A e \in Entries :
      /\ c.ent[e].refs = Cardinality(Holders(e)) + (IF e \in ToSet(c.lru) THEN 1 ELSE 0)
      /\ deleted[e] = IF e \in Live THEN 0 ELSE 1

\* usage_ is the charge of all entries that still exist, and it is above the
\* capacity only when the cache itself keeps nothing.
UsageBounded ==
    /\ c.usage = MapThenSumSet(LAMBDA e : c.ent[e].charge, Live)
    /\ c.usage > Capacity => c.lru = <<>>

\* The list and the hash table hold the same entries, each once, one for a key,
\* and Lookup() finds every one of them after any Resize().
TableMatchesList ==
    /\ Elems(c) = Len(c.lru) /\ Cardinality(ToSet(c.lru)) = Len(c.lru)
    /\ \A e \in ToSet(c.lru) : TableLookup(c, c.ent[e].key) = {e}
===============================================================================
