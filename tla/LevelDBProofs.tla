---------------------------- MODULE LevelDBProofs ----------------------------
(***************************************************************************)
(* Theorems about what the threads of leveldb share: the skip list of a    *)
(* MemTable, for any number of keys, levels and readers (SkipList), the    *)
(* lock file of a database, for any number of threads, processes and       *)
(* inodes (FileLock), and the background thread of PosixEnv, for any       *)
(* number of work items (EnvThread).  MCConcurrent checks the same on      *)
(* small instances.                                                        *)
(***************************************************************************)
EXTENDS SkipList, Integers, SequenceTheorems, WellFoundedInduction, TLAPS

-------------------------------------------------------------------------------
(* SkipList *)

\* kMaxHeight is 12.
ListSetting == Keys \in Nat /\ MaxHeight \in Nat /\ MaxHeight > 0

\* A level whose links are nx and whose nodes are S: from the head and from every
\* node the link leads to the next node, or to the end when there is none.
Chain(nx, S) ==
    \A n \in Nat : n = 0 \/ n \in S =>
      /\ nx[n] \in Nat /\ n < nx[n] /\ (nx[n] \in S \/ nx[n] = Keys + 1)
      /\ \A k \in S : ~(n < k /\ k < nx[n])

\* A set of keys.
KeySet(S) == \A k \in S : k \in Nat /\ 0 < k /\ k <= Keys

\* p is the last node of S before key, or the head.
JustBefore(p, key, S) ==
    (p = 0 \/ p \in S) /\ p < key /\ \A k \in S : ~(p < k /\ k < key)

\* Lemma Splice: once a node k has its own link, the store that lets the node
\* before it point to k makes the level a chain with k: the step of Insert() that
\* publishes a node.
LEMMA Splice ==
    ASSUME NEW nx, NEW S, NEW p \in Nat, NEW k \in Nat, NEW v, Keys \in Nat,
           KeySet(S), Chain(nx, S), 0 < k, k <= Keys, k \notin S, JustBefore(p, k, S),
           nx[k] = nx[p], v[p] = k, \A n \in Nat : (n = 0 \/ n \in S \/ n = k) /\ n /= p => v[n] = nx[n]
    PROVE  Chain(v, S \cup {k})
<1>1. /\ nx[p] \in Nat /\ p < nx[p] /\ (nx[p] \in S \/ nx[p] = Keys + 1) /\ p < k
      /\ \A m \in S : ~(p < m /\ m < nx[p])
      /\ \A m \in S : ~(p < m /\ m < k)
      /\ \A m \in S : m \in Nat /\ 0 < m /\ m <= Keys
  BY DEF Chain, JustBefore, KeySet
<1>2. k < nx[p]
  BY <1>1
<1>3. SUFFICES ASSUME NEW n \in Nat, n = 0 \/ n \in S \/ n = k
               PROVE  /\ v[n] \in Nat /\ n < v[n] /\ (v[n] \in S \cup {k} \/ v[n] = Keys + 1)
                      /\ \A m \in S \cup {k} : ~(n < m /\ m < v[n])
  BY DEF Chain
<1>4. CASE n = p
  BY <1>1, <1>4
<1>5. CASE n = k
  <2>1. v[n] = nx[p]
    BY <1>1, <1>5
  <2>. QED
    BY <1>1, <1>2, <1>5, <2>1
<1>6. CASE n /= p /\ n /= k
  <2>1. v[n] = nx[n] /\ (n = 0 \/ n \in S)
    BY <1>3, <1>6
  <2>2. /\ nx[n] \in Nat /\ n < nx[n] /\ (nx[n] \in S \/ nx[n] = Keys + 1)
        /\ \A m \in S : ~(n < m /\ m < nx[n])
    BY <2>1 DEF Chain
  <2>3. ~(n < k /\ k < nx[n])
    <3>1. SUFFICES ASSUME n < k, k < nx[n] PROVE FALSE
      OBVIOUS
    <3>2. n < p
      BY <1>1, <1>6, <2>1, <3>1
    <3>3. p \in S
      BY <3>2 DEF JustBefore
    <3>. QED
      BY <1>1, <2>2, <3>1, <3>2, <3>3
  <2>. QED
    BY <2>1, <2>2, <2>3
<1>. QED
  BY <1>4, <1>5, <1>6

\* Lemma Largest: a set of numbers that are at most K, 0 among them, has a largest one.
LEMMA Largest ==
    ASSUME NEW K \in Nat, NEW S, 0 \in S, \A n \in S : n \in Nat /\ n <= K
    PROVE  \E m \in S : \A n \in S : m >= n
<1>1. PICK R : R = OpToRel(<, Nat)
  BY Zenon
<1>2. \A x, y \in Nat : <<x, y>> \in R <=> x < y
  BY <1>1 DEF OpToRel
<1>3. IsWellFoundedOn(R, Nat)
  BY <1>1, NatLessThanWellFounded, Zenon
<1>4. PICK T : T = {K - n : n \in S}
  BY Zenon
<1>5. T \subseteq Nat /\ T /= {}
  BY <1>4
<1>6. PICK x \in T : \A y \in T : ~(<<y, x>> \in R)
  BY <1>3, <1>5, WFMin, Zenon
<1>7. PICK m \in S : x = K - m
  BY <1>4
<1>8. ASSUME NEW n \in S PROVE m >= n
  <2>1. K - n \in T /\ K - n \in Nat /\ x \in Nat
    BY <1>4, <1>5
  <2>2. ~(K - n < x)
    BY <1>2, <1>6, <2>1, Zenon
  <2>. QED
    BY <1>7, <2>2
<1>. QED
  BY <1>8

\* The nodes that are on a level: all that are high enough, except that the node
\* being inserted is only on the levels it has been published on.
On(l) ==
    {n \in Nat : 0 < n /\ n <= Keys /\ height[n] > l
                 /\ ~(w.pc /= "idle" /\ n = w.key /\ w.level <= l)}

Nodes == 0 .. Keys
WriterLabels == {"idle", "link", "publish"}
ReaderLabels == {"none", "seek", "prev", "last", "found", "before", "end"}

ListTypes ==
    /\ next \in [Levels -> [Nodes -> Nat]]
    /\ max_height \in Nat /\ 0 < max_height /\ max_height <= MaxHeight
    /\ height \in [1 .. Keys -> Nat]
    /\ w \in [pc : WriterLabels, key : Nat, level : Nat, prev : [Levels -> Nat]]
    /\ r \in [Readers -> [op : ReaderLabels, key : Nat, x : Nat, level : Nat, start : SUBSET Nat]]

\* Every level is a chain of its nodes; a node that is not on a level has no link
\* there, but for the one whose link was just written; and no node is higher than
\* the list.
ListShape ==
    /\ \A l \in Levels : Chain(next[l], On(l))
    /\ \A l \in Levels, n \in Nat : 0 < n /\ n <= Keys /\ n \notin On(l) =>
         next[l][n] = Garbage
         \/ (w.pc = "publish" /\ n = w.key /\ l = w.level /\ next[l][n] = next[l][w.prev[l]])
    /\ In(next) = On(0)
    /\ \A n \in Nat : 0 < n /\ n <= Keys => height[n] <= max_height

\* The writer knows, for each level it has yet to publish its node on, the node it
\* comes right after.
WriterPlan ==
    w.pc /= "idle" =>
      /\ 0 < w.key /\ w.key <= Keys /\ w.level < height[w.key]
      /\ \A l \in Levels : w.level <= l /\ l < height[w.key] => JustBefore(w.prev[l], w.key, On(l))
      /\ w.pc = "publish" => next[w.level][w.key] = next[w.level][w.prev[w.level]]

\* A search stands on a node of its level, before its key; what it returns has
\* passed over no key that was there when it began.
Searching(q, lv, S) ==
    /\ q.level \in Levels
    /\ q.op \in {"seek", "prev", "last"} =>
         (q.x = 0 \/ q.x \in lv) /\ (q.op /= "last" => q.x < q.key /\ q.key <= Keys)
    /\ q.op \in {"found", "before", "end"} => q.level = 0
    /\ q.op = "found" =>
         (q.x = Keys + 1 \/ q.x \in S) /\ q.x >= q.key /\ \A k \in q.start : ~(q.key <= k /\ k < q.x)
    /\ q.op = "before" =>
         (q.x = 0 \/ q.x \in S) /\ q.x < q.key /\ \A k \in q.start : ~(q.x < k /\ k < q.key)
    /\ q.op = "end" => (q.x = 0 \/ q.x \in S) /\ \A k \in q.start : k <= q.x
    /\ q.op = "none" => q.x = 0

ReadersPlace == \A i \in Readers : r[i].start \subseteq On(0) /\ Searching(r[i], On(r[i].level), On(0))

ListInv == ListTypes /\ ListShape /\ WriterPlan /\ ReadersPlace

\* Lemma ListSets: what the sets of the model are.
LEMMA ListSets ==
    ASSUME ListSetting
    PROVE  /\ \A n \in Nat : n <= Keys <=> n \in Nodes
           /\ \A n \in Nat : 0 < n /\ n <= Keys <=> n \in 1 .. Keys
           /\ \A n \in Nodes : n \in Nat /\ n <= Keys
           /\ \A n \in 1 .. Keys : n \in Nat /\ n <= Keys /\ 0 < n /\ n \in Nodes
           /\ \A l \in Nat : l < MaxHeight <=> l \in Levels
           /\ \A l \in Levels : l \in Nat /\ l < MaxHeight
           /\ 0 \in Levels
BY DEF ListSetting, Nodes, Levels

\* Lemma ChainSame: a chain depends on the links of the head and of its nodes only.
LEMMA ChainSame ==
    ASSUME NEW nx, NEW v, NEW S, Chain(nx, S), \A n \in Nat : n = 0 \/ n \in S => v[n] = nx[n]
    PROVE  Chain(v, S)
BY DEF Chain

\* Lemma SearchKept: a search is not disturbed by nodes that are added.
LEMMA SearchKept ==
    ASSUME NEW q, NEW lv, NEW S, NEW lw, NEW T, lv \subseteq lw, S \subseteq T, Searching(q, lv, S)
    PROVE  Searching(q, lw, T)
BY Zenon DEF Searching

\* Lemma ReadersKept: the readers are where they may be as long as no node leaves a level.
LEMMA ReadersKept ==
    ASSUME ListSetting, ReadersPlace, r' = r, \A l \in Levels : On(l) \subseteq On(l)'
    PROVE  ReadersPlace'
<1>1. SUFFICES ASSUME NEW i \in Readers
               PROVE  r[i].start \subseteq On(0)' /\ Searching(r[i], On(r[i].level)', On(0)')
  BY DEF ReadersPlace
<1>2. PICK l \in Levels : l = r[i].level
  BY Zenon DEF ReadersPlace, Searching
<1>3. PICK q : q = r[i]
  OBVIOUS
<1>4. q.start \subseteq On(0) /\ Searching(q, On(l), On(0))
  BY <1>2, <1>3, Zenon DEF ReadersPlace
<1>5. On(0) \subseteq On(0)' /\ On(l) \subseteq On(l)'
  BY ListSets
<1>6. q.start \subseteq On(0)' /\ Searching(q, On(l)', On(0)')
  BY <1>4, <1>5, SearchKept, Zenon
<1>7. On(r[i].level)' = On(l)'
  BY <1>2 DEF On
<1>. QED
  BY <1>3, <1>6, <1>7

\* Lemma ListGrows: the keys in the list are the nodes of the lowest level.
LEMMA ListGrows ==
    ASSUME ListShape, ListShape', On(0) \subseteq On(0)'
    PROVE  OnlyGrows
<1>1. In(next) = On(0) /\ In(next') = On(0)'
  BY DEF ListShape
<1>. QED
  BY <1>1 DEF OnlyGrows

\* Lemma ListStart: the empty list.
LEMMA ListStart == ASSUME ListSetting, Init PROVE ListInv
<1>1. /\ \A l \in Levels : next[l] = [n \in Nodes |-> IF n = 0 THEN Keys + 1 ELSE Keys + 2]
      /\ \A l \in Levels, n \in Nodes : next[l][n] = IF n = 0 THEN Keys + 1 ELSE Keys + 2
      /\ \A n \in 1 .. Keys : height[n] = 0
      /\ w.pc = "idle" /\ max_height = 1
  BY DEF Init, NoInsert, Null, Garbage, Nodes
<1>2. ListTypes
  <2>1. next \in [Levels -> [Nodes -> Nat]]
    BY DEF Init, Null, Garbage, Nodes, ListSetting
  <2>2. w \in [pc : WriterLabels, key : Nat, level : Nat, prev : [Levels -> Nat]]
    BY DEF Init, NoInsert, WriterLabels
  <2>3. r \in [Readers -> [op : ReaderLabels, key : Nat, x : Nat, level : Nat, start : SUBSET Nat]]
    BY DEF Init, NoOp, ReaderLabels
  <2>. QED
    BY <2>1, <2>2, <2>3 DEF Init, ListTypes, ListSetting
<1>3. \A l \in Levels : On(l) = {}
  BY <1>1, ListSets DEF On
<1>4. ListShape
  <2>1. \A l \in Levels : Chain(next[l], On(l))
    <3>1. 0 \in Nodes
      BY DEF Nodes, ListSetting
    <3>. QED
      BY <1>1, <1>3, <3>1 DEF Chain, ListSetting
  <2>2. \A l \in Levels, n \in Nat : 0 < n /\ n <= Keys => next[l][n] = Garbage
    BY <1>1, ListSets DEF Garbage
  <2>3. In(next) = {}
    BY <1>1, ListSets DEF In, Nodes, ListSetting
  <2>4. On(0) = {}
    BY <1>3, ListSets
  <2>5. \A n \in Nat : 0 < n /\ n <= Keys => height[n] <= max_height
    BY <1>1, ListSets
  <2>. QED
    BY <2>1, <2>2, <2>3, <2>4, <2>5 DEF ListShape
<1>5. WriterPlan
  BY <1>1 DEF WriterPlan
<1>6. ReadersPlace
  <2>1. \A i \in Readers : r[i].op = "none" /\ r[i].x = 0 /\ r[i].level = 0 /\ r[i].start = {}
    BY DEF Init, NoOp
  <2>. QED
    BY <2>1, ListSets DEF ReadersPlace, Searching
<1>. QED
  BY <1>2, <1>4, <1>5, <1>6 DEF ListInv

\* Lemma FoundBefore: FindGreaterOrEqual() of the writer leaves the last node before
\* its key in prev[].
LEMMA FoundBefore ==
    ASSUME ListSetting, ListInv, w.pc = "idle", NEW l \in Levels, NEW k \in Nat, 0 < k, k <= Keys
    PROVE  Before(l, k) \in Nat /\ JustBefore(Before(l, k), k, On(l))
<1>1. PICK S : S = {0} \cup {n \in In(next) : height[n] > l /\ n < k}
  BY Zenon
<1>2. l \in Nat /\ Keys \in Nat /\ \A n \in Nat : 0 < n /\ n <= Keys => height[n] \in Nat
  BY ListSets, SMTT(30) DEF ListSetting, ListInv, ListTypes
<1>3. \A n : n \in On(l) <=> n \in On(0) /\ height[n] > l
  BY <1>2 DEF On
<1>4. S = {0} \cup {n \in On(l) : n < k}
  BY <1>1, <1>3 DEF ListInv, ListShape
<1>5. 0 \in S /\ \A n \in S : n \in Nat /\ n <= Keys
  BY <1>2, <1>4 DEF On
<1>6. \E m \in S : \A n \in S : m >= n
  BY <1>2, <1>5, Largest
<1>7. Before(l, k) = CHOOSE m \in S : \A n \in S : m >= n
  BY <1>1 DEF Before, Max
<1>8. Before(l, k) \in S /\ \A n \in S : Before(l, k) >= n
  BY <1>6, <1>7
<1>9. PICK b \in S : b = Before(l, k)
  BY <1>8
<1>10. b \in Nat /\ (\A n \in S : b >= n) /\ \A n \in On(l) : n \in Nat
  BY <1>5, <1>8, <1>9 DEF On
<1>11. JustBefore(b, k, On(l))
  BY <1>4, <1>9, <1>10 DEF JustBefore
<1>. QED
  BY <1>9, <1>10, <1>11

\* Lemma StartKeeps: Insert() up to NewNode() changes no level.
LEMMA StartKeeps ==
    ASSUME ListSetting, ListInv, NEW key \in 1 .. Keys, NEW h \in RandomHeights,
           InsertStart(key, h)
    PROVE  ListInv' /\ OnlyGrows
<1>1. /\ key \in Nat /\ 0 < key /\ key <= Keys /\ Keys \in Nat
      /\ h \in Nat /\ 0 < h /\ h <= MaxHeight /\ MaxHeight \in Nat
  BY ListSets DEF RandomHeights, ListSetting
<1>2. /\ w.pc = "idle" /\ height[key] = 0 /\ next' = next /\ r' = r
      /\ w'.pc = "link" /\ w'.key = key /\ w'.level = 0
      /\ w'.prev = [l \in Levels |-> IF l < max_height THEN Before(l, key) ELSE 0]
      /\ height' = [height EXCEPT ![key] = h] /\ max_height' = Max({max_height, h})
  BY DEF InsertStart
<1>3. /\ height' \in [1 .. Keys -> Nat] /\ height'[key] = h
      /\ \A n \in Nat : 0 < n /\ n <= Keys /\ n /= key => height'[n] = height[n]
      /\ \A n \in Nat : 0 < n /\ n <= Keys => height[n] \in Nat
  BY <1>1, <1>2, ListSets, SMTT(120) DEF ListInv, ListTypes
<1>4. max_height' \in Nat /\ max_height' >= max_height /\ max_height' >= h /\ max_height' <= MaxHeight
  <2>1. max_height \in Nat /\ max_height <= MaxHeight
    BY DEF ListInv, ListTypes
  <2>2. \E m \in {max_height, h} : \A n \in {max_height, h} : m >= n
    BY <1>1, <2>1
  <2>3. max_height' \in {max_height, h} /\ \A n \in {max_height, h} : max_height' >= n
    BY <1>2, <2>2 DEF Max
  <2>. QED
    BY <1>1, <2>1, <2>3
<1>5. ASSUME NEW l \in Levels PROVE On(l)' = On(l)
  <2>1. l \in Nat
    BY ListSets
  <2>2. key \notin On(l) /\ key \notin On(l)'
    BY <1>1, <1>2, <2>1 DEF On
  <2>3. ASSUME NEW n \in Nat, n /= key PROVE n \in On(l)' <=> n \in On(l)
    BY <1>2, <1>3, <2>3 DEF On
  <2>4. \A n \in On(l) : n \in Nat
    BY DEF On
  <2>5. \A n \in On(l)' : n \in Nat
    BY DEF On
  <2>. QED
    BY <2>2, <2>3, <2>4, <2>5
<1>6. ASSUME NEW l \in Levels PROVE w'.prev[l] \in Nat /\ JustBefore(w'.prev[l], key, On(l))
  <2>1. CASE l < max_height
    <3>1. w'.prev[l] = Before(l, key)
      BY <1>2, <2>1
    <3>2. Before(l, key) \in Nat /\ JustBefore(Before(l, key), key, On(l))
      BY <1>1, <1>2, FoundBefore
    <3>. QED
      BY <3>1, <3>2
  <2>2. CASE ~(l < max_height)
    <3>1. w'.prev[l] = 0
      BY <1>2, <2>2
    <3>2. On(l) = {}
      BY <1>3, <2>2, ListSets, SMTT(60) DEF ListInv, ListTypes, ListShape, On
    <3>. QED
      BY <1>1, <3>1, <3>2 DEF JustBefore
  <2>. QED
    BY <2>1, <2>2
<1>7. ListTypes'
  <2>1. w' = [pc |-> "link", key |-> key, level |-> 0, prev |-> w'.prev]
    BY DEF InsertStart
  <2>2. w'.prev \in [Levels -> Nat]
    BY <1>2, <1>6
  <2>3. w' \in [pc : WriterLabels, key : Nat, level : Nat, prev : [Levels -> Nat]]
    BY <1>1, <2>1, <2>2 DEF WriterLabels
  <2>. QED
    BY <1>2, <1>3, <1>4, <2>3 DEF ListInv, ListTypes
<1>8. ListShape'
  <2>1. \A l \in Levels : Chain(next'[l], On(l)')
    BY <1>2, <1>5 DEF ListInv, ListShape
  <2>2. \A l \in Levels, n \in Nat : 0 < n /\ n <= Keys /\ n \notin On(l)' => next'[l][n] = Garbage
    BY <1>2, <1>5 DEF ListInv, ListShape
  <2>3. In(next') = On(0)'
    BY <1>2, <1>5, ListSets DEF ListInv, ListShape
  <2>4. \A n \in Nat : 0 < n /\ n <= Keys => height'[n] <= max_height'
    BY <1>1, <1>3, <1>4, SMTT(30) DEF ListInv, ListShape, ListTypes
  <2>5. \A l \in Levels : Chain(next[l], On(l))'
    BY <2>1 DEF Chain
  <2>. QED
    BY <2>2, <2>3, <2>4, <2>5 DEF ListShape, Garbage
<1>9. WriterPlan'
  <2>1. \A l \in Levels : JustBefore(w.prev[l], w.key, On(l))'
    BY <1>2, <1>5, <1>6 DEF JustBefore
  <2>. QED
    BY <1>1, <1>2, <1>3, <2>1 DEF WriterPlan
<1>10. ReadersPlace'
  BY <1>2, <1>5, ReadersKept DEF ListInv
<1>11. OnlyGrows
  BY <1>2 DEF OnlyGrows
<1>. QED
  BY <1>7, <1>8, <1>9, <1>10, <1>11 DEF ListInv

\* Lemma AtWork: where the writer stands between its two stores on a level.
LEMMA AtWork ==
    ASSUME ListSetting, ListInv, w.pc /= "idle"
    PROVE  /\ w.key \in Nat /\ 0 < w.key /\ w.key <= Keys /\ w.key \in Nodes /\ Keys \in Nat
           /\ w.level \in Levels /\ w.level \in Nat /\ w.level < height[w.key] /\ height[w.key] \in Nat
           /\ w.prev[w.level] \in Nat /\ w.prev[w.level] \in Nodes
           /\ JustBefore(w.prev[w.level], w.key, On(w.level))
           /\ w.key \notin On(w.level)
<1>1. w.key \in Nat /\ w.level \in Nat /\ w.prev \in [Levels -> Nat] /\ MaxHeight \in Nat /\ Keys \in Nat
  BY DEF ListInv, ListTypes, ListSetting
<1>2. 0 < w.key /\ w.key <= Keys /\ w.level < height[w.key]
  BY DEF ListInv, WriterPlan
<1>3. w.key \in Nodes /\ height[w.key] \in Nat /\ height[w.key] <= MaxHeight
  BY <1>1, <1>2, ListSets, SMTT(60) DEF ListInv, ListTypes, ListShape
<1>4. w.level \in Levels
  BY <1>1, <1>2, <1>3, ListSets
<1>5. w.prev[w.level] \in Nat /\ JustBefore(w.prev[w.level], w.key, On(w.level))
  BY <1>1, <1>2, <1>4 DEF ListInv, WriterPlan
<1>6. w.prev[w.level] \in Nodes
  BY <1>1, <1>2, <1>5, ListSets DEF JustBefore
<1>7. w.key \notin On(w.level)
  BY <1>1 DEF On
<1>. QED
  BY <1>1, <1>2, <1>3, <1>4, <1>5, <1>6, <1>7

\* Lemma LinkKeeps: the new node's own link can be written before anybody sees it.
LEMMA LinkKeeps ==
    ASSUME ListSetting, ListInv, Link
    PROVE  ListInv' /\ OnlyGrows
<1>1. PICK lv \in Levels, k \in Nat, p \in Nat :
        lv = w.level /\ k = w.key /\ p = w.prev[w.level] /\ w.pc = "link"
  BY AtWork DEF Link
<1>2. /\ 0 < k /\ k <= Keys /\ k \in Nodes /\ p \in Nodes /\ p < k /\ k \notin On(lv) /\ Keys \in Nat
      /\ next \in [Levels -> [Nodes -> Nat]]
  BY <1>1, AtWork DEF JustBefore, ListInv, ListTypes
<1>3. PICK v \in Nat : v = next[lv][p]
  BY <1>2
<1>4. next' = [next EXCEPT ![lv][k] = v]
  BY <1>1, <1>3 DEF Link, LinkValue
<1>5. /\ next' \in [Levels -> [Nodes -> Nat]] /\ next'[lv][k] = v
      /\ \A l \in Levels, n \in Nodes : l /= lv \/ n /= k => next'[l][n] = next[l][n]
  BY <1>2, <1>4
<1>6. /\ w' = [w EXCEPT !.pc = "publish"] /\ height' = height /\ max_height' = max_height /\ r' = r
  BY DEF Link
<1>7. /\ w'.pc = "publish" /\ w'.key = k /\ w'.level = lv /\ w'.prev = w.prev
      /\ w' \in [pc : WriterLabels, key : Nat, level : Nat, prev : [Levels -> Nat]]
  BY <1>1, <1>6, SMTT(120) DEF ListInv, ListTypes, WriterLabels
<1>8. ASSUME NEW l \in Levels PROVE On(l)' = On(l)
  BY <1>1, <1>6, <1>7 DEF On
<1>9. ListTypes'
  BY <1>5, <1>6, <1>7, Zenon DEF ListInv, ListTypes
<1>10. ListShape'
  <2>1. ASSUME NEW l \in Levels PROVE Chain(next'[l], On(l))
    <3>1. Chain(next[l], On(l))
      BY DEF ListInv, ListShape
    <3>2. \A n \in Nat : n = 0 \/ n \in On(l) => n \in Nodes /\ (l /= lv \/ n /= k)
      BY <1>2, ListSets DEF On
    <3>3. \A n \in Nat : n = 0 \/ n \in On(l) => next'[l][n] = next[l][n]
      BY <1>5, <3>2
    <3>. QED
      BY <3>1, <3>3, ChainSame
  <2>2. \A l \in Levels : Chain(next[l], On(l))'
    BY <1>8, <2>1 DEF Chain
  <2>3. ASSUME NEW l \in Levels, NEW n \in Nat, 0 < n, n <= Keys, n \notin On(l)
        PROVE  next'[l][n] = Keys + 2 \/ (n = k /\ l = lv /\ next'[l][n] = next'[l][p])
    <3>1. n \in Nodes /\ next[l][n] = Keys + 2
      BY <1>1, <2>3, ListSets DEF ListInv, ListShape, Garbage
    <3>2. next'[lv][p] = v
      BY <1>2, <1>3, <1>5
    <3>. QED
      BY <1>5, <3>1, <3>2
  <2>4. In(next') = In(next)
    <3>1. CASE lv /= 0
      <4>1. \A n \in Nodes : next'[0][n] = next[0][n]
        BY <1>5, <3>1, ListSets
      <4>. QED
        BY <4>1 DEF In, Nodes
    <3>2. CASE lv = 0
      <4>1. next[0][k] = Keys + 2
        BY <1>1, <1>2, <3>2 DEF ListInv, ListShape, Garbage
      <4>2. ASSUME NEW m \in 1 .. Keys, NEW n \in Nodes, next'[0][n] = m
            PROVE  \E i \in Nodes : next[0][i] = m
        BY <1>2, <1>3, <1>5, <3>2, <4>2
      <4>3. ASSUME NEW m \in 1 .. Keys, NEW n \in Nodes, next[0][n] = m
            PROVE  \E i \in Nodes : next'[0][i] = m
        <5>1. n /= k
          BY <1>2, <4>1, <4>3, ListSets
        <5>. QED
          BY <1>5, <3>2, <4>3, <5>1
      <4>. QED
        BY <4>2, <4>3 DEF In, Nodes
    <3>. QED
      BY <3>1, <3>2
  <2>5. In(next') = On(0)'
    BY <1>8, <2>4, ListSets DEF ListInv, ListShape
  <2>6. \A l \in Levels, n \in Nat : 0 < n /\ n <= Keys /\ n \notin On(l)' =>
          next'[l][n] = Garbage
          \/ (w'.pc = "publish" /\ n = w'.key /\ l = w'.level /\ next'[l][n] = next'[l][w'.prev[l]])
    BY <1>1, <1>7, <1>8, <2>3 DEF Garbage
  <2>7. \A n \in Nat : 0 < n /\ n <= Keys => height'[n] <= max_height'
    BY <1>6 DEF ListInv, ListShape
  <2>. QED
    BY <2>2, <2>5, <2>6, <2>7 DEF ListShape, Garbage
<1>11. WriterPlan'
  <2>1. \A l \in Levels : lv <= l /\ l < height[k] => JustBefore(w.prev[l], k, On(l))
    BY <1>1 DEF ListInv, WriterPlan
  <2>2. \A l \in Levels : w'.level <= l /\ l < height'[w'.key] => JustBefore(w.prev[l], w.key, On(l))'
    BY <1>6, <1>7, <1>8, <2>1 DEF JustBefore
  <2>3. next'[lv][k] = next'[lv][p]
    BY <1>2, <1>3, <1>5
  <2>4. lv < height[k]
    BY <1>1, AtWork
  <2>. QED
    BY <1>1, <1>2, <1>6, <1>7, <2>2, <2>3, <2>4 DEF WriterPlan
<1>12. ReadersPlace'
  BY <1>6, <1>8, ReadersKept DEF ListInv
<1>13. ListInv'
  BY <1>9, <1>10, <1>11, <1>12 DEF ListInv
<1>14. OnlyGrows
  BY <1>8, <1>10, ListGrows, ListSets DEF ListInv
<1>. QED
  BY <1>13, <1>14

\* Lemma PublishKeeps: the store that lets the node before it point to the new node
\* puts it on that level, and on no other.
LEMMA PublishKeeps ==
    ASSUME ListSetting, ListInv, Publish
    PROVE  ListInv' /\ OnlyGrows
<1>1. PICK lv \in Levels, k \in Nat, p \in Nat :
        lv = w.level /\ k = w.key /\ p = w.prev[w.level] /\ w.pc = "publish"
  BY AtWork DEF Publish
<1>2. /\ 0 < k /\ k <= Keys /\ k \in Nodes /\ p \in Nodes /\ p < k /\ k \notin On(lv) /\ Keys \in Nat
      /\ next \in [Levels -> [Nodes -> Nat]] /\ lv \in Nat /\ lv < height[k] /\ height[k] \in Nat
      /\ JustBefore(p, k, On(lv)) /\ next[lv][k] = next[lv][p]
  BY <1>1, AtWork, ListSets, SMTT(120) DEF JustBefore, ListInv, ListTypes, WriterPlan
<1>3. next' = [next EXCEPT ![lv][p] = k]
  BY <1>1 DEF Publish, PublishedFrom
<1>4. /\ next' \in [Levels -> [Nodes -> Nat]] /\ next'[lv][p] = k
      /\ \A l \in Levels, n \in Nodes : l /= lv \/ n /= p => next'[l][n] = next[l][n]
  BY <1>2, <1>3
<1>5. /\ w' = IF lv + 1 < height[k] THEN [w EXCEPT !.pc = "link", !.level = lv + 1] ELSE NoInsert
      /\ height' = height /\ max_height' = max_height /\ r' = r
  BY <1>1 DEF Publish
<1>6. /\ w' \in [pc : WriterLabels, key : Nat, level : Nat, prev : [Levels -> Nat]]
      /\ \/ /\ w'.pc = "link" /\ w'.key = k /\ w'.level = lv + 1 /\ w'.prev = w.prev
            /\ lv + 1 < height[k]
         \/ w'.pc = "idle" /\ lv + 1 >= height[k]
  <2>1. CASE lv + 1 < height[k]
    <3>1. w' = [w EXCEPT !.pc = "link", !.level = lv + 1]
      BY <1>5, <2>1
    <3>2. w \in [pc : WriterLabels, key : Nat, level : Nat, prev : [Levels -> Nat]]
      BY DEF ListInv, ListTypes
    <3>3. "link" \in WriterLabels /\ lv + 1 \in Nat
      BY <1>2 DEF WriterLabels
    <3>4. w'.pc = "link" /\ w'.level = lv + 1 /\ w'.key = w.key /\ w'.prev = w.prev
      BY <3>1, <3>2
    <3>5. w' \in [pc : WriterLabels, key : Nat, level : Nat, prev : [Levels -> Nat]]
      BY <3>1, <3>2, <3>3, Zenon
    <3>. QED
      BY <1>1, <2>1, <3>4, <3>5
  <2>2. CASE ~(lv + 1 < height[k])
    BY <1>2, <1>5, <2>2 DEF NoInsert, WriterLabels
  <2>. QED
    BY <2>1, <2>2
<1>7. ASSUME NEW l \in Levels
      PROVE  On(l)' = IF l = lv THEN On(l) \cup {k} ELSE On(l)
  <2>1. l \in Nat /\ \A n \in Nat : 0 < n /\ n <= Keys => height[n] \in Nat
    BY ListSets DEF ListInv, ListTypes
  <2>2. k \in On(l)' <=> l = lv \/ k \in On(l)
    <3>1. k \in On(l) <=> height[k] > l /\ ~(lv <= l)
      BY <1>1, <1>2 DEF On
    <3>2. k \in On(l)' <=> height[k] > l /\ ~(w'.pc /= "idle" /\ k = w'.key /\ w'.level <= l)
      BY <1>2, <1>5 DEF On
    <3>3. CASE w'.pc = "idle" /\ lv + 1 >= height[k]
      BY <1>2, <2>1, <3>1, <3>2, <3>3
    <3>4. CASE w'.pc = "link" /\ w'.key = k /\ w'.level = lv + 1 /\ lv + 1 < height[k]
      BY <1>2, <2>1, <3>1, <3>2, <3>4
    <3>. QED
      BY <1>6, <3>3, <3>4
  <2>3. ASSUME NEW n \in Nat, n /= k PROVE n \in On(l)' <=> n \in On(l)
    BY <1>1, <1>5, <1>6, <2>3 DEF On
  <2>4. \A n \in On(l) : n \in Nat
    BY DEF On
  <2>5. \A n \in On(l)' : n \in Nat
    BY DEF On
  <2>. QED
    BY <2>2, <2>3, <2>4, <2>5
<1>8. ListTypes'
  BY <1>4, <1>5, <1>6 DEF ListInv, ListTypes
<1>9. ListShape'
  <2>1. ASSUME NEW l \in Levels PROVE Chain(next'[l], On(l)')
    <3>1. Chain(next[l], On(l)) /\ KeySet(On(l))
      BY DEF ListInv, ListShape, KeySet, On
    <3>2. \A n \in Nat : n = 0 \/ n \in On(l) => n \in Nodes
      BY <1>2, ListSets DEF On
    <3>3. CASE l = lv
      <4>1. \A n \in Nat : (n = 0 \/ n \in On(lv) \/ n = k) /\ n /= p => next'[lv][n] = next[lv][n]
        BY <1>2, <1>4, <3>2, <3>3
      <4>2. Chain(next'[lv], On(lv) \cup {k})
        BY <1>2, <1>4, <3>1, <3>3, <4>1, Splice
      <4>. QED
        BY <1>7, <3>3, <4>2
    <3>4. CASE l /= lv
      <4>1. \A n \in Nat : n = 0 \/ n \in On(l) => next'[l][n] = next[l][n]
        BY <1>4, <3>2, <3>4
      <4>. QED
        BY <1>7, <3>1, <3>4, <4>1, ChainSame
    <3>. QED
      BY <3>3, <3>4
  <2>2. \A l \in Levels : Chain(next[l], On(l))'
    BY <2>1 DEF Chain
  <2>3. ASSUME NEW l \in Levels, NEW n \in Nat, 0 < n, n <= Keys, n \notin On(l)'
        PROVE  next'[l][n] = Keys + 2
    <3>1. n \in Nodes /\ n \notin On(l) /\ ~(l = lv /\ n = k)
      BY <1>7, <2>3, ListSets
    <3>2. next[l][n] = Keys + 2
      BY <1>1, <2>3, <3>1 DEF ListInv, ListShape, Garbage
    <3>3. ~(l = lv /\ n = p)
      BY <1>2, <2>3, <3>1 DEF JustBefore
    <3>. QED
      BY <1>4, <3>1, <3>2, <3>3
  <2>4. In(next') = On(0)'
    <3>1. CASE lv /= 0
      <4>1. \A n \in Nodes : next'[0][n] = next[0][n]
        BY <1>4, <3>1, ListSets
      <4>2. In(next') = In(next)
        BY <4>1 DEF In, Nodes
      <4>. QED
        BY <1>7, <3>1, <4>2, ListSets DEF ListInv, ListShape
    <3>2. CASE lv = 0
      <4>1. ASSUME NEW m \in 1 .. Keys
            PROVE  (\E n \in Nodes : next'[0][n] = m) <=> m = k \/ \E n \in Nodes : next[0][n] = m
        <5>1. next'[0][p] = k /\ (\A n \in Nodes : n /= p => next'[0][n] = next[0][n]) /\ next[0][k] = next[0][p]
          BY <1>2, <1>4, <3>2
        <5>2. k \in Nodes /\ p \in Nodes /\ k /= p
          BY <1>2
        <5>. QED
          BY <5>1, <5>2
      <4>2. k \in 1 .. Keys
        BY <1>2, ListSets
      <4>3. In(next') = In(next) \cup {k}
        BY <4>1, <4>2 DEF In, Nodes
      <4>. QED
        BY <1>7, <3>2, <4>3, ListSets DEF ListInv, ListShape
    <3>. QED
      BY <3>1, <3>2
  <2>5. \A n \in Nat : 0 < n /\ n <= Keys => height'[n] <= max_height'
    BY <1>5 DEF ListInv, ListShape
  <2>. QED
    BY <2>2, <2>3, <2>4, <2>5 DEF ListShape, Garbage
<1>10. WriterPlan'
  <2>1. CASE w'.pc = "idle"
    BY <2>1 DEF WriterPlan
  <2>2. CASE w'.pc = "link" /\ w'.key = k /\ w'.level = lv + 1 /\ w'.prev = w.prev /\ lv + 1 < height[k]
    <3>1. \A l \in Levels : lv <= l /\ l < height[k] => JustBefore(w.prev[l], k, On(l))
      BY <1>1 DEF ListInv, WriterPlan
    <3>2. \A l \in Levels : lv + 1 <= l => lv <= l /\ l /= lv
      BY <1>2, ListSets
    <3>3. \A l \in Levels : w'.level <= l /\ l < height'[w'.key] => JustBefore(w.prev[l], w.key, On(l))'
      BY <1>5, <1>7, <2>2, <3>1, <3>2 DEF JustBefore
    <3>. QED
      BY <1>2, <1>5, <2>2, <3>3 DEF WriterPlan
  <2>. QED
    BY <1>6, <2>1, <2>2
<1>11. \A l \in Levels : On(l) \subseteq On(l)'
  BY <1>7
<1>12. ReadersPlace'
  BY <1>5, <1>11, ReadersKept DEF ListInv
<1>13. ListInv'
  BY <1>8, <1>9, <1>10, <1>12 DEF ListInv
<1>14. OnlyGrows
  BY <1>9, <1>11, ListGrows, ListSets DEF ListInv
<1>. QED
  BY <1>13, <1>14

Reader == [op : ReaderLabels, key : Nat, x : Nat, level : Nat, start : SUBSET Nat]

\* Lemma ReaderMoves: a reader's step leaves the list alone; it is enough to look at
\* where that reader is now.
LEMMA ReaderMoves ==
    ASSUME ListSetting, ListInv, NEW i \in Readers, NEW q \in Reader,
           next' = next, max_height' = max_height, height' = height, w' = w,
           r' = [r EXCEPT ![i] = q], q.start \subseteq On(0), Searching(q, On(q.level), On(0))
    PROVE  ListInv' /\ OnlyGrows
<1>1. ASSUME NEW l PROVE On(l)' = On(l)
  BY DEF On
<1>2. r \in [Readers -> Reader]
  BY DEF ListInv, ListTypes, Reader
<1>3. r' \in [Readers -> Reader] /\ r'[i] = q /\ \A j \in Readers : j /= i => r'[j] = r[j]
  BY <1>2
<1>4. ListTypes'
  BY <1>3 DEF ListInv, ListTypes, Reader
<1>5. ListShape'
  <2>1. \A l \in Levels : Chain(next[l], On(l))'
    BY <1>1 DEF ListInv, ListShape, Chain
  <2>. QED
    BY <1>1, <2>1 DEF ListInv, ListShape, Garbage
<1>6. WriterPlan'
  <2>1. \A l \in Levels : JustBefore(w.prev[l], w.key, On(l)) => JustBefore(w.prev[l], w.key, On(l))'
    BY <1>1 DEF JustBefore
  <2>. QED
    BY <2>1 DEF ListInv, WriterPlan
<1>7. ReadersPlace'
  <2>1. \A j \in Readers : r'[j].start \subseteq On(0) /\ Searching(r'[j], On(r'[j].level), On(0))
    BY <1>3 DEF ListInv, ReadersPlace
  <2>2. \A j \in Readers : On(r[j].level)' = On(r'[j].level)
    BY DEF On
  <2>. QED
    BY <1>1, <2>1, <2>2 DEF ReadersPlace, Searching
<1>. QED
  BY <1>4, <1>5, <1>6, <1>7 DEF ListInv, OnlyGrows

\* Lemma BeginKeeps: a search begins at the head of some level.
LEMMA BeginKeeps ==
    ASSUME ListSetting, ListInv, NEW i \in Readers, NEW op \in {"seek", "prev", "last"},
           NEW key \in 1 .. Keys, NEW h \in 1 .. max_height, Begin(i, op, key, h)
    PROVE  ListInv' /\ OnlyGrows
<1>1. PICK q : q = [op |-> op, key |-> key, x |-> 0, level |-> h - 1, start |-> In(next)]
  BY Zenon
<1>2. key \in Nat /\ 0 < key /\ key <= Keys
  BY ListSets
<1>3. h - 1 \in Nat /\ h - 1 \in Levels
  BY ListSets DEF ListInv, ListTypes, ListSetting
<1>4. In(next) = On(0) /\ On(0) \subseteq Nat
  BY DEF ListInv, ListShape, On
<1>5. q \in Reader
  BY <1>1, <1>2, <1>3, <1>4 DEF Reader, ReaderLabels
<1>6. q.start \subseteq On(0) /\ Searching(q, On(q.level), On(0))
  BY <1>1, <1>2, <1>3, <1>4 DEF Searching
<1>. QED
  BY <1>1, <1>5, <1>6, ReaderMoves, Zenon DEF Begin

\* Lemma LinkRead: the link a reader loads at a node of a level leads to the next one.
LEMMA LinkRead ==
    ASSUME ListSetting, ListInv, NEW l \in Levels, NEW x \in Nat, x = 0 \/ x \in On(l)
    PROVE  /\ next[l][x] \in Nat /\ x < next[l][x]
           /\ next[l][x] \in On(l) \/ next[l][x] = Keys + 1
           /\ \A k \in On(l) : ~(x < k /\ k < next[l][x])
BY DEF ListInv, ListShape, Chain

\* Lemma SearchKeeps: one turn of the loops of FindGreaterOrEqual(), FindLessThan()
\* and FindLast().
LEMMA SearchKeeps ==
    ASSUME ListSetting, ListInv, NEW i \in Readers, Search(i)
    PROVE  ListInv' /\ OnlyGrows
<1>1. PICK q \in Reader : q = r[i]
  BY DEF ListInv, ListTypes, Reader
<1>2. /\ q.start \subseteq On(0) /\ Searching(q, On(q.level), On(0))
      /\ q.op \in {"seek", "prev", "last"}
  BY <1>1 DEF ListInv, ReadersPlace, Search
<1>3. PICK l \in Levels, x \in Nat, key \in Nat, op \in {"seek", "prev", "last"}, st \in SUBSET Nat :
        q.level = l /\ q.x = x /\ q.key = key /\ q.op = op /\ q.start = st
  BY <1>2 DEF Reader, Searching
<1>4. /\ x = 0 \/ x \in On(l)
      /\ op /= "last" => x < key /\ key <= Keys
      /\ st \subseteq On(0) /\ l \in Nat /\ Keys \in Nat /\ 0 \in Levels
  BY <1>2, <1>3, ListSets DEF Searching, ListSetting
<1>5. PICK n \in Nat : n = next[l][x]
  BY <1>4, LinkRead
<1>6. x < n /\ (n \in On(l) \/ n = Keys + 1) /\ \A k \in On(l) : ~(x < k /\ k < n)
  BY <1>4, <1>5, LinkRead
<1>7. \A m : \A k \in On(m) : k \in Nat /\ 0 < k /\ k <= Keys
  BY DEF On
<1>8. next' = next /\ max_height' = max_height /\ height' = height /\ w' = w
  BY DEF Search
<1>9. q = [op |-> op, key |-> key, x |-> x, level |-> l, start |-> st]
  BY <1>3 DEF Reader
<1>10. r \in [Readers -> Reader]
  BY DEF ListInv, ListTypes, Reader
<1>11. CASE KeepSearching(op, key, n) /\ r' = [r EXCEPT ![i].x = n]
  <2>1. PICK c : c = [op |-> op, key |-> key, x |-> n, level |-> l, start |-> st]
    BY Zenon
  <2>2. r' = [r EXCEPT ![i] = c]
    <3>1. r' = [r EXCEPT ![i] = [q EXCEPT !.x = n]]
      BY <1>1, <1>11
    <3>2. [q EXCEPT !.x = n] = c
      BY <1>9, <2>1
    <3>. QED
      BY <3>1, <3>2, Zenon
  <2>3. n \in On(l) /\ (op /= "last" => n < key)
    BY <1>6, <1>11, Zenon DEF KeepSearching, Null
  <2>4. c \in Reader
    BY <1>4, <2>1 DEF Reader, ReaderLabels
  <2>5. c.start \subseteq On(0) /\ Searching(c, On(c.level), On(0))
    BY <1>4, <2>1, <2>3 DEF Searching
  <2>. QED
    BY <1>8, <2>2, <2>4, <2>5, ReaderMoves, Zenon
<1>12. CASE ~KeepSearching(op, key, n) /\ l > 0 /\ r' = [r EXCEPT ![i].level = LevelBelow(@)]
  <2>1. PICK c : c = [op |-> op, key |-> key, x |-> x, level |-> l - 1, start |-> st]
    BY Zenon
  <2>2. r' = [r EXCEPT ![i] = c]
    <3>1. r' = [r EXCEPT ![i] = [q EXCEPT !.level = l - 1]]
      BY <1>1, <1>3, <1>12, Zenon DEF LevelBelow
    <3>2. [q EXCEPT !.level = l - 1] = c
      BY <1>9, <2>1
    <3>. QED
      BY <3>1, <3>2, Zenon
  <2>3. l - 1 \in Nat /\ l - 1 \in Levels
    BY <1>4, <1>12, ListSets DEF ListSetting
  <2>4. On(l) \subseteq On(l - 1)
    <3>1. (\A m \in Nat : 0 < m /\ m <= Keys => height[m] \in Nat) /\ w.level \in Nat
      BY ListSets DEF ListInv, ListTypes
    <3>. QED
      BY <1>4, <3>1 DEF On
  <2>5. c \in Reader
    BY <2>1, <2>3 DEF Reader, ReaderLabels
  <2>6. c.start \subseteq On(0) /\ Searching(c, On(c.level), On(0))
    BY <1>4, <2>1, <2>3, <2>4 DEF Searching
  <2>. QED
    BY <1>8, <2>2, <2>5, <2>6, ReaderMoves, Zenon
<1>13. CASE /\ ~KeepSearching(op, key, n) /\ l = 0
            /\ r' = [r EXCEPT ![i].x = IF op = "seek" THEN n ELSE @,
                              ![i].op = CASE op = "seek" -> "found" [] op = "prev" -> "before"
                                          [] op = "last" -> "end"]
  <2>1. CASE op = "seek"
    <3>1. PICK c : c = [op |-> "found", key |-> key, x |-> n, level |-> 0, start |-> st]
      BY Zenon
    <3>2. r' = [r EXCEPT ![i] = c]
      BY <1>1, <1>9, <1>10, <1>13, <2>1, <3>1
    <3>3. n >= key /\ \A k \in st : ~(key <= k /\ k < n)
      BY <1>4, <1>6, <1>7, <1>13, <2>1 DEF KeepSearching, Null
    <3>4. c \in Reader
      BY <3>1 DEF Reader, ReaderLabels
    <3>5. c.start \subseteq On(0) /\ Searching(c, On(c.level), On(0))
      BY <1>4, <1>6, <1>13, <3>1, <3>3 DEF Searching
    <3>. QED
      BY <1>8, <3>2, <3>4, <3>5, ReaderMoves, Zenon
  <2>2. CASE op = "prev"
    <3>1. PICK c : c = [op |-> "before", key |-> key, x |-> x, level |-> 0, start |-> st]
      BY Zenon
    <3>2. r' = [r EXCEPT ![i] = c]
      BY <1>1, <1>9, <1>10, <1>13, <2>2, <3>1
    <3>3. \A k \in st : ~(x < k /\ k < key)
      BY <1>4, <1>6, <1>7, <1>13, <2>2 DEF KeepSearching, Null
    <3>4. c \in Reader
      BY <3>1 DEF Reader, ReaderLabels
    <3>5. c.start \subseteq On(0) /\ Searching(c, On(c.level), On(0))
      BY <1>4, <1>13, <2>2, <3>1, <3>3 DEF Searching
    <3>. QED
      BY <1>8, <3>2, <3>4, <3>5, ReaderMoves, Zenon
  <2>3. CASE op = "last"
    <3>1. PICK c : c = [op |-> "end", key |-> key, x |-> x, level |-> 0, start |-> st]
      BY Zenon
    <3>2. r' = [r EXCEPT ![i] = c]
      BY <1>1, <1>9, <1>10, <1>13, <2>3, <3>1
    <3>3. \A k \in st : k <= x
      BY <1>4, <1>6, <1>7, <1>13, <2>3 DEF KeepSearching, Null
    <3>4. c \in Reader
      BY <3>1 DEF Reader, ReaderLabels
    <3>5. c.start \subseteq On(0) /\ Searching(c, On(c.level), On(0))
      BY <1>4, <1>13, <3>1, <3>3 DEF Searching
    <3>. QED
      BY <1>8, <3>2, <3>4, <3>5, ReaderMoves, Zenon
  <2>. QED
    BY <2>1, <2>2, <2>3
<1>. QED
  BY <1>1, <1>3, <1>5, <1>11, <1>12, <1>13 DEF Search, NextOf

\* Lemma IterNextKeeps: Next() loads the link of the node the iterator is at.
LEMMA IterNextKeeps ==
    ASSUME ListSetting, ListInv, NEW i \in Readers, IterNext(i)
    PROVE  ListInv' /\ OnlyGrows
<1>1. PICK q \in Reader : q = r[i]
  BY DEF ListInv, ListTypes, Reader
<1>2. PICK x \in Nat : x = q.x
  BY DEF Reader
<1>3. (x = 0 \/ x \in On(0)) /\ Keys \in Nat /\ 0 \in Levels
  BY <1>1, <1>2, ListSets DEF ListInv, ReadersPlace, Searching, IterNext, Null, ListSetting
<1>4. PICK n \in Nat : n = next[0][x]
  BY <1>3, LinkRead
<1>5. x < n /\ (n \in On(0) \/ n = Keys + 1) /\ \A k \in On(0) : ~(x < k /\ k < n)
  BY <1>3, <1>4, LinkRead
<1>6. In(next) = On(0) /\ \A k \in On(0) : k \in Nat
  BY DEF ListInv, ListShape, On
<1>7. PICK c : c = [op |-> "found", key |-> x + 1, x |-> n, level |-> 0, start |-> On(0)]
  BY Zenon
<1>8. /\ r' = [r EXCEPT ![i] = c]
      /\ next' = next /\ max_height' = max_height /\ height' = height /\ w' = w
  BY <1>1, <1>2, <1>4, <1>6, <1>7 DEF IterNext, NextOf
<1>9. c \in Reader
  BY <1>6, <1>7 DEF Reader, ReaderLabels
<1>10. n >= x + 1 /\ \A k \in On(0) : ~(x + 1 <= k /\ k < n)
  BY <1>5, <1>6
<1>11. c.start \subseteq On(0) /\ Searching(c, On(c.level), On(0))
  BY <1>3, <1>5, <1>7, <1>10 DEF Searching
<1>. QED
  BY <1>8, <1>9, <1>11, ReaderMoves, Zenon

\* Lemma EndKeeps: the operation of a reader is over.
LEMMA EndKeeps ==
    ASSUME ListSetting, ListInv, NEW i \in Readers, End(i)
    PROVE  ListInv' /\ OnlyGrows
<1>1. PICK c : c = NoOp
  OBVIOUS
<1>2. c \in Reader /\ c.start \subseteq On(0) /\ Searching(c, On(c.level), On(0))
  BY <1>1, ListSets DEF Reader, ReaderLabels, Searching, NoOp
<1>. QED
  BY <1>1, <1>2, ReaderMoves, Zenon DEF End

\* Lemma ListInductive: no step leaves ListInv, and none takes a key from the list.
LEMMA ListInductive ==
    ASSUME ListSetting, ListInv, [Next]_vars
    PROVE  ListInv' /\ (OnlyGrows \/ UNCHANGED vars)
<1>1. CASE UNCHANGED vars
  <2>1. /\ next' = next /\ max_height' = max_height /\ height' = height /\ w' = w /\ r' = r
    BY <1>1 DEF vars
  <2>2. ASSUME NEW l PROVE On(l)' = On(l)
    BY <2>1 DEF On
  <2>3. ListTypes'
    BY <2>1 DEF ListInv, ListTypes
  <2>4. ListShape'
    <3>1. \A l \in Levels : Chain(next[l], On(l))'
      BY <2>1, <2>2 DEF ListInv, ListShape, Chain
    <3>. QED
      BY <2>1, <2>2, <3>1 DEF ListInv, ListShape, Garbage
  <2>5. WriterPlan'
    <3>1. \A l \in Levels : JustBefore(w.prev[l], w.key, On(l)) => JustBefore(w.prev[l], w.key, On(l))'
      BY <2>1, <2>2 DEF JustBefore
    <3>. QED
      BY <2>1, <3>1 DEF ListInv, WriterPlan
  <2>6. ReadersPlace'
    BY <2>1, <2>2, ReadersKept DEF ListInv
  <2>. QED
    BY <1>1, <2>3, <2>4, <2>5, <2>6 DEF ListInv
<1>2. ASSUME NEW key \in 1 .. Keys, NEW h \in RandomHeights, InsertStart(key, h)
      PROVE  ListInv' /\ OnlyGrows
  BY <1>2, StartKeeps
<1>3. CASE Link
  BY <1>3, LinkKeeps
<1>4. CASE Publish
  BY <1>4, PublishKeeps
<1>5. ASSUME NEW i \in Readers, NEW op \in {"seek", "prev", "last"}, NEW key \in 1 .. Keys,
             NEW h \in 1 .. max_height, Begin(i, op, key, h)
      PROVE  ListInv' /\ OnlyGrows
  BY <1>5, BeginKeeps
<1>6. ASSUME NEW i \in Readers, Search(i) \/ IterNext(i) \/ End(i)
      PROVE  ListInv' /\ OnlyGrows
  BY <1>6, SearchKeeps, IterNextKeeps, EndKeeps
<1>. QED
  BY <1>1, <1>2, <1>3, <1>4, <1>5, <1>6, SMTT(30) DEF Next, Rest

\* Lemma ListMeans: what ListInv says about the readers and the links.
LEMMA ListMeans == ASSUME ListSetting, ListInv PROVE ListRight
<1>1. In(next) = On(0) /\ Keys \in Nat /\ 0 \in Levels
  BY ListSets DEF ListInv, ListShape, ListSetting
<1>2. NoGarbage
  <2>1. SUFFICES ASSUME NEW i \in Readers
                 PROVE  r[i].x /= Keys + 2 /\ (r[i].x \in 1 .. Keys => next[r[i].level][r[i].x] /= Keys + 2)
    BY DEF NoGarbage, Garbage
  <2>2. PICK q \in Reader : q = r[i] /\ Searching(q, On(q.level), On(0))
    BY DEF ListInv, ListTypes, ReadersPlace, Reader
  <2>3. q.x \in Nat /\ q.level \in Levels
    BY <2>2 DEF Reader, Searching
  <2>4. q.x = 0 \/ q.x = Keys + 1 \/ q.x \in On(q.level)
    <3>1. q.op \in ReaderLabels
      BY <2>2 DEF Reader
    <3>. QED
      BY <2>2, <3>1 DEF Searching, ReaderLabels
  <2>5. q.x \in On(q.level) => q.x <= Keys
    BY DEF On
  <2>6. q.x \in On(q.level) => next[q.level][q.x] \in On(q.level) \/ next[q.level][q.x] = Keys + 1
    BY <2>3, LinkRead
  <2>7. \A k \in On(q.level) : k \in Nat /\ k <= Keys
    BY DEF On
  <2>8. q.x \in On(q.level) => next[q.level][q.x] /= Keys + 2
    BY <1>1, <2>6, <2>7
  <2>. QED
    BY <1>1, <2>2, <2>3, <2>4, <2>5, <2>8
<1>3. Sorted
  <2>1. SUFFICES ASSUME NEW l \in Levels, NEW n \in {0} \cup On(0), next[l][n] \in On(0)
                 PROVE  next[l][n] > n
    BY <1>1 DEF Sorted
  <2>2. n \in Nat /\ n <= Keys
    BY <1>1 DEF On
  <2>3. CASE n = 0 \/ n \in On(l)
    BY <1>1, <2>2, <2>3, LinkRead
  <2>4. CASE n /= 0 /\ n \notin On(l)
    <3>1. next[l][n] /= Keys + 2
      BY <1>1, <2>1 DEF On
    <3>2. w.pc = "publish" /\ n = w.key /\ l = w.level /\ next[l][n] = next[l][w.prev[l]]
      BY <2>2, <2>4, <3>1 DEF ListInv, ListShape, Garbage
    <3>3. PICK p \in Nat : p = w.prev[l] /\ p < n /\ (p = 0 \/ p \in On(l)) /\ \A k \in On(l) : ~(p < k /\ k < n)
      BY <3>2, AtWork DEF JustBefore
    <3>4. next[l][p] \in Nat /\ p < next[l][p] /\ (next[l][p] \in On(l) \/ next[l][p] = Keys + 1)
      BY <3>3, LinkRead
    <3>. QED
      <4>1. PICK m \in Nat : m = next[l][p] /\ (m \in On(l) \/ m = Keys + 1)
        BY <3>4
      <4>2. next[l][n] = m /\ p < m
        BY <3>2, <3>3, <3>4, <4>1
      <4>3. m /= n
        BY <1>1, <2>2, <2>4, <4>1
      <4>4. m \in On(l) => n < m
        BY ONLY <2>2, <3>3, <4>2, <4>3, n \in Nat, m \in Nat, p \in Nat
      <4>5. n < m
        BY <1>1, <2>2, <4>1, <4>4
      <4>. QED
        BY <1>1, <2>2, <4>1, <4>2, <4>5
  <2>. QED
    BY <2>3, <2>4
<1>4. SeekIsExact
  BY <1>1, Zenon DEF ListInv, ReadersPlace, Searching, SeekIsExact, Null
<1>5. PrevIsExact
  BY Zenon DEF ListInv, ReadersPlace, Searching, PrevIsExact
<1>. QED
  BY <1>2, <1>3, <1>4, <1>5 DEF ListRight

\* Theorem ReadersNeedNoLock: while one writer inserts, readers that take no lock
\* never load a link that was not written, every level stays sorted, Seek(), Next(),
\* Prev() and SeekToLast() return the right node of all that were there when they
\* began, and no key ever leaves the list: for any number of keys, levels and readers.
THEOREM ReadersNeedNoLock ==
    ASSUME ListSetting
    PROVE  Spec => []ListRight /\ [][OnlyGrows]_vars
<1>1. Init => ListInv
  BY ListStart
<1>2. ListInv /\ [Next]_vars => ListInv'
  BY ListInductive
<1>3. ListInv /\ [Next]_vars => [OnlyGrows]_vars
  BY ListInductive
<1>4. ListInv => ListRight
  BY ListMeans
<1>. QED
  BY <1>1, <1>2, <1>3, <1>4, PTL DEF Spec

-------------------------------------------------------------------------------
(* FileLock *)

CONSTANTS LockThreads, Processes, ProcessOf, Destroyers, MaxInodes, MaxExits
VARIABLES lockPc, lockFd, locked, owner, name, inodes, exits

Lock == INSTANCE FileLock WITH Threads <- LockThreads, pc <- lockPc, fd <- lockFd

\* Every thread has a process.
LockSetting == ProcessOf \in [LockThreads -> Processes] /\ MaxInodes \in Nat

\* Either every process has one thread and nobody destroys the database, or all
\* threads belong to one process.
OneEach == Destroyers = {} /\ \A t, u \in LockThreads : ProcessOf[t] = ProcessOf[u] => t = u
OneProcess == \A t, u \in LockThreads : ProcessOf[t] = ProcessOf[u]

\* The threads whose name is in the table of their process.
InTable(t) == lockPc[t] \in {"fcntl", "held", "remove"}

LockTypes ==
    /\ lockPc \in [LockThreads -> {"idle", "insert", "fcntl", "held", "remove", "close", "unlink"}]
    /\ lockFd \in [LockThreads -> 0 .. MaxInodes]
    /\ locked \in [Processes -> BOOLEAN]
    /\ owner \in [1 .. MaxInodes -> SUBSET Processes]
    /\ name \in 0 .. MaxInodes /\ inodes \in 0 .. MaxInodes /\ exits \in Nat
    /\ \A t \in LockThreads : lockPc[t] \notin {"idle", "unlink"} => lockFd[t] > 0

\* A process has a name in its table for one of its threads at most.
OnePerProcess ==
    \A t, u \in LockThreads :
        ProcessOf[t] = ProcessOf[u] /\ InTable(t) /\ InTable(u) => t = u

\* While nobody deletes the lock file there is one inode, and its system lock
\* belongs to the process of a thread that holds it.
OneInode ==
    /\ \A t \in LockThreads : lockPc[t] /= "unlink"
    /\ \A t \in LockThreads : lockFd[t] > 0 => lockFd[t] = name

LockInv ==
    /\ LockTypes
    /\ Lock!TableIsExact
    /\ OnePerProcess
    /\ OneEach => OneInode /\ Lock!HolderHasSystemLock

\* What a step of thread t leaves alone.
LockOthers(t) ==
    /\ \A u \in LockThreads : u /= t => lockPc'[u] = lockPc[u] /\ lockFd'[u] = lockFd[u]
    /\ \A p \in Processes : p /= ProcessOf[t] => locked'[p] = locked[p]

\* A step of one thread keeps the types and moves no other thread.
LEMMA LockFrame ==
    ASSUME LockSetting, LockTypes, NEW t \in LockThreads, Lock!Step(t)
    PROVE  LockTypes' /\ LockOthers(t)
<1> USE DEF LockSetting, LockTypes, LockOthers
<1>0. ProcessOf[t] \in Processes /\ lockFd[t] \in 0 .. MaxInodes
  OBVIOUS
<1>c. Lock!Closed(owner, t) \in [1 .. MaxInodes -> SUBSET Processes]
  BY <1>0, Zenon DEF Lock!Closed
<1>1. CASE Lock!Open(t)
  <2>1. /\ name' \in 0 .. MaxInodes /\ inodes' \in 0 .. MaxInodes
        /\ \E i \in 1 .. MaxInodes : lockFd' = [lockFd EXCEPT ![t] = i]
    BY <1>1 DEF Lock!Open
  <2>. QED
    BY <1>1, <2>1 DEF Lock!Open
<1>2. CASE Lock!InsertName(t)
  <2>1. CASE Lock!Insert(ProcessOf[t])
    BY <1>0, <1>2, <2>1, Zenon DEF Lock!InsertName
  <2>2. CASE ~Lock!Insert(ProcessOf[t])
    <3>1. /\ owner' = Lock!Closed(owner, t) /\ lockFd' = [lockFd EXCEPT ![t] = 0]
          /\ lockPc' = [lockPc EXCEPT ![t] = "idle"]
          /\ UNCHANGED <<locked, name, inodes, exits>>
      BY <1>2, <2>2 DEF Lock!InsertName
    <3>. QED
      BY <1>0, <1>c, <3>1
  <2>. QED
    BY <2>1, <2>2
<1>3. CASE Lock!SetLock(t)
  <2>1. CASE Lock!LockGranted(ProcessOf[t], lockFd[t])
    <3>1. /\ owner' = [owner EXCEPT ![lockFd[t]] = {ProcessOf[t]}]
          /\ lockPc' = [lockPc EXCEPT ![t] = "held"]
          /\ UNCHANGED <<lockFd, locked, name, inodes, exits>>
      BY <1>3, <2>1 DEF Lock!SetLock, Lock!LockOrUnlock, Lock!LockRefused
    <3>. QED
      BY <1>0, <1>3, <3>1, Zenon DEF Lock!SetLock
  <2>2. CASE ~Lock!LockGranted(ProcessOf[t], lockFd[t])
    <3>1. /\ owner' = Lock!Closed(owner, t) /\ lockFd' = [lockFd EXCEPT ![t] = 0]
          /\ lockPc' = [lockPc EXCEPT ![t] = "idle"]
          /\ locked' = [locked EXCEPT ![ProcessOf[t]] = FALSE]
          /\ UNCHANGED <<name, inodes, exits>>
      BY <1>3, <2>2, Zenon DEF Lock!SetLock, Lock!RemoveName
    <3>. QED
      BY <1>0, <1>c, <3>1
  <2>. QED
    BY <2>1, <2>2
<1>4. CASE Lock!Unlock(t)
  BY <1>0, <1>4, Zenon DEF Lock!Unlock, Lock!LockOrUnlock
<1>5. CASE Lock!Remove(t)
  BY <1>0, <1>5 DEF Lock!Remove, Lock!RemoveName
<1>6. CASE Lock!Close(t)
  BY <1>0, <1>6, <1>c DEF Lock!Close
<1>7. CASE Lock!Unlink(t)
  BY <1>0, <1>7 DEF Lock!Unlink
<1>. QED
  BY <1>1, <1>2, <1>3, <1>4, <1>5, <1>6, <1>7 DEF Lock!Step

\* The table of a process changes with the thread that is in it.
LEMMA TableKept ==
    ASSUME LockSetting, LockTypes, Lock!TableIsExact, OnePerProcess,
           NEW t \in LockThreads, Lock!Step(t)
    PROVE  Lock!TableIsExact' /\ OnePerProcess'
<1> DEFINE p == ProcessOf[t]
<1>0. /\ p \in Processes /\ LockOthers(t)
      /\ locked[p] \in BOOLEAN /\ locked'[p] \in BOOLEAN
  <2>1. p \in Processes
    BY DEF LockSetting
  <2>. QED
    BY <2>1, LockFrame, Zenon DEF LockTypes
<1>1. locked'[p] <=> InTable(t)' \/ (locked[p] /\ ~InTable(t))
  <2>a. InTable(t) => locked[p]
    BY <1>0, Zenon DEF Lock!TableIsExact, InTable
  <2>1. CASE Lock!Open(t)
    BY <2>1, <2>a DEF Lock!Open, InTable, LockTypes
  <2>2. CASE Lock!InsertName(t)
    BY <1>0, <2>2, <2>a DEF Lock!InsertName, Lock!Insert, InTable, LockTypes
  <2>3. CASE Lock!SetLock(t)
    BY <1>0, <2>3, <2>a, Zenon DEF Lock!SetLock, Lock!RemoveName, InTable, LockTypes
  <2>4. CASE Lock!Unlock(t)
    BY <2>4, <2>a DEF Lock!Unlock, InTable, LockTypes
  <2>5. CASE Lock!Remove(t)
    BY <1>0, <2>5, <2>a DEF Lock!Remove, Lock!RemoveName, InTable, LockTypes
  <2>6. CASE Lock!Close(t)
    BY <2>6, <2>a DEF Lock!Close, InTable, LockTypes
  <2>7. CASE Lock!Unlink(t)
    BY <2>7, <2>a DEF Lock!Unlink, InTable, LockTypes
  <2>. QED
    BY <2>1, <2>2, <2>3, <2>4, <2>5, <2>6, <2>7 DEF Lock!Step
<1>2. InTable(t)' /\ ~InTable(t) => ~locked[p]
  BY Zenon DEF Lock!Step, Lock!Open, Lock!InsertName, Lock!Insert, Lock!SetLock, Lock!Unlock,
         Lock!Remove, Lock!Close, Lock!Unlink, InTable, LockTypes
<1>3. \A u \in LockThreads : u /= t => (InTable(u)' <=> InTable(u))
  BY <1>0, Zenon DEF LockOthers, InTable
<1>4. \A u \in LockThreads : ProcessOf[u] = p /\ InTable(u) => locked[p]
  BY <1>0, Zenon DEF Lock!TableIsExact, InTable
<1>5. OnePerProcess'
  <2> SUFFICES ASSUME NEW u \in LockThreads, NEW v \in LockThreads,
                      ProcessOf[u] = ProcessOf[v], InTable(u)', InTable(v)'
               PROVE  u = v
    BY Zenon DEF OnePerProcess
  <2>. QED
    BY <1>2, <1>3, <1>4, Zenon DEF OnePerProcess
<1>6. Lock!TableIsExact'
  <2> SUFFICES ASSUME NEW q \in Processes
               PROVE  locked'[q] <=> \E u \in LockThreads : ProcessOf[u] = q /\ InTable(u)'
    BY Zenon DEF Lock!TableIsExact, InTable
  <2>0. locked[q] <=> \E u \in LockThreads : ProcessOf[u] = q /\ InTable(u)
    BY Zenon DEF Lock!TableIsExact, InTable
  <2>1. CASE q /= p
    <3>1. locked'[q] = locked[q]
      BY <1>0, <2>1 DEF LockOthers
    <3>. QED
      BY <1>3, <2>0, <2>1, <3>1, Zenon
  <2>2. CASE q = p
    BY <1>1, <1>3, <2>0, <2>2, Zenon DEF OnePerProcess
  <2>. QED
    BY <2>1, <2>2
<1>. QED
  BY <1>5, <1>6

\* Where every process has one thread, the system's lock follows the holder.
LEMMA SystemLockKept ==
    ASSUME LockSetting, LockTypes, OneEach, OneInode, Lock!HolderHasSystemLock,
           NEW t \in LockThreads, Lock!Step(t)
    PROVE  OneInode' /\ Lock!HolderHasSystemLock'
<1>0. LockOthers(t) /\ ProcessOf[t] \in Processes /\ lockFd[t] \in 0 .. MaxInodes
  BY LockFrame DEF LockSetting, LockTypes
<1>1. ~Lock!Unlink(t) /\ t \notin Destroyers
  BY DEF Lock!Unlink, OneInode, OneEach
<1>2. OneInode'
  <2>1. \A u \in LockThreads : lockPc'[u] /= "unlink"
    <3>1. lockPc'[t] /= "unlink"
      BY <1>1, Zenon DEF Lock!Step, Lock!Open, Lock!InsertName, Lock!SetLock, Lock!Unlock,
                  Lock!Remove, Lock!Close, LockTypes
    <3>. QED
      BY <1>0, <3>1 DEF LockOthers, OneInode
  <2>2. \A u \in LockThreads : lockFd'[u] > 0 => lockFd'[u] = name'
    <3>1. CASE Lock!Open(t)
      BY <1>0, <3>1 DEF Lock!Open, LockTypes, OneInode
    <3>2. CASE ~Lock!Open(t)
      <4>1. name' = name /\ (lockFd'[t] = lockFd[t] \/ lockFd'[t] = 0)
        BY <1>1, <3>2, Zenon DEF Lock!Step, Lock!InsertName, Lock!SetLock, Lock!Unlock,
                    Lock!Remove, Lock!Close, LockTypes
      <4>2. \A u \in LockThreads : u /= t => lockFd'[u] = lockFd[u]
        BY <1>0, Zenon DEF LockOthers
      <4>3. \A u \in LockThreads : lockFd[u] > 0 => lockFd[u] = name
        BY Zenon DEF OneInode
      <4>. QED
        BY <4>1, <4>2, <4>3
    <3>. QED
      BY <3>1, <3>2
  <2>. QED
    BY <2>1, <2>2 DEF OneInode
<1>3. ASSUME NEW u \in LockThreads, lockPc'[u] = "held", u /= t
      PROVE  owner'[lockFd'[u]] = {ProcessOf[u]}
  <2>1. /\ lockPc[u] = "held" /\ lockFd'[u] = lockFd[u] /\ lockFd[u] \in 1 .. MaxInodes
        /\ ProcessOf[u] /= ProcessOf[t] /\ owner[lockFd[u]] = {ProcessOf[u]}
    BY <1>0, <1>3 DEF LockOthers, LockTypes, OneEach, Lock!HolderHasSystemLock, Lock!Holders
  <2>2. \/ owner' = owner \/ owner' = Lock!Closed(owner, t)
        \/ owner' = [owner EXCEPT ![lockFd[t]] = @ \ {ProcessOf[t]}]
        \/ /\ lockPc[t] = "fcntl" /\ owner[lockFd[t]] \subseteq {ProcessOf[t]}
           /\ owner' = [owner EXCEPT ![lockFd[t]] = {ProcessOf[t]}]
    BY <1>1 DEF Lock!Step, Lock!Open, Lock!InsertName, Lock!SetLock, Lock!Unlock,
                Lock!Remove, Lock!Close, Lock!LockOrUnlock, Lock!LockGranted
  <2>3. owner'[lockFd[u]] = {ProcessOf[u]}
    <3>1. CASE owner' = owner
      BY <2>1, <3>1
    <3>2. CASE owner' = [owner EXCEPT ![lockFd[t]] = @ \ {ProcessOf[t]}]
      BY <2>1, <3>2 DEF LockTypes
    <3>3. CASE /\ lockPc[t] = "fcntl" /\ owner[lockFd[t]] \subseteq {ProcessOf[t]}
               /\ owner' = [owner EXCEPT ![lockFd[t]] = {ProcessOf[t]}]
      BY <2>1, <3>3, Zenon DEF LockTypes
    <3>. QED
      BY <2>2, <3>1, <3>2, <3>3 DEF Lock!Closed
  <2>. QED
    BY <2>1, <2>3
<1>4. ASSUME lockPc'[t] = "held" PROVE owner'[lockFd'[t]] = {ProcessOf[t]}
  <2>1. /\ lockPc[t] = "fcntl" /\ lockFd' = lockFd
        /\ owner' = [owner EXCEPT ![lockFd[t]] = {ProcessOf[t]}]
    BY <1>1, <1>4 DEF Lock!Step, Lock!Open, Lock!InsertName, Lock!SetLock, Lock!Unlock,
                Lock!Remove, Lock!Close, Lock!LockOrUnlock, LockTypes
  <2>. QED
    BY <2>1 DEF LockTypes
<1>5. Lock!HolderHasSystemLock'
  BY <1>3, <1>4 DEF Lock!HolderHasSystemLock, Lock!Holders
<1>. QED
  BY <1>2, <1>5

\* A process that ends leaves neither a name in a table nor a system lock.
LEMMA LockExit ==
    ASSUME LockSetting, LockInv, NEW p \in Processes, Lock!Exit(p)
    PROVE  LockInv'
<1> DEFINE Labels == {"idle", "insert", "fcntl", "held", "remove", "close", "unlink"}
<1>1. /\ exits' = exits + 1 /\ name' = name /\ inodes' = inodes
      /\ lockPc' = [t \in LockThreads |-> IF ProcessOf[t] = p THEN "idle" ELSE lockPc[t]]
      /\ lockFd' = [t \in LockThreads |-> IF ProcessOf[t] = p THEN 0 ELSE lockFd[t]]
      /\ locked' = [locked EXCEPT ![p] = FALSE]
      /\ owner' = [i \in 1 .. MaxInodes |-> owner[i] \ {p}]
  BY DEF Lock!Exit, LockInv, LockTypes
<1>2. LockTypes'
  <2>1. /\ owner' \in [1 .. MaxInodes -> SUBSET Processes]
        /\ locked' \in [Processes -> BOOLEAN]
    BY <1>1 DEF LockInv, LockTypes
  <2>2. /\ lockPc' \in [LockThreads -> Labels]
        /\ lockFd' \in [LockThreads -> 0 .. MaxInodes]
        /\ \A t \in LockThreads : lockPc'[t] \notin {"idle", "unlink"} => lockFd'[t] > 0
    BY <1>1 DEF LockInv, LockTypes, LockSetting
  <2>. QED
    BY <1>1, <2>1, <2>2 DEF LockInv, LockTypes
<1>3. \A t \in LockThreads : IF ProcessOf[t] = p THEN lockPc'[t] = "idle" /\ lockFd'[t] = 0
                                                 ELSE lockPc'[t] = lockPc[t] /\ lockFd'[t] = lockFd[t]
  BY <1>1
<1>4. \A q \in Processes : locked'[q] = IF q = p THEN FALSE ELSE locked[q]
  BY <1>1 DEF LockInv, LockTypes
<1>5. OnePerProcess'
  BY <1>3 DEF LockInv, OnePerProcess, InTable
<1>6. Lock!TableIsExact'
  <2> SUFFICES ASSUME NEW q \in Processes
               PROVE  locked'[q] <=> \E u \in LockThreads : ProcessOf[u] = q /\ InTable(u)'
    BY Zenon DEF Lock!TableIsExact, InTable
  <2>0. locked[q] <=> \E u \in LockThreads : ProcessOf[u] = q /\ InTable(u)
    BY Zenon DEF LockInv, Lock!TableIsExact, InTable
  <2>1. \A u \in LockThreads : InTable(u)' <=> ProcessOf[u] /= p /\ InTable(u)
    BY <1>3 DEF InTable
  <2>. QED
    BY <1>4, <2>0, <2>1, Zenon
<1>7. ASSUME OneEach PROVE OneInode' /\ Lock!HolderHasSystemLock'
  <2>1. OneInode'
    BY <1>1, <1>3, <1>7 DEF LockInv, OneInode
  <2>2. ASSUME NEW t \in LockThreads, lockPc'[t] = "held"
        PROVE  owner'[lockFd'[t]] = {ProcessOf[t]}
    <3>1. /\ ProcessOf[t] /= p /\ lockPc[t] = "held" /\ lockFd'[t] = lockFd[t]
          /\ owner[lockFd[t]] = {ProcessOf[t]} /\ lockFd[t] \in 1 .. MaxInodes
      <4>1. ProcessOf[t] /= p /\ lockPc[t] = "held" /\ lockFd'[t] = lockFd[t]
        BY <1>3, <2>2
      <4>2. owner[lockFd[t]] = {ProcessOf[t]}
        BY <1>7, <4>1, Zenon DEF LockInv, Lock!HolderHasSystemLock, Lock!Holders
      <4>3. lockFd[t] \in 1 .. MaxInodes
        BY <4>1 DEF LockInv, LockTypes
      <4>. QED
        BY <4>1, <4>2, <4>3
    <3>. QED
      BY <1>1, <3>1
  <2>. QED
    BY <2>1, <2>2 DEF Lock!HolderHasSystemLock, Lock!Holders
<1>. QED
  BY <1>2, <1>5, <1>6, <1>7 DEF LockInv

\* LockInv holds at the start and is kept by every step.
LEMMA LockInductive ==
    ASSUME LockSetting
    PROVE  /\ Lock!Init => LockInv
           /\ LockInv /\ [Lock!Next]_(Lock!vars) => LockInv'
<1>1. Lock!Init => LockInv
  <2> SUFFICES ASSUME Lock!Init PROVE LockInv
    OBVIOUS
  <2>1. LockTypes
    BY DEF LockSetting, Lock!Init, LockTypes
  <2>2. Lock!TableIsExact /\ OnePerProcess /\ OneInode /\ Lock!HolderHasSystemLock
    BY DEF LockSetting, Lock!Init, Lock!TableIsExact, OnePerProcess, OneInode, InTable,
           Lock!HolderHasSystemLock, Lock!Holders
  <2>. QED
    BY <2>1, <2>2 DEF LockInv
<1>2. ASSUME LockInv, Lock!Next PROVE LockInv'
  <2>1. ASSUME NEW t \in LockThreads, Lock!Step(t) PROVE LockInv'
    BY <1>2, <2>1, LockFrame, TableKept, SystemLockKept DEF LockInv
  <2>2. ASSUME NEW p \in Processes, Lock!Exit(p) PROVE LockInv'
    BY <1>2, <2>2, LockExit
  <2>. QED
    BY <1>2, <2>1, <2>2 DEF Lock!Next
<1>3. ASSUME LockInv, UNCHANGED Lock!vars PROVE LockInv'
  <2>1. UNCHANGED <<lockPc, lockFd, locked, owner, name, inodes, exits>>
    BY <1>3 DEF Lock!vars
  <2>. QED
    BY <1>3, <2>1, Zenon
       DEF LockInv, LockTypes, Lock!TableIsExact, OnePerProcess, OneInode, InTable,
           Lock!HolderHasSystemLock, Lock!Holders
<1>. QED
  BY <1>1, <1>2, <1>3

\* However many threads open the database, it is open at most once, if every
\* process has one thread and nobody destroys it, or if there is one process
\* (PosixEnv::LockFile, UnlockFile).
THEOREM DatabaseOpenOnce ==
    ASSUME LockSetting, OneEach \/ OneProcess
    PROVE  Lock!Spec => []Lock!OneHolder
<1>1. LockInv => Lock!OneHolder
  <2> SUFFICES ASSUME LockInv, NEW t \in LockThreads, NEW u \in LockThreads,
                      lockPc[t] = "held", lockPc[u] = "held"
               PROVE  t = u
    BY DEF Lock!OneHolder, Lock!Holders
  <2>1. ProcessOf[t] = ProcessOf[u]
    <3>1. CASE OneEach
      <4>1. /\ owner[lockFd[t]] = {ProcessOf[t]} /\ owner[lockFd[u]] = {ProcessOf[u]}
            /\ lockFd[t] = name /\ lockFd[u] = name
        BY <3>1 DEF LockInv, LockTypes, OneInode, Lock!HolderHasSystemLock, Lock!Holders
      <4>. QED
        BY <4>1
    <3>2. CASE OneProcess
      BY <3>2 DEF OneProcess
    <3>. QED
      BY <3>1, <3>2
  <2>. QED
    BY <2>1 DEF LockInv, OnePerProcess, InTable
<1>. QED
  BY <1>1, LockInductive, PTL DEF Lock!Spec

\* A name is in the table of a process exactly while one of its threads is
\* between a LockFile() that took it and the end of UnlockFile(), whichever of
\* the two fails half way and whoever exits; for any threads of any processes.
THEOREM LockTableExact ==
    ASSUME LockSetting
    PROVE  Lock!Spec => []Lock!TableIsExact
<1>1. LockInv => Lock!TableIsExact
  BY DEF LockInv
<1>. QED
  BY <1>1, LockInductive, PTL DEF Lock!Spec

\* A thread that holds the lock has it from the system too, so that other
\* processes find it.
THEOREM SystemKnowsHolder ==
    ASSUME LockSetting, OneEach
    PROVE  Lock!Spec => []Lock!HolderHasSystemLock
<1>1. LockInv => Lock!HolderHasSystemLock
  BY DEF LockInv
<1>. QED
  BY <1>1, LockInductive, PTL DEF Lock!Spec

-------------------------------------------------------------------------------
(* EnvThread *)

CONSTANTS Callers, MaxItems
VARIABLES envQueue, started, envBg, item, envLeft, envScheduled, ran

Env == INSTANCE EnvThread WITH
    queue <- envQueue, bg <- envBg, left <- envLeft, scheduled <- envScheduled

EnvItems == Callers \X Nat

\* The item that the background thread runs, as a sequence.
Running == IF envBg = "run" THEN <<item>> ELSE <<>>

EnvInv ==
    /\ envQueue \in Seq(EnvItems) /\ envScheduled \in Seq(EnvItems) /\ ran \in Seq(EnvItems)
    /\ envBg \in {"none", "lock", "wait", "run"} /\ (envBg = "run" => item \in EnvItems)
    /\ envLeft \in [Callers -> Nat]
    /\ started <=> envBg /= "none"
    /\ Env!RunsInOrder
    /\ Env!NoSleepOnWork

\* What was scheduled is what ran, what runs and what waits.
Pieces(s, a, b, q) == s = a \o b \o q

\* An item put at the end of the queue is put at the end of all there was.
LEMMA PieceAdded ==
    ASSUME NEW S, NEW a \in Seq(S), NEW b \in Seq(S), NEW q \in Seq(S), NEW e \in S,
           NEW s, Pieces(s, a, b, q)
    PROVE  Pieces(Append(s, e), a, b, Append(q, e))
<1>1. <<e>> \in Seq(S) /\ a \o b \in Seq(S) /\ a \o b \o q \in Seq(S)
  OBVIOUS
<1>2. Append(a \o b \o q, e) = (a \o b \o q) \o <<e>> /\ Append(q, e) = q \o <<e>>
  BY <1>1, AppendIsConcat
<1>3. (a \o b \o q) \o <<e>> = (a \o b) \o (q \o <<e>>)
  BY <1>1, ConcatAssociative, SMTT(30)
<1>. QED
  BY <1>2, <1>3, Zenon DEF Pieces

\* The item that was run joins those that were.
LEMMA PieceRun ==
    ASSUME NEW S, NEW a \in Seq(S), NEW q \in Seq(S), NEW e \in S, NEW s, Pieces(s, a, <<e>>, q)
    PROVE  Pieces(s, Append(a, e), <<>>, q)
<1>1. Append(a, e) = a \o <<e>> /\ Append(a, e) \in Seq(S)
  BY AppendIsConcat, AppendProperties
<1>2. Append(a, e) \o <<>> = Append(a, e)
  BY <1>1, ConcatEmptySeq
<1>. QED
  BY <1>1, <1>2, Zenon DEF Pieces

\* The item that is run next is the front of the queue.
LEMMA PieceTaken ==
    ASSUME NEW S, NEW a \in Seq(S), NEW q \in Seq(S), q /= <<>>, NEW s, Pieces(s, a, <<>>, q)
    PROVE  Pieces(s, a, <<Head(q)>>, Tail(q))
<1>1. Head(q) \in S /\ Tail(q) \in Seq(S) /\ q = <<Head(q)>> \o Tail(q)
  BY HeadTailProperties
<1>2. a \o <<>> = a /\ <<Head(q)>> \in Seq(S)
  BY <1>1, ConcatEmptySeq
<1>3. a \o (<<Head(q)>> \o Tail(q)) = a \o <<Head(q)>> \o Tail(q)
  BY <1>1, <1>2, ConcatAssociative, SMTT(30)
<1>. QED
  BY <1>1, <1>2, <1>3, Zenon DEF Pieces

\* Env::Schedule() puts its item at the end of the queue.
LEMMA EnvSchedule ==
    ASSUME EnvInv, NEW c \in Callers, Env!Schedule(c)
    PROVE  EnvInv'
<1> DEFINE e == <<c, envLeft[c]>>
<1>1. /\ e \in EnvItems /\ envLeft[c] > 0 /\ envLeft[c] \in Nat
      /\ envQueue' = Append(envQueue, e) /\ envScheduled' = Append(envScheduled, e)
      /\ envLeft' = [envLeft EXCEPT ![c] = @ - 1] /\ item' = item /\ ran' = ran
  BY DEF EnvInv, EnvItems, Env!Schedule, Env!PushBack
<1>2. started' = TRUE
  BY DEF Env!Schedule
<1>3. envBg' \in {"lock", "run"} /\ (envBg' = "run" <=> envBg = "run")
  BY DEF Env!Schedule, Env!SignalNeeded, EnvInv, Env!NoSleepOnWork
<1> HIDE DEF e
<1>4. envQueue' \in Seq(EnvItems) /\ envScheduled' \in Seq(EnvItems) /\ envLeft' \in [Callers -> Nat]
  <2>1. envQueue \in Seq(EnvItems) /\ envScheduled \in Seq(EnvItems) /\ envLeft \in [Callers -> Nat]
    BY Zenon DEF EnvInv
  <2>2. envQueue' \in Seq(EnvItems) /\ envScheduled' \in Seq(EnvItems)
    BY <1>1, <2>1
  <2>. QED
    BY <1>1, <2>1, <2>2
<1>5. Env!RunsInOrder'
  <2>1. Running \in Seq(EnvItems) /\ Running' = Running
    BY <1>1, <1>3 DEF EnvInv, Running
  <2>2. Pieces(envScheduled, ran, Running, envQueue)
    BY DEF EnvInv, Env!RunsInOrder, Running, Pieces
  <2>3. envQueue \in Seq(EnvItems) /\ ran \in Seq(EnvItems)
    BY DEF EnvInv
  <2>4. Pieces(envScheduled', ran', Running', envQueue')
    BY <1>1, <2>1, <2>2, <2>3, PieceAdded, Zenon
  <2>. QED
    BY <2>4, Zenon DEF Env!RunsInOrder, Running, Pieces
<1>. QED
  BY <1>1, <1>2, <1>3, <1>4, <1>5 DEF EnvInv, Env!NoSleepOnWork

\* The background thread takes items from the front, woken with or without a signal.
LEMMA EnvThreadStep ==
    ASSUME EnvInv, Env!BGThread \/ Env!SpuriousWakeup
    PROVE  EnvInv'
<1>1. CASE Env!BGWait
  BY <1>1 DEF Env!BGWait, EnvInv, Env!RunsInOrder, Env!NoSleepOnWork
<1>2. CASE Env!SpuriousWakeup
  BY <1>2 DEF Env!SpuriousWakeup, EnvInv, Env!RunsInOrder, Env!NoSleepOnWork
<1>3. CASE Env!BGTake
  <2>1. /\ envBg = "lock" /\ envQueue /= <<>> /\ item' = Head(envQueue) /\ envQueue' = Tail(envQueue)
        /\ envBg' = "run" /\ UNCHANGED <<started, envLeft, envScheduled, ran>>
    BY <1>3 DEF Env!BGTake
  <2>2. Head(envQueue) \in EnvItems /\ Tail(envQueue) \in Seq(EnvItems)
    BY <2>1, HeadTailProperties DEF EnvInv
  <2>3. Pieces(envScheduled, ran, <<>>, envQueue)
    BY <2>1 DEF EnvInv, Env!RunsInOrder, Pieces
  <2>4. Pieces(envScheduled, ran, <<Head(envQueue)>>, Tail(envQueue))
    <3>1. ran \in Seq(EnvItems) /\ envQueue \in Seq(EnvItems)
      BY DEF EnvInv
    <3>. QED
      BY <2>1, <2>3, <3>1, PieceTaken, Zenon
  <2>. QED
    BY <2>1, <2>2, <2>4, SMTT(30) DEF EnvInv, Env!RunsInOrder, Env!NoSleepOnWork, Pieces
<1>4. CASE Env!BGRun
  <2>1. /\ envBg = "run" /\ ran' = Append(ran, item) /\ envBg' = "lock"
        /\ UNCHANGED <<envQueue, started, envLeft, envScheduled>>
    BY <1>4 DEF Env!BGRun, Env!AfterItem
  <2>2. item \in EnvItems /\ ran' \in Seq(EnvItems)
    BY <2>1, AppendProperties DEF EnvInv
  <2>3. Pieces(envScheduled, ran, <<item>>, envQueue)
    BY <2>1 DEF EnvInv, Env!RunsInOrder, Pieces
  <2>4. Pieces(envScheduled, Append(ran, item), <<>>, envQueue)
    <3>1. ran \in Seq(EnvItems) /\ envQueue \in Seq(EnvItems)
      BY DEF EnvInv
    <3>. QED
      BY <2>2, <2>3, <3>1, PieceRun, Zenon
  <2>. QED
    BY <2>1, <2>2, <2>4, SMTT(30) DEF EnvInv, Env!RunsInOrder, Env!NoSleepOnWork, Pieces
<1>. QED
  BY <1>1, <1>2, <1>3, <1>4 DEF Env!BGThread

\* EnvInv holds at the start and is kept by every step.
LEMMA EnvInductive ==
    ASSUME MaxItems \in Nat
    PROVE  /\ Env!Init => EnvInv
           /\ EnvInv /\ [Env!Next]_(Env!vars) => EnvInv'
<1>1. Env!Init => EnvInv
  <2>1. <<>> \in Seq(EnvItems) /\ <<>> = <<>> \o <<>> \o <<>>
    BY ConcatEmptySeq
  <2>. QED
    BY <2>1 DEF Env!Init, EnvInv, Env!RunsInOrder, Env!NoSleepOnWork
<1>2. ASSUME EnvInv, UNCHANGED Env!vars PROVE EnvInv'
  BY <1>2 DEF Env!vars, EnvInv, Env!RunsInOrder, Env!NoSleepOnWork
<1>. QED
  BY <1>1, <1>2, EnvSchedule, EnvThreadStep DEF Env!Next

\* PosixEnv runs every item once, in the order of the calls of Schedule(), for
\* any number of callers and items, and none is lost between queue_ and the
\* thread.
THEOREM ItemsRunInOrder ==
    ASSUME MaxItems \in Nat
    PROVE  Env!Spec => []Env!RunsInOrder
<1>1. EnvInv => Env!RunsInOrder
  BY DEF EnvInv
<1>. QED
  BY <1>1, EnvInductive, PTL DEF Env!Spec

\* The background thread never sleeps on a queue that has items: the signal
\* that Schedule() sends only to an empty queue is never missed.
THEOREM NeverSleepsOnWork ==
    ASSUME MaxItems \in Nat
    PROVE  Env!Spec => []Env!NoSleepOnWork
<1>1. EnvInv => Env!NoSleepOnWork
  BY DEF EnvInv
<1>. QED
  BY <1>1, EnvInductive, PTL DEF Env!Spec
===============================================================================
