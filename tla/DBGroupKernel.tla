---------------------------- MODULE DBGroupKernel -----------------------------
(***************************************************************************)
(* The group commit of DBImpl::Write(), for the proofs of DBGroupProofs:   *)
(* what SizeOf and Appended compute for every queue (by induction over its *)
(* length), the inductive invariant GroupInv, and what entering, leading   *)
(* and leaving the queue, and appending, syncing, inserting and publishing *)
(* a group, do to its parts.                                               *)
(***************************************************************************)
EXTENDS DBWrite, Integers, TLAPS

LOCAL INSTANCE WellFoundedInduction

\* A set of numbers that is not empty has a least one.
LEMMA Least ==
    ASSUME NEW S \in SUBSET Nat, S /= {}
    PROVE  \E n \in S : \A m \in S : n <= m
<1>1. IsWellFoundedOn(OpToRel(<, Nat), Nat)
  BY NatLessThanWellFounded, Zenon
<1>2. PICK x \in S : \A y \in S : <<y, x>> \notin OpToRel(<, Nat)
  BY <1>1, WFMin, Zenon
<1>3. \A y \in S : ~(y < x)
  BY <1>2, Zenon DEF OpToRel
<1>. QED BY <1>3

\* Induction up to N over a set of numbers.
LEMMA UpTo ==
    ASSUME NEW N \in Nat, NEW S, 0 \in S, \A n \in Nat : n < N /\ n \in S => n + 1 \in S
    PROVE  \A n \in 0 .. N : n \in S
<1>1. PICK B : B = {n \in 0 .. N : n \notin S}
  BY Zenon
<1>2. CASE B = {}
  BY <1>1, <1>2
<1>3. CASE B /= {}
  <2>1. B \in SUBSET Nat
    BY <1>1
  <2>2. PICK n \in B : \A m \in B : n <= m
    BY <1>3, <2>1, Least
  <2>3. n \in Nat /\ n <= N /\ n \notin S /\ n /= 0
    BY <1>1, <2>2
  <2>4. n - 1 \in 0 .. N /\ n - 1 < N /\ ~(n <= n - 1)
    BY <2>3
  <2>5. n - 1 \in S
    BY <1>1, <2>2, <2>4
  <2>6. n - 1 + 1 = n
    BY <2>3
  <2>. QED BY <2>3, <2>4, <2>5, <2>6
<1>. QED BY <1>2, <1>3

\* f adds up the sizes of the first n requests of ws.
Adds(f, n, ws, rq) ==
    f = [k \in 0 .. n |-> IF k = 0 THEN 0 ELSE f[k - 1] + rq[ws[k]].batch]

\* The sums are numbers.
LEMMA AddsTypes ==
    ASSUME NEW n \in Nat, NEW ws, NEW rq, \A k \in 1 .. n : rq[ws[k]].batch \in Nat,
           NEW f, Adds(f, n, ws, rq)
    PROVE  f \in [0 .. n -> Nat]
<1>1. PICK S : S = {k \in 0 .. n : f[k] \in Nat}
  BY Zenon
<1>2. 0 \in S
  BY <1>1 DEF Adds
<1>3. ASSUME NEW k \in Nat, k < n, k \in S PROVE k + 1 \in S
  <2>1. k + 1 \in 0 .. n /\ k + 1 \in 1 .. n /\ k + 1 - 1 = k /\ k + 1 /= 0 /\ f[k] \in Nat
    BY <1>1, <1>3
  <2>2. f[k + 1] = f[k + 1 - 1] + rq[ws[k + 1]].batch
    BY <2>1 DEF Adds
  <2>3. f[k + 1] \in Nat
    BY <2>1, <2>2
  <2>. QED BY <1>1, <2>1, <2>3
<1>4. \A k \in 0 .. n : f[k] \in Nat
  BY <1>1, <1>2, <1>3, UpTo
<1>. QED BY <1>4 DEF Adds

\* There are such sums.
LEMMA AddsExist ==
    ASSUME NEW N \in Nat, NEW ws, NEW rq, \A k \in 1 .. N : rq[ws[k]].batch \in Nat
    PROVE  \E f : Adds(f, N, ws, rq)
<1>1. PICK S : S = {n \in 0 .. N : \E f : Adds(f, n, ws, rq)}
  BY Zenon
<1>2. 0 \in S
  <2>1. Adds([k \in 0 .. 0 |-> 0], 0, ws, rq)
    BY DEF Adds
  <2>. QED BY <1>1, <2>1
<1>3. ASSUME NEW n \in Nat, n < N, n \in S PROVE n + 1 \in S
  <2>1. PICK f : Adds(f, n, ws, rq)
    BY <1>1, <1>3
  <2>2. PICK g : g = [k \in 0 .. n + 1 |-> IF k = n + 1 THEN f[n] + rq[ws[n + 1]].batch ELSE f[k]]
    BY Zenon
  <2>3. ASSUME NEW k \in 0 .. n + 1 PROVE g[k] = IF k = 0 THEN 0 ELSE g[k - 1] + rq[ws[k]].batch
    <3>1. CASE k = n + 1
      <4>1. k /= 0 /\ k - 1 = n /\ n \in 0 .. n + 1 /\ n /= n + 1
        BY <3>1
      <4>. QED BY <2>2, <3>1, <4>1
    <3>2. CASE k /= n + 1
      <4>1. k \in 0 .. n /\ (k /= 0 => k - 1 \in 0 .. n + 1 /\ k - 1 /= n + 1)
        BY <3>2
      <4>2. f[k] = IF k = 0 THEN 0 ELSE f[k - 1] + rq[ws[k]].batch
        BY <2>1, <4>1 DEF Adds
      <4>. QED BY <2>2, <3>2, <4>1, <4>2
    <3>. QED BY <3>1, <3>2
  <2>4. Adds(g, n + 1, ws, rq)
    BY <2>2, <2>3 DEF Adds
  <2>. QED BY <1>1, <1>3, <2>4
<1>4. \A n \in 0 .. N : n \in S
  BY <1>2, <1>3, UpTo
<1>5. N \in S
  BY <1>4
<1>. QED BY <1>1, <1>5

\* And they depend on the sizes only.
LEMMA AddsUnique ==
    ASSUME NEW N \in Nat, NEW ws, NEW rq, NEW rp,
           \A k \in 1 .. N : rq[ws[k]].batch = rp[ws[k]].batch,
           NEW f, Adds(f, N, ws, rq), NEW g, Adds(g, N, ws, rp)
    PROVE  f = g
<1>1. PICK S : S = {n \in 0 .. N : f[n] = g[n]}
  BY Zenon
<1>2. 0 \in S
  BY <1>1 DEF Adds
<1>3. ASSUME NEW k \in Nat, k < N, k \in S PROVE k + 1 \in S
  <2>1. k + 1 \in 0 .. N /\ k + 1 \in 1 .. N /\ k + 1 - 1 = k /\ k + 1 /= 0 /\ f[k] = g[k]
    BY <1>1, <1>3
  <2>2. /\ f[k + 1] = f[k + 1 - 1] + rq[ws[k + 1]].batch
        /\ g[k + 1] = g[k + 1 - 1] + rp[ws[k + 1]].batch
    BY <2>1 DEF Adds
  <2>3. f[k + 1] = g[k + 1]
    BY <2>1, <2>2
  <2>. QED BY <1>1, <2>1, <2>3
<1>4. \A k \in 0 .. N : f[k] = g[k]
  BY <1>1, <1>2, <1>3, UpTo
<1>. QED BY <1>4 DEF Adds

\* What SizeOf() computes.
LEMMA SizeOfAdds ==
    ASSUME NEW ws, NEW rq, Len(ws) \in Nat, \A k \in 1 .. Len(ws) : rq[ws[k]].batch \in Nat
    PROVE  Adds(SizeOf(ws, rq), Len(ws), ws, rq)
<1>1. \E f : Adds(f, Len(ws), ws, rq)
  BY AddsExist
<1>. QED BY <1>1, Zenon DEF Adds, SizeOf

\* A longer part of a sequence of batches is not smaller.
LEMMA SizesGrow ==
    ASSUME NEW N \in Nat, NEW ws, NEW rq, \A k \in 1 .. N : rq[ws[k]].batch \in Nat,
           NEW f, Adds(f, N, ws, rq), NEW i \in 0 .. N, NEW j \in 0 .. N, i <= j
    PROVE  f[i] <= f[j]
<1>0. f \in [0 .. N -> Nat]
  BY AddsTypes
<1>1. PICK S : S = {n \in Nat : i + n > N \/ f[i] <= f[i + n]}
  BY Zenon
<1>2. 0 \in S
  <2>1. i + 0 = i /\ f[i] \in Nat
    BY <1>0
  <2>. QED BY <1>1, <2>1
<1>3. ASSUME NEW n \in Nat, n < N, n \in S PROVE n + 1 \in S
  <2>1. CASE i + (n + 1) > N
    BY <1>1, <2>1
  <2>2. CASE i + (n + 1) <= N
    <3>1. PICK k : k = i + (n + 1)
      OBVIOUS
    <3>2. k \in 0 .. N /\ k \in 1 .. N /\ k /= 0 /\ k - 1 = i + n /\ k - 1 \in 0 .. N
      BY <2>2, <3>1
    <3>3. f[k] = f[k - 1] + rq[ws[k]].batch
      BY <3>2 DEF Adds
    <3>4. f[i] <= f[k - 1]
      BY <1>1, <1>3, <2>2, <3>2
    <3>5. f[k] \in Nat /\ f[k - 1] \in Nat /\ f[i] \in Nat /\ rq[ws[k]].batch \in Nat
      BY <1>0, <3>2
    <3>6. f[i] <= f[k]
      BY <3>3, <3>4, <3>5
    <3>. QED BY <1>1, <3>1, <3>6
  <2>. QED BY <2>1, <2>2
<1>4. PICK d \in 0 .. N : i + d = j
  <2>1. j - i \in 0 .. N /\ i + (j - i) = j
    OBVIOUS
  <2>. QED BY <2>1
<1>5. d \in S
  BY <1>2, <1>3, UpTo
<1>. QED BY <1>1, <1>4, <1>5

\* f collects the requests with a batch among the first n of ws.
Collects(f, n, ws, rq) ==
    f = [k \in 0 .. n |-> IF k = 0 THEN <<>> ELSE IF rq[ws[k]].batch = 0 THEN f[k - 1]
                                                   ELSE Append(f[k - 1], ws[k])]

\* There is such a function.
LEMMA CollectsExist ==
    ASSUME NEW N \in Nat, NEW ws, NEW rq
    PROVE  \E f : Collects(f, N, ws, rq)
<1>1. PICK S : S = {n \in 0 .. N : \E f : Collects(f, n, ws, rq)}
  BY Zenon
<1>2. 0 \in S
  <2>1. Collects([k \in 0 .. 0 |-> <<>>], 0, ws, rq)
    BY DEF Collects
  <2>. QED BY <1>1, <2>1
<1>3. ASSUME NEW n \in Nat, n < N, n \in S PROVE n + 1 \in S
  <2>1. PICK f : Collects(f, n, ws, rq)
    BY <1>1, <1>3
  <2>2. PICK x : x = IF rq[ws[n + 1]].batch = 0 THEN f[n] ELSE Append(f[n], ws[n + 1])
    BY Zenon
  <2>3. PICK g : g = [k \in 0 .. n + 1 |-> IF k = n + 1 THEN x ELSE f[k]]
    BY Zenon
  <2>4. ASSUME NEW k \in 0 .. n + 1
        PROVE  g[k] = IF k = 0 THEN <<>> ELSE
                      IF rq[ws[k]].batch = 0 THEN g[k - 1] ELSE Append(g[k - 1], ws[k])
    <3>1. CASE k = n + 1
      <4>1. k /= 0 /\ k - 1 = n /\ n \in 0 .. n + 1 /\ n /= n + 1
        BY <3>1
      <4>2. g[k] = x /\ g[k - 1] = f[n]
        BY <2>3, <3>1, <4>1
      <4>. QED BY <2>2, <3>1, <4>1, <4>2
    <3>2. CASE k /= n + 1
      <4>1. k \in 0 .. n /\ (k /= 0 => k - 1 \in 0 .. n + 1 /\ k - 1 /= n + 1)
        BY <3>2
      <4>2. f[k] = IF k = 0 THEN <<>> ELSE
                   IF rq[ws[k]].batch = 0 THEN f[k - 1] ELSE Append(f[k - 1], ws[k])
        BY <2>1, <4>1, Zenon DEF Collects
      <4>3. g[k] = f[k] /\ (k /= 0 => g[k - 1] = f[k - 1])
        BY <2>3, <3>2, <4>1
      <4>. QED BY <4>2, <4>3
    <3>. QED BY <3>1, <3>2
  <2>5. Collects(g, n + 1, ws, rq)
    BY <2>3, <2>4 DEF Collects
  <2>. QED BY <1>1, <1>3, <2>5
<1>4. \A n \in 0 .. N : n \in S
  BY <1>2, <1>3, UpTo
<1>5. N \in S
  BY <1>4
<1>. QED BY <1>1, <1>5

\* One step of the recursion.
LEMMA CollectsStep ==
    ASSUME NEW N \in Nat, NEW ws, NEW rq, NEW f, Collects(f, N, ws, rq), NEW k \in Nat, k < N
    PROVE  f[k + 1] = IF rq[ws[k + 1]].batch = 0 THEN f[k] ELSE Append(f[k], ws[k + 1])
<1>1. PICK m \in 0 .. N : m = k + 1
  OBVIOUS
<1>2. m /= 0 /\ m - 1 = k
  BY <1>1
<1>3. f[m] = IF rq[ws[m]].batch = 0 THEN f[m - 1] ELSE Append(f[m - 1], ws[m])
  BY <1>2, Zenon DEF Collects
<1>. QED BY <1>1, <1>2, <1>3

\* It depends only on who has a batch.
LEMMA CollectsUnique ==
    ASSUME NEW N \in Nat, NEW ws, NEW rq, NEW rp,
           \A k \in 1 .. N : rq[ws[k]].batch = rp[ws[k]].batch,
           NEW f, Collects(f, N, ws, rq), NEW g, Collects(g, N, ws, rp)
    PROVE  f = g
<1>1. PICK S : S = {n \in 0 .. N : f[n] = g[n]}
  BY Zenon
<1>2. 0 \in S
  BY <1>1 DEF Collects
<1>3. ASSUME NEW k \in Nat, k < N, k \in S PROVE k + 1 \in S
  <2>1. k + 1 \in 0 .. N /\ k + 1 \in 1 .. N /\ k + 1 - 1 = k /\ k + 1 /= 0 /\ f[k] = g[k]
    BY <1>1, <1>3
  <2>2. f[k + 1] = IF rq[ws[k + 1]].batch = 0 THEN f[k] ELSE Append(f[k], ws[k + 1])
    BY <1>3, CollectsStep
  <2>3. g[k + 1] = IF rp[ws[k + 1]].batch = 0 THEN g[k] ELSE Append(g[k], ws[k + 1])
    BY <1>3, CollectsStep
  <2>4. f[k + 1] = g[k + 1]
    BY <2>1, <2>2, <2>3
  <2>. QED BY <1>1, <2>1, <2>4
<1>4. \A k \in 0 .. N : f[k] = g[k]
  BY <1>1, <1>2, <1>3, UpTo
<1>. QED BY <1>4 DEF Collects

\* s has the requests with a batch among the first k of ws, in their order.
Picks(s, k, ws, rq) ==
    /\ s \in Seq(Threads)
    /\ \A a \in 1 .. Len(s) : \E i \in 1 .. k : s[a] = ws[i] /\ rq[ws[i]].batch /= 0
    /\ \A i \in 1 .. k : rq[ws[i]].batch /= 0 => \E a \in 1 .. Len(s) : s[a] = ws[i]
    /\ \A a, b \in 1 .. Len(s) : a < b => \E i, j \in 1 .. k : i < j /\ s[a] = ws[i]
          /\ s[b] = ws[j]

\* One step of the loop of BuildBatchGroup().
LEMMA PicksNext ==
    ASSUME NEW ws \in Seq(Threads), NEW rq, NEW k \in Nat, k + 1 \in 1 .. Len(ws), NEW s,
           Picks(s, k, ws, rq),
           NEW r, r = IF rq[ws[k + 1]].batch = 0 THEN s ELSE Append(s, ws[k + 1])
    PROVE  Picks(r, k + 1, ws, rq)
<1>0. \A i \in 1 .. k : i \in 1 .. k + 1
  OBVIOUS
<1>1. CASE rq[ws[k + 1]].batch = 0
  <2>1. r = s /\ s \in Seq(Threads)
    BY <1>1 DEF Picks
  <2>2. \A a \in 1 .. Len(s) : \E i \in 1 .. k + 1 : s[a] = ws[i] /\ rq[ws[i]].batch /= 0
    BY <1>0 DEF Picks
  <2>3. \A i \in 1 .. k + 1 : rq[ws[i]].batch /= 0 => \E a \in 1 .. Len(s) : s[a] = ws[i]
    <3>1. \A i \in 1 .. k + 1 : i = k + 1 \/ i \in 1 .. k
      OBVIOUS
    <3>. QED BY <1>1, <3>1, Zenon DEF Picks
  <2>4. \A a, b \in 1 .. Len(s) : a < b => \E i, j \in 1 .. k + 1 : i < j /\ s[a] = ws[i]
          /\ s[b] = ws[j]
    BY <1>0 DEF Picks
  <2>5. Picks(s, k + 1, ws, rq)
    BY <2>1, <2>2, <2>3, <2>4, Zenon DEF Picks
  <2>. QED BY <2>1, <2>5, Zenon
<1>2. CASE rq[ws[k + 1]].batch /= 0
  <2>1. PICK x \in Threads : x = ws[k + 1]
    OBVIOUS
  <2>2. s \in Seq(Threads) /\ r = Append(s, x)
    BY <1>2, <2>1 DEF Picks
  <2>3. r \in Seq(Threads) /\ Len(r) = Len(s) + 1 /\ r[Len(s) + 1] = x /\ Len(s) \in Nat
        /\ \A a \in 1 .. Len(s) : r[a] = s[a]
    BY <2>2
  <2>4. \A a \in 1 .. Len(r) : a = Len(s) + 1 \/ a \in 1 .. Len(s)
    BY <2>3
  <2>5. k + 1 \in 1 .. k + 1 /\ \A i \in 1 .. k : i < k + 1
    OBVIOUS
  <2>6. \A a \in 1 .. Len(r) : \E i \in 1 .. k + 1 : r[a] = ws[i] /\ rq[ws[i]].batch /= 0
    BY <1>0, <1>2, <2>1, <2>3, <2>4, <2>5 DEF Picks
  <2>7. \A i \in 1 .. k + 1 : rq[ws[i]].batch /= 0 => \E a \in 1 .. Len(r) : r[a] = ws[i]
    <3>1. \A i \in 1 .. k + 1 : i = k + 1 \/ i \in 1 .. k
      OBVIOUS
    <3>2. Len(s) + 1 \in 1 .. Len(r) /\ \A a \in 1 .. Len(s) : a \in 1 .. Len(r)
      BY <2>3
    <3>3. \A i \in 1 .. k : rq[ws[i]].batch /= 0 => \E a \in 1 .. Len(s) : s[a] = ws[i]
      BY DEF Picks
    <3>4. \A i \in 1 .. k : rq[ws[i]].batch /= 0 => \E a \in 1 .. Len(r) : r[a] = ws[i]
      BY <2>3, <3>2, <3>3, Zenon
    <3>5. r[Len(s) + 1] = ws[k + 1]
      BY <2>1, <2>3
    <3>. QED BY <3>1, <3>2, <3>4, <3>5, Zenon
  <2>8. ASSUME NEW a \in 1 .. Len(r), NEW b \in 1 .. Len(r), a < b
        PROVE  \E i, j \in 1 .. k + 1 : i < j /\ r[a] = ws[i] /\ r[b] = ws[j]
    <3>1. a \in 1 .. Len(s)
      BY <2>3, <2>8
    <3>2. CASE b = Len(s) + 1
      <4>1. PICK i \in 1 .. k : s[a] = ws[i]
        BY <3>1 DEF Picks
      <4>2. r[a] = ws[i] /\ r[b] = ws[k + 1] /\ i < k + 1
        BY <2>1, <2>3, <2>5, <3>1, <3>2, <4>1
      <4>. QED BY <1>0, <2>5, <4>2
    <3>3. CASE b \in 1 .. Len(s)
      <4>1. PICK i \in 1 .. k, j \in 1 .. k : i < j /\ s[a] = ws[i] /\ s[b] = ws[j]
        BY <2>8, <3>1, <3>3 DEF Picks
      <4>. QED BY <1>0, <2>3, <3>1, <3>3, <4>1
    <3>. QED BY <2>4, <3>2, <3>3
  <2>. QED BY <2>3, <2>6, <2>7, <2>8, Zenon DEF Picks
<1>. QED BY <1>1, <1>2

\* What Appended() computes.
LEMMA AppendedPicks ==
    ASSUME NEW ws \in Seq(Threads), NEW rq
    PROVE  Picks(Appended(ws, rq), Len(ws), ws, rq)
<1>0. Len(ws) \in Nat
  OBVIOUS
<1>1. \E f : Collects(f, Len(ws), ws, rq)
  BY <1>0, CollectsExist
<1>2. PICK f : Collects(f, Len(ws), ws, rq) /\ Appended(ws, rq) = f[Len(ws)]
  BY <1>1, Zenon DEF Collects, Appended
<1>3. PICK S : S = {n \in 0 .. Len(ws) : Picks(f[n], n, ws, rq)}
  BY Zenon
<1>4. 0 \in S
  <2>1. f[0] = <<>> /\ 0 \in 0 .. Len(ws)
    BY <1>0, <1>2 DEF Collects
  <2>2. Picks(<<>>, 0, ws, rq)
    BY DEF Picks
  <2>. QED BY <1>3, <2>1, <2>2
<1>5. ASSUME NEW k \in Nat, k < Len(ws), k \in S PROVE k + 1 \in S
  <2>1. k + 1 \in 0 .. Len(ws) /\ k + 1 \in 1 .. Len(ws) /\ k + 1 - 1 = k /\ k + 1 /= 0
    BY <1>0, <1>5
  <2>2. f[k + 1] = IF rq[ws[k + 1]].batch = 0 THEN f[k] ELSE Append(f[k], ws[k + 1])
    BY <1>0, <1>2, <1>5, CollectsStep
  <2>3. Picks(f[k], k, ws, rq)
    BY <1>3, <1>5
  <2>4. Picks(f[k + 1], k + 1, ws, rq)
    BY <2>1, <2>2, <2>3, PicksNext, Zenon
  <2>. QED BY <1>3, <2>1, <2>4
<1>6. \A n \in 0 .. Len(ws) : n \in S
  BY <1>0, <1>4, <1>5, UpTo
<1>7. Len(ws) \in S
  BY <1>0, <1>6
<1>. QED BY <1>2, <1>3, <1>7

\* Appended() depends only on who has a batch.
LEMMA AppendedSame ==
    ASSUME NEW ws, Len(ws) \in Nat, NEW rq, NEW rp,
           \A k \in 1 .. Len(ws) : rq[ws[k]].batch = rp[ws[k]].batch
    PROVE  Appended(ws, rq) = Appended(ws, rp)
<1>1. (\E f : Collects(f, Len(ws), ws, rq)) /\ \E f : Collects(f, Len(ws), ws, rp)
  BY CollectsExist, Zenon
<1>2. PICK f : Collects(f, Len(ws), ws, rq) /\ Appended(ws, rq) = f[Len(ws)]
  BY <1>1, Zenon DEF Collects, Appended
<1>3. PICK g : Collects(g, Len(ws), ws, rp) /\ Appended(ws, rp) = g[Len(ws)]
  BY <1>1, Zenon DEF Collects, Appended
<1>. QED BY <1>2, <1>3, CollectsUnique, Zenon

\* SizeOf() depends only on the sizes.
LEMMA SizeOfSame ==
    ASSUME NEW ws, Len(ws) \in Nat, NEW rq, NEW rp,
           \A k \in 1 .. Len(ws) : rq[ws[k]].batch = rp[ws[k]].batch,
           \A k \in 1 .. Len(ws) : rq[ws[k]].batch \in Nat
    PROVE  SizeOf(ws, rq) = SizeOf(ws, rp)
<1>1. \A k \in 1 .. Len(ws) : rp[ws[k]].batch \in Nat
  OBVIOUS
<1>2. Adds(SizeOf(ws, rq), Len(ws), ws, rq) /\ Adds(SizeOf(ws, rp), Len(ws), ws, rp)
  BY <1>1, SizeOfAdds
<1>. QED BY <1>2, AddsUnique

\* Where a thread is: leading a group, at the front of writers_, in the queue, or,
\* with Write() behind it, in the rest of CompactRange().
Leads == {"append", "sync", "insert", "inserted", "failed", "sync failed"}
Fronts == {"sleep", "bg wait"} \cup Leads
Queued == {"wait", "run"} \cup Fronts
Ranging == {"imm", "imm wait", "begin", "manual", "manual wait"}
Labels == {"idle"} \cup Queued \cup {"return", "end"} \cup Ranging

\* What a sequence holds, at most once, and in which order.
Has(s, t) == \E i \in 1 .. Len(s) : s[i] = t
Distinct(s) == \A i, j \in 1 .. Len(s) : s[i] = s[j] => i = j
Before(s, t, u) == \E i, j \in 1 .. Len(s) : i < j /\ s[i] = t /\ s[j] = u

\* writers_ has exactly the calls that are not done, and only its front is beyond Wait().
Queue(ws, p, dn) ==
    /\ Distinct(ws)
    /\ \A t \in Threads : Has(ws, t) <=> p[t] \in Queued /\ ~dn[t]
    /\ \A t \in Threads : dn[t] => p[t] \notin {"idle", "wait"} \cup Fronts
    /\ \A t \in Threads : p[t] \in Ranging \cup {"return", "end"} => dn[t]
    /\ \A t \in Threads : p[t] \in Fronts => t = ws[1]

\* The group is the first part of writers_ while its first leads it, and syncs
\* if one of it asked to.
Grouped(ws, p, gr, rq) ==
    /\ \A t \in Threads : p[t] \in Leads => gr /= <<>>
    /\ Len(gr) <= Len(ws) /\ \A i \in 1 .. Len(gr) : gr[i] = ws[i]
    /\ gr /= <<>> => p[gr[1]] \in Leads /\ rq[gr[1]].batch /= 0
    /\ \A i \in 1 .. Len(gr) : rq[gr[i]].sync => rq[gr[1]].sync

\* Calls are served in the order of arrival.
Arrival(ws, p, dn, arr) ==
    /\ Distinct(arr)
    /\ \A t \in Threads : p[t] /= "idle" <=> Has(arr, t)
    /\ \A i, j \in 1 .. Len(ws) : i < j => Before(arr, ws[i], ws[j])
    /\ \A t, u \in Threads : dn[t] /\ Has(ws, u) => Before(arr, t, u)

\* Writers have a batch, compactors a NULL one.
Requests(p, rq) ==
    /\ \A t \in Writers : p[t] /= "idle" => rq[t].batch /= 0
    /\ \A t \in Compactors : rq[t].batch = 0
    /\ \A t \in Threads : p[t] \in Ranging => t \notin Writers

\* A thread goes on, in the queue or after it.
LEMMA QueueMove ==
    ASSUME NEW ws \in Seq(Threads), NEW p \in [Threads -> Labels],
           NEW dn \in [Threads -> BOOLEAN], Queue(ws, p, dn),
           NEW c \in Threads, NEW q,
           \/ p[c] \in Queued /\ ~dn[c] /\ q \in Queued /\ (q \in Fronts => c = ws[1])
           \/ dn[c] /\ q \in Ranging \cup {"return", "end"}
    PROVE  Queue(ws, [p EXCEPT ![c] = q], dn)
<1>1. PICK r : r = [p EXCEPT ![c] = q]
  BY Zenon
<1>2. r[c] = q /\ \A t \in Threads : t /= c => r[t] = p[t]
  BY <1>1
<1>3. \A t \in Threads : Has(ws, t) <=> r[t] \in Queued /\ ~dn[t]
  <2>1. Has(ws, c) <=> q \in Queued /\ ~dn[c]
    BY DEF Queue
  <2>. QED BY <1>2, <2>1 DEF Queue
<1>4. \A t \in Threads : dn[t] => r[t] \notin {"idle", "wait"} \cup Fronts
  <2>1. dn[c] => q \notin {"idle", "wait"} \cup Fronts
    BY Zenon DEF Ranging, Fronts, Leads
  <2>. QED BY <1>2, <2>1 DEF Queue
<1>5. \A t \in Threads : r[t] \in Ranging \cup {"return", "end"} => dn[t]
  <2>1. q \in Ranging \cup {"return", "end"} => dn[c]
    BY Zenon DEF Ranging, Fronts, Leads, Queued
  <2>. QED BY <1>2, <2>1 DEF Queue
<1>6. \A t \in Threads : r[t] \in Fronts => t = ws[1]
  <2>1. q \in Fronts => c = ws[1]
    BY Zenon DEF Ranging, Fronts, Leads
  <2>. QED BY <1>2, <2>1 DEF Queue
<1>. QED BY <1>1, <1>3, <1>4, <1>5, <1>6 DEF Queue

\* What bg_cv_.SignalAll() may do to the places.
Stirred(p, q) ==
    \A t \in Threads : \/ q[t] = p[t]
                       \/ p[t] = "bg wait" /\ q[t] = "run"
                       \/ p[t] \in Ranging /\ q[t] \in Ranging

\* It does nothing else.
LEMMA SignalStirs ==
    ASSUME NEW p \in [Threads -> Labels]
    PROVE  SignalAll(p) \in [Threads -> Labels] /\ Stirred(p, SignalAll(p))
<1>1. PICK q : q = SignalAll(p)
  OBVIOUS
<1>2. q = [t \in Threads |-> CASE p[t] = "bg wait" -> "run" [] p[t] = "imm wait" -> "imm"
                               [] p[t] = "manual wait" -> "manual" [] OTHER -> p[t]]
  BY <1>1, Zenon DEF SignalAll
<1>3. \A t \in Threads : \/ q[t] = p[t] \/ (p[t] = "bg wait" /\ q[t] = "run")
                         \/ (p[t] = "imm wait" /\ q[t] = "imm")
                         \/ (p[t] = "manual wait" /\ q[t] = "manual")
  BY <1>2, Zenon
<1>4. Stirred(p, q)
  BY <1>3, Zenon DEF Stirred, Ranging
<1>5. \A t \in Threads : q[t] \in Labels
  BY <1>3, Zenon DEF Labels, Queued, Ranging
<1>6. q = [t \in Threads |-> q[t]]
  BY <1>2, Zenon
<1>. QED BY <1>1, <1>4, <1>5, <1>6

\* Waking sleepers moves nobody in or out of writers_.
LEMMA QueueStirred ==
    ASSUME NEW ws, NEW p, NEW dn, Queue(ws, p, dn), NEW q, Stirred(p, q)
    PROVE  Queue(ws, q, dn)
<1>1. ASSUME NEW t \in Threads
      PROVE  /\ q[t] \in Queued <=> p[t] \in Queued
             /\ q[t] \in {"idle", "wait"} \cup Fronts => p[t] \in {"idle", "wait"} \cup Fronts
             /\ q[t] \in Ranging \cup {"return", "end"}
                => p[t] \in Ranging \cup {"return", "end"}
             /\ q[t] \in Fronts => p[t] \in Fronts
  BY Zenon DEF Stirred, Queued, Fronts, Leads, Ranging
<1>. QED BY <1>1 DEF Queue

\* ... leaves the group and its first writer alone,
LEMMA GroupedStirred ==
    ASSUME NEW ws \in Seq(Threads), NEW p, NEW gr \in Seq(Threads), NEW rq,
           Grouped(ws, p, gr, rq), NEW q, Stirred(p, q)
    PROVE  Grouped(ws, q, gr, rq)
<1>1. ASSUME NEW t \in Threads
      PROVE  (q[t] \in Leads <=> p[t] \in Leads) /\ (p[t] \in Leads => q[t] = p[t])
  BY Zenon DEF Stirred, Leads, Ranging
<1>2. gr /= <<>> => gr[1] \in Threads
  OBVIOUS
<1>. QED BY <1>1, <1>2 DEF Grouped

\* ... starts and ends no call,
LEMMA ArrivalStirred ==
    ASSUME NEW ws, NEW p, NEW dn, NEW arr, Arrival(ws, p, dn, arr), NEW q, Stirred(p, q)
    PROVE  Arrival(ws, q, dn, arr)
<1>1. ASSUME NEW t \in Threads PROVE q[t] = "idle" <=> p[t] = "idle"
  BY Zenon DEF Stirred, Ranging
<1>. QED BY <1>1 DEF Arrival

\* ... and sends no writer into CompactRange().
LEMMA RequestsStirred ==
    ASSUME NEW p, NEW rq, Requests(p, rq), NEW q, Stirred(p, q)
    PROVE  Requests(q, rq)
<1>1. ASSUME NEW t \in Threads
      PROVE  (q[t] = "idle" <=> p[t] = "idle") /\ (q[t] \in Ranging => p[t] \in Ranging)
  BY Zenon DEF Stirred, Ranging
<1>2. Writers \subseteq Threads
  BY DEF Threads
<1>. QED BY <1>1, <1>2 DEF Requests

\* What a sequence has after Append().
LEMMA AppendHas ==
    ASSUME NEW T, NEW s \in Seq(T), NEW x \in T
    PROVE  /\ Append(s, x) \in Seq(T)
           /\ \A t : Has(Append(s, x), t) <=> Has(s, t) \/ t = x
           /\ Distinct(s) /\ ~Has(s, x) => Distinct(Append(s, x))
           /\ \A t, u : Before(s, t, u) => Before(Append(s, x), t, u)
           /\ \A t : Has(s, t) => Before(Append(s, x), t, x)
           /\ Append(s, x)[1] = IF s = <<>> THEN x ELSE s[1]
<1>1. PICK r : r = Append(s, x)
  BY Zenon
<1>2. PICK n \in Nat : n = Len(s)
  OBVIOUS
<1>3. r \in Seq(T) /\ Len(r) = n + 1 /\ r[n + 1] = x /\ \A i \in 1 .. n : r[i] = s[i]
  BY <1>1, <1>2
<1>4. n + 1 \in 1 .. n + 1 /\ (\A i \in 1 .. n : i \in 1 .. n + 1 /\ i < n + 1)
        /\ \A i \in 1 .. n + 1 : i \in 1 .. n \/ i = n + 1
  OBVIOUS
<1>5. \A t : Has(r, t) <=> Has(s, t) \/ t = x
  BY <1>2, <1>3, <1>4, Zenon DEF Has
<1>6. ASSUME Distinct(s), ~Has(s, x) PROVE Distinct(r)
  <2>1. \A i, j \in 1 .. n : s[i] = s[j] => i = j
    BY <1>2, <1>6 DEF Distinct
  <2>2. \A i \in 1 .. n : s[i] /= x
    BY <1>2, <1>6 DEF Has
  <2>3. \A i, j \in 1 .. n + 1 : r[i] = r[j] => i = j
    BY <1>3, <1>4, <2>1, <2>2, Zenon
  <2>. QED BY <1>3, <2>3 DEF Distinct
<1>7. \A t, u : Before(s, t, u) => Before(r, t, u)
  BY <1>2, <1>3, <1>4, Zenon DEF Before
<1>8. \A t : Has(s, t) => Before(r, t, x)
  BY <1>2, <1>3, <1>4, Zenon DEF Before, Has
<1>9. r[1] = IF s = <<>> THEN x ELSE s[1]
  BY <1>1
<1>. QED BY <1>1, <1>3, <1>5, <1>6, <1>7, <1>8, <1>9, Zenon

\* Writers_.push_back().
LEMMA QueueEnters ==
    ASSUME NEW ws \in Seq(Threads), NEW p \in [Threads -> Labels],
           NEW dn \in [Threads -> BOOLEAN], Queue(ws, p, dn),
           NEW c \in Threads, p[c] = "idle", NEW q \in {"wait", "run"}
    PROVE  Queue(Append(ws, c), [p EXCEPT ![c] = q], dn)
<1>1. PICK r : r = [p EXCEPT ![c] = q]
  BY Zenon
<1>2. r[c] = q /\ \A t \in Threads : t /= c => r[t] = p[t]
  BY <1>1
<1>3. ~dn[c] /\ ~Has(ws, c)
  BY Zenon DEF Queue, Queued, Fronts, Leads
<1>4. PICK w : w = Append(ws, c)
  BY Zenon
<1>5. Distinct(w)
  BY <1>3, <1>4, AppendHas DEF Queue
<1>6. \A t \in Threads : Has(w, t) <=> r[t] \in Queued /\ ~dn[t]
  <2>1. q \in Queued
    BY DEF Queued
  <2>2. \A t \in Threads : Has(w, t) <=> Has(ws, t) \/ t = c
    BY <1>4, AppendHas
  <2>. QED BY <1>2, <1>3, <2>1, <2>2 DEF Queue
<1>7. \A t \in Threads : dn[t] => r[t] \notin {"idle", "wait"} \cup Fronts
  BY <1>2, <1>3 DEF Queue
<1>8. \A t \in Threads : r[t] \in Ranging \cup {"return", "end"} => dn[t]
  <2>1. q \notin Ranging \cup {"return", "end"}
    BY Zenon DEF Ranging
  <2>. QED BY <1>2, <2>1 DEF Queue
<1>9. \A t \in Threads : r[t] \in Fronts => t = w[1]
  <2>1. SUFFICES ASSUME NEW t \in Threads, r[t] \in Fronts PROVE t = w[1]
    OBVIOUS
  <2>2. q \notin Fronts
    BY Zenon DEF Fronts, Leads
  <2>3. t /= c /\ p[t] \in Fronts
    BY <1>2, <2>1, <2>2
  <2>4. t = ws[1] /\ Has(ws, t)
    BY <2>3, Zenon DEF Queue, Queued, Fronts
  <2>5. ws /= <<>>
    BY <2>4 DEF Has
  <2>. QED BY <1>4, <2>4, <2>5, AppendHas
<1>. QED BY <1>1, <1>4, <1>5, <1>6, <1>7, <1>8, <1>9 DEF Queue

\* A thread that leads nothing goes on, or the leading one does.
LEMMA GroupedMove ==
    ASSUME NEW ws \in Seq(Threads), NEW p \in [Threads -> Labels], NEW gr \in Seq(Threads),
           NEW rq,
           Grouped(ws, p, gr, rq), NEW c \in Threads, NEW q, p[c] \in Leads <=> q \in Leads
    PROVE  Grouped(ws, [p EXCEPT ![c] = q], gr, rq)
<1>1. PICK r : r = [p EXCEPT ![c] = q]
  BY Zenon
<1>2. \A t \in Threads : r[t] \in Leads <=> p[t] \in Leads
  BY <1>1
<1>3. gr /= <<>> => gr[1] \in Threads
  OBVIOUS
<1>. QED BY <1>1, <1>2, <1>3 DEF Grouped

\* ... and the order of arrival is still that of writers_,
LEMMA ArrivalMove ==
    ASSUME NEW ws, NEW p \in [Threads -> Labels], NEW dn, NEW arr, Arrival(ws, p, dn, arr),
           NEW c \in Threads, NEW q, p[c] /= "idle", q /= "idle"
    PROVE  Arrival(ws, [p EXCEPT ![c] = q], dn, arr)
<1>1. PICK r : r = [p EXCEPT ![c] = q]
  BY Zenon
<1>2. \A t \in Threads : r[t] = "idle" <=> p[t] = "idle"
  BY <1>1
<1>. QED BY <1>1, <1>2 DEF Arrival

\* ... unless a writer strays into CompactRange().
LEMMA RequestsMove ==
    ASSUME NEW p \in [Threads -> Labels], NEW rq, Requests(p, rq),
           NEW c \in Threads, NEW q, p[c] /= "idle", q \in Ranging => c \notin Writers
    PROVE  Requests([p EXCEPT ![c] = q], rq)
<1>1. PICK r : r = [p EXCEPT ![c] = q]
  BY Zenon
<1>2. Writers \subseteq Threads
  BY DEF Threads
<1>. QED BY <1>1, <1>2 DEF Requests

\* A call that enters is in no group.
LEMMA GroupedEnters ==
    ASSUME NEW ws \in Seq(Threads), NEW p \in [Threads -> Labels],
           NEW dn \in [Threads -> BOOLEAN],
           NEW gr \in Seq(Threads), NEW rq, DOMAIN rq = Threads,
           Queue(ws, p, dn), Grouped(ws, p, gr, rq), NEW c \in Threads, p[c] = "idle",
           NEW q \in {"wait", "run"}, NEW r
    PROVE  Grouped(Append(ws, c), [p EXCEPT ![c] = q], gr, [rq EXCEPT ![c] = r])
<1>1. PICK pp : pp = [p EXCEPT ![c] = q]
  BY Zenon
<1>2. PICK w : w = Append(ws, c)
  BY Zenon
<1>3. PICK rr : rr = [rq EXCEPT ![c] = r]
  BY Zenon
<1>4. ~Has(ws, c)
  BY Zenon DEF Queue, Queued, Fronts, Leads
<1>5. /\ Len(gr) \in Nat /\ Len(ws) \in Nat /\ Len(gr) <= Len(ws)
      /\ \A i \in 1 .. Len(gr) : gr[i] = ws[i] /\ i \in 1 .. Len(ws)
  BY DEF Grouped
<1>6. \A i \in 1 .. Len(gr) : gr[i] /= c /\ gr[i] \in Threads
  BY <1>4, <1>5 DEF Has
<1>7. \A i \in 1 .. Len(gr) : rr[gr[i]] = rq[gr[i]]
  BY <1>3, <1>6
<1>8. gr /= <<>> => 1 \in 1 .. Len(gr)
  OBVIOUS
<1>9. Len(gr) <= Len(w) /\ \A i \in 1 .. Len(gr) : gr[i] = w[i]
  BY <1>2, <1>5
<1>10. \A t \in Threads : pp[t] \in Leads => gr /= <<>>
  <2>1. \A t \in Threads : pp[t] \in Leads => p[t] \in Leads
    BY <1>1, Zenon DEF Leads
  <2>. QED BY <2>1 DEF Grouped
<1>11. gr /= <<>> => pp[gr[1]] = p[gr[1]]
  BY <1>1, <1>6, <1>8
<1>12. gr /= <<>> => pp[gr[1]] \in Leads /\ rr[gr[1]].batch /= 0
  BY <1>7, <1>8, <1>11 DEF Grouped
<1>13. \A i \in 1 .. Len(gr) : rr[gr[i]].sync => rr[gr[1]].sync
  <2>1. \A i \in 1 .. Len(gr) : rq[gr[i]].sync => rq[gr[1]].sync
    BY DEF Grouped
  <2>2. \A i \in 1 .. Len(gr) : 1 \in 1 .. Len(gr)
    BY <1>5
  <2>. QED BY <1>7, <2>1, <2>2, Zenon
<1>. QED BY <1>1, <1>2, <1>3, <1>9, <1>10, <1>12, <1>13 DEF Grouped

\* A call enters behind all that arrived before it.
LEMMA ArrivalEnters ==
    ASSUME NEW ws \in Seq(Threads), NEW p \in [Threads -> Labels],
           NEW dn \in [Threads -> BOOLEAN], NEW arr \in Seq(Threads),
           Queue(ws, p, dn), Arrival(ws, p, dn, arr), NEW c \in Threads, p[c] = "idle",
           NEW q \in {"wait", "run"}
    PROVE  Arrival(Append(ws, c), [p EXCEPT ![c] = q], dn, Append(arr, c))
<1>1. PICK pp : pp = [p EXCEPT ![c] = q]
  BY Zenon
<1>2. PICK w : w = Append(ws, c)
  BY Zenon
<1>3. PICK a : a = Append(arr, c)
  BY Zenon
<1>4. pp[c] = q /\ \A t \in Threads : t /= c => pp[t] = p[t]
  BY <1>1
<1>5. ~Has(arr, c)
  BY DEF Arrival
<1>6. Distinct(a)
  BY <1>3, <1>5, AppendHas DEF Arrival
<1>7. \A t \in Threads : Has(a, t) <=> Has(arr, t) \/ t = c
  BY <1>3, AppendHas
<1>8. \A t \in Threads : pp[t] /= "idle" <=> Has(a, t)
  BY <1>4, <1>7, Zenon DEF Arrival
<1>9. (\A t, u : Before(arr, t, u) => Before(a, t, u)) /\ \A t : Has(arr, t) => Before(a, t, c)
  BY <1>3, AppendHas
<1>10. \A t \in Threads : Has(ws, t) \/ dn[t] => Has(arr, t)
  BY Zenon DEF Arrival, Queue, Queued, Fronts, Leads
<1>11. PICK n \in Nat : n = Len(ws)
  OBVIOUS
<1>12. Len(w) = n + 1 /\ w[n + 1] = c /\ \A i \in 1 .. n : w[i] = ws[i] /\ ws[i] \in Threads
  BY <1>2, <1>11
<1>13. ASSUME NEW i \in 1 .. Len(w), NEW j \in 1 .. Len(w), i < j PROVE Before(a, w[i], w[j])
  <2>1. i \in 1 .. n /\ (j \in 1 .. n \/ j = n + 1)
    BY <1>12, <1>13
  <2>2. CASE j \in 1 .. n
    <3>1. Before(arr, ws[i], ws[j])
      BY <1>11, <1>13, <2>1, <2>2 DEF Arrival
    <3>. QED BY <1>9, <1>12, <2>1, <2>2, <3>1
  <2>3. CASE j = n + 1
    <3>1. Has(ws, ws[i]) /\ ws[i] \in Threads
      BY <1>11, <1>12, <2>1 DEF Has
    <3>. QED BY <1>9, <1>10, <1>12, <2>1, <2>3, <3>1
  <2>. QED BY <2>1, <2>2, <2>3
<1>14. \A t, u \in Threads : dn[t] /\ Has(w, u) => Before(a, t, u)
  <2>1. \A u \in Threads : Has(w, u) <=> Has(ws, u) \/ u = c
    BY <1>2, AppendHas
  <2>. QED BY <1>9, <1>10, <2>1, Zenon DEF Arrival
<1>. QED BY <1>1, <1>2, <1>3, <1>6, <1>8, <1>13, <1>14, Zenon DEF Arrival

\* A writer enters with a batch, a compactor with NULL.
LEMMA RequestsEnters ==
    ASSUME NEW p \in [Threads -> Labels], NEW rq, DOMAIN rq = Threads, Requests(p, rq),
           NEW c \in Threads, NEW q \in {"wait", "run"}, NEW r,
           c \in Writers => r.batch /= 0, c \in Compactors => r.batch = 0
    PROVE  Requests([p EXCEPT ![c] = q], [rq EXCEPT ![c] = r])
<1>1. PICK pp : pp = [p EXCEPT ![c] = q]
  BY Zenon
<1>2. PICK rr : rr = [rq EXCEPT ![c] = r]
  BY Zenon
<1>3. pp[c] = q /\ rr[c] = r /\ \A t \in Threads : t /= c => pp[t] = p[t] /\ rr[t] = rq[t]
  BY <1>1, <1>2
<1>4. Writers \subseteq Threads /\ Compactors \subseteq Threads
  BY DEF Threads
<1>5. q \notin Ranging
  BY Zenon DEF Ranging
<1>. QED BY <1>1, <1>2, <1>3, <1>4, <1>5 DEF Requests

\* The group BuildBatchGroup() makes.
LEMMA GroupSize ==
    ASSUME NEW ws \in Seq(Threads), ws /= <<>>, NEW rq
    PROVE  /\ BuildBatchGroup(ws, rq) \in 1 .. Len(ws)
           /\ \A i \in 2 .. BuildBatchGroup(ws, rq) : rq[ws[i]].sync => rq[ws[1]].sync
<1>1. PICK S : S = {k \in 1 .. Len(ws) : \A i \in 2 .. k : Joins(SizeOf(ws, rq)[i - 1],
        rq[ws[1]], rq[ws[i]])}
  BY Zenon
<1>2. PICK n \in Nat : n = Len(ws) /\ n >= 1
  OBVIOUS
<1>3. 1 \in S
  BY <1>1, <1>2
<1>4. PICK D : D = {n - k : k \in S}
  BY Zenon
<1>5. D \in SUBSET Nat /\ D /= {}
  BY <1>1, <1>2, <1>3, <1>4
<1>6. PICK d \in D : \A e \in D : d <= e
  BY <1>5, Least
<1>7. PICK m \in S : d = n - m
  BY <1>4, <1>6
<1>8. S \subseteq 1 .. n
  BY <1>1, <1>2
<1>9. \A k \in S : m >= k
  <2>1. SUFFICES ASSUME NEW k \in S PROVE m >= k
    OBVIOUS
  <2>2. n - k \in D
    BY <1>4
  <2>3. n - m <= n - k
    BY <1>6, <1>7, <2>2, Zenon
  <2>4. k \in Nat /\ m \in Nat
    BY <1>8
  <2>. QED BY <2>3, <2>4
<1>10. PICK b : b = CHOOSE x \in S : \A y \in S : x >= y
  OBVIOUS
<1>11. b \in S
  BY <1>9, <1>10
<1>12. BuildBatchGroup(ws, rq) = b
  BY <1>1, <1>10 DEF BuildBatchGroup, Max
<1>13. /\ b \in 1 .. Len(ws)
       /\ \A i \in 2 .. b : Joins(SizeOf(ws, rq)[i - 1], rq[ws[1]], rq[ws[i]])
  BY <1>1, <1>11
<1>14. \A i \in 2 .. b : rq[ws[i]].sync => rq[ws[1]].sync
  BY <1>13 DEF Joins
<1>. QED BY <1>12, <1>13, <1>14

\* The front begins to lead a group.
LEMMA GroupedStarts ==
    ASSUME NEW ws \in Seq(Threads), ws /= <<>>, NEW p \in [Threads -> Labels], NEW rq,
           NEW gr, gr = SubSeq(ws, 1, BuildBatchGroup(ws, rq)), rq[ws[1]].batch /= 0
    PROVE  /\ gr \in Seq(Threads) /\ gr /= <<>> /\ gr[1] = ws[1]
           /\ Grouped(ws, [p EXCEPT ![ws[1]] = "append"], gr, rq)
<1>1. PICK k \in 1 .. Len(ws) : k = BuildBatchGroup(ws, rq)
        /\ \A i \in 2 .. k : rq[ws[i]].sync => rq[ws[1]].sync
  BY GroupSize
<1>2. k \in Nat /\ k >= 1 /\ k <= Len(ws) /\ Len(ws) \in Nat
  BY <1>1
<1>3. gr \in Seq(Threads) /\ Len(gr) = k /\ \A i \in 1 .. k : gr[i] = ws[i]
  BY <1>1, <1>2
<1>4. gr /= <<>> /\ gr[1] = ws[1] /\ ws[1] \in Threads
  BY <1>2, <1>3
<1>5. \A i \in 1 .. Len(gr) : rq[gr[i]].sync => rq[gr[1]].sync
  <2>1. \A i \in 1 .. k : i = 1 \/ i \in 2 .. k
    BY <1>2
  <2>. QED BY <1>1, <1>3, <1>4, <2>1, Zenon
<1>6. [p EXCEPT ![ws[1]] = "append"][gr[1]] \in Leads
  BY <1>4, Zenon DEF Leads
<1>. QED BY <1>2, <1>3, <1>4, <1>5, <1>6, Zenon DEF Grouped

\* The first k of ws leave the queue, and who is at its front then is told.
Pops(ws, k, p, dn, rest, q, dn2) ==
    /\ rest \in Seq(Threads) /\ Len(rest) = Len(ws) - k
    /\ \A j \in 1 .. Len(rest) : rest[j] = ws[k + j]
    /\ q \in [Threads -> Labels] /\ dn2 \in [Threads -> BOOLEAN]
    /\ \A t \in Threads : dn2[t] <=> dn[t] \/ \E i \in 1 .. k : ws[i] = t
    /\ q[ws[1]] = "return"
    /\ \A i \in 2 .. k : q[ws[i]] = "run"
    /\ \A t \in Threads : \/ \E i \in 1 .. k : ws[i] = t
                          \/ q[t] = p[t]
                          \/ rest /= <<>> /\ t = rest[1] /\ q[t] = "run"

\* The first k writers of ws get the status x.
Answers(ws, k, x, st,
    st2) == st2 = [t \in Threads |-> IF \E i \in 1 .. k : ws[i] = t THEN x ELSE st[t]]

\* That is what the end of Write() does to the queue and to the statuses.
LEMMA FinishPops ==
    ASSUME NEW ws \in Seq(Threads), NEW k \in 1 .. Len(ws), NEW p \in [Threads -> Labels],
           done \in [Threads -> BOOLEAN],
           Distinct(ws), NEW st, Finish(ws[1], ws, k, st, p)
    PROVE  /\ Pops(ws, k, p, done, writers', pc', done')
           /\ Answers(ws, k, st, status, status')
<1>1. PICK c : c = ws[1]
  OBVIOUS
<1>2. PICK P : P = {ws[i] : i \in 1 .. k}
  BY Zenon
<1>3. PICK rest : rest = SubSeq(ws, k + 1, Len(ws))
  BY Zenon
<1>4. PICK S : S = P \cup (IF rest = <<>> THEN {} ELSE {Head(rest)})
  BY Zenon
<1>5. /\ writers' = rest
      /\ done' = [t \in Threads |-> done[t] \/ t \in P]
      /\ status' = [t \in Threads |-> IF t \in P THEN st ELSE status[t]]
      /\ pc' = [t \in Threads |-> CASE t = c -> "return"
                                    [] t # c /\ t \in S -> "run"
                                    [] OTHER -> p[t]]
  BY <1>1, <1>2, <1>3, <1>4, Zenon DEF Finish, Signals
<1>6. \A t : t \in P <=> \E i \in 1 .. k : ws[i] = t
  BY <1>2
<1>7. /\ rest \in Seq(Threads) /\ Len(rest) = Len(ws) - k
      /\ \A j \in 1 .. Len(rest) : rest[j] = ws[k + j]
  BY <1>3
<1>8. pc'[c] = "return" /\ (\A t \in Threads : t /= c /\ t \in S => pc'[t] = "run")
        /\ \A t \in Threads : t /= c /\ t \notin S => pc'[t] = p[t]
  <2>1. c \in Threads
    BY <1>1
  <2>. QED BY <1>5, <2>1
<1>9. pc' \in [Threads -> Labels]
  <2>1. \A t \in Threads : pc'[t] \in Labels
    <3>1. "run" \in Labels /\ "return" \in Labels
      BY DEF Labels, Queued
    <3>2. \A t \in Threads : t = c \/ t \in S \/ t \notin S
      OBVIOUS
    <3>. QED BY <1>8, <3>1, <3>2
  <2>2. pc' = [t \in Threads |-> pc'[t]]
    BY <1>5
  <2>. QED BY <2>1, <2>2
<1>10. \A i \in 2 .. k : pc'[ws[i]] = "run"
  <2>1. SUFFICES ASSUME NEW i \in 2 .. k PROVE pc'[ws[i]] = "run"
    OBVIOUS
  <2>2. i \in 1 .. k /\ i \in 1 .. Len(ws) /\ 1 \in 1 .. Len(ws) /\ i /= 1
    OBVIOUS
  <2>3. ws[i] \in Threads /\ ws[i] /= c /\ ws[i] \in P
    BY <1>1, <1>6, <2>2 DEF Distinct
  <2>. QED BY <1>4, <1>8, <2>3
<1>11. ASSUME NEW t \in Threads
       PROVE  \/ \E i \in 1 .. k : ws[i] = t
              \/ pc'[t] = p[t]
              \/ (rest /= <<>> /\ t = rest[1] /\ pc'[t] = "run")
  <2>1. CASE t \in P
    BY <1>6, <2>1
  <2>2. CASE t \notin P
    <3>1. c \in P
      BY <1>1, <1>6
    <3>2. CASE t \in S
      <4>1. rest /= <<>> /\ t = Head(rest)
        BY <1>4, <2>2, <3>2
      <4>2. t = rest[1]
        BY <1>7, <4>1
      <4>. QED BY <1>8, <2>2, <3>1, <3>2, <4>1, <4>2
    <3>3. CASE t \notin S
      BY <1>8, <2>2, <3>1, <3>3
    <3>. QED BY <3>2, <3>3
  <2>. QED BY <2>1, <2>2
<1>12. /\ done' \in [Threads -> BOOLEAN]
       /\ \A t \in Threads : done'[t] <=> done[t] \/ \E i \in 1 .. k : ws[i] = t
  BY <1>5, <1>6, Zenon
<1>13. Pops(ws, k, p, done, rest, pc', done')
  BY <1>1, <1>7, <1>8, <1>9, <1>10, <1>11, <1>12 DEF Pops
<1>14. Answers(ws, k, st, status, status')
  BY <1>5, <1>6 DEF Answers
<1>. QED BY <1>5, <1>13, <1>14, Zenon

\* A length is a number.
LEMMA LenNat ==
    ASSUME NEW T, NEW s \in Seq(T)
    PROVE  Len(s) \in Nat
OBVIOUS

\* Who is left.
LEMMA PopsFacts ==
    ASSUME NEW ws \in Seq(Threads), NEW k \in 1 .. Len(ws), NEW p, NEW dn, NEW rest, NEW q,
           NEW dn2,
           Pops(ws, k, p, dn, rest, q, dn2), Distinct(ws)
    PROVE  /\ Distinct(rest)
           /\ \A t \in Threads : Has(ws, t) <=> Has(rest, t) \/ \E i \in 1 .. k : ws[i] = t
           /\ \A t \in Threads : Has(rest, t) => ~\E i \in 1 .. k : ws[i] = t
           /\ \A i \in 1 .. k : Has(ws, ws[i])
           /\ rest /= <<>> => Has(rest, rest[1]) /\ rest[1] \in Threads
<1>1. PICK n \in Nat : n = Len(ws)
  OBVIOUS
<1>a. rest \in Seq(Threads) /\ Len(rest) = Len(ws) - k /\ k \in 1 .. Len(ws)
  BY Zenon DEF Pops
<1>b. Len(rest) \in Nat /\ Len(rest) = n - k
  BY <1>1, <1>a, LenNat, Zenon
<1>2. PICK m \in Nat : m = Len(rest) /\ m = n - k
  BY ONLY <1>b, Zenon
<1>3. rest \in Seq(Threads) /\ (\A j \in 1 .. m : rest[j] = ws[k + j])
        /\ \A i, j \in 1 .. n : ws[i] = ws[j] => i = j
  BY <1>1, <1>2 DEF Pops, Distinct
<1>4. \A j \in 1 .. m : k + j \in 1 .. n /\ k + j > k
  BY <1>1, <1>2
<1>5. Distinct(rest)
  <2>1. SUFFICES ASSUME NEW i \in 1 .. m, NEW j \in 1 .. m, rest[i] = rest[j] PROVE i = j
    BY <1>2 DEF Distinct
  <2>2. k + i = k + j
    BY <1>3, <1>4, <2>1, Zenon
  <2>. QED BY <2>2
<1>6. ASSUME NEW t \in Threads, Has(ws, t) PROVE Has(rest, t) \/ \E i \in 1 .. k : ws[i] = t
  <2>1. PICK i \in 1 .. n : ws[i] = t
    BY <1>1, <1>6 DEF Has
  <2>2. CASE i <= k
    <3>1. i \in 1 .. k
      BY <2>2
    <3>. QED BY <2>1, <3>1
  <2>3. CASE i > k
    <3>1. PICK j : j = i - k
      OBVIOUS
    <3>2. j \in 1 .. m /\ k + j = i
      BY <1>1, <1>2, <2>3, <3>1
    <3>3. rest[j] = t
      BY <1>3, <2>1, <3>2, Zenon
    <3>. QED BY <1>2, <3>2, <3>3 DEF Has
  <2>. QED BY <2>2, <2>3
<1>7. ASSUME NEW t \in Threads, Has(rest, t) PROVE Has(ws, t) /\ ~\E i \in 1 .. k : ws[i] = t
  <2>1. PICK j \in 1 .. m : rest[j] = t
    BY <1>2, <1>7 DEF Has
  <2>2. PICK h \in 1 .. n : h = k + j /\ h > k /\ ws[h] = t
    BY <1>3, <1>4, <2>1
  <2>3. ASSUME NEW i \in 1 .. k, ws[i] = t PROVE FALSE
    <3>1. i \in 1 .. n /\ i /= h
      BY <1>1, <2>2
    <3>. QED BY <1>3, <2>2, <2>3, <3>1
  <2>. QED BY <1>1, <2>2, <2>3 DEF Has
<1>8. \A i \in 1 .. k : i \in 1 .. Len(ws)
  OBVIOUS
<1>9. \A i \in 1 .. k : Has(ws, ws[i])
  BY <1>8 DEF Has
<1>10. rest /= <<>> => Has(rest, rest[1]) /\ rest[1] \in Threads
  BY <1>3 DEF Has
<1>11. \A t \in Threads : (\E i \in 1 .. k : ws[i] = t) => Has(ws, t)
  BY <1>8 DEF Has
<1>. QED BY <1>5, <1>6, <1>7, <1>9, <1>10, <1>11

\* The queue after a Write() has ended.
LEMMA QueuePops ==
    ASSUME NEW ws \in Seq(Threads), NEW k \in 1 .. Len(ws), NEW p \in [Threads -> Labels],
           NEW dn \in [Threads -> BOOLEAN],
           NEW rest, NEW q, NEW dn2, Pops(ws, k, p, dn, rest, q, dn2), Queue(ws, p, dn)
    PROVE  Queue(rest, q, dn2) /\ \A t \in Threads : q[t] \notin Fronts
<1>1. Distinct(ws) /\ \A t \in Threads : Has(ws, t) <=> p[t] \in Queued /\ ~dn[t]
  BY DEF Queue
<1>2. /\ Distinct(rest)
      /\ \A t \in Threads : Has(ws, t) <=> Has(rest, t) \/ \E i \in 1 .. k : ws[i] = t
      /\ \A t \in Threads : Has(rest, t) => ~\E i \in 1 .. k : ws[i] = t
      /\ rest /= <<>> => Has(rest, rest[1]) /\ rest[1] \in Threads
  BY <1>1, PopsFacts
<1>3. ASSUME NEW t \in Threads, NEW i \in 1 .. k, ws[i] = t
      PROVE  dn2[t] /\ q[t] \in {"run", "return"}
  <2>1. i = 1 \/ i \in 2 .. k
    OBVIOUS
  <2>. QED BY <1>3, <2>1 DEF Pops
<1>4. ASSUME NEW t \in Threads, ~\E i \in 1 .. k : ws[i] = t
      PROVE  /\ dn2[t] <=> dn[t]
             /\ Has(rest, t) <=> Has(ws, t)
             /\ q[t] = p[t] \/ (q[t] = "run" /\ Has(rest, t))
  BY <1>2, <1>4 DEF Pops
<1>5. ASSUME NEW t \in Threads PROVE q[t] \notin Fronts
  <2>1. CASE \E i \in 1 .. k : ws[i] = t
    BY <1>3, <2>1, Zenon DEF Fronts, Leads
  <2>2. CASE ~\E i \in 1 .. k : ws[i] = t
    <3>1. 1 \in 1 .. k
      OBVIOUS
    <3>2. t /= ws[1]
      BY <2>2, <3>1
    <3>3. p[t] \notin Fronts /\ "run" \notin Fronts
      BY <3>2, Zenon DEF Queue, Fronts, Leads
    <3>. QED BY <1>4, <2>2, <3>3, Zenon
  <2>. QED BY <2>1, <2>2
<1>6. ASSUME NEW t \in Threads
      PROVE  /\ Has(rest, t) <=> q[t] \in Queued /\ ~dn2[t]
             /\ dn2[t] => q[t] \notin {"idle", "wait"} \cup Fronts
             /\ q[t] \in Ranging \cup {"return", "end"} => dn2[t]
  <2>1. CASE \E i \in 1 .. k : ws[i] = t
    BY <1>2, <1>3, <2>1, Zenon DEF Fronts, Leads
  <2>2. CASE ~\E i \in 1 .. k : ws[i] = t
    <3>1. CASE q[t] = p[t]
      BY <1>4, <2>2, <3>1 DEF Queue
    <3>2. CASE q[t] = "run" /\ Has(rest, t)
      <4>1. ~dn2[t] /\ "run" \in Queued /\ "run" \notin Ranging \cup {"return", "end"}
        BY <1>1, <1>4, <2>2, <3>2, Zenon DEF Queued, Ranging
      <4>. QED BY <3>2, <4>1, Zenon
    <3>. QED BY <1>4, <2>2, <3>1, <3>2
  <2>. QED BY <2>1, <2>2
<1>. QED BY <1>2, <1>5, <1>6 DEF Queue

\* Who leaves from the front came before who stays.
LEMMA ArrivalPops ==
    ASSUME NEW ws \in Seq(Threads), NEW k \in 1 .. Len(ws), NEW p \in [Threads -> Labels],
           NEW dn \in [Threads -> BOOLEAN],
           NEW rest, NEW q, NEW dn2, Pops(ws, k, p, dn, rest, q, dn2), Queue(ws, p, dn),
           NEW arr, Arrival(ws, p, dn, arr)
    PROVE  Arrival(rest, q, dn2, arr) /\ \A t \in Threads : q[t] = "idle" <=> p[t] = "idle"
<1>1. Distinct(ws) /\ \A t \in Threads : Has(ws, t) => p[t] \in Queued
  BY DEF Queue
<1>2. /\ \A t \in Threads : Has(ws, t) <=> Has(rest, t) \/ \E i \in 1 .. k : ws[i] = t
      /\ rest /= <<>> => Has(rest, rest[1]) /\ rest[1] \in Threads
  BY <1>1, PopsFacts
<1>3. ASSUME NEW t \in Threads PROVE q[t] = "idle" <=> p[t] = "idle"
  <2>1. "idle" \notin Queued
    BY DEF Queued, Fronts, Leads
  <2>2. CASE \E i \in 1 .. k : ws[i] = t
    <3>1. PICK i \in 1 .. k : ws[i] = t
      BY <2>2
    <3>2. i = 1 \/ i \in 2 .. k
      OBVIOUS
    <3>3. q[t] \in {"run", "return"}
      BY <3>1, <3>2 DEF Pops
    <3>. QED BY <1>1, <1>2, <2>1, <2>2, <3>3
  <2>3. CASE ~\E i \in 1 .. k : ws[i] = t
    <3>1. q[t] = p[t] \/ (q[t] = "run" /\ Has(rest, t))
      BY <1>2, <2>3 DEF Pops
    <3>. QED BY <1>1, <1>2, <2>1, <3>1
  <2>. QED BY <2>2, <2>3
<1>4. PICK n \in Nat, m \in Nat : n = Len(ws) /\ m = Len(rest) /\ m = n - k
  BY DEF Pops
<1>5. (\A j \in 1 .. m : rest[j] = ws[k + j])
        /\ \A i, j \in 1 .. n : i < j => Before(arr, ws[i], ws[j])
  BY <1>4 DEF Pops, Arrival
<1>6. \A j \in 1 .. m : k + j \in 1 .. n
  BY <1>4
<1>7. ASSUME NEW i \in 1 .. m, NEW j \in 1 .. m, i < j PROVE Before(arr, rest[i], rest[j])
  <2>1. k + i < k + j
    BY <1>7
  <2>. QED BY <1>5, <1>6, <2>1
<1>8. ASSUME NEW t \in Threads, NEW u \in Threads, dn2[t], Has(rest, u) PROVE Before(arr, t, u)
  <2>1. PICK j \in 1 .. m : rest[j] = u
    BY <1>4, <1>8 DEF Has
  <2>2. CASE dn[t]
    BY <1>2, <1>8, <2>2 DEF Arrival
  <2>3. CASE ~dn[t]
    <3>1. PICK i \in 1 .. k : ws[i] = t
      BY <1>8, <2>3 DEF Pops
    <3>2. i \in 1 .. n /\ k + j \in 1 .. n /\ i < k + j
      BY <1>4, <1>6
    <3>. QED BY <1>5, <2>1, <3>1, <3>2, Zenon
  <2>. QED BY <2>2, <2>3
<1>9. \A t \in Threads : q[t] /= "idle" <=> Has(arr, t)
  BY <1>3 DEF Arrival
<1>. QED BY <1>3, <1>4, <1>7, <1>8, <1>9 DEF Arrival

\* Nobody strays into CompactRange() by leaving the queue.
LEMMA RequestsPops ==
    ASSUME NEW ws \in Seq(Threads), NEW k \in 1 .. Len(ws), NEW p, NEW dn, NEW rest, NEW q,
           NEW dn2,
           Pops(ws, k, p, dn, rest, q, dn2),
           \A t \in Threads : q[t] = "idle" <=> p[t] = "idle", NEW rq, Requests(p, rq)
    PROVE  Requests(q, rq)
<1>1. Writers \subseteq Threads
  BY DEF Threads
<1>2. ASSUME NEW t \in Threads, q[t] \in Ranging PROVE p[t] \in Ranging
  <2>1. "run" \notin Ranging /\ "return" \notin Ranging
    BY DEF Ranging
  <2>2. ASSUME NEW i \in 1 .. k, ws[i] = t PROVE FALSE
    <3>1. i = 1 \/ i \in 2 .. k
      <4>1. Len(ws) \in Nat /\ k \in 1 .. Len(ws) /\ i \in 1 .. k
        BY <2>2, LenNat, Zenon
      <4>. QED BY ONLY <4>1
    <3>. QED BY <1>2, <2>1, <2>2, <3>1 DEF Pops
  <2>3. \/ \E i \in 1 .. k : ws[i] = t
        \/ q[t] = p[t] \/ q[t] = "run"
    BY <1>2, Zenon DEF Pops
  <2>. QED BY <1>2, <2>1, <2>2, <2>3, Zenon
<1>. QED BY <1>1, <1>2 DEF Requests

\* t has a batch in the group; how far the group is.
InBatch(gr, rq, t) == Has(gr, t) /\ rq[t].batch /= 0
Phase(gr, p) == IF gr = <<>> THEN "none" ELSE p[gr[1]]
Logged == {"sync", "insert", "inserted", "sync failed"}

\* Readers see what was acknowledged, and what is being inserted.
OnlyAcknowledged(v, gr, ph, rq, dn, st) ==
    \A t \in v : \/ t \in Writers /\ dn[t] /\ st[t] = "ok"
                 \/ InBatch(gr, rq, t) /\ ph \in {"insert", "inserted"}

\* What was acknowledged is visible, in the log, and synced if that was asked for.
AcknowledgedKept(v, sy, lg, rq, dn, st) ==
    \A t \in Writers : dn[t] /\ st[t] = "ok"
                       => t \in v /\ (rq[t].sync => t \in sy) /\ Has(lg, t)

\* The log has the batches of earlier groups, and those of this one once they are appended.
LogContents(lg, gr, ph, rq, dn) ==
    /\ \A t \in Threads : Has(lg, t) => dn[t] \/ (InBatch(gr, rq, t) /\ ph \in Logged)
    /\ ph \in Logged => \A t \in Threads : InBatch(gr, rq, t) => Has(lg, t)

\* A group whose first writer asked for it is synced before it is inserted.
SyncFirst(gr, ph, rq, sy) ==
    /\ ph = "sync" => rq[gr[1]].sync
    /\ ph \in {"insert", "inserted"} /\ rq[gr[1]].sync
       => \A t \in Threads : InBatch(gr, rq, t) => t \in sy

\* InsertInto() stops when the whole group is in mem_.
Inserting(gr, ph, rq, m, v) ==
    /\ ph = "insert" => \E t \in Threads : InBatch(gr, rq, t) /\ t \notin m
    /\ ph = "inserted" => \A t \in Threads : InBatch(gr, rq, t) => t \in v

\* The k-th batch of bs has the numbers after those of the batches before it.
Numbered(bs, rq, sq, last) ==
    \A k \in 1 .. Len(bs) : sq[bs[k]] = last + SizeOf(bs, rq)[k - 1] + 1

\* The group's numbers follow last_sequence; those of earlier groups do not exceed it.
Sequenced(lg, gr, ph, rq, dn, sq, last) ==
    /\ ph \notin {"none", "append"} => Numbered(Appended(gr, rq), rq, sq, last)
    /\ \A t \in Threads : Has(lg, t) /\ dn[t] => sq[t] + rq[t].batch <= last + 1

\* The log is in the order of arrival, and so are the numbers.
LogInOrder(lg, arr, rq, sq) ==
    \A i, j \in 1 .. Len(lg) :
        i < j => Before(arr, lg[i], lg[j]) /\ sq[lg[i]] + rq[lg[i]].batch <= sq[lg[j]]

\* What the log, the memtables, the numbers and the statuses say of a group at
\* phase ph and of the calls that are done.
DataInv(gr, ph, rq, arr, dn, st, v, m, sy, lg, sq, last) ==
    /\ OnlyAcknowledged(v, gr, ph, rq, dn, st) /\ AcknowledgedKept(v, sy, lg, rq, dn, st)
    /\ LogContents(lg, gr, ph, rq, dn) /\ SyncFirst(gr, ph, rq, sy)
    /\ Inserting(gr, ph, rq, m, v)
    /\ Sequenced(lg, gr, ph, rq, dn, sq, last) /\ LogInOrder(lg, arr, rq, sq)

\* The requests: a NULL batch has size 0.
Reqs == [batch : Nat, sync : BOOLEAN]

\* The types of what the group commit works on.
GroupTypes ==
    /\ writers \in Seq(Threads) /\ pc \in [Threads -> Labels] /\ req \in [Threads -> Reqs]
    /\ done \in [Threads -> BOOLEAN] /\ status \in [Threads -> {"ok", "error"}]
    /\ group \in Seq(Threads) /\ log \in Seq(Threads) /\ arrived \in Seq(Threads)
    /\ last_sequence \in Nat /\ seq \in [Threads -> Nat]
    /\ Visible \subseteq Threads

\* The inductive invariant of the group commit.
GroupInv ==
    /\ GroupTypes
    /\ Queue(writers, pc, done) /\ Grouped(writers, pc, group, req)
    /\ Arrival(writers, pc, done, arrived) /\ Requests(pc, req)
    /\ DataInv(group, Phase(group, pc), req, arrived, done, status, Visible, mem, synced, log,
          seq, last_sequence)

\* A batch has entries, a NULL one none; a thread makes one kind of call.
GroupSetting ==
    Sizes \subseteq Nat \ {0} /\ Syncs \subseteq BOOLEAN /\ Writers \cap Compactors = {}

\* Waking sleepers does not change how far the group is,
LEMMA PhaseStirred ==
    ASSUME NEW gr \in Seq(Threads), NEW ws, NEW p, NEW rq, Grouped(ws, p, gr, rq), NEW q,
           Stirred(p, q)
    PROVE  Phase(gr, q) = Phase(gr, p)
<1>1. gr /= <<>> => gr[1] \in Threads /\ p[gr[1]] \in Leads
  BY DEF Grouped
<1>2. gr /= <<>> => q[gr[1]] = p[gr[1]]
  BY <1>1, Zenon DEF Stirred, Leads, Ranging
<1>. QED BY <1>2 DEF Phase

\* ... nor does a step of a thread that leads no group.
LEMMA PhaseMove ==
    ASSUME NEW gr \in Seq(Threads), NEW ws, NEW p \in [Threads -> Labels], NEW rq,
           Grouped(ws, p, gr, rq),
           NEW c \in Threads, p[c] \notin Leads, NEW q
    PROVE  Phase(gr, [p EXCEPT ![c] = q]) = Phase(gr, p)
<1>1. gr /= <<>> => gr[1] \in Threads /\ p[gr[1]] \in Leads
  BY DEF Grouped
<1>2. gr /= <<>> => [p EXCEPT ![c] = q][gr[1]] = p[gr[1]]
  BY <1>1
<1>. QED BY <1>2 DEF Phase

\* A call in the group is in the queue, and not done.
LEMMA InGroup ==
    ASSUME NEW ws \in Seq(Threads), NEW gr \in Seq(Threads), NEW p, NEW rq, NEW dn,
           Grouped(ws, p, gr, rq), Queue(ws, p, dn)
    PROVE  \A t \in Threads : Has(gr, t) => Has(ws, t) /\ ~dn[t] /\ p[t] \in Queued
<1>1. \A i \in 1 .. Len(gr) : gr[i] = ws[i] /\ i \in 1 .. Len(ws)
  BY DEF Grouped
<1>2. \A t \in Threads : Has(gr, t) => Has(ws, t)
  BY <1>1 DEF Has
<1>. QED BY <1>2 DEF Queue

\* An element of a sequence is of its type.
LEMMA InSeq ==
    ASSUME NEW T, NEW s \in Seq(T), NEW i \in 1 .. Len(s)
    PROVE  s[i] \in T
OBVIOUS

\* A call that arrives.
LEMMA DataEnters ==
    ASSUME NEW ws \in Seq(Threads), NEW gr \in Seq(Threads), NEW p \in [Threads -> Labels],
           NEW rq \in [Threads -> Reqs],
           NEW arr \in Seq(Threads), NEW dn \in [Threads -> BOOLEAN], NEW st,
           NEW v \in SUBSET Threads, NEW m, NEW sy,
           NEW lg \in Seq(Threads), NEW sq, NEW last,
           Queue(ws, p, dn), Grouped(ws, p, gr, rq), NEW ph, gr = <<>> => ph = "none",
           DataInv(gr, ph, rq, arr, dn, st, v, m, sy, lg, sq, last),
           NEW c \in Threads, p[c] = "idle", NEW r \in Reqs
    PROVE  DataInv(gr, ph, [rq EXCEPT ![c] = r], Append(arr, c), dn, st, v, m, sy, lg, sq, last)
<1>1. PICK rr : rr = [rq EXCEPT ![c] = r]
  BY Zenon
<1>2. PICK a : a = Append(arr, c)
  BY Zenon
<1>3. \A t \in Threads : t /= c => rr[t] = rq[t]
  BY <1>1
<1>4. ~dn[c]
  BY DEF Queue
<1>5. ~Has(gr, c)
  <2>1. "idle" \notin Queued
    BY DEF Queued, Fronts, Leads
  <2>2. \A t \in Threads : Has(gr, t) => Has(ws, t) /\ ~dn[t] /\ p[t] \in Queued
    BY InGroup, Zenon
  <2>. QED BY <2>1, <2>2, Zenon
<1>6. \A t \in Threads : Has(gr, t) => rr[t] = rq[t]
  BY <1>3, <1>5
<1>7. \A t \in Threads : InBatch(gr, rr, t) <=> InBatch(gr, rq, t)
  BY <1>6, Zenon DEF InBatch
<1>8. \A t \in Threads : dn[t] => rr[t] = rq[t]
  BY <1>3, <1>4
<1>9. \A t \in Threads : Has(lg, t) => rr[t] = rq[t]
  <2>1. \A t \in Threads : Has(lg, t) => dn[t] \/ Has(gr, t)
    BY DEF DataInv, LogContents, InBatch
  <2>. QED BY <1>6, <1>8, <2>1
<1>10. Writers \subseteq Threads /\ (gr /= <<>> => gr[1] \in Threads /\ Has(gr, gr[1]))
  BY DEF Threads, Has
<1>11. OnlyAcknowledged(v, gr, ph, rr, dn, st)
  BY <1>7 DEF DataInv, OnlyAcknowledged
<1>12. AcknowledgedKept(v, sy, lg, rr, dn, st)
  BY <1>8, <1>10, Zenon DEF DataInv, AcknowledgedKept
<1>13. LogContents(lg, gr, ph, rr, dn)
  BY <1>7 DEF DataInv, LogContents
<1>14. SyncFirst(gr, ph, rr, sy)
  <2>1. CASE gr = <<>>
    BY <2>1 DEF SyncFirst
  <2>2. CASE gr /= <<>>
    <3>1. rr[gr[1]] = rq[gr[1]]
      BY <1>6, <1>10, <2>2
    <3>. QED BY <1>7, <3>1, Zenon DEF DataInv, SyncFirst
  <2>. QED BY <2>1, <2>2
<1>15. Inserting(gr, ph, rr, m, v)
  BY <1>7 DEF DataInv, Inserting
<1>16. Sequenced(lg, gr, ph, rr, dn, sq, last)
  <2>1. \A k \in 1 .. Len(gr) : gr[k] \in Threads /\ Has(gr, gr[k])
    BY DEF Has
  <2>2. \A k \in 1 .. Len(gr) : rq[gr[k]].batch = rr[gr[k]].batch
    BY <1>6, <2>1
  <2>3. Len(gr) \in Nat
    OBVIOUS
  <2>4. Appended(gr, rr) = Appended(gr, rq)
    BY <2>2, <2>3, AppendedSame, Zenon
  <2>5. PICK bs : bs = Appended(gr, rq)
    OBVIOUS
  <2>6. bs \in Seq(Threads) /\ \A k \in 1 .. Len(bs) : \E i \in 1 .. Len(gr) : bs[k] = gr[i]
    <3>1. Picks(bs, Len(gr), gr, rq)
      BY <2>5, AppendedPicks
    <3>. QED BY <3>1 DEF Picks
  <2>7. \A k \in 1 .. Len(bs) : rq[bs[k]].batch = rr[bs[k]].batch /\ rq[bs[k]].batch \in Nat
    <3>1. \A k \in 1 .. Len(bs) : bs[k] \in Threads
      BY <2>6
    <3>2. \A k \in 1 .. Len(bs) : rq[bs[k]].batch \in Nat
      BY <3>1 DEF Reqs
    <3>3. \A k \in 1 .. Len(bs) : rq[bs[k]].batch = rr[bs[k]].batch
      BY <2>2, <2>6, Zenon
    <3>. QED BY <3>2, <3>3, Zenon
  <2>8. SizeOf(bs, rq) = SizeOf(bs, rr)
    <3>1. Len(bs) \in Nat
      BY <2>6
    <3>. QED BY <2>7, <3>1, SizeOfSame, Zenon
  <2>9. Numbered(bs, rq, sq, last) => Numbered(bs, rr, sq, last)
    BY <2>8, Zenon DEF Numbered
  <2>10. ph \notin {"none", "append"} => Numbered(Appended(gr, rr), rr, sq, last)
    BY <2>4, <2>5, <2>9, Zenon DEF DataInv, Sequenced
  <2>11. \A t \in Threads : Has(lg, t) /\ dn[t] => sq[t] + rr[t].batch <= last + 1
    BY <1>9, Zenon DEF DataInv, Sequenced
  <2>. QED BY <2>10, <2>11, Zenon DEF Sequenced
<1>17. LogInOrder(lg, a, rr, sq)
  <2>1. \A t, u : Before(arr, t, u) => Before(a, t, u)
    BY <1>2, AppendHas
  <2>2. ASSUME NEW i \in 1 .. Len(lg) PROVE rr[lg[i]] = rq[lg[i]]
    <3>1. lg[i] \in Threads
      BY InSeq, Zenon
    <3>2. Has(lg, lg[i])
      BY Zenon DEF Has
    <3>. QED BY <1>9, <3>1, <3>2, Zenon
  <2>. QED BY <2>1, <2>2, Zenon DEF DataInv, LogInOrder
<1>. QED BY <1>1, <1>2, <1>11, <1>12, <1>13, <1>14, <1>15, <1>16, <1>17, Zenon DEF DataInv

\* bs are the batches of a group, f[k] the number of entries in the first k of them.
Totals(f, bs, gr, rq) ==
    /\ f \in [0 .. Len(bs) -> Nat] /\ f = SizeOf(bs, rq)
    /\ Picks(bs, Len(gr), gr, rq) /\ Distinct(bs)
    /\ \A t \in Threads : Has(bs, t) <=> InBatch(gr, rq, t)
    /\ \A k \in 1 .. Len(bs) : rq[bs[k]].batch \in Nat /\ f[k] = f[k - 1] + rq[bs[k]].batch
    /\ \A i, j \in 0 .. Len(bs) : i <= j => f[i] <= f[j]

\* Every group has them.
LEMMA BatchTotals ==
    ASSUME NEW gr \in Seq(Threads), NEW rq \in [Threads -> Reqs], Distinct(gr)
    PROVE  Appended(gr, rq) \in Seq(Threads) /\ \E f : Totals(f, Appended(gr, rq), gr, rq)
<1>1. PICK bs : bs = Appended(gr, rq)
  OBVIOUS
<1>2. Picks(bs, Len(gr), gr, rq)
  BY <1>1, AppendedPicks
<1>3. bs \in Seq(Threads)
  BY <1>2 DEF Picks
<1>4. Distinct(bs)
  <2>1. SUFFICES ASSUME NEW a \in 1 .. Len(bs), NEW b \in 1 .. Len(bs), bs[a] = bs[b], a /= b
                 PROVE  FALSE
    BY DEF Distinct
  <2>2. \A x, y \in 1 .. Len(bs) : x < y => bs[x] /= bs[y]
    <3>1. SUFFICES ASSUME NEW x \in 1 .. Len(bs), NEW y \in 1 .. Len(bs), x < y
                   PROVE  bs[x] /= bs[y]
      OBVIOUS
    <3>2. PICK i \in 1 .. Len(gr), j \in 1 .. Len(gr) : i < j /\ bs[x] = gr[i] /\ bs[y] = gr[j]
      BY <1>2, <3>1, Zenon DEF Picks
    <3>3. i /= j
      BY <3>2
    <3>. QED BY <3>2, <3>3 DEF Distinct
  <2>3. a < b \/ b < a
    BY <1>3, <2>1
  <2>. QED BY <2>1, <2>2, <2>3
<1>5. ASSUME NEW t \in Threads PROVE Has(bs, t) <=> InBatch(gr, rq, t)
  <2>1. ASSUME NEW a \in 1 .. Len(bs), bs[a] = t PROVE InBatch(gr, rq, t)
    <3>1. PICK i \in 1 .. Len(gr) : bs[a] = gr[i] /\ rq[gr[i]].batch /= 0
      BY <1>2 DEF Picks
    <3>. QED BY <2>1, <3>1, Zenon DEF InBatch, Has
  <2>2. ASSUME NEW i \in 1 .. Len(gr), gr[i] = t, rq[t].batch /= 0 PROVE Has(bs, t)
    <3>1. PICK a \in 1 .. Len(bs) : bs[a] = gr[i]
      BY <1>2, <2>2, Zenon DEF Picks
    <3>. QED BY <2>2, <3>1, Zenon DEF Has
  <2>. QED BY <2>1, <2>2, Zenon DEF Has, InBatch
<1>6. PICK f : f = SizeOf(bs, rq)
  OBVIOUS
<1>7. PICK n \in Nat : n = Len(bs)
  BY <1>3
<1>8. \A k \in 1 .. n : rq[bs[k]].batch \in Nat
  <2>1. \A k \in 1 .. n : bs[k] \in Threads
    BY <1>3, <1>7
  <2>. QED BY <2>1 DEF Reqs
<1>9. Adds(f, n, bs, rq)
  BY <1>6, <1>7, <1>8, SizeOfAdds
<1>10. f \in [0 .. n -> Nat]
  BY <1>8, <1>9, AddsTypes, Zenon
<1>11. \A k \in 1 .. n : f[k] = f[k - 1] + rq[bs[k]].batch
  <2>1. \A k \in 1 .. n : k \in 0 .. n /\ k /= 0
    OBVIOUS
  <2>. QED BY <1>9, <2>1 DEF Adds
<1>12. \A i, j \in 0 .. n : i <= j => f[i] <= f[j]
  BY <1>8, <1>9, SizesGrow, Zenon
<1>13. Totals(f, bs, gr, rq)
  BY <1>2, <1>4, <1>5, <1>6, <1>7, <1>8, <1>10, <1>11, <1>12, Zenon DEF Totals
<1>. QED BY <1>1, <1>3, <1>13

\* No call is twice in a group.
LEMMA GroupDistinct ==
    ASSUME NEW ws \in Seq(Threads), NEW gr \in Seq(Threads), NEW p, NEW rq,
           Grouped(ws, p, gr, rq), Distinct(ws)
    PROVE  Distinct(gr)
<1>1. \A i \in 1 .. Len(gr) : gr[i] = ws[i] /\ i \in 1 .. Len(ws)
  BY DEF Grouped
<1>. QED BY <1>1 DEF Distinct

\* Without a group there is no batch of it.
LEMMA NoBatch ==
    ASSUME NEW rq
    PROVE  \A t \in Threads : ~InBatch(<<>>, rq, t)
BY DEF InBatch, Has

\* A sequence that is not empty has its first element.
LEMMA FirstOf ==
    ASSUME NEW s \in Seq(Threads), s /= <<>>
    PROVE  s[1] \in Threads /\ Has(s, s[1])
BY DEF Has

\* c's call, and no other, is over, and nothing of it was written.
Refused(c, dn, dn2, st, st2) ==
    /\ \A t \in Threads : dn2[t] <=> dn[t] \/ t = c
    /\ st2[c] = "error" \/ c \notin Writers
    /\ \A t \in Threads : t /= c => st2[t] = st[t]

\* A call that ends without a group, with an error or with a NULL batch.
LEMMA DataRefused ==
    ASSUME NEW rq, NEW arr, NEW dn \in [Threads -> BOOLEAN], NEW st, NEW v \in SUBSET Threads,
           NEW m, NEW sy,
           NEW lg, NEW sq, NEW last,
           DataInv(<<>>, "none", rq, arr, dn, st, v, m, sy, lg, sq, last),
           NEW c \in Threads, ~dn[c], NEW dn2 \in [Threads -> BOOLEAN], NEW st2,
           Refused(c, dn, dn2, st, st2), NEW m2
    PROVE  DataInv(<<>>, "none", rq, arr, dn2, st2, v, m2, sy, lg, sq, last)
<1>1. Writers \subseteq Threads
  BY DEF Threads
<1>2. \A t \in Threads : ~InBatch(<<>>, rq, t)
  BY NoBatch, Zenon
<1>3. /\ \A t \in Threads : (dn[t] => t /= c) /\ (dn2[t] <=> dn[t] \/ t = c)
      /\ st2[c] = "error" \/ c \notin Writers
      /\ \A t \in Threads : t /= c => st2[t] = st[t]
  BY Zenon DEF Refused
<1>4. OnlyAcknowledged(v, <<>>, "none", rq, dn2, st2)
  BY <1>1, <1>2, <1>3, Zenon DEF DataInv, OnlyAcknowledged
<1>5. AcknowledgedKept(v, sy, lg, rq, dn2, st2)
  BY <1>1, <1>3, Zenon DEF DataInv, AcknowledgedKept
<1>6. \A t \in Threads : Has(lg, t) => dn[t]
  BY <1>2 DEF DataInv, LogContents
<1>7. LogContents(lg, <<>>, "none", rq, dn2)
  BY <1>3, <1>6, Zenon DEF LogContents, Logged
<1>8. SyncFirst(<<>>, "none", rq, sy) /\ Inserting(<<>>, "none", rq, m2, v)
  BY DEF SyncFirst, Inserting
<1>9. \A t \in Threads : Has(lg, t) /\ dn2[t] => sq[t] + rq[t].batch <= last + 1
  BY <1>6, Zenon DEF DataInv, Sequenced
<1>10. Sequenced(lg, <<>>, "none", rq, dn2, sq, last)
  BY <1>9, Zenon DEF Sequenced
<1>. QED BY <1>4, <1>5, <1>7, <1>8, <1>10, Zenon DEF DataInv

\* A group begins.
LEMMA DataStarts ==
    ASSUME NEW rq, NEW arr, NEW dn, NEW st, NEW v \in SUBSET Threads, NEW m, NEW sy,
           NEW lg, NEW sq, NEW last,
           DataInv(<<>>, "none", rq, arr, dn, st, v, m, sy, lg, sq, last), NEW gr, NEW m2
    PROVE  DataInv(gr, "append", rq, arr, dn, st, v, m2, sy, lg, sq, last)
<1>1. \A t \in Threads : ~InBatch(<<>>, rq, t)
  BY NoBatch, Zenon
<1>2. OnlyAcknowledged(v, gr, "append", rq, dn, st)
  BY <1>1, Zenon DEF DataInv, OnlyAcknowledged
<1>3. AcknowledgedKept(v, sy, lg, rq, dn, st) /\ LogInOrder(lg, arr, rq, sq)
  BY Zenon DEF DataInv
<1>4. LogContents(lg, gr, "append", rq, dn)
  BY <1>1 DEF DataInv, LogContents, Logged
<1>5. SyncFirst(gr, "append", rq, sy) /\ Inserting(gr, "append", rq, m2, v)
  BY Zenon DEF SyncFirst, Inserting
<1>6. Sequenced(lg, gr, "append", rq, dn, sq, last)
  BY Zenon DEF DataInv, Sequenced
<1>. QED BY <1>2, <1>3, <1>4, <1>5, <1>6, Zenon DEF DataInv

\* r is s and then b.
Joined(r, s, b) ==
    /\ r \in Seq(Threads) /\ Len(r) = Len(s) + Len(b)
    /\ \A i \in 1 .. Len(s) : r[i] = s[i]
    /\ \A i \in 1 .. Len(b) : r[Len(s) + i] = b[i]
    /\ \A i \in 1 .. Len(r) : i \in 1 .. Len(s) \/ \E j \in 1 .. Len(b) : i = Len(s) + j
    /\ \A t \in Threads : Has(r, t) <=> Has(s, t) \/ Has(b, t)

\* What a log has after an append of b.
LEMMA ConcatJoins ==
    ASSUME NEW s \in Seq(Threads), NEW b \in Seq(Threads), NEW r, r = s \o b
    PROVE  Joined(r, s, b)
<1>2. PICK m \in Nat, n \in Nat : m = Len(s) /\ n = Len(b)
  OBVIOUS
<1>3. /\ r \in Seq(Threads) /\ Len(r) = m + n
      /\ \A i \in 1 .. m : r[i] = s[i]
      /\ \A i \in 1 .. n : r[m + i] = b[i]
  BY <1>2
<1>4. ASSUME NEW i \in 1 .. m + n PROVE i \in 1 .. m \/ \E j \in 1 .. n : i = m + j
  <2>1. CASE i <= m
    BY <2>1
  <2>2. CASE i > m
    <3>1. i - m \in 1 .. n /\ i = m + (i - m)
      BY <2>2
    <3>. QED BY <3>1
  <2>. QED BY <2>1, <2>2
<1>5. (\A i \in 1 .. m : i \in 1 .. m + n) /\ \A i \in 1 .. n : m + i \in 1 .. m + n
  OBVIOUS
<1>6. ASSUME NEW t \in Threads PROVE Has(r, t) <=> Has(s, t) \/ Has(b, t)
  <2>1. ASSUME NEW i \in 1 .. m + n, r[i] = t PROVE Has(s, t) \/ Has(b, t)
    <3>1. CASE i \in 1 .. m
      BY <1>2, <1>3, <2>1, <3>1, Zenon DEF Has
    <3>2. ASSUME NEW j \in 1 .. n, i = m + j PROVE Has(b, t)
      <4>1. b[j] = t
        BY <1>3, <2>1, <3>2
      <4>. QED BY <1>2, <4>1, Zenon DEF Has
    <3>. QED BY <1>4, <3>1, <3>2, Zenon
  <2>2. ASSUME Has(s, t) \/ Has(b, t) PROVE Has(r, t)
    BY <1>2, <1>3, <1>5, <2>2, Zenon DEF Has
  <2>. QED BY <1>3, <2>1, <2>2, Zenon DEF Has
<1>7. \A i \in 1 .. Len(r) : i \in 1 .. Len(s) \/ \E j \in 1 .. Len(b) : i = Len(s) + j
  <2>1. Len(r) = m + n /\ Len(s) = m /\ Len(b) = n
    BY <1>2, <1>3, Zenon
  <2>2. \A i \in 1 .. m + n : i \in 1 .. m \/ \E j \in 1 .. n : i = m + j
    BY <1>4, Zenon
  <2>. QED BY ONLY <2>1, <2>2
<1>8. /\ \A i \in 1 .. Len(s) : r[i] = s[i]
      /\ \A i \in 1 .. Len(b) : r[Len(s) + i] = b[i]
  BY <1>2, <1>3, Zenon
<1>. QED BY <1>2, <1>3, <1>6, <1>7, <1>8, Zenon DEF Joined

\* Where the numbers of one batch are among those of its group.
LEMMA SumUpTo ==
    ASSUME NEW l \in Nat, NEW a \in Nat, NEW b \in Nat, NEW c \in Nat, NEW d \in Nat, b = a + c,
           b <= d
    PROVE  l + a + 1 \in Nat /\ l + a + 1 > l /\ l + a + 1 + c <= l + d + 1
OBVIOUS

\* The numbers of a group's batches follow one another, without a gap.
LEMMA NumbersGrow ==
    ASSUME NEW gr, NEW rq, NEW bs \in Seq(Threads), NEW f, Totals(f, bs, gr, rq),
           NEW sq, NEW last \in Nat, Numbered(bs, rq, sq, last)
    PROVE  /\ f[Len(bs)] \in Nat
           /\ \A k \in 1 .. Len(bs) : /\ sq[bs[k]] \in Nat /\ sq[bs[k]] > last
                                      /\ sq[bs[k]] + rq[bs[k]].batch <= last + f[Len(bs)] + 1
           /\ \A k, l \in 1 .. Len(bs) : k < l => sq[bs[k]] + rq[bs[k]].batch <= sq[bs[l]]
<1>1. PICK n \in Nat : n = Len(bs)
  OBVIOUS
<1>2. f \in [0 .. n -> Nat] /\ f = SizeOf(bs, rq) /\ \A i, j \in 0 .. n : i <= j => f[i] <= f[j]
  BY <1>1, Zenon DEF Totals
<1>3. n \in 0 .. n /\ f[n] \in Nat
  BY <1>2
<1>4. ASSUME NEW k \in 1 .. n
      PROVE  /\ f[k - 1] \in Nat /\ f[k] \in Nat /\ rq[bs[k]].batch \in Nat
             /\ f[k] = f[k - 1] + rq[bs[k]].batch
             /\ f[k] <= f[n] /\ sq[bs[k]] = last + f[k - 1] + 1
  <2>1. k \in 0 .. n /\ k - 1 \in 0 .. n /\ k <= n
    OBVIOUS
  <2>2. f[k - 1] \in Nat /\ f[k] \in Nat /\ f[k] <= f[n]
    BY <1>2, <1>3, <2>1
  <2>3. rq[bs[k]].batch \in Nat /\ f[k] = f[k - 1] + rq[bs[k]].batch
    BY <1>1, Zenon DEF Totals
  <2>4. sq[bs[k]] = last + f[k - 1] + 1
    BY <1>1, <1>2, Zenon DEF Numbered
  <2>. QED BY <2>2, <2>3, <2>4, Zenon
<1>5. ASSUME NEW k \in 1 .. n
      PROVE  /\ sq[bs[k]] \in Nat /\ sq[bs[k]] > last
             /\ sq[bs[k]] + rq[bs[k]].batch <= last + f[n] + 1
  <2>1. PICK a \in Nat, b \in Nat, c \in Nat : a = f[k - 1] /\ b = f[k] /\ c = rq[bs[k]].batch
    BY <1>4, Zenon
  <2>2. b = a + c /\ b <= f[n] /\ sq[bs[k]] = last + a + 1
    BY <1>4, <2>1, Zenon
  <2>3. last + a + 1 \in Nat /\ last + a + 1 > last /\ last + a + 1 + c <= last + f[n] + 1
    BY <1>3, <2>2, SumUpTo
  <2>. QED BY <2>1, <2>2, <2>3, Zenon
<1>6. ASSUME NEW k \in 1 .. n, NEW l \in 1 .. n, k < l
      PROVE  sq[bs[k]] + rq[bs[k]].batch <= sq[bs[l]]
  <2>1. k \in 0 .. n /\ l - 1 \in 0 .. n /\ k <= l - 1
    BY <1>6
  <2>2. f[k] <= f[l - 1]
    BY <1>2, <2>1, Zenon
  <2>3. PICK a \in Nat, b \in Nat, c \in Nat : a = f[k - 1] /\ b = f[k] /\ c = rq[bs[k]].batch
    BY <1>4, Zenon
  <2>4. PICK d \in Nat : d = f[l - 1]
    BY <1>4, Zenon
  <2>5. b = a + c /\ b <= d /\ sq[bs[k]] = last + a + 1 /\ sq[bs[l]] = last + d + 1
    BY <1>4, <2>2, <2>3, <2>4, Zenon
  <2>6. last + a + 1 + c <= last + d + 1
    BY <2>5, SumUpTo
  <2>. QED BY <2>3, <2>5, <2>6, Zenon
<1>. QED BY <1>1, <1>3, <1>5, <1>6

\* Numbers of a group come after those of the log.
LEMMA OneBefore ==
    ASSUME NEW a \in Nat, NEW b \in Nat, NEW l \in Nat, NEW s \in Nat, a + b <= l + 1, s > l
    PROVE  a + b <= s
OBVIOUS

\* The numbers sq2 are those of sq, but for the batches of bs, which follow last.
Renumbered(bs, rq, sq, sq2, last) ==
    /\ sq2 \in [Threads -> Nat] /\ Numbered(bs, rq, sq2, last)
    /\ \A t \in Threads : ~Has(bs, t) => sq2[t] = sq[t]

\* log_->AddRecord() of the group, or its failure.
LEMMA DataAppends ==
    ASSUME writers \in Seq(Threads), group \in Seq(Threads), group /= <<>>,
           req \in [Threads -> Reqs],
           done \in [Threads -> BOOLEAN], Visible \in SUBSET Threads, mem \in SUBSET Visible,
           log \in Seq(Threads), seq \in [Threads -> Nat], last_sequence \in Nat,
           Queue(writers, pc, done), Grouped(writers, pc, group, req),
           Arrival(writers, pc, done, arrived),
           DataInv(group, "append", req, arrived, done, status, Visible, mem, synced, log, seq,
           last_sequence),
           NEW bs \in Seq(Threads), bs = Appended(group, req), NEW f, Totals(f, bs, group, req),
           NEW r, Joined(r, log, bs),
           NEW sq2, Renumbered(bs, req, seq, sq2, last_sequence), NEW lg2, NEW ph2,
           \/ ph2 = "failed" /\ lg2 = log
           \/ ph2 = (IF req[group[1]].sync THEN "sync" ELSE "insert") /\ lg2 = r
    PROVE  DataInv(group, ph2, req, arrived, done, status, Visible, mem, synced, lg2, sq2,
             last_sequence)
<1>. /\ sq2 \in [Threads -> Nat] /\ Numbered(bs, req, sq2, last_sequence)
     /\ \A t \in Threads : ~Has(bs, t) => sq2[t] = seq[t]
  BY Zenon DEF Renumbered
<1>1. Distinct(group)
  BY GroupDistinct DEF Queue
<1>2. /\ f \in [0 .. Len(bs) -> Nat] /\ f = SizeOf(bs, req)
      /\ Picks(bs, Len(group), group, req)
      /\ \A t \in Threads : Has(bs, t) <=> InBatch(group, req, t)
      /\ \A k \in 1 .. Len(bs) : req[bs[k]].batch \in Nat /\ f[k] = f[k - 1] + req[bs[k]].batch
      /\ \A i, j \in 0 .. Len(bs) : i <= j => f[i] <= f[j]
  BY Zenon DEF Totals
<1>3. \A t \in Threads : Has(group, t) => Has(writers, t) /\ ~done[t]
  BY InGroup, Zenon
<1>4. \A t \in Threads : done[t] => ~Has(bs, t) /\ sq2[t] = seq[t]
  BY <1>2, <1>3 DEF InBatch
<1>5. \A t \in Threads : Has(log, t) => done[t]
  BY DEF DataInv, LogContents, Logged
<1>6. /\ r \in Seq(Threads) /\ Len(r) = Len(log) + Len(bs)
      /\ \A i \in 1 .. Len(log) : r[i] = log[i]
      /\ \A i \in 1 .. Len(bs) : r[Len(log) + i] = bs[i]
      /\ \A i \in 1 .. Len(r) : i \in 1 .. Len(log) \/ \E j \in 1 .. Len(bs) : i = Len(log) + j
      /\ \A t \in Threads : Has(r, t) <=> Has(log, t) \/ Has(bs, t)
  BY Zenon DEF Joined
<1>7. \A t \in Threads : Has(log, t) => Has(lg2, t)
  BY <1>6
<1>8. Writers \subseteq Threads /\ group[1] \in Threads /\ Has(group, group[1])
  <2>1. group[1] \in Threads /\ Has(group, group[1])
    BY FirstOf, Zenon
  <2>. QED BY <2>1, Zenon DEF Threads
<1>9. OnlyAcknowledged(Visible, group, ph2, req, done, status)
  <2>1. \A t \in Visible : t \in Writers /\ done[t] /\ status[t] = "ok"
    BY DEF DataInv, OnlyAcknowledged
  <2>. QED BY <2>1, Zenon DEF OnlyAcknowledged
<1>10. AcknowledgedKept(Visible, synced, lg2, req, done, status)
  BY <1>7, <1>8, Zenon DEF DataInv, AcknowledgedKept
<1>11. LogContents(lg2, group, ph2, req, done)
  <2>1. CASE ph2 = "failed"
    BY <1>5, <2>1 DEF LogContents, Logged
  <2>2. CASE ph2 /= "failed"
    <3>1. lg2 = r /\ ph2 \in Logged
      BY <1>6, <2>2, Zenon DEF Logged
    <3>. QED BY <1>2, <1>5, <1>6, <3>1, Zenon DEF LogContents
  <2>. QED BY <2>1, <2>2
<1>12. SyncFirst(group, ph2, req, synced)
  BY DEF SyncFirst
<1>13. Inserting(group, ph2, req, mem, Visible)
  <2>1. req[group[1]].batch /= 0
    BY DEF Grouped
  <2>2. group[1] \notin Visible
    BY <1>3, <1>8, Zenon DEF DataInv, OnlyAcknowledged
  <2>3. InBatch(group, req, group[1]) /\ group[1] \notin mem
    BY <1>8, <2>1, <2>2 DEF InBatch
  <2>4. ph2 /= "inserted"
    OBVIOUS
  <2>. QED BY <1>8, <2>3, <2>4, Zenon DEF Inserting
<1>14. Sequenced(lg2, group, ph2, req, done, sq2, last_sequence)
  <2>1. \A t \in Threads : Has(lg2, t) /\ done[t] => Has(log, t)
    BY <1>4, <1>6
  <2>2. \A t \in Threads : Has(lg2, t) /\ done[t] => sq2[t] + req[t].batch <= last_sequence + 1
    BY <1>4, <2>1, Zenon DEF DataInv, Sequenced
  <2>. QED BY <2>2, Zenon DEF Sequenced
<1>15. LogInOrder(log, arrived, req, sq2)
  <2>1. \A i \in 1 .. Len(log) : sq2[log[i]] = seq[log[i]]
    <3>1. \A i \in 1 .. Len(log) : log[i] \in Threads /\ Has(log, log[i])
      BY InSeq, Zenon DEF Has
    <3>. QED BY <1>4, <1>5, <3>1
  <2>. QED BY <2>1, Zenon DEF DataInv, LogInOrder
<1>16. /\ \A k \in 1 .. Len(bs) : sq2[bs[k]] \in Nat /\ sq2[bs[k]] > last_sequence
       /\ \A k, l \in 1 .. Len(bs) : k < l => sq2[bs[k]] + req[bs[k]].batch <= sq2[bs[l]]
  BY NumbersGrow, Zenon
<1>17. ASSUME NEW i \in 1 .. Len(log), NEW k \in 1 .. Len(bs)
       PROVE  Before(arrived, log[i], bs[k]) /\ sq2[log[i]] + req[log[i]].batch <= sq2[bs[k]]
  <2>1. PICK t \in Threads : t = log[i]
    BY InSeq, Zenon
  <2>2. PICK u \in Threads : u = bs[k]
    BY InSeq, Zenon
  <2>3. done[t] /\ Has(log, t) /\ Has(bs, u)
    BY <1>5, <2>1, <2>2, Zenon DEF Has
  <2>4. Has(writers, u)
    BY <1>2, <1>3, <2>3 DEF InBatch
  <2>5. Before(arrived, t, u)
    BY <2>3, <2>4, Zenon DEF Arrival
  <2>6. seq[t] + req[t].batch <= last_sequence + 1
    BY <2>3, Zenon DEF DataInv, Sequenced
  <2>7. sq2[t] = seq[t] /\ seq[t] \in Nat /\ req[t].batch \in Nat
    BY <1>4, <2>3 DEF Reqs
  <2>8. sq2[u] \in Nat /\ sq2[u] > last_sequence
    BY <1>16, <2>2, Zenon
  <2>9. sq2[t] + req[t].batch <= sq2[u]
    BY <2>6, <2>7, <2>8, OneBefore, Zenon
  <2>. QED BY <2>1, <2>2, <2>5, <2>9, Zenon
<1>18. ASSUME NEW k \in 1 .. Len(bs), NEW l \in 1 .. Len(bs), k < l
       PROVE  Before(arrived, bs[k], bs[l]) /\ sq2[bs[k]] + req[bs[k]].batch <= sq2[bs[l]]
  <2>1. PICK i \in 1 .. Len(group), j \in 1 .. Len(group) : i < j /\ bs[k] = group[i]
          /\ bs[l] = group[j]
    BY <1>2, <1>18 DEF Picks
  <2>2. \A h \in 1 .. Len(group) : h \in 1 .. Len(writers)
    <3>1. Len(group) \in Nat /\ Len(writers) \in Nat
      BY LenNat, Zenon
    <3>2. Len(group) <= Len(writers)
      BY Zenon DEF Grouped
    <3>. QED BY ONLY <3>1, <3>2
  <2>3. group[i] = writers[i] /\ group[j] = writers[j]
    BY Zenon DEF Grouped
  <2>4. Before(arrived, bs[k], bs[l])
    BY <2>1, <2>2, <2>3, Zenon DEF Arrival
  <2>. QED BY <1>16, <1>18, <2>4, Zenon
<1>19. LogInOrder(r, arrived, req, sq2)
  <2>1. SUFFICES ASSUME NEW i \in 1 .. Len(r), NEW j \in 1 .. Len(r), i < j
                 PROVE  Before(arrived, r[i], r[j]) /\ sq2[r[i]] + req[r[i]].batch <= sq2[r[j]]
    BY Zenon DEF LogInOrder
  <2>2. CASE i \in 1 .. Len(log) /\ j \in 1 .. Len(log)
    BY <1>6, <1>15, <2>1, <2>2, Zenon DEF LogInOrder
  <2>3. ASSUME i \in 1 .. Len(log), NEW l \in 1 .. Len(bs), j = Len(log) + l
        PROVE  Before(arrived, r[i], r[j]) /\ sq2[r[i]] + req[r[i]].batch <= sq2[r[j]]
    <3>1. r[i] = log[i] /\ r[j] = bs[l]
      BY <1>6, <2>3, Zenon
    <3>. QED BY <1>17, <2>3, <3>1, Zenon
  <2>4. ASSUME NEW k \in 1 .. Len(bs), i = Len(log) + k, NEW l \in 1 .. Len(bs),
               j = Len(log) + l
        PROVE  Before(arrived, r[i], r[j]) /\ sq2[r[i]] + req[r[i]].batch <= sq2[r[j]]
    <3>1. r[i] = bs[k] /\ r[j] = bs[l]
      BY <1>6, <2>4
    <3>2. k < l
      <4>1. Len(log) \in Nat /\ Len(bs) \in Nat
        BY LenNat, Zenon
      <4>. QED BY ONLY <2>1, <2>4, <4>1
    <3>. QED BY <1>18, <3>1, <3>2, Zenon
  <2>5. ~(\E k \in 1 .. Len(bs) : i = Len(log) + k) \/ j \notin 1 .. Len(log)
    <3>1. Len(log) \in Nat /\ Len(bs) \in Nat /\ Len(r) \in Nat
      BY <1>6, LenNat, Zenon
    <3>. QED BY ONLY <2>1, <3>1
  <2>. QED BY <1>6, <2>2, <2>3, <2>4, <2>5, Zenon
<1>20. LogInOrder(lg2, arrived, req, sq2)
  BY <1>6, <1>15, <1>19, Zenon
<1>. QED BY <1>9, <1>10, <1>11, <1>12, <1>13, <1>14, <1>20, Zenon DEF DataInv

\* A larger last_sequence still covers the numbers of earlier groups.
LEMMA LastGrows ==
    ASSUME NEW l \in Nat, NEW n \in Nat, NEW x \in Nat, NEW y \in Nat, x + y <= l + 1
    PROVE  x + y <= l + n + 1
OBVIOUS

\* logfile_->Sync(), or its failure.
LEMMA DataSynced ==
    ASSUME NEW gr \in Seq(Threads), gr /= <<>>, NEW ws \in Seq(Threads), NEW p, NEW rq, NEW arr,
           NEW dn, NEW st,
           NEW v \in SUBSET Threads, NEW m \in SUBSET v, NEW sy, NEW lg, NEW sq, NEW last,
           Queue(ws, p, dn), Grouped(ws, p, gr, rq),
           DataInv(gr, "sync", rq, arr, dn, st, v, m, sy, lg, sq, last),
           NEW sy2, sy \subseteq sy2, NEW ph2,
           \/ ph2 = "sync failed"
           \/ ph2 = "insert" /\ \A t \in Threads : InBatch(gr, rq, t) => t \in sy2
    PROVE  DataInv(gr, ph2, rq, arr, dn, st, v, m, sy2, lg, sq, last)
<1>1. gr[1] \in Threads /\ Has(gr, gr[1])
  BY FirstOf, Zenon
<1>2. \A t \in v : t \in Writers /\ dn[t] /\ st[t] = "ok"
  BY Zenon DEF DataInv, OnlyAcknowledged
<1>3. OnlyAcknowledged(v, gr, ph2, rq, dn, st)
  BY <1>2, Zenon DEF OnlyAcknowledged
<1>4. AcknowledgedKept(v, sy2, lg, rq, dn, st)
  BY Zenon DEF DataInv, AcknowledgedKept
<1>5. LogContents(lg, gr, ph2, rq, dn)
  BY Zenon DEF DataInv, LogContents, Logged
<1>6. SyncFirst(gr, ph2, rq, sy2)
  BY Zenon DEF SyncFirst
<1>7. Inserting(gr, ph2, rq, m, v)
  <2>1. rq[gr[1]].batch /= 0
    BY Zenon DEF Grouped
  <2>2. ~dn[gr[1]]
    BY <1>1, InGroup, Zenon
  <2>3. InBatch(gr, rq, gr[1]) /\ gr[1] \notin m
    BY <1>1, <1>2, <2>1, <2>2, Zenon DEF InBatch
  <2>4. ph2 /= "inserted"
    BY Zenon
  <2>. QED BY <1>1, <2>3, <2>4, Zenon DEF Inserting
<1>8. Sequenced(lg, gr, ph2, rq, dn, sq, last)
  <2>1. Numbered(Appended(gr, rq), rq, sq, last)
    BY Zenon DEF DataInv, Sequenced
  <2>. QED BY <2>1, Zenon DEF DataInv, Sequenced
<1>. QED BY <1>3, <1>4, <1>5, <1>6, <1>7, <1>8, Zenon DEF DataInv

\* One batch more is in mem_.
LEMMA DataInserted ==
    ASSUME NEW gr, NEW rq, NEW arr, NEW dn, NEW st, NEW v \in SUBSET Threads,
           NEW m \in SUBSET v, NEW sy, NEW lg, NEW sq, NEW last,
           DataInv(gr, "insert", rq, arr, dn, st, v, m, sy, lg, sq, last),
           NEW t0 \in Threads, InBatch(gr, rq, t0), NEW ph2,
           \/ ph2 = "inserted" /\ \A t \in Threads : InBatch(gr, rq, t) => t \in m \cup {t0}
           \/ ph2 = "insert" /\ \E t \in Threads : InBatch(gr, rq, t) /\ t \notin m \cup {t0}
    PROVE  DataInv(gr, ph2, rq, arr, dn, st, v \cup {t0}, m \cup {t0}, sy, lg, sq, last)
<1>1. PICK v2 : v2 = v \cup {t0}
  BY Zenon
<1>2. PICK m2 : m2 = m \cup {t0}
  BY Zenon
<1>3. OnlyAcknowledged(v2, gr, ph2, rq, dn, st)
  <2>1. \A t \in v : (t \in Writers /\ dn[t] /\ st[t] = "ok") \/ InBatch(gr, rq, t)
    BY Zenon DEF DataInv, OnlyAcknowledged
  <2>2. \A t \in v2 : t \in v \/ t = t0
    BY <1>1
  <2>3. ph2 \in {"insert", "inserted"}
    OBVIOUS
  <2>. QED BY <2>1, <2>2, <2>3, Zenon DEF OnlyAcknowledged
<1>4. AcknowledgedKept(v2, sy, lg, rq, dn, st)
  BY <1>1, Zenon DEF DataInv, AcknowledgedKept
<1>5. LogContents(lg, gr, ph2, rq, dn)
  BY Zenon DEF DataInv, LogContents, Logged
<1>6. SyncFirst(gr, ph2, rq, sy)
  BY Zenon DEF DataInv, SyncFirst
<1>7. Inserting(gr, ph2, rq, m2, v2)
  BY <1>1, <1>2 DEF Inserting
<1>8. Sequenced(lg, gr, ph2, rq, dn, sq, last)
  <2>1. Numbered(Appended(gr, rq), rq, sq, last)
    BY Zenon DEF DataInv, Sequenced
  <2>. QED BY <2>1, Zenon DEF DataInv, Sequenced
<1>. QED BY <1>1, <1>2, <1>3, <1>4, <1>5, <1>6, <1>7, <1>8, Zenon DEF DataInv

\* The calls of the group gr are over, with OK if it was inserted.
Served(gr, ph, dn, dn2, st, st2) ==
    /\ dn2 \in [Threads -> BOOLEAN] /\ \A t \in Threads : dn2[t] <=> dn[t] \/ Has(gr, t)
    /\ \A t \in Threads : Has(gr, t) => (st2[t] = "ok" <=> ph = "inserted")
    /\ \A t \in Threads : ~Has(gr, t) => st2[t] = st[t]

\* The group ends, with everybody's status.
LEMMA DataPublished ==
    ASSUME group \in Seq(Threads), group /= <<>>, writers \in Seq(Threads),
           pc \in [Threads -> Labels],
           req \in [Threads -> Reqs], done \in [Threads -> BOOLEAN],
           Visible \in SUBSET Threads, seq \in [Threads -> Nat], last_sequence \in Nat, NEW ph,
           Queue(writers, pc, done), Grouped(writers, pc, group, req), Requests(pc, req),
           DataInv(group, ph, req, arrived, done, status, Visible, mem, synced, log, seq,
           last_sequence),
           ph \in {"inserted", "failed", "sync failed"}, NEW dn2, NEW st2,
           Served(group, ph, done, dn2, status, st2),
           NEW bs \in Seq(Threads), bs = Appended(group, req), NEW f, Totals(f, bs, group, req),
           NEW last2, last2 = last_sequence + f[Len(bs)]
    PROVE  DataInv(<<>>, "none", req, arrived, dn2, st2, Visible, mem, synced, log, seq, last2)
<1>. /\ dn2 \in [Threads -> BOOLEAN] /\ \A t \in Threads : dn2[t] <=> done[t] \/ Has(group, t)
     /\ \A t \in Threads : Has(group, t) => (st2[t] = "ok" <=> ph = "inserted")
     /\ \A t \in Threads : ~Has(group, t) => st2[t] = status[t]
  BY Zenon DEF Served
<1>1. \A t \in Threads : Has(group, t) => ~done[t] /\ pc[t] /= "idle"
  <2>1. "idle" \notin Queued
    BY Zenon DEF Queued, Fronts, Leads
  <2>2. \A t \in Threads : Has(group, t) => Has(writers, t) /\ ~done[t] /\ pc[t] \in Queued
    BY InGroup, Zenon
  <2>. QED BY <2>1, <2>2, Zenon
<1>2. Threads = Writers \cup Compactors
  BY Zenon DEF Threads
<1>3. \A t \in Threads : InBatch(group, req, t) => t \in Writers
  BY <1>2, Zenon DEF InBatch, Requests
<1>4. \A t \in Writers : Has(group, t) => InBatch(group, req, t)
  BY <1>1, <1>2, Zenon DEF InBatch, Requests
<1>5. OnlyAcknowledged(Visible, <<>>, "none", req, dn2, st2)
  <2>1. SUFFICES ASSUME NEW t \in Visible PROVE t \in Writers /\ dn2[t] /\ st2[t] = "ok"
    BY Zenon DEF OnlyAcknowledged
  <2>2. CASE t \in Writers /\ done[t] /\ status[t] = "ok"
    BY <1>1, <2>2, Zenon
  <2>3. CASE InBatch(group, req, t) /\ ph \in {"insert", "inserted"}
    BY <1>3, <2>3, Zenon DEF InBatch
  <2>. QED BY <2>2, <2>3, Zenon DEF DataInv, OnlyAcknowledged
<1>6. AcknowledgedKept(Visible, synced, log, req, dn2, st2)
  <2>1. SUFFICES ASSUME NEW t \in Writers, dn2[t], st2[t] = "ok"
                 PROVE  t \in Visible /\ (req[t].sync => t \in synced) /\ Has(log, t)
    BY Zenon DEF AcknowledgedKept
  <2>2. t \in Threads
    BY <1>2, Zenon
  <2>3. CASE ~Has(group, t)
    <3>1. done[t] /\ status[t] = "ok"
      BY <2>1, <2>2, <2>3, Zenon
    <3>. QED BY <3>1, Zenon DEF DataInv, AcknowledgedKept
  <2>4. CASE Has(group, t)
    <3>1. ph = "inserted" /\ InBatch(group, req, t)
      BY <1>4, <2>1, <2>2, <2>4, Zenon
    <3>2. t \in Visible
      BY <2>2, <3>1, Zenon DEF DataInv, Inserting
    <3>3. Has(log, t)
      BY <2>2, <3>1, Zenon DEF DataInv, LogContents, Logged
    <3>4. ASSUME req[t].sync PROVE t \in synced
      <4>1. req[group[1]].sync
        BY <2>4, <3>4, Zenon DEF Grouped, Has
      <4>. QED BY <2>2, <3>1, <4>1 DEF DataInv, SyncFirst
    <3>. QED BY <3>2, <3>3, <3>4, Zenon
  <2>. QED BY <2>3, <2>4, Zenon
<1>7. \A t \in Threads : Has(log, t) => done[t] \/ InBatch(group, req, t)
  BY Zenon DEF DataInv, LogContents
<1>8. LogContents(log, <<>>, "none", req, dn2)
  BY <1>7, Zenon DEF LogContents, Logged, InBatch
<1>9. SyncFirst(<<>>, "none", req, synced) /\ Inserting(<<>>, "none", req, mem, Visible)
  BY Zenon DEF SyncFirst, Inserting
<1>10. Numbered(bs, req, seq, last_sequence)
  BY Zenon DEF DataInv, Sequenced
<1>11. /\ f[Len(bs)] \in Nat
       /\ \A k \in 1 .. Len(bs) : seq[bs[k]] + req[bs[k]].batch <= last_sequence + f[Len(bs)] + 1
  BY <1>10, NumbersGrow, Zenon
<1>12. ASSUME NEW t \in Threads, Has(log, t) PROVE seq[t] + req[t].batch <= last2 + 1
  <2>1. CASE done[t]
    <3>1. seq[t] + req[t].batch <= last_sequence + 1
      BY <1>12, <2>1, Zenon DEF DataInv, Sequenced
    <3>2. seq[t] \in Nat /\ req[t].batch \in Nat
      BY Zenon DEF Reqs
    <3>. QED BY <1>11, <3>1, <3>2, LastGrows, Zenon
  <2>2. CASE InBatch(group, req, t)
    <3>1. Has(bs, t)
      BY <2>2, Zenon DEF Totals
    <3>. QED BY <1>11, <3>1, Zenon DEF Has
  <2>. QED BY <1>7, <1>12, <2>1, <2>2, Zenon
<1>13. Sequenced(log, <<>>, "none", req, dn2, seq, last2)
  BY <1>12, Zenon DEF Sequenced
<1>. QED BY <1>5, <1>6, <1>8, <1>9, <1>13, Zenon DEF DataInv

===============================================================================
