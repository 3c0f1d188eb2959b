----------------------------- MODULE BloomFilter -----------------------------
(***************************************************************************)
(* BloomFilterPolicy behind InternalFilterPolicy: a filter is [len, k, set],*)
(* its length in bytes, the number of probes it was made with and the bits  *)
(* that are set; len = 0 is an empty slice.  Hash values have W bits (32 in *)
(* the code) and are turned by Turn (17 in the code).                       *)
(***************************************************************************)
EXTENDS Naturals

CONSTANTS Hash(_),      \* BloomHash() of a user key, 0 .. 2^W - 1
          W, Turn,
          BitsPerKey,
          MinBits       \* 64 in the code
AtMost(n, m) == IF n > m THEN m ELSE n
AtLeast(n, m) == IF n < m THEN m ELSE n

Probes == AtMost(AtLeast((BitsPerKey * 69) \div 100, 1), 30)
Delta(h) == (h \div 2^Turn) + ((h * 2^(W - Turn)) % 2^W)
Bytes(n) == (AtLeast(n * BitsPerKey, MinBits) + 7) \div 8

\* h after j steps of h += delta.
HashAt(h, j) == (h + j * Delta(h)) % 2^W
BitPositions(u, bits, k) == {HashAt(Hash(u), j) % bits : j \in 0 .. k - 1}

\* keys: the user keys, n of them counting duplicates.
CreateFilter(keys, n) ==
    [len |-> Bytes(n) + 1, k |-> Probes, set |-> UNION {BitPositions(u, Bytes(n) * 8, Probes) : u \in keys}]
KeyMayMatch(u, f) ==
    f.len >= 2 /\ (f.k > 30 \/ BitPositions(u, (f.len - 1) * 8, f.k) \subseteq f.set)
===============================================================================
