-------------------------------- MODULE MCLSM --------------------------------
(***************************************************************************)
(* Instances of LSM in which the code breaks what it says of its levels.    *)
(***************************************************************************)
EXTENDS LSM

\* Every write is a Put of one key.
Puts == {<<[k |-> k, del |-> FALSE]>> : k \in Keys}

\* The assertion of VersionSet::Builder::MaybeAddFile(), "Must not overlap".
MustNotOverlap == LevelsDisjoint

\* The comment of Version::Get(), "entries never hop across levels": an entry of a
\* smaller level is newer than those of its key in later levels.
NoEntryHops ==
    \A l, j \in 1 .. Levels - 1 : l < j =>
      \A f \in ToSet(lv[l]), g \in ToSet(lv[j]) : \A e \in f.es, o \in g.es : e.k = o.k => e.s > o.s
===============================================================================
