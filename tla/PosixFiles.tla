----------------------------- MODULE PosixFiles ------------------------------
(***************************************************************************)
(* The files of a database as env_posix.cc leaves them to a crash.          *)
(*                                                                          *)
(* f.dirs is the directory as it is on disk, followed by what each change   *)
(* since then made of it; the last is the directory as processes see it.    *)
(* A machine that ends keeps one of them: changes are written in order.     *)
(* f.data holds the records of each file, the first "synced" of which are   *)
(* on disk.  A name is a type and a number; CURRENT is the number it holds, *)
(* 0 when there is no CURRENT.                                              *)
(***************************************************************************)
EXTENDS Naturals, Sequences, FiniteSets, SequencesExt

CONSTANT SyncKeepsName   \* does fdatasync() of a new file keep its directory entry?

Empty == [recs |-> <<>>, synced |-> 0]

Dir(f) == Last(f.dirs)
Exists(f, n) == n \in Dir(f).names
Records(f, n) == f.data[n].recs
Numbers(f, type) == {n[2] : n \in {m \in Dir(f).names : m[1] = type}}

Changed(f, names, current) == [f EXCEPT !.dirs = Append(@, [names |-> names, current |-> current])]

\* NewWritableFile(): fopen(name, "w") empties a file that is there.
NewWritableFile(f, n) ==
    [Changed(f, Dir(f).names \cup {n}, Dir(f).current)
       EXCEPT !.data = [m \in DOMAIN f.data \cup {n} |-> IF m = n THEN Empty ELSE f.data[m]]]

\* PosixWritableFile::Append() and Flush().
AppendRecord(f, n, r) == [f EXCEPT !.data[n].recs = Append(@, r)]

SyncsDirectory(n) == n[1] = "manifest" \/ SyncKeepsName

\* The data of the files that a directory of ds has.
Reachable(data, ds) == [n \in DOMAIN data \cap UNION {d.names : d \in ToSet(ds)} |-> data[n]]

\* PosixWritableFile::Sync(): the directory first, if this is a manifest.
Sync(f, n) ==
    LET ds == IF SyncsDirectory(n) THEN <<Dir(f)>> ELSE f.dirs IN
    [dirs |-> ds, data |-> Reachable([f.data EXCEPT ![n].synced = Len(f.data[n].recs)], ds)]

\* DeleteFile() of each of a set of names.
DeleteFiles(f, ns) ==
    IF ns \cap Dir(f).names = {} THEN f ELSE Changed(f, Dir(f).names \ ns, Dir(f).current)

\* RenameFile() of a temporary file, which holds m, to CURRENT.
RenameToCurrent(f, n, m) == Changed(f, Dir(f).names \ {n}, m)

Unsynced(f) == {n \in DOMAIN f.data : f.data[n].synced < Len(f.data[n].recs)}

\* The machine ends: directory d is left, and of each file what was synced and
\* up to more[n] other records.
AfterCrash(f, d, more) ==
    LET kept(n) == IF n \notin Unsynced(f) THEN f.data[n].recs
                   ELSE SubSeq(f.data[n].recs, 1, f.data[n].synced + more[n])
    IN [dirs |-> <<d>>, data |-> [n \in d.names |-> [recs |-> kept(n), synced |-> Len(kept(n))]]]

\* What more[n] may be.
Leftovers(f, max) ==
    {more \in [Unsynced(f) -> 0 .. max] :
       \A n \in Unsynced(f) : f.data[n].synced + more[n] <= Len(f.data[n].recs)}
===============================================================================
