-------------------------------- MODULE Repair --------------------------------
(***************************************************************************)
(* RepairDB(): the descriptor of a database is made anew from the logs and  *)
(* tables found in its directory.  The directory maps a name <<type, n>> to *)
(* what the file holds; a log is a sequence of records [es, bad], a table   *)
(* is [es, dark, whole] (the entries of blocks that can and that cannot be  *)
(* read; a table without its footer is not whole).  An entry is [k, s].     *)
(* Each step is one change of the directory, and the process may be killed  *)
(* between any two and the repair started again.                            *)
(***************************************************************************)
EXTENDS Naturals, Sequences, FiniteSets, FiniteSetsExt, SequencesExt, Functions

CONSTANTS Keys,
          Dark,         \* may a block of a table be unreadable?
          Bad,          \* may a record of a log be altered?
          MaxFaults,    \* bound on the files that cannot be created, finished or renamed
          MaxCrashes    \* bound on the times the process is killed

VARIABLES dir, lost,    \* the directory, and its subdirectory lost/
          pc,           \* where the process is
          r,            \* the Repairer
          crashes,
          before,       \* the directory before the first repair
          faulted       \* history: what failed, to "make" or to "archive" a file
vars == <<dir, lost, pc, r, crashes, before, faulted>>

Log(n) == <<"log", n>>
Table(n) == <<"table", n>>
Manifest(n) == <<"manifest", n>>
Temp == <<"temp", 1>>
Current == <<"current", 0>>

Put(f, name, content) == [n \in DOMAIN f \cup {name} |-> IF n = name THEN content ELSE f[n]]
Drop(f, name) == RestrictDomain(f, LAMBDA n : n # name)
Move(f, from, to) == Drop(Put(f, to, f[from]), from)

Garbage(k) == [k |-> k, s |-> 99]
NewTable(es) == [es |-> es, dark |-> {}, whole |-> TRUE]
Unfinished == [es |-> {}, dark |-> {}, whole |-> FALSE]
NoRepairer == [logs |-> <<>>, numbers |-> {}, tables |-> {}, next |-> 1, manifests |-> {}]

-----------------------------------------------------------------------------
\* A database that was not closed: table 3, the log 5 of the memtable that
\* was being compacted and the log 7; entries are numbered in the order written.
Init ==
    /\ \E key \in [1 .. 5 -> Keys], dark \in IF Dark THEN BOOLEAN ELSE {FALSE}, bad \in IF Bad THEN BOOLEAN ELSE {FALSE} :
         LET e(n) == [k |-> key[n], s |-> n]
             table == [NewTable({e(1), e(2)}) EXCEPT !.es = IF dark THEN {e(2)} ELSE @, !.dark = IF dark THEN {e(1)} ELSE @]
         IN dir = [n \in {Table(3), Log(5), Log(7), Manifest(2), Current} |->
                     CASE n = Table(3) -> table
                       [] n = Log(5) -> <<[es |-> {e(3)}, bad |-> FALSE]>>
                       [] n = Log(7) -> <<[es |-> {e(4)}, bad |-> bad], [es |-> {e(5)}, bad |-> FALSE]>>
                       [] n = Manifest(2) -> [tables |-> {3}, next |-> 8, last |-> 2]
                       [] OTHER -> 2]
    /\ lost = <<>> /\ pc = "find" /\ r = NoRepairer /\ crashes = 0
    /\ before = dir /\ faulted = <<>>

Fails(what) == Len(faulted) < MaxFaults /\ faulted' = Append(faulted, what)

Numbers(d, type) == {n[2] : n \in {n \in DOMAIN d : n[1] = type}}
Orders(S) == {q \in [1 .. Cardinality(S) -> S] : IsInjective(q)}

\* GetChildren() returns the names in any order (which matters for the logs only,
\* tables are scanned in order here); a manifest's number is not counted.
FindFiles ==
    /\ pc = "find"
    /\ \/ Fails("make") /\ r' = r /\ pc' = "failed"
       \/ \E logs \in Orders(Numbers(dir, "log")) :
            /\ r' = [logs |-> logs, numbers |-> Numbers(dir, "table"), tables |-> {}, manifests |-> Numbers(dir, "manifest"),
                     next |-> Max({1} \cup {n[2] + 1 : n \in {n \in DOMAIN dir : n[1] # "manifest"}})]
            /\ pc' = "convert" /\ faulted' = faulted
    /\ UNCHANGED <<dir, lost, crashes, before>>

-----------------------------------------------------------------------------
\* ConvertLogToTable() and ArchiveFile() of the log.

\* What a record adds: log::Reader does not compare checksums here, so an altered
\* record may be taken for a batch; or it is no batch and is ignored.
Replayed(rec) == IF rec.bad THEN {{}} \cup {{Garbage(k)} : k \in Keys} ELSE {rec.es}
RECURSIVE ReplayedAll(_)
ReplayedAll(recs) == IF recs = <<>> THEN {{}} ELSE {a \cup c : a \in Replayed(Head(recs)), c \in ReplayedAll(Tail(recs))}

TheLog == Log(Head(r.logs))

\* Mutant: the rest of the logs is not reached.
OnlyFirst(logs) == <<>>

Rest(logs) == Tail(logs)

\* BuildTable() creates the file, or fails; an empty memtable makes no table.
BuildTable ==
    /\ pc = "convert" /\ r.logs # <<>>
    /\ \/ /\ {{}} # ReplayedAll(dir[TheLog])
          /\ dir' = Put(dir, Table(r.next), Unfinished)
          /\ pc' = "build" /\ r' = [r EXCEPT !.next = @ + 1] /\ faulted' = faulted
       \/ /\ IF {} \in ReplayedAll(dir[TheLog]) THEN faulted' = faulted ELSE Fails("make")
          /\ pc' = "archive" /\ r' = [r EXCEPT !.next = @ + 1] /\ dir' = dir
    /\ UNCHANGED <<lost, crashes, before>>
FinishTable ==
    /\ pc = "build"
    /\ \/ /\ \E es \in ReplayedAll(dir[TheLog]) \ {{}} : dir' = Put(dir, Table(r.next - 1), NewTable(es))
          /\ r' = [r EXCEPT !.numbers = @ \cup {r.next - 1}] /\ faulted' = faulted
       \/ Fails("make") /\ dir' = Drop(dir, Table(r.next - 1)) /\ r' = r
    /\ pc' = "archive"
    /\ UNCHANGED <<lost, crashes, before>>

\* Mutant: the file is deleted.
Deleted(name) == dir' = Drop(dir, name) /\ UNCHANGED <<lost, faulted>>

\* ArchiveFile(): a rename into lost/, which replaces a file of the name there; when
\* it fails, or lost/ cannot be made, the file stays and the repair goes on.
Archive(name) ==
    \/ dir' = Drop(dir, name) /\ lost' = Put(lost, name, dir[name]) /\ faulted' = faulted
    \/ Fails("archive") /\ UNCHANGED <<dir, lost>>
ArchiveLog ==
    /\ pc = "archive"
    /\ Archive(TheLog)
    /\ r' = [r EXCEPT !.logs = Rest(@)] /\ pc' = "convert"
    /\ UNCHANGED <<crashes, before>>

AllConverted ==
    /\ pc = "convert" /\ r.logs = <<>>
    /\ pc' = "scan" /\ UNCHANGED <<dir, lost, r, crashes, before, faulted>>

-----------------------------------------------------------------------------
\* ScanTable() and RepairTable().

Number == Min(r.numbers)
T == dir[Table(Number)]
Readable(t) == t.whole /\ t.dark = {}

MaxSequence(es) == Max({0} \cup {e.s : e \in es})
Dropped == [r EXCEPT !.numbers = @ \ {Number}]
Scanned(t) == [Dropped EXCEPT !.tables = @ \cup {[number |-> Number, max |-> MaxSequence(t.es)]}]

ScanTable ==
    /\ pc = "scan" /\ r.numbers # {}
    /\ IF Readable(T) THEN r' = Scanned(T) /\ UNCHANGED <<dir, pc, faulted>>
       ELSE \/ /\ dir' = Put(dir, Table(r.next), Unfinished)
               /\ r' = [r EXCEPT !.next = @ + 1] /\ pc' = "copy" /\ faulted' = faulted
            \/ Fails("make") /\ r' = [Dropped EXCEPT !.next = @ + 1] /\ UNCHANGED <<dir, pc>>
    /\ UNCHANGED <<lost, crashes, before>>

\* What could be read is in the builder when the source is archived.
ArchiveTable ==
    /\ pc = "copy"
    /\ Archive(Table(Number))
    /\ IF T.es = {} THEN r' = Dropped /\ pc' = "scan"     \* Abandon(); the copy stays
       ELSE r' = r /\ pc' = "finish"
    /\ UNCHANGED <<crashes, before>>

\* Where the source is now, and the copy, which goes when a step of it fails.
Source == IF Table(Number) \in DOMAIN dir THEN T ELSE lost[Table(Number)]
Copy == Table(r.next - 1)
CopyFails == Fails("make") /\ dir' = Drop(dir, Copy) /\ r' = Dropped /\ pc' = "scan"

FinishCopy ==
    /\ pc = "finish"
    /\ \/ dir' = Put(dir, Copy, NewTable(Source.es)) /\ pc' = "rename" /\ UNCHANGED <<r, faulted>>
       \/ CopyFails
    /\ UNCHANGED <<lost, crashes, before>>

\* Over the source, if that could not be archived.
RenameCopy ==
    /\ pc = "rename"
    /\ \/ dir' = Move(dir, Copy, Table(Number)) /\ r' = Scanned(dir[Copy]) /\ pc' = "scan" /\ faulted' = faulted
       \/ CopyFails
    /\ UNCHANGED <<lost, crashes, before>>

-----------------------------------------------------------------------------
\* WriteDescriptor()

AllArchived(manifests) == manifests = {}

Descriptor == [tables |-> {t.number : t \in r.tables}, next |-> r.next, last |-> Max({0} \cup {t.max : t \in r.tables})]
WriteTemp ==
    /\ pc = "scan" /\ r.numbers = {}
    /\ \/ dir' = Put(dir, Temp, Descriptor) /\ pc' = "discard" /\ faulted' = faulted
       \/ Fails("make") /\ pc' = "failed" /\ dir' = dir
    /\ UNCHANGED <<lost, r, crashes, before>>
ArchiveManifest ==
    /\ pc = "discard" /\ ~AllArchived(r.manifests)
    /\ \E n \in r.manifests : Archive(Manifest(n)) /\ r' = [r EXCEPT !.manifests = @ \ {n}]
    /\ UNCHANGED <<pc, crashes, before>>
InstallManifest ==
    /\ pc = "discard" /\ AllArchived(r.manifests)
    /\ \/ dir' = Move(dir, Temp, Manifest(1)) /\ pc' = "current" /\ faulted' = faulted
       \/ Fails("make") /\ dir' = Drop(dir, Temp) /\ pc' = "failed"
    /\ UNCHANGED <<lost, r, crashes, before>>
SetCurrentFile ==
    /\ pc = "current"
    /\ \/ dir' = Put(dir, Current, 1) /\ pc' = "done" /\ faulted' = faulted
       \/ Fails("make") /\ pc' = "failed" /\ dir' = dir
    /\ UNCHANGED <<lost, r, crashes, before>>

Crash ==
    /\ pc \notin {"done", "failed"} /\ crashes < MaxCrashes
    /\ crashes' = crashes + 1 /\ pc' = "find" /\ r' = NoRepairer
    /\ UNCHANGED <<dir, lost, before, faulted>>

Step ==
    \/ FindFiles \/ BuildTable \/ FinishTable \/ ArchiveLog \/ AllConverted
    \/ ScanTable \/ ArchiveTable \/ FinishCopy \/ RenameCopy
    \/ WriteTemp \/ ArchiveManifest \/ InstallManifest \/ SetCurrentFile
Next == Step \/ Crash
Spec == Init /\ [][Next]_vars

-----------------------------------------------------------------------------
EntriesOf(name, content) ==
    IF name[1] = "table" THEN content.es \cup content.dark
    ELSE IF name[1] = "log" THEN UNION {rec.es : rec \in ToSet(content)} ELSE {}
Held(d) == UNION {EntriesOf(n, d[n]) : n \in DOMAIN d}
Live == UNION {dir[Table(n)].es : n \in dir[Manifest(1)].tables}

\* Whatever step fails, whenever the repair is killed, and however often it is started
\* again, every entry is still in a file of the directory or of lost/.  Only when a file
\* could not be archived, a copy may have replaced the entries that cannot be read.
NothingDestroyed ==
    \A n \in DOMAIN before :
      EntriesOf(n, before[n]) \subseteq Held(dir) \cup Held(lost)
        \cup IF n[1] = "table" /\ "archive" \in ToSet(faulted) THEN before[n].dark ELSE {}

\* If all files can be read and created, the repaired database has every entry of
\* every table and log, even if repairs before it were killed half way.
AllRecovered ==
    (pc = "done" /\ faulted = <<>>) =>
      \A n \in DOMAIN before : (n[1] = "log" \/ (n[1] = "table" /\ Readable(before[n]))) =>
        EntriesOf(n, before[n]) \subseteq Live \cup UNION {IF rec.bad THEN rec.es ELSE {} : rec \in UNION {ToSet(before[l]) : l \in {l \in DOMAIN before : l[1] = "log"}}}

\* The new descriptor is in place and lists tables that are there and whole; its
\* last sequence number covers all their entries and its next file number is above
\* that of every file.
DescriptorGood ==
    pc = "done" =>
      /\ dir[Current] = 1 /\ Manifest(1) \in DOMAIN dir
      /\ LET d == dir[Manifest(1)]
         IN /\ \A n \in d.tables : Table(n) \in DOMAIN dir /\ Readable(dir[Table(n)])
            /\ \A e \in Live : e.s <= d.last
            /\ \A n \in DOMAIN dir : n[1] # "manifest" => n[2] < d.next

\* A repair that is not killed for ever comes to its end.
Ended == pc \in {"done", "failed"}
===============================================================================
