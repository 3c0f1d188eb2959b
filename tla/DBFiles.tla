------------------------------- MODULE DBFiles -------------------------------
(***************************************************************************)
(* What a DBImpl keeps in files, through crashes of the process and of the  *)
(* machine: logs, tables, manifests and CURRENT.  A write is named by a     *)
(* number and has a key of its own, so a database holds a set of writes;    *)
(* a table holds a set, a log a sequence of them.  A manifest is a sequence *)
(* of edits.  Versions are sets of table numbers.                           *)
(***************************************************************************)
EXTENDS Naturals, Sequences, FiniteSets, SequencesExt, FiniteSetsExt, PosixFiles

CONSTANTS ReuseLogs,            \* options_.reuse_logs
          Fresh,                \* is there no database yet?
          MaxWrites, MaxCrashes, MaxNumber, MaxEdits,   \* bounds: writes, crashes and
                                                        \* DB::Open()s that fail, file numbers,
                                                        \* edits in a manifest that is added a move to
          Faults                \* subset of {"process", "machine", "manifest"}

VARIABLES fs,        \* the files
          db,        \* the DBImpl and its VersionSet
          flush,     \* number of the table CompactMemTable() is building, 0: none
          merge,     \* the compaction under way
          apply,     \* the LogAndApply() under way
          writer,    \* the front of the queue of writers
          acked,     \* history: writes that the next DB::Open() must find, .synced whatever happens
          written, crashes   \* history: writes, crashes and failed DB::Open()s so far

vars == <<fs, db, flush, merge, apply, writer, acked, written, crashes>>

Log(n) == <<"log", n>>
Table(n) == <<"table", n>>
Manifest(n) == <<"manifest", n>>
Temp(n) == <<"temp", n>>

NoMerge == [pc |-> "none", out |-> 0, ins |-> {}, version |-> {}]
NoEdit == [add |-> {}, del |-> {}, log |-> 0, next |-> 0, seq |-> 0]
NoApply == [pc |-> "none", for |-> "none", edit |-> NoEdit]
NoWriter == [pc |-> "idle", sync |-> FALSE, rec |-> [id |-> 0, seq |-> 0]]
Down == [pc |-> "down", mem |-> {}, imm |-> {}, log |-> 0, files |-> {}, pins |-> {},
         next |-> 2, manifest |-> 0, open |-> FALSE, seq |-> 0, log_number |-> 0, pending |-> {},
         error |-> FALSE, logs |-> <<>>, edit |-> NoEdit, save |-> FALSE]

\* A database that was created, opened once and closed.
Created ==
    LET e == [NoEdit EXCEPT !.log = 3, !.next = 4]
    IN [dirs |-> <<[names |-> {Manifest(2), Log(3)}, current |-> 2]>>,
        data |-> [n \in {Manifest(2), Log(3)} |->
                    IF n = Log(3) THEN Empty ELSE [recs |-> <<e>>, synced |-> 1]]]

Init ==
    /\ fs = IF Fresh THEN [dirs |-> <<[names |-> {}, current |-> 0]>>, data |-> <<>>] ELSE Created
    /\ db = Down /\ flush = 0 /\ merge = NoMerge /\ apply = NoApply /\ writer = NoWriter
    /\ acked = [kept |-> {}, synced |-> {}] /\ written = 0 /\ crashes = 0

\* A record whose AddRecord() did not end.  The reader drops it and, if the log is
\* used again, up to k records behind it, the ones in the rest of its block.
Torn(k) == [torn |-> k]
IsTorn(r) == "torn" \in DOMAIN r

\* log::Reader::ReadRecord() up to the end, with paranoid_checks off.
ReadRecords(recs) ==
    LET dropped(i) == IsTorn(recs[i])
                      \/ \E j \in 1 .. i - 1 : IsTorn(recs[j]) /\ i - j <= recs[j].torn
        given == SelectSeq([i \in DOMAIN recs |-> i], LAMBDA i : ~dropped(i))
    IN [i \in DOMAIN given |-> recs[given[i]]]

Contents(numbers) == UNION {Records(fs, Table(n))[1] : n \in numbers}
Readable == db.mem \cup db.imm \cup Contents(db.files)

\* BuildTable(): written, synced and closed.
BuildTable(f, n, entries) == Sync(AppendRecord(NewWritableFile(f, Table(n)), Table(n), entries), Table(n))

\* SetCurrentFile() up to the rename: WriteStringToFileSync() of a temporary file.
WriteTemp(f, m) == Sync(AppendRecord(NewWritableFile(f, Temp(m)), Temp(m), m), Temp(m))

MayCollect(d) == ~d.error

\* Mutant: outputs that are in no version yet are not looked at.
LiveInVersions(d, v) == d.files \cup (UNION d.pins) \cup v

\* pending_outputs_ and AddLiveFiles(): the current version, those of readers
\* and v, that of a compaction.
Live(d, v) == d.pending \cup d.files \cup (UNION d.pins) \cup v

KeepLog(d, n) == n >= d.log_number

\* DeleteObsoleteFiles() of DBImpl d, while a compaction reads version v.
DeleteObsoleteFiles(f, d, v) ==
    LET live == Live(d, v)
        keep(n) == CASE n[1] = "log" -> KeepLog(d, n[2])
                     [] n[1] = "manifest" -> n[2] >= d.manifest
                     [] n[1] \in {"table", "temp"} -> n[2] \in live
    IN IF MayCollect(d) THEN DeleteFiles(f, {n \in Dir(f).names : ~keep(n)}) ELSE f

-----------------------------------------------------------------------------
\* DB::Open()

\* NewDB() up to SetCurrentFile(): MANIFEST-1 is closed, not synced.
NewDB ==
    /\ db.pc = "down" /\ Dir(fs).current = 0
    /\ fs' = AppendRecord(NewWritableFile(fs, Manifest(1)), Manifest(1), [NoEdit EXCEPT !.next = 2])
    /\ db' = [db EXCEPT !.pc = "temp"]
    /\ UNCHANGED <<flush, merge, apply, writer, acked, written, crashes>>

\* SetCurrentFile(1), in two steps.
NewDBTemp ==
    /\ db.pc = "temp"
    /\ fs' = WriteTemp(fs, 1)
    /\ db' = [db EXCEPT !.pc = "rename"]
    /\ UNCHANGED <<flush, merge, apply, writer, acked, written, crashes>>

NewDBRename ==
    /\ db.pc = "rename"
    /\ fs' = RenameToCurrent(fs, Temp(1), 1)
    /\ db' = [db EXCEPT !.pc = "down"]
    /\ UNCHANGED <<flush, merge, apply, writer, acked, written, crashes>>

\* Builder::Apply(), SaveTo()
Edited(files, e) == (files \ e.del) \cup e.add

\* MarkFileNumberUsed()
MarkFileNumberUsed(next, n) == IF next <= n THEN n + 1 ELSE next

\* ReuseManifest()
ReuseManifest(d, current) == IF ReuseLogs THEN [d EXCEPT !.open = TRUE, !.manifest = current] ELSE d

\* What VersionSet::Recover() reads of a descriptor.  A torn edit at its end is
\* dropped; edits behind one go with it if its length reaches past the end of the
\* file, and are an error, for which there are no edits here, if it does not.
EditsRead(recs) ==
    LET torn == {i \in DOMAIN recs : IsTorn(recs[i])}
        before == IF torn = {} THEN recs ELSE SubSeq(recs, 1, Min(torn) - 1)
    IN IF torn \subseteq {Len(recs)} THEN {before} ELSE {before, <<>>}

\* VersionSet::Recover(): db after the edits of the manifest that is CURRENT,
\* "corrupt" when none of them has the numbers.
Recovered(edits) ==
    LET numbered == SelectSeq(edits, LAMBDA e : e.next > 0)
        last == Last(numbered)
    IN IF numbered = <<>> THEN [db EXCEPT !.pc = "corrupt"]
       ELSE ReuseManifest([db EXCEPT !.pc = "logs", !.files = FoldLeft(Edited, {}, edits),
                              !.manifest = last.next, !.next = last.next + 1, !.seq = last.seq,
                              !.log_number = last.log, !.save = ~ReuseLogs], Dir(fs).current)

\* DBImpl::Recover() up to the logs.
Recover ==
    /\ db.pc = "down" /\ Dir(fs).current > 0
    /\ \E edits \in LET m == Manifest(Dir(fs).current)
                     IN EditsRead(IF Exists(fs, m) THEN Records(fs, m) ELSE <<>>) :
       LET d == Recovered(edits)
           listed == {n[2] : n \in Dir(fs).names}
           logs == {n \in Numbers(fs, "log") : n >= d.log_number}
       IN db' = IF d.files \subseteq listed THEN [d EXCEPT !.logs = SetToSortSeq(logs, <)]
                ELSE [db EXCEPT !.pc = "corrupt"]
    /\ UNCHANGED <<fs, flush, merge, apply, writer, acked, written, crashes>>

\* Mutant: last_sequence_ stays what the manifest says.
ManifestSequence(seq, recs) == seq

RecoveredSequence(seq, recs) == Max({seq} \cup {r.seq : r \in ToSet(recs)})

\* RecoverLogFile() of the next log.  The memtable is written to a table after
\* the first "cut" records when it is too large then, and at the end unless the
\* log is the last one and is used again.
RecoverLogFile ==
    /\ db.pc = "logs" /\ db.logs # <<>>
    /\ \E cut \in 0 .. Len(ReadRecords(Records(fs, Log(Head(db.logs))))) :
         LET n == Head(db.logs)
             recs == ReadRecords(Records(fs, Log(n)))
             rest == {recs[i] : i \in cut + 1 .. Len(recs)}
             reused == ReuseLogs /\ Len(db.logs) = 1 /\ cut = 0
             built == (IF cut = 0 THEN <<>> ELSE <<{recs[i] : i \in 1 .. cut}>>)
                      \o (IF rest = {} \/ reused THEN <<>> ELSE <<rest>>)
             tables == {db.next + i - 1 : i \in DOMAIN built}
         IN /\ fs' = FoldLeft(LAMBDA f, t : BuildTable(f, t, built[t + 1 - db.next]), fs,
                              SetToSortSeq(tables, <))
            /\ db' = [db EXCEPT !.logs = Tail(@), !.next = MarkFileNumberUsed(@ + Len(built), n),
                         !.edit.add = @ \cup tables, !.save = @ \/ built # <<>>,
                         !.seq = RecoveredSequence(@, recs),
                         !.log = IF reused THEN n ELSE @,
                         !.mem = IF reused THEN rest ELSE @]
    /\ UNCHANGED <<flush, merge, apply, writer, acked, written, crashes>>

\* A new log, unless one is used again; then LogAndApply() if it is needed.
OpenLog ==
    /\ db.pc = "logs" /\ db.logs = <<>>
    /\ LET new == db.log = 0
           n == IF new THEN db.next ELSE db.log
           next == IF new THEN db.next + 1 ELSE db.next
       IN /\ fs' = IF new THEN NewWritableFile(fs, Log(n)) ELSE fs
          /\ db' = [db EXCEPT !.pc = IF db.save THEN "apply" ELSE "collect", !.log = n, !.next = next]
          /\ apply' = IF db.save
                      THEN [pc |-> "append", for |-> "open",
                            edit |-> [db.edit EXCEPT !.log = n, !.next = next, !.seq = db.seq]]
                      ELSE NoApply
    /\ UNCHANGED <<flush, merge, writer, acked, written, crashes>>

OpenDone ==
    /\ db.pc = "collect"
    /\ fs' = DeleteObsoleteFiles(fs, db, {})
    /\ db' = [db EXCEPT !.pc = "open"]
    /\ acked' = [kept |-> Readable, synced |-> acked.synced]
    /\ UNCHANGED <<flush, merge, apply, writer, written, crashes>>

-----------------------------------------------------------------------------
\* LogAndApply()

\* WriteSnapshot(): the current version, without numbers.
Snapshot == [NoEdit EXCEPT !.add = db.files]

\* The descriptor is created if there is none, and the edit appended.
ApplyAppend ==
    /\ apply.pc = "append"
    /\ LET m == Manifest(db.manifest)
           f == IF db.open THEN fs ELSE AppendRecord(NewWritableFile(fs, m), m, Snapshot)
       IN fs' = AppendRecord(f, m, apply.edit)
    /\ apply' = [apply EXCEPT !.pc = "sync"]
    /\ UNCHANGED <<db, flush, merge, writer, acked, written, crashes>>

\* Mutant: a new descriptor becomes CURRENT before it is synced.
RenamedFirst(f, m) == f

SyncDescriptor(f, m) == Sync(f, m)

ApplySync ==
    /\ apply.pc = "sync"
    /\ fs' = SyncDescriptor(fs, Manifest(db.manifest))
    /\ apply' = [apply EXCEPT !.pc = IF db.open THEN "install" ELSE "temp"]
    /\ UNCHANGED <<db, flush, merge, writer, acked, written, crashes>>

ApplyTemp ==
    /\ apply.pc = "temp"
    /\ fs' = WriteTemp(fs, db.manifest)
    /\ apply' = [apply EXCEPT !.pc = "rename"]
    /\ UNCHANGED <<db, flush, merge, writer, acked, written, crashes>>

ApplyRename ==
    /\ apply.pc = "rename"
    /\ fs' = RenameToCurrent(fs, Temp(db.manifest), db.manifest)
    /\ apply' = [apply EXCEPT !.pc = "install"]
    /\ UNCHANGED <<db, flush, merge, writer, acked, written, crashes>>

Installed == [db EXCEPT !.files = Edited(@, apply.edit), !.log_number = apply.edit.log, !.open = TRUE]

\* The new version is current; then what the caller does.
Install ==
    /\ apply.pc = "install"
    /\ apply' = NoApply
    /\ \/ /\ apply.for = "open"
          /\ db' = [Installed EXCEPT !.pc = "collect"]
          /\ UNCHANGED <<fs, merge>>
       \/ /\ apply.for = "flush"     \* CompactMemTable()
          /\ db' = [Installed EXCEPT !.imm = {}]
          /\ fs' = DeleteObsoleteFiles(fs, db', merge.version)
          /\ UNCHANGED merge
       \/ /\ apply.for = "move"      \* a trivial move deletes nothing
          /\ db' = Installed
          /\ UNCHANGED <<fs, merge>>
       \/ /\ apply.for = "merge"     \* CleanupCompaction(), ReleaseInputs()
          /\ db' = [Installed EXCEPT !.pending = @ \ {merge.out}]
          /\ merge' = NoMerge
          /\ fs' = DeleteObsoleteFiles(fs, db', {})
    /\ UNCHANGED <<flush, writer, acked, written, crashes>>

\* The files when AddRecord() of the edit did not end: some of it may be there.
EditTorn ==
    {fs} \cup (IF apply.pc = "append" /\ db.open
               THEN {AppendRecord(fs, Manifest(db.manifest), Torn(0))} ELSE {})

\* A call of LogAndApply() fails: AddRecord(), Sync() or SetCurrentFile().
ApplyFails ==
    /\ "manifest" \in Faults /\ apply.pc \in {"append", "sync", "temp", "rename"}
    /\ apply' = NoApply
    /\ \E f \in EditTorn :
         \/ /\ apply.for = "open" /\ crashes < MaxCrashes
            /\ crashes' = crashes + 1
            /\ db' = Down
            /\ fs' = IF db.open THEN f ELSE DeleteFiles(fs, {Manifest(db.manifest)})
            /\ UNCHANGED merge
         \/ /\ apply.for \in {"flush", "move"}
            /\ db' = [db EXCEPT !.error = TRUE]
            /\ fs' = f
            /\ UNCHANGED <<merge, crashes>>
         \/ /\ apply.for = "merge"
            /\ db' = [db EXCEPT !.error = TRUE, !.pending = @ \ {merge.out}]
            /\ merge' = NoMerge
            /\ fs' = DeleteObsoleteFiles(f, db', {})
            /\ UNCHANGED crashes
    /\ UNCHANGED <<flush, writer, acked, written>>

-----------------------------------------------------------------------------
\* DBImpl::Write()

Running == db.pc = "open"
Idle == apply.pc = "none" /\ flush = 0

\* MakeRoomForWrite(): a new log and a new memtable.
SwitchMemTable ==
    /\ Running /\ writer.pc = "idle" /\ ~db.error /\ db.mem # {} /\ db.imm = {} /\ db.next < MaxNumber
    /\ fs' = NewWritableFile(fs, Log(db.next))
    /\ db' = [db EXCEPT !.log = db.next, !.next = @ + 1, !.imm = db.mem, !.mem = {}]
    /\ UNCHANGED <<flush, merge, apply, writer, acked, written, crashes>>

AddRecord(sync) ==
    /\ Running /\ writer.pc = "idle" /\ ~db.error /\ written < MaxWrites
    /\ LET r == [id |-> written + 1, seq |-> db.seq + 1]
       IN /\ fs' = AppendRecord(fs, Log(db.log), r)
          /\ writer' = [pc |-> IF sync THEN "sync" ELSE "insert", sync |-> sync, rec |-> r]
    /\ written' = written + 1
    /\ UNCHANGED <<db, flush, merge, apply, acked, crashes>>

\* Mutant: the log is not synced.
SkipsSync(f, n) == f

SyncLog(f, n) == Sync(f, n)

WriterSync ==
    /\ writer.pc = "sync"
    /\ fs' = SyncLog(fs, Log(db.log))
    /\ writer' = [writer EXCEPT !.pc = "insert"]
    /\ UNCHANGED <<db, flush, merge, apply, acked, written, crashes>>

\* InsertInto(), SetLastSequence(); Write() returns.
WriterInsert ==
    /\ writer.pc = "insert"
    /\ db' = [db EXCEPT !.mem = @ \cup {writer.rec}, !.seq = writer.rec.seq]
    /\ acked' = [kept |-> acked.kept \cup {writer.rec},
                 synced |-> IF writer.sync THEN acked.synced \cup {writer.rec} ELSE acked.synced]
    /\ writer' = NoWriter
    /\ UNCHANGED <<fs, flush, merge, apply, written, crashes>>

\* A reader, or an iterator, takes the current version, and lets it go.
Pin ==
    /\ Running /\ db.pins = {} /\ db.files # {}
    /\ db' = [db EXCEPT !.pins = {db.files}]
    /\ UNCHANGED <<fs, flush, merge, apply, writer, acked, written, crashes>>

Unpin ==
    /\ db.pins # {}
    /\ db' = [db EXCEPT !.pins = {}]
    /\ UNCHANGED <<fs, flush, merge, apply, writer, acked, written, crashes>>

-----------------------------------------------------------------------------
\* BackgroundCompaction()

\* CompactMemTable(), also from within DoCompactionWork(), there whatever
\* bg_error_ is.
FlushStart ==
    /\ Running /\ Idle /\ db.imm # {} /\ db.next < MaxNumber
    /\ merge.pc = "none" => ~db.error
    /\ flush' = db.next
    /\ db' = [db EXCEPT !.next = @ + 1, !.pending = @ \cup {db.next}]
    /\ UNCHANGED <<fs, merge, apply, writer, acked, written, crashes>>

\* edit.SetLogNumber(logfile_number_)
LogOfEdit(n) == n

Edit(add, del, log) == [add |-> add, del |-> del, log |-> log, next |-> db.next, seq |-> db.seq]

FlushBuild ==
    /\ flush > 0 /\ apply.pc = "none"
    /\ fs' = BuildTable(fs, flush, db.imm)
    /\ db' = [db EXCEPT !.pending = @ \ {flush}]
    /\ apply' = [pc |-> "append", for |-> "flush", edit |-> Edit({flush}, {}, LogOfEdit(db.log))]
    /\ flush' = 0
    /\ UNCHANGED <<merge, writer, acked, written, crashes>>

\* PickCompaction(): a table is moved to the next level,
TrivialMove ==
    /\ Running /\ Idle /\ merge.pc = "none" /\ ~db.error
    /\ Len(Records(fs, Manifest(db.manifest))) < MaxEdits
    /\ \E n \in db.files :
         apply' = [pc |-> "append", for |-> "move", edit |-> Edit({n}, {n}, db.log_number)]
    /\ UNCHANGED <<fs, db, flush, merge, writer, acked, written, crashes>>

\* or tables are merged: OpenCompactionOutputFile(),
MergeStart ==
    /\ Running /\ Idle /\ merge.pc = "none" /\ ~db.error /\ db.next < MaxNumber /\ db.files # {}
    /\ \E ins \in {{Min(db.files)}, db.files} :
         merge' = [pc |-> "work", out |-> db.next, ins |-> ins, version |-> db.files]
    /\ fs' = NewWritableFile(fs, Table(db.next))
    /\ db' = [db EXCEPT !.next = @ + 1, !.pending = @ \cup {db.next}]
    /\ UNCHANGED <<flush, apply, writer, acked, written, crashes>>

\* FinishCompactionOutputFile() and InstallCompactionResults().
MergeFinish ==
    /\ merge.pc = "work" /\ Idle
    /\ fs' = Sync(AppendRecord(fs, Table(merge.out), Contents(merge.ins)), Table(merge.out))
    /\ merge' = [merge EXCEPT !.pc = "install"]
    /\ apply' = [pc |-> "append", for |-> "merge", edit |-> Edit({merge.out}, merge.ins, db.log_number)]
    /\ UNCHANGED <<db, flush, writer, acked, written, crashes>>

-----------------------------------------------------------------------------
\* The process ends (or ~DBImpl() returns), or the machine does.
Restarted ==
    /\ crashes < MaxCrashes /\ db.pc \notin {"down", "corrupt"}
    /\ crashes' = crashes + 1
    /\ db' = Down /\ flush' = 0 /\ merge' = NoMerge /\ apply' = NoApply /\ writer' = NoWriter

\* AddRecord() makes several write()s, and the process ends between two: of a
\* write, or of an edit; or elsewhere.
TearRecord ==
    /\ Running /\ writer.pc = "idle" /\ ~db.error /\ written < MaxWrites
    /\ written' = written + 1
    /\ \E k \in IF ReuseLogs THEN 0 .. MaxWrites ELSE {0} :
          fs' = AppendRecord(fs, Log(db.log), Torn(k))

TearEdit == fs' \in EditTorn /\ UNCHANGED written

ProcessCrash ==
    /\ "process" \in Faults /\ Restarted
    /\ TearRecord \/ TearEdit
    /\ UNCHANGED acked

\* (A record that the end of the machine tears is as good as none.)
MachineCrash ==
    /\ "machine" \in Faults /\ Restarted
    /\ UNCHANGED written
    /\ acked' = [acked EXCEPT !.kept = acked.synced]
    /\ \E d \in ToSet(fs.dirs), more \in Leftovers(fs, MaxWrites) : fs' = AfterCrash(fs, d, more)

\* Nothing more is asked of the database.
Rest ==
    /\ \/ db.pc = "corrupt"
       \/ db.pc = "open" /\ written = MaxWrites /\ crashes = MaxCrashes
       \/ db.pc = "open" /\ (db.error \/ db.next = MaxNumber)
    /\ UNCHANGED vars

Next ==
    \/ NewDB \/ NewDBTemp \/ NewDBRename \/ Recover \/ RecoverLogFile \/ OpenLog \/ OpenDone
    \/ ApplyAppend \/ ApplySync \/ ApplyTemp \/ ApplyRename \/ Install \/ ApplyFails
    \/ SwitchMemTable \/ (\E sync \in BOOLEAN : AddRecord(sync)) \/ WriterSync \/ WriterInsert
    \/ Pin \/ Unpin
    \/ FlushStart \/ FlushBuild \/ TrivialMove \/ MergeStart \/ MergeFinish
    \/ ProcessCrash \/ MachineCrash \/ Rest

Spec == Init /\ [][Next]_vars

-----------------------------------------------------------------------------
\* The writer, the background thread and the manifest are where they can be.
TypeOK ==
    /\ db.pc \in {"down", "temp", "rename", "logs", "apply", "collect", "open", "corrupt"}
    /\ apply.pc \in {"none", "append", "sync", "temp", "rename", "install"}
    /\ merge.pc \in {"none", "work", "install"} /\ writer.pc \in {"idle", "sync", "insert"}
    /\ acked.synced \subseteq acked.kept /\ flush \in 0 .. MaxNumber
    /\ db.next \in Nat /\ db.log < db.next

\* After every crash of the process DB::Open() finds every write that was
\* acknowledged, after a crash of the machine every write acknowledged with
\* sync (WriteOptions::sync), and an open database always holds them.
NothingAcknowledgedIsLost ==
    db.pc \in {"collect", "open"} => acked.kept \subseteq Readable

\* The records behind a torn one.
BehindTorn(recs) == {recs[i] : i \in {j \in DOMAIN recs : \E h \in 1 .. j - 1 : IsTorn(recs[h])}}

\* With options_.reuse_logs a log, and a descriptor, are appended to behind what a
\* process left torn: DB::Open() loses acknowledged writes only from there.
LostOnlyBehindTorn ==
    db.pc \in {"collect", "open"} =>
      \/ acked.kept \ Readable \subseteq UNION {BehindTorn(Records(fs, Log(n))) : n \in Numbers(fs, "log")}
      \/ BehindTorn(Records(fs, Manifest(Dir(fs).current))) # {}

\* DB::Open() never finds a database it made itself corrupt: no crash leaves a
\* CURRENT without a manifest, a manifest without its numbers or a version
\* without its tables.
OpenNeverCorrupt == db.pc # "corrupt"

\* DeleteObsoleteFiles() deletes no table that the current version, a reader's
\* version or the inputs of a compaction name, nor the output of one under way, and
\* nobody overwrites one.
LiveTablesExist ==
    Running =>
      /\ \A n \in db.files \cup (UNION db.pins) \cup merge.version :
           Exists(fs, Table(n)) /\ Records(fs, Table(n)) # <<>>
      /\ merge.pc = "work" => Exists(fs, Table(merge.out))

\* The tables that the edits of the CURRENT manifest leave are there and
\* complete, also those of an edit whose Sync() failed.
ManifestIsBacked ==
    LET m == Manifest(Dir(fs).current)
    IN (Dir(fs).current > 0 /\ Exists(fs, m)) =>
         \A n \in FoldLeft(Edited, {}, SelectSeq(Records(fs, m), LAMBDA e : ~IsTorn(e))) :
           Exists(fs, Table(n)) /\ Records(fs, Table(n)) # <<>>

\* A sequence number names one write for ever, through recovery too, and none
\* is above last_sequence_ of an open database.
SequencesUnique ==
    Running =>
      /\ \A r, q \in Readable : r.seq = q.seq => r = q
      /\ \A r \in Readable : r.seq <= db.seq

===============================================================================
