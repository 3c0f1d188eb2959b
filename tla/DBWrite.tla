------------------------------- MODULE DBWrite -------------------------------
(***************************************************************************)
(* The writers of a DBImpl, its background thread, manual compactions and   *)
(* its destructor.                                                          *)
(*                                                                          *)
(* An action is what a thread does from taking mutex_ to releasing it (or   *)
(* waiting), or one thing it does without mutex_.  A thread is named by its *)
(* one call; the entries it writes are named by the thread.  The tables of  *)
(* level 0 are counted, those of the other levels are not.                  *)
(***************************************************************************)
EXTENDS Naturals, Sequences, FiniteSets, FiniteSetsExt

CONSTANTS Writers,            \* threads that call Write() with a batch
          Compactors,         \* threads that call CompactRange()
          None,
          Syncs,              \* choices of options.sync
          Sizes,              \* sizes of a batch, which are its numbers of entries
          SmallBatch, BigGroup,   \* 128 << 10 and 1 << 20, in BuildBatchGroup()
          WriteBuffer,        \* options_.write_buffer_size
          CompactionTrigger, SlowdownTrigger, StopTrigger,   \* config::kL0_...
          MaxPieces,          \* bound: compactions one TEST_CompactRange() needs
          MergeLoops,         \* bound: memtables compacted during one compaction
          InitialTables,      \* level-0 tables of the DB that was opened
          Faults              \* the operations on files that may fail; "seek": reads charge seeks

Threads == Writers \cup Compactors

VARIABLES writers,      \* writers_
          pc,
          req,          \* the batch's size, 0 for NULL, and options.sync
          done, status, \* of the Writer
          slept,        \* ~allow_delay, once MakeRoomForWrite() has slept
          group,        \* what the leading writer writes
          mem, imm,     \* imm = {} is NULL, {m} a memtable m
          tables,       \* the entries in tables
          log, synced,  \* the records of the logs, and those a Sync() covers
          last_sequence, seq,
          l0, seek,     \* level-0 tables; file_to_compact_
          scheduled, bg, manual, pieces, bg_error, shutting_down,
          arrived           \* history: the order of arrival

queue == <<writers, req, done, status, slept, group, arrived>>
data == <<mem, imm, tables, log, synced, last_sequence, seq>>
work == <<l0, seek, scheduled, bg, manual, pieces, bg_error, shutting_down>>
vars == <<queue, pc, data, work>>

Visible == mem \cup (UNION imm) \cup tables
Idle == [pc |-> "idle", nested |-> FALSE, manual |-> FALSE, in |-> 0, left |-> 0]

\* A compaction of n tables of level 0, and of tables of other levels.
Job(p, m, n) == [pc |-> p, nested |-> FALSE, manual |-> m, in |-> n, left |-> MergeLoops]

NeedsCompaction(n, s) == n >= CompactionTrigger \/ s = "set"

Init ==
    /\ writers = <<>> /\ pc = [t \in Threads |-> "idle"]
    /\ req = [t \in Threads |-> [batch |-> 0, sync |-> FALSE]]
    /\ done = [t \in Threads |-> FALSE] /\ status = [t \in Threads |-> "ok"]
    /\ slept = [t \in Threads |-> FALSE] /\ group = <<>>
    /\ mem = {} /\ imm = {} /\ tables = {} /\ log = <<>> /\ synced = {}
    /\ last_sequence = 0 /\ seq = [t \in Threads |-> 0]
    /\ l0 \in InitialTables /\ seek = "never"
    /\ scheduled = NeedsCompaction(l0, seek)      \* at the end of DB::Open()
    /\ bg = Idle /\ manual = None /\ pieces = [t \in Compactors |-> 0]
    /\ bg_error = FALSE /\ shutting_down = "no"
    /\ arrived = <<>>

-------------------------------------------------------------------------------
\* bg_cv_.SignalAll(): leading writers, compactors and the destructor look again.
SignalAll(p) ==
    [t \in Threads |-> CASE p[t] = "bg wait" -> "run" [] p[t] = "imm wait" -> "imm"
                         [] p[t] = "manual wait" -> "manual" [] OTHER -> p[t]]

Awake == IF shutting_down = "wait" THEN "check" ELSE shutting_down

\* RecordBackgroundError(): pc, when it was p.
RecordBackgroundError(p) == IF bg_error THEN p ELSE SignalAll(p)

\* With bg_compaction_scheduled_ = s.
MaybeScheduleCompaction(s) ==
    scheduled' = (s \/ /\ shutting_down' = "no" /\ ~bg_error'
                       /\ (imm' # {} \/ manual' # None \/ NeedsCompaction(l0', seek')))

\* The sizes added while the group grows.
MaxSize(size) == IF size <= SmallBatch THEN size + SmallBatch ELSE BigGroup

\* Mutant: a write that wants a sync joins any group.
JoinsAnyway(size, first, r) == r.batch = 0 \/ size + r.batch <= MaxSize(first.batch)

\* May a writer with request r join a group of this size led by "first"?
Joins(size, first, r) ==
    /\ r.sync => first.sync
    /\ r.batch = 0 \/ size + r.batch <= MaxSize(first.batch)

\* The size of the first k batches of ws, for every k.
SizeOf(ws, rq) ==
    LET size[k \in 0 .. Len(ws)] == IF k = 0 THEN 0 ELSE size[k - 1] + rq[ws[k]].batch
    IN size

\* The number of writers of ws in the group, those with a NULL batch included.
BuildBatchGroup(ws, rq) ==
    LET ok(k) == \A i \in 2 .. k : Joins(SizeOf(ws, rq)[i - 1], rq[ws[1]], rq[ws[i]])
    IN Max({k \in 1 .. Len(ws) : ok(k)})

\* Mutant: the new front of the queue is not told.
SignalsGroup(popped, rest) == popped

Signals(popped, rest) == popped \cup (IF rest = <<>> THEN {} ELSE {Head(rest)})

\* The end of Write(): c pops the first k writers, and signals them and the new front.
Finish(c, ws, k, st, p) ==
    LET popped == {ws[i] : i \in 1 .. k}
        rest == SubSeq(ws, k + 1, Len(ws))
    IN /\ writers' = rest
       /\ done' = [t \in Threads |-> done[t] \/ t \in popped]
       /\ status' = [t \in Threads |-> IF t \in popped THEN st ELSE status[t]]
       /\ pc' = [t \in Threads |-> CASE t = c -> "return"
                                     [] t # c /\ t \in Signals(popped, rest) -> "run"
                                     [] OTHER -> p[t]]

\* c leaves MakeRoomForWrite() with OK.
Proceed(c, ws, rq) ==
    IF rq[c].batch = 0
      THEN Finish(c, ws, 1, "ok", pc) /\ UNCHANGED group
      ELSE /\ group' = SubSeq(ws, 1, BuildBatchGroup(ws, rq))
           /\ pc' = [pc EXCEPT ![c] = "append"]
           /\ writers' = ws /\ UNCHANGED <<done, status>>

Stall(c, ws, where) ==
    /\ pc' = [pc EXCEPT ![c] = where] /\ writers' = ws
    /\ UNCHANGED <<done, status, group, mem, imm, scheduled>>

\* Mutant: the previous memtable may still be there.
SwitchAnyway(c) == TRUE

MaySwitch(c) == imm = {} /\ l0 < StopTrigger

\* MakeRoomForWrite() by c, front of ws, until it waits, sleeps or returns.
MakeRoomForWrite(c, ws, rq) ==
    LET force == rq[c].batch = 0
        delay == ~force /\ ~slept[c] /\ l0 >= SlowdownTrigger
        room == ~force /\ MapThenSumSet(LAMBDA t : rq[t].batch, mem) <= WriteBuffer
    IN /\ \/ /\ bg_error
             /\ Finish(c, ws, 1, "error", pc)
             /\ UNCHANGED <<group, mem, imm, scheduled>>
          \/ /\ ~bg_error /\ delay
             /\ Stall(c, ws, "sleep")
          \/ /\ ~bg_error /\ ~delay /\ room
             /\ Proceed(c, ws, rq)
             /\ UNCHANGED <<mem, imm, scheduled>>
          \/ /\ ~bg_error /\ ~delay /\ ~room /\ ~MaySwitch(c)
             /\ Stall(c, ws, "bg wait")
          \/ /\ ~bg_error /\ ~delay /\ ~room /\ MaySwitch(c)
             /\ "newlog" \in Faults
             /\ Finish(c, ws, 1, "error", pc)
             /\ UNCHANGED <<group, mem, imm, scheduled>>
          \/ /\ ~bg_error /\ ~delay /\ ~room /\ MaySwitch(c)
             /\ imm' = {mem} /\ mem' = {}
             /\ UNCHANGED <<shutting_down, manual, l0, seek, bg_error>>
             /\ MaybeScheduleCompaction(scheduled)
             /\ Proceed(c, ws, rq)
       /\ UNCHANGED <<tables, log, synced, last_sequence, seq, l0, seek, bg, manual,
                      pieces, bg_error, shutting_down>>

\* Write() up to its first wait.
Write(c, r) ==
    /\ pc[c] = "idle" /\ shutting_down = "no"
    /\ req' = [req EXCEPT ![c] = r]
    /\ arrived' = Append(arrived, c)
    /\ UNCHANGED slept
    /\ IF writers = <<>>
         THEN MakeRoomForWrite(c, <<c>>, req')
         ELSE /\ writers' = Append(writers, c) /\ pc' = [pc EXCEPT ![c] = "wait"]
              /\ UNCHANGED <<done, status, group, data, work>>

\* A signalled writer looks again.
Wake(c) ==
    /\ pc[c] = "run"
    /\ UNCHANGED <<req, slept, arrived>>
    /\ IF done[c] \/ c # Head(writers)
         THEN /\ pc' = [pc EXCEPT ![c] = IF done[c] THEN "return" ELSE "wait"]
              /\ UNCHANGED <<writers, done, status, group, data, work>>
         ELSE MakeRoomForWrite(c, writers, req)

\* SleepForMicroseconds() ends.
Slept(c) ==
    /\ pc[c] = "sleep"
    /\ slept' = [slept EXCEPT ![c] = TRUE] /\ pc' = [pc EXCEPT ![c] = "run"]
    /\ UNCHANGED <<writers, req, done, status, group, arrived, data, work>>

\* WriteBatchInternal::Append() to the group's batch, unless a batch is NULL.
Appended(ws, rq) ==
    LET result[k \in 0 .. Len(ws)] ==
          IF k = 0 THEN <<>> ELSE IF rq[ws[k]].batch = 0 THEN result[k - 1]
                                  ELSE Append(result[k - 1], ws[k])
    IN result[Len(ws)]

Batches == Appended(group, req)

\* The last sequence number after the first k batches of the group.
LastOf(k) == last_sequence + SizeOf(Batches, req)[k]

\* log_->AddRecord(), without mutex_.  The first entry of the k-th batch gets its number.
AddRecord(c) ==
    /\ pc[c] = "append"
    /\ seq' = [t \in Threads |->
                 IF \E i \in 1 .. Len(Batches) : Batches[i] = t
                   THEN LET i == CHOOSE j \in 1 .. Len(Batches) : Batches[j] = t
                        IN LastOf(i - 1) + 1
                   ELSE seq[t]]
    /\ \/ /\ log' = log \o Batches
          /\ pc' = [pc EXCEPT ![c] = IF req[c].sync THEN "sync" ELSE "insert"]
       \/ /\ "append" \in Faults
          /\ pc' = [pc EXCEPT ![c] = "failed"]
          /\ UNCHANGED log
    /\ UNCHANGED <<queue, mem, imm, tables, synced, last_sequence, work>>

\* logfile_->Sync()
Sync(c) ==
    /\ pc[c] = "sync"
    /\ \/ /\ synced' = synced \cup mem \cup Range(Batches)    \* this log's records
          /\ pc' = [pc EXCEPT ![c] = "insert"]
       \/ /\ "sync" \in Faults
          /\ pc' = [pc EXCEPT ![c] = "sync failed"]
          /\ UNCHANGED synced
    /\ UNCHANGED <<queue, mem, imm, tables, log, last_sequence, seq, work>>

\* Mutant: the sequence number is published before the entries are there.
PublishFirst(c) ==
    /\ pc[c] = "insert" /\ last_sequence' = LastOf(Len(Batches))
    /\ mem' = mem \cup Range(Batches) /\ pc' = [pc EXCEPT ![c] = "inserted"]
    /\ UNCHANGED <<queue, imm, tables, log, synced, seq, work>>

\* WriteBatchInternal::InsertInto(), one batch of the group after the other.
InsertInto(c) ==
    /\ pc[c] = "insert"
    /\ LET t == CHOOSE u \in Range(Batches) \ mem : \A v \in Range(Batches) \ mem : seq[u] <= seq[v]
           left == Range(Batches) \ (mem \cup {t})
       IN /\ mem' = mem \cup {t}
          /\ pc' = [pc EXCEPT ![c] = IF left = {} THEN "inserted" ELSE "insert"]
    /\ UNCHANGED <<queue, imm, tables, log, synced, last_sequence, seq, work>>

SyncError(c) == pc[c] = "sync failed"

Status(c) == IF pc[c] = "inserted" THEN "ok" ELSE "error"

\* With mutex_ again: publish the sequence number and hand out the status.
Publish(c) ==
    /\ pc[c] \in {"inserted", "failed", "sync failed"}
    /\ LET after == IF SyncError(c) THEN RecordBackgroundError(pc) ELSE pc
       IN /\ bg_error' = (bg_error \/ SyncError(c))
          /\ Finish(c, writers, Len(group), Status(c), after)
    /\ last_sequence' = LastOf(Len(Batches))
    /\ group' = <<>>
    /\ UNCHANGED <<req, slept, arrived, mem, imm, tables, log, synced, seq, l0, seek,
                   scheduled, bg, manual, pieces, shutting_down>>

-------------------------------------------------------------------------------
\* CompactRange(): TEST_CompactMemTable() is a Write() of NULL, and then waits ...
WriteNull(c) == c \in Compactors /\ Write(c, [batch |-> 0, sync |-> FALSE])

\* Write() returns to a writer, or to TEST_CompactMemTable(); with an error
\* CompactRange() goes on to TEST_CompactRange() all the same.
Return(c) ==
    /\ pc[c] = "return"
    /\ pc' = [pc EXCEPT ![c] = CASE c \in Writers -> "end"
                                 [] c \in Compactors /\ status[c] = "ok" -> "imm"
                                 [] OTHER -> "begin"]
    /\ UNCHANGED <<queue, data, work>>

\* ... until the immutable memtable is gone.
WaitForImm(c) ==
    /\ pc[c] = "imm"
    /\ IF imm # {} /\ ~bg_error
         THEN pc' = [pc EXCEPT ![c] = "imm wait"] /\ UNCHANGED status
         ELSE /\ pc' = [pc EXCEPT ![c] = "begin"]
              /\ status' = [status EXCEPT ![c] = IF imm # {} THEN "error" ELSE "ok"]
    /\ UNCHANGED <<writers, req, done, slept, group, arrived, data, work>>

\* TEST_CompactRange() begins: a compaction of n pieces, then one that finds nothing.
BeginManual(c) ==
    /\ pc[c] = "begin"
    /\ \E n \in 0 .. MaxPieces : pieces' = [pieces EXCEPT ![c] = n + 1]
    /\ pc' = [pc EXCEPT ![c] = "manual"]
    /\ UNCHANGED <<queue, data, l0, seek, scheduled, bg, manual, bg_error, shutting_down>>

\* The loop of TEST_CompactRange(); pieces[c] = 0 is manual.done.
Manual(c) ==
    /\ pc[c] = "manual"
    /\ \/ /\ pieces[c] > 0 /\ shutting_down = "no" /\ ~bg_error
          /\ pc' = [pc EXCEPT ![c] = "manual wait"]
          /\ manual' = IF manual = None THEN c ELSE manual
          /\ UNCHANGED <<imm, l0, seek, bg_error, shutting_down>>
          /\ MaybeScheduleCompaction(scheduled)
       \/ /\ pieces[c] = 0 \/ shutting_down # "no" \/ bg_error
          /\ pc' = [pc EXCEPT ![c] = "end"]
          /\ manual' = IF manual = c THEN None ELSE manual
          /\ UNCHANGED <<imm, scheduled, l0, seek, bg_error, shutting_down>>
    /\ UNCHANGED <<queue, mem, tables, log, synced, last_sequence, seq, bg, pieces>>

\* Get() or RecordReadSample() charges a seek to a file and uses up allowed_seeks.
UpdateStats ==
    /\ "seek" \in Faults /\ seek = "never" /\ shutting_down = "no"
    /\ seek' = "set"
    /\ UNCHANGED <<imm, manual, l0, bg_error, shutting_down>>
    /\ MaybeScheduleCompaction(scheduled)
    /\ UNCHANGED <<queue, pc, mem, tables, log, synced, last_sequence, seq, bg, pieces>>

\* ~DBImpl(), which no other call overlaps: waits for the background thread.
Destroy ==
    /\ \A t \in Threads : pc[t] = "end"
    /\ shutting_down \in {"no", "check"}
    /\ shutting_down' = IF scheduled THEN "wait" ELSE "closed"
    /\ UNCHANGED <<queue, pc, data, l0, seek, scheduled, bg, manual, pieces, bg_error>>

-------------------------------------------------------------------------------
(* The background thread *)

Reschedule(s) == MaybeScheduleCompaction(s)

\* The end of BackgroundCall().
EndCall ==
    /\ bg' = Idle /\ pc' = SignalAll(pc) /\ shutting_down' = Awake
    /\ Reschedule(FALSE)

\* The end of BackgroundCompaction(): of a manual compaction it updates *m.
EndCompaction(ok) ==
    IF bg.manual /\ manual = None
      THEN /\ bg' = [Idle EXCEPT !.pc = "crashed"]      \* m is NULL
           /\ UNCHANGED <<pc, shutting_down, scheduled, manual, pieces>>
      ELSE /\ IF bg.manual
                THEN /\ manual' = None
                     /\ pieces' = [pieces EXCEPT ![manual] = IF ok THEN @ - 1 ELSE 0]
                ELSE UNCHANGED <<manual, pieces>>
           /\ EndCall

\* BackgroundCall() up to where it releases mutex_.
BackgroundCall ==
    /\ scheduled /\ bg.pc = "idle"
    /\ UNCHANGED <<queue, mem, imm, tables, log, synced, last_sequence, seq, l0, seek, bg_error>>
    /\ \/ /\ shutting_down # "no" \/ bg_error
          /\ UNCHANGED <<manual, pieces>> /\ EndCall
       \/ /\ shutting_down = "no" /\ ~bg_error /\ imm # {}
          /\ bg' = [Idle EXCEPT !.pc = "build"]
          /\ UNCHANGED <<pc, scheduled, manual, pieces, shutting_down>>
       \/ /\ shutting_down = "no" /\ ~bg_error /\ imm = {} /\ manual # None
          /\ IF pieces[manual] = 1             \* CompactRange() returns NULL
               THEN /\ manual' = None /\ pieces' = [pieces EXCEPT ![manual] = 0]
                    /\ EndCall
               ELSE /\ \E n \in 0 .. l0 : bg' = Job("merge", TRUE, n)
                    /\ UNCHANGED <<pc, scheduled, manual, pieces, shutting_down>>
       \/ /\ shutting_down = "no" /\ ~bg_error /\ imm = {} /\ manual = None
          /\ IF ~NeedsCompaction(l0, seek)     \* PickCompaction() returns NULL
               THEN UNCHANGED <<manual, pieces>> /\ EndCall
               ELSE /\ \E n \in (IF l0 >= CompactionTrigger THEN 1 ELSE 0) .. l0 :
                         \/ bg' = Job("merge", FALSE, n)
                         \/ n <= 1 /\ bg' = Job("install", FALSE, n)
                    /\ UNCHANGED <<pc, scheduled, manual, pieces, shutting_down>>

\* DoCompactionWork() finds an immutable memtable and compacts it first.
PrioritizeImm ==
    /\ bg.pc = "merge" /\ bg.left > 0 /\ imm # {} /\ shutting_down = "no"
    /\ bg' = [bg EXCEPT !.pc = "build", !.nested = TRUE, !.left = @ - 1]
    /\ UNCHANGED <<queue, pc, data, l0, seek, scheduled, manual, pieces, bg_error, shutting_down>>

\* CompactMemTable() returns, with pc = p: to DoCompactionWork(), which signals, or to BackgroundCall().
EndCompactMemTable(p) ==
    IF bg.nested
      THEN /\ bg' = [bg EXCEPT !.pc = "merge", !.nested = FALSE]
           /\ pc' = SignalAll(p) /\ shutting_down' = Awake
           /\ UNCHANGED <<scheduled, manual, pieces>>
      ELSE UNCHANGED <<manual, pieces>> /\ EndCall

\* CompactMemTable(): the table is built, or not, or the DB is being deleted.
BuildTable ==
    /\ bg.pc = "build"
    /\ \/ /\ shutting_down = "no"
          /\ bg' = [bg EXCEPT !.pc = "memtable"]
          /\ UNCHANGED <<pc, scheduled, manual, pieces, bg_error, shutting_down>>
       \/ /\ shutting_down # "no" \/ "build" \in Faults
          /\ bg_error' = TRUE
          /\ UNCHANGED <<imm, l0, seek>>
          /\ EndCompactMemTable(RecordBackgroundError(pc))
    /\ UNCHANGED <<queue, data, l0, seek>>

ImmAfter(ok) == IF ok THEN {} ELSE imm

\* LogAndApply() of a memtable's table, which goes to level 0 or below.
InstallMemTable ==
    /\ bg.pc = "memtable"
    /\ \/ /\ tables' = tables \cup UNION imm /\ imm' = ImmAfter(TRUE)
          /\ l0' \in {l0, l0 + 1} /\ seek' = (IF seek = "set" THEN "gone" ELSE seek)
          /\ UNCHANGED bg_error
          /\ EndCompactMemTable(pc)
       \/ /\ "manifest" \in Faults
          /\ bg_error' = TRUE /\ imm' = ImmAfter(FALSE) /\ UNCHANGED <<tables, l0, seek>>
          /\ EndCompactMemTable(RecordBackgroundError(pc))
    /\ UNCHANGED <<queue, mem, log, synced, last_sequence, seq>>

\* The loop of DoCompactionWork() ends: merged, failed, or stopped by the destructor.
Merged ==
    /\ bg.pc = "merge"
    /\ \/ /\ shutting_down = "no" /\ bg' = [bg EXCEPT !.pc = "install"]
          /\ UNCHANGED <<pc, scheduled, manual, pieces, bg_error, shutting_down>>
       \/ /\ shutting_down # "no" \/ "merge" \in Faults
          /\ bg_error' = TRUE
          /\ UNCHANGED <<imm, l0, seek>>
          /\ EndCompaction(FALSE)
    /\ UNCHANGED <<queue, data, l0, seek>>

\* LogAndApply() of a merge or a trivial move.
Install ==
    /\ bg.pc = "install"
    /\ UNCHANGED imm
    /\ \/ /\ l0' = l0 - bg.in /\ seek' = (IF seek = "set" THEN "gone" ELSE seek)
          /\ UNCHANGED bg_error
          /\ EndCompaction(TRUE)
       \/ /\ "manifest" \in Faults
          /\ bg_error' = TRUE /\ UNCHANGED <<l0, seek>>
          /\ EndCompaction(FALSE)
    /\ UNCHANGED <<queue, mem, tables, log, synced, last_sequence, seq>>

Background == BackgroundCall \/ PrioritizeImm \/ BuildTable \/ InstallMemTable \/ Merged \/ Install

Step(c) ==
    \/ Wake(c) \/ Slept(c) \/ AddRecord(c) \/ Sync(c) \/ InsertInto(c) \/ Publish(c)
    \/ Return(c) \/ WaitForImm(c) \/ BeginManual(c) \/ Manual(c)

Closed == shutting_down = "closed" /\ UNCHANGED vars

Next ==
    \/ \E c \in Writers, n \in Sizes, s \in Syncs : Write(c, [batch |-> n, sync |-> s])
    \/ \E c \in Compactors : WriteNull(c)
    \/ \E c \in Threads : Step(c)
    \/ Background \/ UpdateStats \/ Destroy \/ Closed

Spec == Init /\ [][Next]_vars

-------------------------------------------------------------------------------
TypeOK ==
    /\ writers \in Seq(Threads) /\ IsInjective(writers)
    /\ status \in [Threads -> {"ok", "error"}] /\ Cardinality(imm) <= 1
    /\ l0 \in Nat /\ manual \in Compactors \cup {None} /\ pieces \in [Compactors -> 0 .. MaxPieces + 1]
    /\ bg.pc \in {"idle", "build", "memtable", "merge", "install", "crashed"}

Returned(t, st) == pc[t] \in {"return", "end"} /\ t \in Writers /\ status[t] = st

\* A Write() with options.sync that returned OK, by whichever thread led its
\* group, is covered by a Sync() of the log that holds it.
SyncedWhenAcknowledged == \A t \in Threads : Returned(t, "ok") /\ req[t].sync => t \in synced

\* What Write() acknowledged can be read, and what it refused cannot: an error
\* of the log reaches every writer of the group before any of it is inserted.
ReadableIffAcknowledged ==
    \A t \in Threads : /\ Returned(t, "ok") => t \in Visible /\ seq[t] <= last_sequence
                       /\ Returned(t, "error") => t \notin Visible

\* The log holds every batch once, in the order in which Write() was called,
\* and the sequence numbers of one batch are above those of all before it.
LogFollowsArrival ==
    LET at(t) == CHOOSE i \in 1 .. Len(arrived) : arrived[i] = t IN
    \A i, j \in 1 .. Len(log) : i < j => /\ at(log[i]) < at(log[j])
                                         /\ seq[log[i]] + req[log[i]].batch <= seq[log[j]]

\* A reader with the current last_sequence sees a group whole or not at all:
\* of the group being inserted nothing is below last_sequence.
GroupsAppearWhole == \A i \in 1 .. Len(group) : req[group[i]].batch # 0 /\ group[i] \in mem => seq[group[i]] > last_sequence

\* Moving entries from mem_ to imm_ to a table, while readers look, loses none.
NothingVanishes == Visible \subseteq Visible'

\* bg_compaction_scheduled_ is set whenever there is work and no reason not to do it,
\* so that no waiter waits for a background thread nobody wakes.
WorkIsScheduled ==
    (\E t \in Threads : pc[t] \in {"bg wait", "imm wait", "manual wait"}) /\ ~bg_error => scheduled

\* The calls that must return: of a thread, and of ~DBImpl(), which begins when no
\* other is left.
Called(t) == pc[t] # "idle"
Done(t) == pc[t] = "end"
DestructorCalled == \A t \in Threads : Done(t)
DestructorReturned == shutting_down = "closed"
Crashed == bg.pc = "crashed"
===============================================================================
