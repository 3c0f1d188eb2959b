---------------------------- MODULE DBWriteProofs ----------------------------
(***************************************************************************)
(* Theorems about DBWrite, for any number of writers and compactors, any   *)
(* batches and any triggers: who waits for the background thread of a      *)
(* DBImpl, and what readers see while it works.  MCConcurrent checks the   *)
(* same on small instances.                                                *)
(***************************************************************************)
EXTENDS DBWrite, Integers, TLAPS

\* config::kL0_CompactionTrigger is 4, kL0_StopWritesTrigger 12; NULL is no thread.
WorkSetting ==
    /\ CompactionTrigger \in Nat /\ StopTrigger \in Nat /\ CompactionTrigger <= StopTrigger
    /\ InitialTables \subseteq Nat /\ MergeLoops \in Nat /\ None \notin Threads

WaitLabels == {"bg wait", "imm wait", "manual wait"}
BgLabels == {"idle", "build", "memtable", "merge", "install", "crashed"}

WorkTypes ==
    /\ pc = [t \in Threads |-> pc[t]]
    /\ l0 \in Int /\ scheduled \in BOOLEAN /\ bg_error \in BOOLEAN
    /\ bg \in [pc : BgLabels, nested : BOOLEAN, manual : BOOLEAN, in : Int, left : Int]

\* Work that is due is scheduled.
Due ==
    /\ shutting_down = "no" /\ ~bg_error
    /\ imm /= {} \/ manual /= None \/ NeedsCompaction(l0, seek)
    => scheduled

\* Work that is due, or that the background thread is at, is scheduled; and the
\* destructor runs when every other call has returned.
WorkInv ==
    /\ WorkTypes
    /\ Due
    /\ bg.pc /= "idle" => scheduled
    /\ shutting_down /= "no" => \A t \in Threads : pc[t] = "end"
    /\ WorkIsScheduled

\* Lemma SchedulesDue: MaybeScheduleCompaction() leaves no due work unscheduled.
LEMMA SchedulesDue ==
    ASSUME NEW s \in BOOLEAN, MaybeScheduleCompaction(s)
    PROVE  Due' /\ scheduled' \in BOOLEAN /\ (s => scheduled')
BY DEF MaybeScheduleCompaction, Due

\* Lemma ThreadKeeps: a step of a thread keeps WorkInv if it schedules what it makes
\* due and waits only for what is scheduled.
LEMMA ThreadKeeps ==
    ASSUME WorkInv, shutting_down = "no", shutting_down' = "no", bg' = bg, l0' = l0,
           pc' = [t \in Threads |-> pc'[t]], bg_error' \in BOOLEAN, bg_error => bg_error',
           scheduled' \in BOOLEAN, scheduled => scheduled', Due',
           \A t \in Threads : pc'[t] \in WaitLabels => pc[t] \in WaitLabels \/ scheduled' \/ bg_error'
    PROVE  WorkInv'
<1>1. WorkTypes'
  BY Zenon DEF WorkInv, WorkTypes
<1>2. (bg.pc /= "idle" => scheduled)'
  BY Zenon DEF WorkInv
<1>3. WorkIsScheduled'
  BY Zenon DEF WorkInv, WorkIsScheduled, WaitLabels
<1>. QED
  BY <1>1, <1>2, <1>3, Zenon DEF WorkInv

\* Lemma QuietKeeps: a step that only moves threads on.
LEMMA QuietKeeps ==
    ASSUME WorkInv, shutting_down = "no", UNCHANGED <<l0, seek, imm, manual, scheduled, bg, shutting_down>>,
           pc' = [t \in Threads |-> pc'[t]], bg_error' \in BOOLEAN, bg_error => bg_error',
           \A t \in Threads : pc'[t] \in WaitLabels => pc[t] \in WaitLabels \/ scheduled \/ bg_error'
    PROVE  WorkInv'
<1>1. Due'
  BY DEF WorkInv, Due
<1>. QED
  BY <1>1, ThreadKeeps DEF WorkInv, WorkTypes

\* Lemma FinishMoves: the end of Write() lets nobody wait.
LEMMA FinishMoves ==
    ASSUME NEW c, NEW ws, NEW k, NEW st, NEW p, Finish(c, ws, k, st, p)
    PROVE  pc' = [t \in Threads |-> pc'[t]] /\ \A t \in Threads : pc'[t] \in WaitLabels => p[t] \in WaitLabels
<1>1. PICK S : S = Signals({ws[i] : i \in 1 .. k}, SubSeq(ws, k + 1, Len(ws)))
  BY Zenon
<1>2. pc' = [t \in Threads |-> CASE t = c -> "return" [] t # c /\ t \in S -> "run" [] OTHER -> p[t]]
  BY <1>1, Zenon DEF Finish
<1>. QED
  BY <1>2 DEF WaitLabels

\* Lemma RoomKeeps: MakeRoomForWrite() waits only when a memtable is being compacted
\* or level 0 is full, and both are scheduled; a switch of memtables schedules.
LEMMA RoomKeeps ==
    ASSUME WorkSetting, WorkInv, shutting_down = "no", NEW c \in Threads, NEW ws, NEW rq,
           MakeRoomForWrite(c, ws, rq)
    PROVE  WorkInv' /\ NothingVanishes
<1>1. /\ UNCHANGED <<tables, l0, seek, bg, manual, bg_error, shutting_down>>
      /\ bg_error \in BOOLEAN /\ scheduled \in BOOLEAN /\ pc = [t \in Threads |-> pc[t]] /\ l0 \in Int
  BY DEF MakeRoomForWrite, WorkInv, WorkTypes
<1>2. ASSUME UNCHANGED <<mem, imm, scheduled>>, pc' = [t \in Threads |-> pc'[t]],
             \A t \in Threads : pc'[t] \in WaitLabels => pc[t] \in WaitLabels \/ scheduled \/ bg_error'
      PROVE  WorkInv' /\ NothingVanishes
  <2>1. WorkInv'
    BY <1>1, <1>2, QuietKeeps
  <2>2. NothingVanishes
    BY <1>1, <1>2 DEF NothingVanishes, Visible
  <2>. QED
    BY <2>1, <2>2
<1>3. ASSUME NEW st, Finish(c, ws, 1, st, pc)
      PROVE  pc' = [t \in Threads |-> pc'[t]] /\ \A t \in Threads : pc'[t] \in WaitLabels => pc[t] \in WaitLabels
  <2>1. PICK p : p = pc
    OBVIOUS
  <2>2. Finish(c, ws, 1, st, p)
    BY <1>3, <2>1
  <2>. QED
    BY <2>1, <2>2, FinishMoves, Zenon
<1>4. ASSUME Proceed(c, ws, rq)
      PROVE  pc' = [t \in Threads |-> pc'[t]] /\ \A t \in Threads : pc'[t] \in WaitLabels => pc[t] \in WaitLabels
  <2>1. CASE Finish(c, ws, 1, "ok", pc)
    BY <1>3, <2>1
  <2>2. CASE pc' = [pc EXCEPT ![c] = "append"]
    BY <1>1, <2>2 DEF WaitLabels
  <2>. QED
    BY <1>4, <2>1, <2>2 DEF Proceed
<1>5. ASSUME NEW where, Stall(c, ws, where), where = "sleep" \/ scheduled PROVE WorkInv' /\ NothingVanishes
  <2>1. UNCHANGED <<mem, imm, scheduled>> /\ pc' = [pc EXCEPT ![c] = where]
    BY <1>5 DEF Stall
  <2>2. pc' = [t \in Threads |-> pc'[t]]
    BY <1>1, <2>1
  <2>3. \A t \in Threads : pc'[t] \in WaitLabels => pc[t] \in WaitLabels \/ scheduled
    BY <1>1, <1>5, <2>1 DEF WaitLabels
  <2>. QED
    BY <1>2, <2>1, <2>2, <2>3
<1>6. CASE bg_error /\ Finish(c, ws, 1, "error", pc) /\ UNCHANGED <<group, mem, imm, scheduled>>
  BY <1>2, <1>3, <1>6
<1>7. CASE Stall(c, ws, "sleep")
  BY <1>5, <1>7
<1>8. CASE Proceed(c, ws, rq) /\ UNCHANGED <<mem, imm, scheduled>>
  BY <1>2, <1>4, <1>8
<1>9. CASE ~bg_error /\ ~MaySwitch(c) /\ Stall(c, ws, "bg wait")
  <2>1. imm /= {} \/ NeedsCompaction(l0, seek)
    <3>1. CompactionTrigger \in Nat /\ StopTrigger \in Nat /\ CompactionTrigger <= StopTrigger
      BY Zenon DEF WorkSetting
    <3>2. imm /= {} \/ ~(l0 < StopTrigger)
      BY <1>9, Zenon DEF MaySwitch
    <3>3. ~(l0 < StopTrigger) => l0 >= CompactionTrigger
      BY <1>1, <3>1
    <3>. QED
      BY <3>2, <3>3, Zenon DEF NeedsCompaction
  <2>2. scheduled
    BY <1>9, <2>1 DEF WorkInv, Due
  <2>. QED
    BY <1>5, <1>9, <2>2
<1>10. CASE Finish(c, ws, 1, "error", pc) /\ UNCHANGED <<group, mem, imm, scheduled>>
  BY <1>2, <1>3, <1>10
<1>11. CASE /\ ~bg_error /\ MaySwitch(c) /\ imm' = {mem} /\ mem' = {}
            /\ MaybeScheduleCompaction(scheduled) /\ Proceed(c, ws, rq)
  <2>1. Due' /\ scheduled' \in BOOLEAN /\ (scheduled => scheduled')
    <3>1. PICK s \in BOOLEAN : s = scheduled
      BY <1>1
    <3>2. MaybeScheduleCompaction(s)
      BY <1>11, <3>1
    <3>. QED
      BY <3>1, <3>2, SchedulesDue
  <2>2. WorkInv'
    BY <1>1, <1>4, <1>11, <2>1, ThreadKeeps
  <2>3. NothingVanishes
    BY <1>1, <1>11 DEF NothingVanishes, Visible, MaySwitch
  <2>. QED
    BY <2>2, <2>3
<1>. QED
  BY <1>6, <1>7, <1>8, <1>9, <1>10, <1>11, Zenon DEF MakeRoomForWrite

\* Lemma MovesOn: a step that sends thread c to where nobody waits.
LEMMA MovesOn ==
    ASSUME WorkInv, shutting_down = "no", UNCHANGED <<l0, seek, imm, manual, scheduled, bg, bg_error, shutting_down>>,
           NEW c \in Threads, NEW p, p \notin WaitLabels \/ scheduled \/ bg_error, pc' = [pc EXCEPT ![c] = p]
    PROVE  WorkInv'
<1>1. pc = [t \in Threads |-> pc[t]] /\ bg_error \in BOOLEAN
  BY Zenon DEF WorkInv, WorkTypes
<1>2. pc' = [t \in Threads |-> pc'[t]]
  BY <1>1
<1>3. \A t \in Threads : pc'[t] \in WaitLabels => pc[t] \in WaitLabels \/ scheduled \/ bg_error'
  BY <1>1
<1>. QED
  BY <1>1, <1>2, <1>3, QuietKeeps

\* Lemma WriteKeeps: Write(), up to its first wait.
LEMMA WriteKeeps ==
    ASSUME WorkSetting, WorkInv, NEW c \in Threads, NEW r, Write(c, r)
    PROVE  WorkInv' /\ NothingVanishes
<1>1. shutting_down = "no"
  BY DEF Write
<1>2. CASE writers = <<>>
  <2>1. PICK rq : rq = req'
    OBVIOUS
  <2>2. MakeRoomForWrite(c, <<c>>, rq)
    BY <1>2, <2>1 DEF Write
  <2>. QED
    BY <1>1, <2>2, RoomKeeps
<1>3. CASE writers /= <<>>
  <2>1. pc' = [pc EXCEPT ![c] = "wait"] /\ UNCHANGED <<data, work>>
    BY <1>3 DEF Write
  <2>2. WorkInv'
    BY <1>1, <2>1, MovesOn DEF work, data, WaitLabels
  <2>3. NothingVanishes
    BY <2>1 DEF data, NothingVanishes, Visible
  <2>. QED
    BY <2>2, <2>3
<1>. QED
  BY <1>2, <1>3

\* Lemma PublishKeeps: the end of a leading Write(); an error of the sync signals.
LEMMA PublishKeeps ==
    ASSUME WorkInv, shutting_down = "no", NEW c \in Threads, Publish(c)
    PROVE  WorkInv'
<1>1. PICK p : p = IF SyncError(c) THEN RecordBackgroundError(pc) ELSE pc
  OBVIOUS
<1>2. PICK ws : ws = writers
  OBVIOUS
<1>3. PICK k : k = Len(group)
  OBVIOUS
<1>4. PICK st : st = Status(c)
  OBVIOUS
<1>5. Finish(c, ws, k, st, p)
  BY <1>1, <1>2, <1>3, <1>4 DEF Publish
<1>6. pc' = [t \in Threads |-> pc'[t]] /\ \A t \in Threads : pc'[t] \in WaitLabels => p[t] \in WaitLabels
  BY <1>5, FinishMoves
<1>7. bg_error' = (bg_error \/ SyncError(c)) /\ UNCHANGED <<l0, seek, imm, manual, scheduled, bg, shutting_down>>
  BY Zenon DEF Publish
<1>8. bg_error \in BOOLEAN /\ pc = [t \in Threads |-> pc[t]]
  BY Zenon DEF WorkInv, WorkTypes
<1>9. bg_error' \in BOOLEAN /\ (bg_error => bg_error')
  BY <1>7, <1>8 DEF SyncError
<1>10. \A t \in Threads : p[t] \in WaitLabels => pc[t] \in WaitLabels
  BY <1>1 DEF RecordBackgroundError, SignalAll, WaitLabels
<1>. QED
  BY <1>6, <1>7, <1>9, <1>10, QuietKeeps

\* Lemma ManualKeeps: a manual compaction is scheduled before it is waited for.
LEMMA ManualKeeps ==
    ASSUME WorkSetting, WorkInv, shutting_down = "no", NEW c \in Threads, Manual(c)
    PROVE  WorkInv'
<1>1. UNCHANGED <<imm, l0, seek, bg, bg_error, shutting_down>>
  BY Zenon DEF Manual
<1>2. bg_error \in BOOLEAN /\ scheduled \in BOOLEAN /\ pc = [t \in Threads |-> pc[t]]
  BY Zenon DEF WorkInv, WorkTypes
<1>3. CASE /\ ~bg_error /\ pc' = [pc EXCEPT ![c] = "manual wait"]
           /\ manual' = (IF manual = None THEN c ELSE manual)
           /\ MaybeScheduleCompaction(scheduled)
  <2>1. Due' /\ scheduled' \in BOOLEAN /\ (scheduled => scheduled')
    <3>1. PICK s \in BOOLEAN : s = scheduled
      BY <1>2
    <3>2. MaybeScheduleCompaction(s)
      BY <1>3, <3>1
    <3>. QED
      BY <3>1, <3>2, SchedulesDue
  <2>2. manual' /= None => scheduled'
    BY <1>1, <1>3 DEF MaybeScheduleCompaction
  <2>3. manual' /= None
    BY <1>3 DEF WorkSetting
  <2>4. pc' = [t \in Threads |-> pc'[t]]
    BY <1>2, <1>3
  <2>. QED
    BY <1>1, <1>2, <2>1, <2>2, <2>3, <2>4, ThreadKeeps
<1>4. CASE /\ pc' = [pc EXCEPT ![c] = "end"] /\ UNCHANGED scheduled
           /\ manual' = (IF manual = c THEN None ELSE manual)
  <2>1. Due'
    BY <1>1, <1>4 DEF Due, WorkInv
  <2>2. pc' = [t \in Threads |-> pc'[t]]
    BY <1>2, <1>4
  <2>3. \A t \in Threads : pc'[t] \in WaitLabels => pc[t] \in WaitLabels
    BY <1>2, <1>4 DEF WaitLabels
  <2>. QED
    BY <1>1, <1>2, <1>4, <2>1, <2>2, <2>3, ThreadKeeps
<1>. QED
  BY <1>3, <1>4, Zenon DEF Manual

\* Lemma StepKeeps: any other step of a thread.
LEMMA StepKeeps ==
    ASSUME WorkSetting, WorkInv, NEW c \in Threads, Step(c)
    PROVE  WorkInv' /\ NothingVanishes
<1>1. pc[c] /= "end"
  BY DEF Step, Wake, Slept, AddRecord, Sync, InsertInto, Publish, Return, WaitForImm, BeginManual, Manual
<1>2. shutting_down = "no"
  BY <1>1, Zenon DEF WorkInv
<1>3. ASSUME UNCHANGED <<imm, tables>>, mem \subseteq mem' PROVE NothingVanishes
  BY <1>3 DEF NothingVanishes, Visible
<1>4. ASSUME NEW p, p \notin WaitLabels \/ scheduled \/ bg_error, pc' = [pc EXCEPT ![c] = p],
             UNCHANGED <<imm, tables, work>>, mem \subseteq mem'
      PROVE  WorkInv' /\ NothingVanishes
  BY <1>2, <1>3, <1>4, MovesOn DEF work
<1>5. CASE Wake(c)
  <2>1. CASE done[c] \/ c /= Head(writers)
    <3>1. PICK p \in {"return", "wait"} : p = (IF done[c] THEN "return" ELSE "wait")
      OBVIOUS
    <3>2. pc' = [pc EXCEPT ![c] = p] /\ UNCHANGED <<mem, imm, tables, work>>
      BY <1>5, <2>1, <3>1 DEF Wake, data
    <3>. QED
      BY <1>4, <3>1, <3>2 DEF WaitLabels
  <2>2. CASE ~(done[c] \/ c /= Head(writers))
    <3>1. PICK ws, rq : ws = writers /\ rq = req
      OBVIOUS
    <3>2. MakeRoomForWrite(c, ws, rq)
      BY <1>5, <2>2, <3>1 DEF Wake
    <3>. QED
      BY <1>2, <3>2, RoomKeeps
  <2>. QED
    BY <2>1, <2>2
<1>6. CASE Slept(c)
  <2>1. pc' = [pc EXCEPT ![c] = "run"] /\ UNCHANGED <<mem, imm, tables, work>>
    BY <1>6 DEF Slept, data
  <2>. QED
    BY <1>4, <2>1 DEF WaitLabels
<1>7. CASE AddRecord(c)
  <2>1. PICK p \in {"sync", "insert", "failed"} : pc' = [pc EXCEPT ![c] = p]
    BY <1>7 DEF AddRecord
  <2>2. UNCHANGED <<mem, imm, tables, work>>
    BY <1>7 DEF AddRecord
  <2>. QED
    BY <1>4, <2>1, <2>2 DEF WaitLabels
<1>8. CASE Sync(c)
  <2>1. PICK p \in {"insert", "sync failed"} : pc' = [pc EXCEPT ![c] = p]
    BY <1>8 DEF Sync
  <2>2. UNCHANGED <<mem, imm, tables, work>>
    BY <1>8 DEF Sync
  <2>. QED
    BY <1>4, <2>1, <2>2 DEF WaitLabels
<1>9. CASE InsertInto(c)
  <2>1. PICK p \in {"inserted", "insert"} : pc' = [pc EXCEPT ![c] = p]
    BY <1>9 DEF InsertInto
  <2>2. UNCHANGED <<imm, tables, work>> /\ mem \subseteq mem'
    BY <1>9 DEF InsertInto
  <2>. QED
    BY <1>4, <2>1, <2>2 DEF WaitLabels
<1>10. CASE Publish(c)
  <2>1. UNCHANGED <<mem, imm, tables>>
    BY <1>10, Zenon DEF Publish
  <2>. QED
    BY <1>2, <1>3, <1>10, <2>1, PublishKeeps
<1>11. CASE Return(c)
  <2>1. PICK p \in {"end", "imm", "begin"} : pc' = [pc EXCEPT ![c] = p]
    <3>1. PICK p : p = CASE c \in Writers -> "end" [] c \in Compactors /\ status[c] = "ok" -> "imm" [] OTHER -> "begin"
      OBVIOUS
    <3>2. p \in {"end", "imm", "begin"}
      BY <3>1
    <3>3. pc' = [pc EXCEPT ![c] = p]
      BY <1>11, <3>1 DEF Return
    <3>. QED
      BY <3>2, <3>3
  <2>2. UNCHANGED <<mem, imm, tables, work>>
    BY <1>11 DEF Return, data
  <2>. QED
    BY <1>4, <2>1, <2>2 DEF WaitLabels
<1>12. CASE WaitForImm(c)
  <2>1. UNCHANGED <<mem, imm, tables, work>>
    BY <1>12 DEF WaitForImm, data
  <2>2. CASE imm /= {} /\ ~bg_error
    <3>1. scheduled
      BY <1>2, <2>2 DEF WorkInv, Due
    <3>2. pc' = [pc EXCEPT ![c] = "imm wait"]
      BY <1>12, <2>2 DEF WaitForImm
    <3>. QED
      BY <1>4, <2>1, <3>1, <3>2
  <2>3. CASE ~(imm /= {} /\ ~bg_error)
    <3>1. pc' = [pc EXCEPT ![c] = "begin"]
      BY <1>12, <2>3 DEF WaitForImm
    <3>. QED
      BY <1>4, <2>1, <3>1 DEF WaitLabels
  <2>. QED
    BY <2>2, <2>3
<1>13. CASE BeginManual(c)
  <2>1. pc' = [pc EXCEPT ![c] = "manual"] /\ UNCHANGED <<mem, imm, tables, l0, seek, scheduled, bg, manual, bg_error, shutting_down>>
    BY <1>13 DEF BeginManual, data
  <2>2. WorkInv'
    BY <1>2, <2>1, MovesOn DEF WaitLabels
  <2>. QED
    BY <1>3, <2>1, <2>2
<1>14. CASE Manual(c)
  <2>1. UNCHANGED <<mem, imm, tables>>
    BY <1>14, Zenon DEF Manual
  <2>. QED
    BY <1>2, <1>3, <1>14, <2>1, ManualKeeps
<1>. QED
  BY <1>5, <1>6, <1>7, <1>8, <1>9, <1>10, <1>11, <1>12, <1>13, <1>14, Zenon DEF Step

\* Lemma SignalledNone: after SignalAll() nobody waits, and who had returned has.
LEMMA SignalledNone ==
    ASSUME NEW p, NEW q, q = SignalAll(p)
    PROVE  /\ q = [t \in Threads |-> q[t]]
           /\ \A t \in Threads : q[t] \notin WaitLabels /\ (p[t] = "end" => q[t] = "end")
<1>1. q = [t \in Threads |-> CASE p[t] = "bg wait" -> "run" [] p[t] = "imm wait" -> "imm"
                               [] p[t] = "manual wait" -> "manual" [] OTHER -> p[t]]
  BY Zenon DEF SignalAll
<1>2. q = [t \in Threads |-> q[t]]
  BY <1>1
<1>3. \A t \in Threads : q[t] \notin WaitLabels /\ (p[t] = "end" => q[t] = "end")
  BY <1>1 DEF WaitLabels
<1>. QED
  BY <1>2, <1>3

\* Lemma EndCallKeeps: the end of BackgroundCall() schedules what is due and signals.
LEMMA EndCallKeeps ==
    ASSUME WorkInv, EndCall, l0' \in Int, bg_error' \in BOOLEAN
    PROVE  WorkInv'
<1>1. Due' /\ scheduled' \in BOOLEAN
  BY SchedulesDue DEF EndCall, Reschedule
<1>2. PICK p, q : p = pc /\ q = pc' /\ q = SignalAll(p)
  BY DEF EndCall
<1>3. /\ pc' = [t \in Threads |-> pc'[t]]
      /\ \A t \in Threads : pc'[t] \notin WaitLabels /\ (pc[t] = "end" => pc'[t] = "end")
  BY <1>2, SignalledNone
<1>4. bg' = Idle /\ shutting_down' = Awake
  BY Zenon DEF EndCall
<1>5. WorkTypes' /\ bg'.pc = "idle"
  BY <1>1, <1>3, <1>4 DEF WorkTypes, Idle, BgLabels
<1>6. (shutting_down /= "no" => \A t \in Threads : pc[t] = "end")'
  BY <1>3, <1>4 DEF WorkInv, Awake
<1>7. WorkIsScheduled'
  BY <1>3, Zenon DEF WorkIsScheduled, WaitLabels
<1>. QED
  BY <1>1, <1>5, <1>6, <1>7, Zenon DEF WorkInv

\* Lemma AtWorkKeeps: while the background thread is at work, work is scheduled.
LEMMA AtWorkKeeps ==
    ASSUME WorkInv, scheduled, UNCHANGED scheduled, l0' \in Int, bg_error' \in BOOLEAN,
           bg' \in [pc : BgLabels, nested : BOOLEAN, manual : BOOLEAN, in : Int, left : Int],
           shutting_down' /= "no" => shutting_down /= "no",
           pc' = [t \in Threads |-> pc'[t]], \A t \in Threads : pc[t] = "end" => pc'[t] = "end"
    PROVE  WorkInv'
<1>1. WorkTypes'
  BY Zenon DEF WorkInv, WorkTypes
<1>2. Due' /\ WorkIsScheduled'
  BY Zenon DEF Due, WorkIsScheduled
<1>. QED
  BY <1>1, <1>2, Zenon DEF WorkInv

\* Lemma BgTypes: what a step of the background thread finds.
LEMMA BgTypes ==
    ASSUME WorkInv
    PROVE  /\ pc = [t \in Threads |-> pc[t]]
           /\ l0 \in Int /\ scheduled \in BOOLEAN /\ bg_error \in BOOLEAN
           /\ bg \in [pc : BgLabels, nested : BOOLEAN, manual : BOOLEAN, in : Int, left : Int]
           /\ bg.pc /= "idle" => scheduled
BY Zenon DEF WorkInv, WorkTypes

\* Lemma EndCompactionKeeps: the end of BackgroundCompaction(), or its crash.
LEMMA EndCompactionKeeps ==
    ASSUME WorkInv, bg.pc /= "idle", NEW ok, EndCompaction(ok), l0' \in Int, bg_error' \in BOOLEAN
    PROVE  WorkInv'
<1>1. CASE bg.manual /\ manual = None
  <2>1. bg' = [Idle EXCEPT !.pc = "crashed"] /\ UNCHANGED <<pc, shutting_down, scheduled>>
    BY <1>1, Zenon DEF EndCompaction
  <2>2. bg' \in [pc : BgLabels, nested : BOOLEAN, manual : BOOLEAN, in : Int, left : Int]
    <3>1. Idle \in [pc : BgLabels, nested : BOOLEAN, manual : BOOLEAN, in : Int, left : Int]
      BY DEF Idle, BgLabels
    <3>. QED
      BY <2>1, <3>1 DEF BgLabels
  <2>3. scheduled /\ pc' = [t \in Threads |-> pc'[t]] /\ \A t \in Threads : pc[t] = "end" => pc'[t] = "end"
    BY <2>1, BgTypes
  <2>. QED
    BY <2>1, <2>2, <2>3, AtWorkKeeps, Zenon
<1>2. CASE ~(bg.manual /\ manual = None)
  BY <1>2, EndCallKeeps, Zenon DEF EndCompaction
<1>. QED
  BY <1>1, <1>2

\* Lemma EndCompactMemTableKeeps: the end of CompactMemTable(), wherever it returns to.
LEMMA EndCompactMemTableKeeps ==
    ASSUME WorkInv, bg.pc /= "idle", NEW p, EndCompactMemTable(p), l0' \in Int, bg_error' \in BOOLEAN,
           \A t \in Threads : pc[t] = "end" => p[t] = "end"
    PROVE  WorkInv'
<1>1. CASE bg.nested
  <2>1. /\ bg' = [bg EXCEPT !.pc = "merge", !.nested = FALSE]
        /\ pc' = SignalAll(p) /\ shutting_down' = Awake /\ UNCHANGED scheduled
    BY <1>1, Zenon DEF EndCompactMemTable
  <2>2. bg' \in [pc : BgLabels, nested : BOOLEAN, manual : BOOLEAN, in : Int, left : Int]
    BY <2>1, BgTypes DEF BgLabels
  <2>3. PICK q : q = pc' /\ q = SignalAll(p)
    BY <2>1
  <2>4. pc' = [t \in Threads |-> pc'[t]] /\ \A t \in Threads : pc[t] = "end" => pc'[t] = "end"
    BY <2>3, SignalledNone
  <2>5. scheduled /\ (shutting_down' /= "no" => shutting_down /= "no")
    BY <2>1, BgTypes DEF Awake
  <2>. QED
    BY <2>1, <2>2, <2>4, <2>5, AtWorkKeeps, Zenon
<1>2. CASE ~bg.nested
  BY <1>2, EndCallKeeps, Zenon DEF EndCompactMemTable
<1>. QED
  BY <1>1, <1>2

\* Lemma BackgroundKeeps: every step of the background thread.
LEMMA BackgroundKeeps ==
    ASSUME WorkSetting, WorkInv, Background
    PROVE  WorkInv' /\ NothingVanishes
<1>. DEFINE Bgs == [pc : BgLabels, nested : BOOLEAN, manual : BOOLEAN, in : Int, left : Int]
<1>1. ASSUME scheduled, bg' \in Bgs, UNCHANGED <<pc, scheduled, shutting_down, l0, bg_error>>
      PROVE  WorkInv'
  BY <1>1, BgTypes, AtWorkKeeps
<1>2. ASSUME UNCHANGED <<mem, imm, tables>> PROVE NothingVanishes
  BY <1>2 DEF NothingVanishes, Visible
<1>3. Idle \in Bgs
  BY DEF Idle, BgLabels
<1>4. ASSUME NEW p \in BgLabels, NEW m \in BOOLEAN, NEW n \in Int PROVE Job(p, m, n) \in Bgs
  BY <1>4 DEF Job, WorkSetting
<1>5. PICK e : /\ e = RecordBackgroundError(pc)
               /\ \A t \in Threads : pc[t] = "end" => e[t] = "end"
  <2>1. PICK p, q : p = pc /\ q = SignalAll(p)
    BY Zenon
  <2>2. \A t \in Threads : pc[t] = "end" => q[t] = "end"
    BY <2>1, SignalledNone
  <2>. QED
    BY <2>1, <2>2, Zenon DEF RecordBackgroundError
<1>6. CASE BackgroundCall
  <2>1. UNCHANGED <<mem, imm, tables, l0, seek, bg_error>> /\ scheduled /\ l0' \in Int /\ bg_error' \in BOOLEAN
    BY <1>6, BgTypes DEF BackgroundCall
  <2>2. CASE EndCall
    BY <1>2, <2>1, <2>2, EndCallKeeps
  <2>3. ASSUME bg' \in Bgs, UNCHANGED <<pc, scheduled, shutting_down>> PROVE WorkInv' /\ NothingVanishes
    BY <1>1, <1>2, <2>1, <2>3
  <2>4. CASE bg' = [Idle EXCEPT !.pc = "build"] /\ UNCHANGED <<pc, scheduled, shutting_down>>
    <3>1. bg' \in Bgs
      BY <1>3, <2>4 DEF BgLabels
    <3>. QED
      BY <2>3, <2>4, <3>1
  <2>5. CASE (\E n \in 0 .. l0 : bg' = Job("merge", TRUE, n)) /\ UNCHANGED <<pc, scheduled, shutting_down>>
    <3>1. PICK n \in 0 .. l0 : bg' = Job("merge", TRUE, n)
      BY <2>5, Zenon
    <3>2. n \in Int /\ "merge" \in BgLabels
      BY DEF BgLabels
    <3>3. bg' \in Bgs
      BY <1>4, <3>1, <3>2, Zenon
    <3>. QED
      BY <2>3, <2>5, <3>3
  <2>6. CASE /\ \E n \in (IF l0 >= CompactionTrigger THEN 1 ELSE 0) .. l0 :
                     bg' = Job("merge", FALSE, n) \/ (n <= 1 /\ bg' = Job("install", FALSE, n))
             /\ UNCHANGED <<pc, scheduled, shutting_down>>
    <3>1. PICK n \in (IF l0 >= CompactionTrigger THEN 1 ELSE 0) .. l0 :
              bg' = Job("merge", FALSE, n) \/ bg' = Job("install", FALSE, n)
      BY <2>6
    <3>2. n \in Int /\ "merge" \in BgLabels /\ "install" \in BgLabels
      BY DEF BgLabels
    <3>3. bg' \in Bgs
      BY <1>4, <3>1, <3>2, Zenon
    <3>. QED
      BY <2>3, <2>6, <3>3
  <2>. QED
    BY <1>6, <2>2, <2>4, <2>5, <2>6, Zenon DEF BackgroundCall
<1>7. CASE PrioritizeImm
  <2>1. /\ bg.pc = "merge" /\ UNCHANGED <<pc, mem, imm, tables, l0, scheduled, bg_error, shutting_down>>
        /\ bg' = [bg EXCEPT !.pc = "build", !.nested = TRUE, !.left = @ - 1]
    BY <1>7 DEF PrioritizeImm, data
  <2>2. bg' \in Bgs
    <3>1. bg \in Bgs /\ bg.left - 1 \in Int /\ "build" \in BgLabels
      BY BgTypes DEF BgLabels
    <3>2. PICK n \in Int : n = bg.left - 1
      BY <3>1
    <3>3. bg' = [bg EXCEPT !.pc = "build", !.nested = TRUE, !.left = n]
      BY <2>1, <3>2
    <3>. QED
      BY <3>1, <3>3
  <2>. QED
    BY <1>1, <1>2, <2>1, <2>2, BgTypes
<1>8. CASE BuildTable
  <2>1. bg.pc = "build" /\ UNCHANGED <<mem, imm, tables, l0>> /\ l0' \in Int
    BY <1>8, BgTypes DEF BuildTable, data
  <2>2. CASE bg' = [bg EXCEPT !.pc = "memtable"] /\ UNCHANGED <<pc, scheduled, bg_error, shutting_down>>
    <3>1. bg' \in Bgs
      BY <2>2, BgTypes DEF BgLabels
    <3>. QED
      BY <1>1, <1>2, <2>1, <2>2, <3>1, BgTypes
  <2>3. CASE bg_error' = TRUE /\ EndCompactMemTable(RecordBackgroundError(pc))
    <3>1. EndCompactMemTable(e)
      BY <1>5, <2>3
    <3>. QED
      BY <1>2, <1>5, <2>1, <2>3, <3>1, EndCompactMemTableKeeps
  <2>. QED
    BY <1>8, <2>2, <2>3, Zenon DEF BuildTable
<1>9. CASE InstallMemTable
  <2>1. bg.pc = "memtable" /\ UNCHANGED mem /\ l0 \in Int /\ bg_error \in BOOLEAN
    BY <1>9, BgTypes DEF InstallMemTable
  <2>2. CASE /\ tables' = tables \cup UNION imm /\ imm' = ImmAfter(TRUE) /\ l0' \in {l0, l0 + 1}
             /\ UNCHANGED bg_error /\ EndCompactMemTable(pc)
    <3>1. PICK p : p = pc
      OBVIOUS
    <3>2. EndCompactMemTable(p)
      BY <2>2, <3>1
    <3>3. WorkInv'
      BY <2>1, <2>2, <3>1, <3>2, EndCompactMemTableKeeps
    <3>4. NothingVanishes
      BY <2>1, <2>2 DEF NothingVanishes, Visible
    <3>. QED
      BY <3>3, <3>4
  <2>3. CASE /\ bg_error' = TRUE /\ imm' = ImmAfter(FALSE) /\ UNCHANGED <<tables, l0>>
             /\ EndCompactMemTable(RecordBackgroundError(pc))
    <3>1. EndCompactMemTable(e)
      BY <1>5, <2>3
    <3>2. UNCHANGED <<mem, imm, tables>>
      BY <2>1, <2>3 DEF ImmAfter
    <3>. QED
      BY <1>2, <1>5, <2>1, <2>3, <3>1, <3>2, EndCompactMemTableKeeps
  <2>. QED
    BY <1>9, <2>2, <2>3, Zenon DEF InstallMemTable
<1>10. CASE Merged
  <2>1. bg.pc = "merge" /\ UNCHANGED <<mem, imm, tables, l0>> /\ l0' \in Int
    BY <1>10, BgTypes DEF Merged, data
  <2>2. CASE bg' = [bg EXCEPT !.pc = "install"] /\ UNCHANGED <<pc, scheduled, bg_error, shutting_down>>
    <3>1. bg' \in Bgs
      BY <2>2, BgTypes DEF BgLabels
    <3>. QED
      BY <1>1, <1>2, <2>1, <2>2, <3>1, BgTypes
  <2>3. CASE bg_error' = TRUE /\ EndCompaction(FALSE)
    BY <1>2, <2>1, <2>3, EndCompactionKeeps
  <2>. QED
    BY <1>10, <2>2, <2>3, Zenon DEF Merged
<1>11. CASE Install
  <2>1. bg.pc = "install" /\ UNCHANGED <<mem, imm, tables>> /\ bg.in \in Int /\ l0 \in Int /\ bg_error \in BOOLEAN
    BY <1>11, BgTypes DEF Install
  <2>2. CASE l0' = l0 - bg.in /\ UNCHANGED bg_error /\ EndCompaction(TRUE)
    <3>1. l0' \in Int /\ bg_error' \in BOOLEAN /\ bg.pc /= "idle"
      BY <2>1, <2>2
    <3>. QED
      BY <1>2, <2>1, <2>2, <3>1, EndCompactionKeeps, Zenon
  <2>3. CASE bg_error' = TRUE /\ UNCHANGED l0 /\ EndCompaction(FALSE)
    BY <1>2, <2>1, <2>3, EndCompactionKeeps
  <2>. QED
    BY <1>11, <2>2, <2>3, Zenon DEF Install
<1>. QED
  BY <1>6, <1>7, <1>8, <1>9, <1>10, <1>11, Zenon DEF Background

\* Lemma WorkInductive: every step keeps WorkInv and what readers can see.
LEMMA WorkInductive ==
    ASSUME WorkSetting, WorkInv, [Next]_vars
    PROVE  WorkInv' /\ (NothingVanishes \/ UNCHANGED vars)
<1>1. ASSUME UNCHANGED vars PROVE WorkInv'
  BY <1>1, Zenon DEF vars, queue, data, work, WorkInv, WorkTypes, Due, WorkIsScheduled
<1>2. ASSUME NEW c \in Writers, NEW n \in Sizes, NEW s \in Syncs, Write(c, [batch |-> n, sync |-> s])
      PROVE  WorkInv' /\ NothingVanishes
  BY <1>2, WriteKeeps DEF Threads
<1>3. ASSUME NEW c \in Compactors, WriteNull(c) PROVE WorkInv' /\ NothingVanishes
  BY <1>3, WriteKeeps DEF WriteNull, Threads
<1>4. CASE UpdateStats
  <2>1. /\ shutting_down = "no" /\ UNCHANGED <<pc, mem, imm, tables, l0, bg, bg_error, shutting_down>>
        /\ MaybeScheduleCompaction(scheduled)
    BY <1>4, Zenon DEF UpdateStats
  <2>2. PICK s \in BOOLEAN : s = scheduled
    BY BgTypes
  <2>3. MaybeScheduleCompaction(s)
    BY <2>1, <2>2
  <2>4. Due' /\ scheduled' \in BOOLEAN /\ (scheduled => scheduled')
    BY <2>2, <2>3, SchedulesDue
  <2>5. pc' = [t \in Threads |-> pc'[t]] /\ bg_error' \in BOOLEAN
    BY <2>1, BgTypes, Zenon
  <2>6. WorkInv'
    BY <2>1, <2>4, <2>5, ThreadKeeps, Zenon
  <2>. QED
    BY <2>1, <2>6 DEF NothingVanishes, Visible
<1>5. CASE Destroy
  <2>1. /\ \A t \in Threads : pc[t] = "end"
        /\ UNCHANGED <<pc, mem, imm, tables, l0, seek, scheduled, bg, manual, bg_error>>
        /\ shutting_down' /= "no"
    BY <1>5 DEF Destroy, data
  <2>2. WorkTypes' /\ Due' /\ WorkIsScheduled'
    BY <2>1, Zenon DEF WorkInv, WorkTypes, Due, WorkIsScheduled
  <2>3. WorkInv'
    BY <2>1, <2>2, Zenon DEF WorkInv
  <2>. QED
    BY <2>1, <2>3 DEF NothingVanishes, Visible
<1>. QED
  BY <1>1, <1>2, <1>3, <1>4, <1>5, StepKeeps, BackgroundKeeps, Zenon DEF Next, Closed

\* Theorem ReadersAndWaitersServed: whatever the writers, compactors, readers and
\* background thread of a DBImpl do, and whatever fails, no reader loses sight of an
\* entry on its way from mem_ to imm_ to a table, and while bg_error_ is not set
\* whoever waits on bg_cv_ waits for work that is scheduled.
THEOREM ReadersAndWaitersServed ==
    ASSUME WorkSetting PROVE Spec => []WorkIsScheduled /\ [][NothingVanishes]_vars
<1>1. ASSUME Init PROVE WorkInv
  <2>1. l0 \in Int /\ scheduled = NeedsCompaction(l0, seek) /\ imm = {} /\ manual = None
    BY <1>1 DEF Init, WorkSetting
  <2>2. bg = Idle /\ bg_error = FALSE /\ shutting_down = "no" /\ pc = [t \in Threads |-> "idle"]
    BY <1>1, Zenon DEF Init
  <2>3. WorkTypes
    <3>1. bg \in [pc : BgLabels, nested : BOOLEAN, manual : BOOLEAN, in : Int, left : Int]
      BY <2>2 DEF Idle, BgLabels
    <3>2. scheduled \in BOOLEAN /\ bg_error \in BOOLEAN
      BY <2>1, <2>2 DEF NeedsCompaction
    <3>3. pc = [t \in Threads |-> pc[t]]
      BY <2>2
    <3>. QED
      BY <2>1, <3>1, <3>2, <3>3, Zenon DEF WorkTypes
  <2>4. Due
    BY <2>1, Zenon DEF Due
  <2>5. WorkIsScheduled
    BY <2>2 DEF WorkIsScheduled
  <2>6. bg.pc = "idle"
    BY <2>2 DEF Idle
  <2>. QED
    BY <2>2, <2>3, <2>4, <2>5, <2>6, Zenon DEF WorkInv
<1>2. WorkInv => WorkIsScheduled
  BY Zenon DEF WorkInv
<1>3. WorkInv /\ [Next]_vars => WorkInv' /\ [NothingVanishes]_vars
  BY WorkInductive, Zenon
<1>. QED
  BY <1>1, <1>2, <1>3, PTL DEF Spec
===============================================================================
