---------------------------- MODULE DBGroupProofs -----------------------------
(***************************************************************************)
(* What DBImpl::Write() returns is true of the log, of the memtables and   *)
(* of the sequence numbers, for any number of writers, compactors and      *)
(* batches: every step keeps the invariant of the group commit.            *)
(***************************************************************************)
EXTENDS DBGroupKernel

\* What readers find does not change when nothing moves, when ...
LEMMA VisibleSame ==
    ASSUME UNCHANGED <<mem, imm, tables>>
    PROVE  Visible' = Visible
BY DEF Visible

\* ... MakeRoomForWrite() turns mem_ into imm_,
LEMMA VisibleSwitch ==
    ASSUME imm = {}, imm' = {mem}, mem' = {}, UNCHANGED tables
    PROVE  Visible' = Visible
BY DEF Visible

\* ... CompactMemTable() turns imm_ into a table,
LEMMA VisibleInstall ==
    ASSUME tables' = tables \cup UNION imm, imm' = {}, UNCHANGED mem
    PROVE  Visible' = Visible
BY DEF Visible

\* ... and InsertInto() adds a batch.
LEMMA VisibleInsert ==
    ASSUME NEW t, mem' = mem \cup {t}, UNCHANGED <<imm, tables>>
    PROVE  Visible' = Visible \cup {t}
BY DEF Visible

\* A step that only moves threads about.
LEMMA GroupStirred ==
    ASSUME GroupInv, UNCHANGED <<queue, log, synced, last_sequence, seq, mem>>,
           Visible' = Visible,
           pc' \in [Threads -> Labels], Stirred(pc, pc')
    PROVE  GroupInv'
<1>1. GroupTypes'
  BY DEF GroupInv, GroupTypes, queue
<1>2. Queue(writers, pc', done)
  BY QueueStirred DEF GroupInv
<1>3. Grouped(writers, pc', group, req)
  BY GroupedStirred DEF GroupInv, GroupTypes
<1>4. Arrival(writers, pc', done, arrived)
  BY ArrivalStirred DEF GroupInv
<1>5. Requests(pc', req)
  BY RequestsStirred DEF GroupInv
<1>6. Phase(group, pc') = Phase(group, pc)
  BY PhaseStirred DEF GroupInv, GroupTypes
<1>. QED BY <1>1, <1>2, <1>3, <1>4, <1>5, <1>6 DEF GroupInv, queue

\* A thread that leads no group goes on.
LEMMA GroupMovesOn ==
    ASSUME GroupInv, UNCHANGED <<writers, req, done, group, arrived, log, synced, last_sequence,
           seq, mem>>,
           status' \in [Threads -> {"ok", "error"}], \A t \in Writers : status'[t] = status[t],
           Visible' = Visible, NEW c \in Threads, NEW q \in Labels, pc' = [pc EXCEPT ![c] = q],
           pc[c] \notin Leads \cup {"idle"}, q \notin Leads \cup {"idle"},
           \/ pc[c] \in Queued /\ ~done[c] /\ q \in Queued /\ (q \in Fronts => c = writers[1])
           \/ done[c] /\ q \in Ranging \cup {"return", "end"},
           q \in Ranging => c \notin Writers
    PROVE  GroupInv'
<1>1. GroupTypes'
  BY DEF GroupInv, GroupTypes
<1>2. Queue(writers, pc', done)
  BY QueueMove, Zenon DEF GroupInv, GroupTypes
<1>3. Grouped(writers, pc', group, req)
  BY GroupedMove, Zenon DEF GroupInv, GroupTypes
<1>4. Arrival(writers, pc', done, arrived)
  BY ArrivalMove, Zenon DEF GroupInv, GroupTypes
<1>5. Requests(pc', req)
  BY RequestsMove, Zenon DEF GroupInv, GroupTypes
<1>6. Phase(group, pc') = Phase(group, pc)
  <2>1. /\ group \in Seq(Threads) /\ pc \in [Threads -> Labels] /\ Grouped(writers, pc, group, req)
        /\ pc[c] \notin Leads
    BY DEF GroupInv, GroupTypes
  <2>. QED BY <2>1, PhaseMove, Zenon
<1>7. DataInv(group, Phase(group, pc), req, arrived, done, status', Visible, mem, synced, log,
        seq, last_sequence)
  <2>1. DataInv(group, Phase(group, pc), req, arrived, done, status, Visible, mem, synced, log,
          seq, last_sequence)
    BY Zenon DEF GroupInv
  <2>. QED BY <2>1, Zenon DEF DataInv, OnlyAcknowledged, AcknowledgedKept
<1>. QED BY <1>1, <1>2, <1>3, <1>4, <1>5, <1>6, <1>7, Zenon DEF GroupInv

\* The same, when no status changes.
LEMMA GroupMoves ==
    ASSUME GroupInv, UNCHANGED <<writers, req, done, status, group, arrived, log, synced,
           last_sequence, seq, mem>>,
           Visible' = Visible, NEW c \in Threads, NEW q \in Labels, pc' = [pc EXCEPT ![c] = q],
           pc[c] \notin Leads \cup {"idle"}, q \notin Leads \cup {"idle"},
           \/ pc[c] \in Queued /\ ~done[c] /\ q \in Queued /\ (q \in Fronts => c = writers[1])
           \/ done[c] /\ q \in Ranging \cup {"return", "end"},
           q \in Ranging => c \notin Writers
    PROVE  GroupInv'
<1>1. status' \in [Threads -> {"ok", "error"}] /\ \A t \in Writers : status'[t] = status[t]
  BY Zenon DEF GroupInv, GroupTypes
<1>. QED BY <1>1, GroupMovesOn, Zenon

\* c is at the front of a queue ws, in which nobody leads a group.
Ready(c, ws, p, rq, arr) ==
    /\ GroupTypes
    /\ ws \in Seq(Threads) /\ ws /= <<>> /\ c = ws[1] /\ c \in Threads
    /\ p = [pc EXCEPT ![c] = "run"] /\ ~done[c] /\ rq \in [Threads -> Reqs]
    /\ arr \in Seq(Threads)
    /\ Queue(ws, p, done) /\ Grouped(ws, p, group, rq) /\ Arrival(ws, p, done, arr)
    /\ Requests(p, rq)
    /\ DataInv(group, Phase(group, p), rq, arr, done, status, Visible, mem, synced, log, seq,
          last_sequence)

\* Then there is no group, and every other thread is where it was.
LEMMA ReadyFacts ==
    ASSUME NEW c, NEW ws, NEW p, NEW rq, NEW arr, Ready(c, ws, p, rq, arr)
    PROVE  /\ p \in [Threads -> Labels] /\ p[c] = "run"
           /\ \A t \in Threads : t /= c => p[t] = pc[t]
           /\ group = <<>> /\ Phase(group, p) = "none"
           /\ \A t \in Threads : p[t] \notin Leads
<1>1. /\ pc \in [Threads -> Labels] /\ p = [pc EXCEPT ![c] = "run"] /\ c \in Threads
      /\ group \in Seq(Threads) /\ ws \in Seq(Threads)
  BY Zenon DEF Ready, GroupTypes
<1>2. "run" \in Labels /\ "run" \notin Leads
  BY DEF Labels, Queued, Leads
<1>3. p \in [Threads -> Labels] /\ p[c] = "run" /\ \A t \in Threads : t /= c => p[t] = pc[t]
  BY <1>1, <1>2
<1>4. ASSUME group /= <<>> PROVE FALSE
  <2>1. 1 \in 1 .. Len(group)
    BY <1>1, <1>4
  <2>2. p[group[1]] \in Leads /\ group[1] = ws[1]
    BY <1>4, <2>1 DEF Ready, Grouped
  <2>3. ws[1] = c
    BY Zenon DEF Ready
  <2>. QED BY <1>2, <1>3, <2>2, <2>3
<1>5. \A t \in Threads : p[t] \notin Leads
  BY <1>4 DEF Ready, Grouped
<1>. QED BY <1>3, <1>4, <1>5 DEF Phase

\* MakeRoomForWrite() fails, or the batch is NULL.
LEMMA RoomEnds ==
    ASSUME NEW c, NEW ws, NEW p, NEW rq, NEW arr, Ready(c, ws, p, rq, arr), req' = rq,
           arrived' = arr,
           NEW st \in {"ok", "error"}, st = "error" \/ c \notin Writers,
           Finish(c, ws, 1, st, pc), UNCHANGED <<group, log, synced, last_sequence, seq>>,
           Visible' = Visible
    PROVE  GroupInv'
<1>0. Ready(c, ws, p, rq, arr)
  OBVIOUS
<1>1. /\ p \in [Threads -> Labels] /\ p[c] = "run"
      /\ \A t \in Threads : t /= c => p[t] = pc[t]
      /\ group = <<>> /\ Phase(group, p) = "none"
      /\ \A t \in Threads : p[t] \notin Leads
  BY ONLY <1>0, ReadyFacts, Zenon
<1>2. /\ ws \in Seq(Threads) /\ ws /= <<>> /\ c = ws[1] /\ c \in Threads /\ ~done[c]
      /\ rq \in [Threads -> Reqs] /\ arr \in Seq(Threads) /\ pc \in [Threads -> Labels]
      /\ done \in [Threads -> BOOLEAN] /\ status \in [Threads -> {"ok", "error"}]
      /\ Visible \subseteq Threads
      /\ Queue(ws, p, done) /\ Arrival(ws, p, done, arr) /\ Requests(p, rq)
      /\ DataInv(<<>>, "none", rq, arr, done, status, Visible, mem, synced, log, seq,
            last_sequence)
  BY <1>1 DEF Ready, GroupTypes
<1>3. 1 \in 1 .. Len(ws) /\ \A i : i \in 1 .. 1 <=> i = 1
  BY <1>2
<1>4. /\ Pops(ws, 1, pc, done, writers', pc', done')
      /\ Answers(ws, 1, st, status, status')
  <2>1. Finish(ws[1], ws, 1, st, pc) /\ Distinct(ws)
    BY <1>2 DEF Queue
  <2>2. /\ ws \in Seq(Threads) /\ 1 \in 1 .. Len(ws) /\ pc \in [Threads -> Labels]
        /\ done \in [Threads -> BOOLEAN]
    BY <1>2, <1>3, Zenon
  <2>. QED BY ONLY <2>1, <2>2, FinishPops
<1>5. Pops(ws, 1, p, done, writers', pc', done')
  <2>1. \A t \in Threads : (\E i \in 1 .. 1 : ws[i] = t) \/ p[t] = pc[t]
    BY <1>1, <1>2, <1>3
  <2>. QED BY <1>4, <2>1, Zenon DEF Pops
<1>6. /\ writers' \in Seq(Threads) /\ pc' \in [Threads -> Labels]
      /\ done' \in [Threads -> BOOLEAN]
      /\ \A t \in Threads : done'[t] <=> done[t] \/ t = c
  <2>1. /\ writers' \in Seq(Threads) /\ pc' \in [Threads -> Labels]
        /\ done' \in [Threads -> BOOLEAN]
        /\ \A t \in Threads : done'[t] <=> done[t] \/ \E i \in 1 .. 1 : ws[i] = t
    BY <1>5, Zenon DEF Pops
  <2>2. \A t \in Threads : (\E i \in 1 .. 1 : ws[i] = t) <=> t = c
    BY <1>2, <1>3, Zenon
  <2>. QED BY <2>1, <2>2, Zenon
<1>7. /\ status' \in [Threads -> {"ok", "error"}]
      /\ status'[c] = st /\ \A t \in Threads : t /= c => status'[t] = status[t]
  <2>1. status' = [t \in Threads |-> IF t = c THEN st ELSE status[t]]
    <3>1. \A t \in Threads : (\E i \in 1 .. 1 : ws[i] = t) <=> t = c
      BY <1>2, <1>3, Zenon
    <3>. QED BY <1>4, <3>1 DEF Answers
  <2>. QED BY <1>2, <2>1
<1>8. Queue(writers', pc', done') /\ \A t \in Threads : pc'[t] \notin Fronts
  BY <1>1, <1>2, <1>3, <1>5, QueuePops, Zenon
<1>9. Arrival(writers', pc', done', arr) /\ \A t \in Threads : pc'[t] = "idle" <=> p[t] = "idle"
  <2>1. /\ ws \in Seq(Threads) /\ 1 \in 1 .. Len(ws) /\ p \in [Threads -> Labels]
        /\ done \in [Threads -> BOOLEAN]
        /\ Queue(ws, p, done) /\ Arrival(ws, p, done, arr)
    BY <1>1, <1>2, <1>3, Zenon
  <2>. QED BY ONLY <1>5, <2>1, ArrivalPops
<1>10. Requests(pc', rq)
  BY <1>2, <1>3, <1>5, <1>9, RequestsPops, Zenon
<1>11. Grouped(writers', pc', group', rq)
  <2>1. \A t \in Threads : pc'[t] \notin Leads
    BY <1>8, Zenon DEF Fronts
  <2>2. group' = <<>> /\ Len(<<>>) = 0 /\ Len(writers') \in Nat
    BY <1>1, <1>6
  <2>. QED BY <2>1, <2>2 DEF Grouped
<1>12. DataInv(<<>>, "none", rq, arr, done', status', Visible, mem', synced, log, seq,
         last_sequence)
  <2>1. /\ done \in [Threads -> BOOLEAN] /\ Visible \in SUBSET Threads /\ c \in Threads
        /\ ~done[c]
        /\ DataInv(<<>>, "none", rq, arr, done, status, Visible, mem, synced, log, seq,
              last_sequence)
        /\ done' \in [Threads -> BOOLEAN]
    BY <1>2, <1>6, Zenon
  <2>2. Refused(c, done, done', status, status')
    BY <1>6, <1>7, Zenon DEF Refused
  <2>. QED BY ONLY <2>1, <2>2, DataRefused
<1>13. Phase(group', pc') = "none" /\ group' = <<>>
  BY <1>1 DEF Phase
<1>14. GroupTypes'
  <2>1. /\ group' \in Seq(Threads) /\ log \in Seq(Threads) /\ last_sequence \in Nat
        /\ seq \in [Threads -> Nat]
    BY Zenon DEF Ready, GroupTypes
  <2>. QED BY <1>2, <1>6, <1>7, <2>1, Zenon DEF GroupTypes
<1>. QED BY <1>8, <1>9, <1>10, <1>11, <1>12, <1>13, <1>14, Zenon DEF GroupInv

\* MakeRoomForWrite() sleeps or waits.
LEMMA RoomStalls ==
    ASSUME NEW c, NEW ws, NEW p, NEW rq, NEW arr, Ready(c, ws, p, rq, arr), req' = rq,
           arrived' = arr,
           NEW where \in {"sleep", "bg wait"}, Stall(c, ws, where),
           UNCHANGED <<log, synced, last_sequence, seq>>, Visible' = Visible
    PROVE  GroupInv'
<1>1. /\ p \in [Threads -> Labels] /\ p[c] = "run" /\ group = <<>>
  BY ReadyFacts, Zenon
<1>2. pc' = [p EXCEPT ![c] = where]
  <2>1. /\ pc' = [pc EXCEPT ![c] = where] /\ p = [pc EXCEPT ![c] = "run"]
        /\ pc \in [Threads -> Labels]
    BY Zenon DEF Ready, Stall, GroupTypes
  <2>. QED BY <2>1, Zenon
<1>3. /\ where \in Labels /\ where \in Queued /\ where \notin Leads /\ where \notin Ranging
      /\ where /= "idle"
      /\ "run" \in Queued /\ "run" \notin Leads /\ "run" /= "idle"
  BY Zenon DEF Labels, Queued, Fronts, Leads, Ranging
<1>4. /\ ws \in Seq(Threads) /\ c = ws[1] /\ c \in Threads /\ ~done[c]
      /\ done \in [Threads -> BOOLEAN]
      /\ group \in Seq(Threads)
      /\ Queue(ws, p, done) /\ Grouped(ws, p, group, rq) /\ Arrival(ws, p, done, arr)
      /\ Requests(p, rq)
      /\ DataInv(group, Phase(group, p), rq, arr, done, status, Visible, mem, synced, log, seq,
            last_sequence)
  BY Zenon DEF Ready, GroupTypes
<1>5. Queue(ws, pc', done)
  BY <1>1, <1>2, <1>3, <1>4, QueueMove, Zenon
<1>6. Grouped(ws, pc', group, rq)
  BY <1>1, <1>2, <1>3, <1>4, GroupedMove, Zenon
<1>7. Arrival(ws, pc', done, arr)
  BY <1>1, <1>2, <1>3, <1>4, ArrivalMove, Zenon
<1>8. Requests(pc', rq)
  BY <1>1, <1>2, <1>3, <1>4, RequestsMove, Zenon
<1>9. Phase(group, pc') = Phase(group, p)
  BY <1>1, Zenon DEF Phase
<1>10. writers' = ws /\ UNCHANGED <<done, status, group, mem>>
  BY Zenon DEF Stall
<1>11. GroupTypes'
  <2>1. pc' \in [Threads -> Labels]
    BY <1>1, <1>2, <1>3, Zenon
  <2>. QED BY <1>10, <2>1, Zenon DEF Ready, GroupTypes
<1>. QED BY <1>4, <1>5, <1>6, <1>7, <1>8, <1>9, <1>10, <1>11, Zenon DEF GroupInv

\* A group is built.
LEMMA RoomStarts ==
    ASSUME NEW c, NEW ws, NEW p, NEW rq, NEW arr, Ready(c, ws, p, rq, arr), req' = rq,
           arrived' = arr,
           rq[c].batch /= 0, Proceed(c, ws, rq), UNCHANGED <<log, synced, last_sequence, seq>>,
           Visible' = Visible
    PROVE  GroupInv'
<1>1. /\ p \in [Threads -> Labels] /\ p[c] = "run" /\ group = <<>> /\ Phase(group, p) = "none"
  BY ReadyFacts, Zenon
<1>2. /\ group' = SubSeq(ws, 1, BuildBatchGroup(ws, rq)) /\ pc' = [pc EXCEPT ![c] = "append"]
      /\ writers' = ws /\ UNCHANGED <<done, status>>
  BY Zenon DEF Proceed
<1>3. pc' = [p EXCEPT ![c] = "append"]
  <2>1. p = [pc EXCEPT ![c] = "run"] /\ pc \in [Threads -> Labels]
    BY Zenon DEF Ready, GroupTypes
  <2>. QED BY <1>2, <2>1, Zenon
<1>4. "append" \in Labels /\ "append" \in Queued /\ "append" \notin Ranging /\ "run" \in Queued
  BY DEF Labels, Queued, Fronts, Leads, Ranging
<1>5. /\ ws \in Seq(Threads) /\ ws /= <<>> /\ c = ws[1] /\ c \in Threads /\ ~done[c]
      /\ done \in [Threads -> BOOLEAN]
      /\ Visible \subseteq Threads
      /\ Queue(ws, p, done) /\ Arrival(ws, p, done, arr) /\ Requests(p, rq)
      /\ DataInv(<<>>, "none", rq, arr, done, status, Visible, mem, synced, log, seq,
            last_sequence)
  BY <1>1, Zenon DEF Ready, GroupTypes
<1>6. Queue(ws, pc', done)
  BY <1>1, <1>3, <1>4, <1>5, QueueMove, Zenon
<1>7. /\ group' \in Seq(Threads) /\ group' /= <<>> /\ group'[1] = ws[1]
      /\ Grouped(ws, [p EXCEPT ![ws[1]] = "append"], group', rq)
  BY <1>1, <1>2, <1>5, GroupedStarts, Zenon
<1>8. Grouped(ws, pc', group', rq)
  BY <1>3, <1>5, <1>7, Zenon
<1>9. Arrival(ws, pc', done, arr)
  BY <1>1, <1>3, <1>5, ArrivalMove, Zenon
<1>10. Requests(pc', rq)
  BY <1>1, <1>3, <1>4, <1>5, RequestsMove, Zenon
<1>11. Phase(group', pc') = "append"
  BY <1>1, <1>3, <1>5, <1>7 DEF Phase
<1>12. DataInv(group', "append", rq, arr, done, status, Visible, mem', synced, log, seq,
         last_sequence)
  BY <1>5, DataStarts
<1>13. GroupTypes'
  <2>1. pc' \in [Threads -> Labels]
    BY <1>1, <1>3, <1>4, Zenon
  <2>. QED BY <1>2, <1>7, <2>1, Zenon DEF Ready, GroupTypes
<1>. QED BY <1>2, <1>6, <1>8, <1>9, <1>10, <1>11, <1>12, <1>13, Zenon DEF GroupInv

\* MakeRoomForWrite() and what follows it.
LEMMA RoomGroups ==
    ASSUME NEW c, NEW ws, NEW p, NEW rq, NEW arr, Ready(c, ws, p, rq, arr), req' = rq,
           arrived' = arr,
           MakeRoomForWrite(c, ws, rq)
    PROVE  GroupInv'
<1>1. UNCHANGED <<log, synced, last_sequence, seq, tables>>
  BY Zenon DEF MakeRoomForWrite
<1>2. c \in Writers => rq[c].batch /= 0
  <2>1. p[c] = "run" /\ Requests(p, rq)
    BY ReadyFacts, Zenon DEF Ready
  <2>. QED BY <2>1 DEF Requests
<1>3. ASSUME Finish(c, ws, 1, "error", pc), UNCHANGED <<group, mem, imm>> PROVE GroupInv'
  <2>1. Visible' = Visible
    BY <1>1, <1>3, VisibleSame
  <2>2. "error" \in {"ok", "error"} /\ UNCHANGED <<group, log, synced, last_sequence, seq>>
    BY <1>1, <1>3
  <2>. QED BY <1>3, <2>1, <2>2, RoomEnds, Zenon
<1>4. ASSUME NEW where \in {"sleep", "bg wait"}, Stall(c, ws, where) PROVE GroupInv'
  <2>1. Visible' = Visible
    BY <1>1, <1>4, VisibleSame, Zenon DEF Stall
  <2>. QED BY <1>1, <1>4, <2>1, RoomStalls, Zenon
<1>5. ASSUME Proceed(c, ws, rq), Visible' = Visible PROVE GroupInv'
  <2>1. CASE rq[c].batch = 0
    <3>1. Finish(c, ws, 1, "ok", pc) /\ UNCHANGED group
      BY <1>5, <2>1, Zenon DEF Proceed
    <3>2. /\ "ok" \in {"ok", "error"} /\ UNCHANGED <<group, log, synced, last_sequence, seq>>
          /\ c \notin Writers
      BY <1>1, <1>2, <2>1, <3>1
    <3>. QED BY <1>5, <3>1, <3>2, RoomEnds, Zenon
  <2>2. CASE rq[c].batch /= 0
    BY <1>1, <1>5, <2>2, RoomStarts, Zenon
  <2>. QED BY <2>1, <2>2
<1>6. \/ Finish(c, ws, 1, "error", pc) /\ UNCHANGED <<group, mem, imm>>
      \/ Stall(c, ws, "sleep")
      \/ Stall(c, ws, "bg wait")
      \/ Proceed(c, ws, rq) /\ UNCHANGED <<mem, imm>>
      \/ Proceed(c, ws, rq) /\ imm = {} /\ imm' = {mem} /\ mem' = {}
  BY Zenon DEF MakeRoomForWrite, MaySwitch
<1>7. CASE Proceed(c, ws, rq) /\ UNCHANGED <<mem, imm>>
  <2>1. Visible' = Visible
    BY <1>1, <1>7, VisibleSame
  <2>. QED BY <1>5, <1>7, <2>1, Zenon
<1>8. CASE Proceed(c, ws, rq) /\ imm = {} /\ imm' = {mem} /\ mem' = {}
  <2>1. Visible' = Visible
    BY <1>1, <1>8, VisibleSwitch
  <2>. QED BY <1>5, <1>8, <2>1, Zenon
<1>9. "sleep" \in {"sleep", "bg wait"} /\ "bg wait" \in {"sleep", "bg wait"}
  OBVIOUS
<1>. QED BY <1>3, <1>4, <1>6, <1>7, <1>8, <1>9, Zenon

\* The queue, the places, the requests and the arrivals after a call entered.
Enters(ws, p, rq, arr) ==
    /\ ws \in Seq(Threads) /\ p \in [Threads -> Labels] /\ rq \in [Threads -> Reqs]
    /\ arr \in Seq(Threads)
    /\ Queue(ws, p, done) /\ Grouped(ws, p, group, rq) /\ Arrival(ws, p, done, arr)
    /\ Requests(p, rq)
    /\ DataInv(group, Phase(group, p), rq, arr, done, status, Visible, mem, synced, log, seq,
          last_sequence)

\* Write() up to the test for the front of writers_.
LEMMA CallEnters ==
    ASSUME GroupInv, NEW c \in Threads, pc[c] = "idle", NEW r \in Reqs,
           c \in Writers => r.batch /= 0, c \in Compactors => r.batch = 0,
           NEW q \in {"wait", "run"}
    PROVE  Enters(Append(writers, c), [pc EXCEPT ![c] = q], [req EXCEPT ![c] = r],
             Append(arrived, c))
<1>1. /\ writers \in Seq(Threads) /\ pc \in [Threads -> Labels] /\ req \in [Threads -> Reqs]
      /\ done \in [Threads -> BOOLEAN] /\ group \in Seq(Threads) /\ log \in Seq(Threads)
      /\ arrived \in Seq(Threads)
      /\ Visible \in SUBSET Threads /\ DOMAIN req = Threads
  BY DEF GroupInv, GroupTypes
<1>2. /\ Queue(writers, pc, done) /\ Grouped(writers, pc, group, req)
      /\ Arrival(writers, pc, done, arrived) /\ Requests(pc, req)
      /\ DataInv(group, Phase(group, pc), req, arrived, done, status, Visible, mem, synced, log,
            seq, last_sequence)
  BY Zenon DEF GroupInv
<1>3. Queue(Append(writers, c), [pc EXCEPT ![c] = q], done)
  BY <1>1, <1>2, QueueEnters, Zenon
<1>4. Grouped(Append(writers, c), [pc EXCEPT ![c] = q], group, [req EXCEPT ![c] = r])
  <2>1. /\ writers \in Seq(Threads) /\ pc \in [Threads -> Labels]
        /\ done \in [Threads -> BOOLEAN] /\ group \in Seq(Threads)
        /\ DOMAIN req = Threads /\ Queue(writers, pc, done) /\ Grouped(writers, pc, group, req)
        /\ c \in Threads /\ pc[c] = "idle" /\ q \in {"wait", "run"}
    BY <1>1, <1>2, Zenon
  <2>. QED BY ONLY <2>1, GroupedEnters, Zenon
<1>5. Arrival(Append(writers, c), [pc EXCEPT ![c] = q], done, Append(arrived, c))
  BY <1>1, <1>2, ArrivalEnters, Zenon
<1>6. Requests([pc EXCEPT ![c] = q], [req EXCEPT ![c] = r])
  BY <1>1, <1>2, RequestsEnters, Zenon
<1>7. /\ Phase(group, [pc EXCEPT ![c] = q]) = Phase(group, pc)
      /\ (group = <<>> => Phase(group, pc) = "none")
  <2>1. pc[c] \notin Leads
    BY DEF Leads
  <2>2. Phase(group, [pc EXCEPT ![c] = q]) = Phase(group, pc)
    <3>1. /\ group \in Seq(Threads) /\ pc \in [Threads -> Labels]
          /\ Grouped(writers, pc, group, req)
      BY <1>1, <1>2, Zenon
    <3>. QED BY <2>1, <3>1, PhaseMove, Zenon
  <2>. QED BY <2>2, Zenon DEF Phase
<1>8. DataInv(group, Phase(group, pc), [req EXCEPT ![c] = r], Append(arrived, c), done, status,
        Visible, mem, synced, log, seq, last_sequence)
  <2>1. PICK ph : ph = Phase(group, pc)
    OBVIOUS
  <2>2. (group = <<>> => ph = "none")
          /\ DataInv(group, ph, req, arrived, done, status, Visible, mem, synced, log, seq,
                last_sequence)
    BY <1>2, <1>7, <2>1, Zenon
  <2>3. /\ writers \in Seq(Threads) /\ group \in Seq(Threads) /\ pc \in [Threads -> Labels]
        /\ req \in [Threads -> Reqs]
        /\ arrived \in Seq(Threads) /\ done \in [Threads -> BOOLEAN]
        /\ Visible \in SUBSET Threads /\ log \in Seq(Threads)
        /\ Queue(writers, pc, done) /\ Grouped(writers, pc, group, req)
        /\ c \in Threads /\ pc[c] = "idle" /\ r \in Reqs
    BY <1>1, <1>2, Zenon
  <2>4. DataInv(group, ph, [req EXCEPT ![c] = r], Append(arrived, c), done, status, Visible,
          mem, synced, log, seq, last_sequence)
    BY ONLY <2>2, <2>3, DataEnters, Zenon
  <2>. QED BY <2>1, <2>4, Zenon
<1>9. /\ Append(writers, c) \in Seq(Threads) /\ Append(arrived, c) \in Seq(Threads)
      /\ [pc EXCEPT ![c] = q] \in [Threads -> Labels]
      /\ [req EXCEPT ![c] = r] \in [Threads -> Reqs]
  <2>1. q \in Labels
    BY DEF Labels, Queued
  <2>. QED BY <1>1, <2>1
<1>. QED BY <1>3, <1>4, <1>5, <1>6, <1>7, <1>8, <1>9, Zenon DEF Enters

\* Write() up to its first wait.
LEMMA WriteGroups ==
    ASSUME GroupInv, NEW c \in Threads, NEW r \in Reqs, c \in Writers => r.batch /= 0,
           c \in Compactors => r.batch = 0,
           Write(c, r)
    PROVE  GroupInv'
<1>1. pc[c] = "idle" /\ req' = [req EXCEPT ![c] = r] /\ arrived' = Append(arrived, c)
  BY Zenon DEF Write
<1>2. /\ GroupTypes /\ writers \in Seq(Threads) /\ pc \in [Threads -> Labels]
      /\ done \in [Threads -> BOOLEAN]
  BY Zenon DEF GroupInv, GroupTypes
<1>3. CASE writers = <<>>
  <2>1. MakeRoomForWrite(c, <<c>>, req')
    BY <1>3, Zenon DEF Write
  <2>2. /\ "run" \in {"wait", "run"} /\ Append(writers, c) = <<c>> /\ <<c>> \in Seq(Threads)
        /\ <<c>> /= <<>> /\ <<c>>[1] = c
    BY <1>3
  <2>3. ~done[c]
    BY <1>1, <1>2 DEF GroupInv, Queue
  <2>4. PICK p : p = [pc EXCEPT ![c] = "run"]
    BY Zenon
  <2>5. Enters(<<c>>, p, req', arrived')
    <3>1. Enters(Append(writers, c), [pc EXCEPT ![c] = "run"], [req EXCEPT ![c] = r],
            Append(arrived, c))
      BY <1>1, <2>2, CallEnters, Zenon
    <3>. QED BY <1>1, <2>2, <2>4, <3>1, Zenon
  <2>6. Ready(c, <<c>>, p, req', arrived')
    BY <1>2, <2>2, <2>3, <2>4, <2>5, Zenon DEF Ready, Enters
  <2>. QED BY <2>1, <2>6, RoomGroups, Zenon
<1>4. CASE writers /= <<>>
  <2>1. /\ writers' = Append(writers, c) /\ pc' = [pc EXCEPT ![c] = "wait"]
        /\ UNCHANGED <<done, status, group, data>>
    BY <1>4, Zenon DEF Write
  <2>2. "wait" \in {"wait", "run"}
    OBVIOUS
  <2>3. Enters(writers', pc', req', arrived')
    <3>1. Enters(Append(writers, c), [pc EXCEPT ![c] = "wait"], [req EXCEPT ![c] = r],
            Append(arrived, c))
      BY <1>1, <2>2, CallEnters, Zenon
    <3>. QED BY <1>1, <2>1, <3>1, Zenon
  <2>4. Visible' = Visible /\ UNCHANGED <<mem, synced, log, seq, last_sequence>>
    BY <2>1, VisibleSame DEF data
  <2>5. GroupTypes'
    BY <1>2, <2>1, <2>3, <2>4, Zenon DEF GroupTypes, Enters
  <2>. QED BY <2>1, <2>3, <2>4, <2>5, Zenon DEF GroupInv, Enters
<1>. QED BY <1>3, <1>4

\* A signalled writer looks again.
LEMMA WakeGroups ==
    ASSUME GroupInv, NEW c \in Threads, Wake(c)
    PROVE  GroupInv'
<1>1. pc[c] = "run" /\ UNCHANGED <<req, arrived>>
  BY Zenon DEF Wake
<1>2. /\ GroupTypes /\ writers \in Seq(Threads) /\ pc \in [Threads -> Labels]
      /\ done \in [Threads -> BOOLEAN]
      /\ Queue(writers, pc, done)
  BY Zenon DEF GroupInv, GroupTypes
<1>3. /\ "run" \in Queued /\ "wait" \in Queued /\ "wait" \notin Fronts
      /\ "run" \notin Leads \cup {"idle"}
      /\ "wait" \in Labels /\ "return" \in Labels /\ "wait" \notin Leads \cup {"idle"}
      /\ "return" \notin Leads \cup {"idle"}
      /\ "return" \in Ranging \cup {"return", "end"} /\ "return" \notin Ranging
      /\ "wait" \notin Ranging
  BY DEF Labels, Queued, Fronts, Leads, Ranging
<1>4. CASE done[c] \/ c # Head(writers)
  <2>1. /\ pc' = [pc EXCEPT ![c] = IF done[c] THEN "return" ELSE "wait"]
        /\ UNCHANGED <<writers, done, status, group, data>>
    BY <1>4, Zenon DEF Wake
  <2>2. UNCHANGED <<writers, req, done, status, group, arrived, log, synced, last_sequence, seq,
          mem>> /\ Visible' = Visible
    BY <1>1, <2>1, VisibleSame DEF data
  <2>3. CASE done[c]
    <3>1. pc' = [pc EXCEPT ![c] = "return"]
      BY <2>1, <2>3
    <3>. QED BY <1>1, <1>3, <2>2, <2>3, <3>1, GroupMoves, Zenon
  <2>4. CASE ~done[c]
    <3>1. pc' = [pc EXCEPT ![c] = "wait"]
      BY <2>1, <2>4
    <3>. QED BY <1>1, <1>3, <2>2, <2>4, <3>1, GroupMoves, Zenon
  <2>. QED BY <2>3, <2>4
<1>5. CASE ~(done[c] \/ c # Head(writers))
  <2>1. MakeRoomForWrite(c, writers, req)
    BY <1>5, Zenon DEF Wake
  <2>2. ~done[c] /\ c = Head(writers)
    BY <1>5
  <2>3. Has(writers, c)
    BY <1>1, <1>2, <1>3, <2>2 DEF Queue
  <2>4. writers /= <<>> /\ c = writers[1]
    BY <1>2, <2>2, <2>3 DEF Has
  <2>5. pc = [pc EXCEPT ![c] = "run"]
    BY <1>1, <1>2
  <2>6. Ready(c, writers, pc, req, arrived)
    BY <1>2, <2>2, <2>4, <2>5, Zenon DEF Ready, GroupInv, GroupTypes
  <2>. QED BY <1>1, <2>1, <2>6, RoomGroups, Zenon
<1>. QED BY <1>4, <1>5

\* Who is beyond BuildBatchGroup() leads the group.
LEMMA LeaderFacts ==
    ASSUME GroupInv, NEW c \in Threads, pc[c] \in Leads
    PROVE  /\ group /= <<>> /\ c = group[1] /\ c = writers[1] /\ ~done[c]
           /\ Phase(group, pc) = pc[c]
           /\ pc[c] \in Queued /\ Len(group) \in 1 .. Len(writers) /\ group[1] = writers[1]
<1>1. /\ writers \in Seq(Threads) /\ group \in Seq(Threads) /\ Queue(writers, pc, done)
      /\ Grouped(writers, pc, group, req)
      /\ done \in [Threads -> BOOLEAN]
  BY Zenon DEF GroupInv, GroupTypes
<1>2. pc[c] \in Fronts /\ pc[c] \in Queued
  BY Zenon DEF Fronts, Queued
<1>3. group /= <<>> /\ c = writers[1] /\ ~done[c]
  BY <1>1, <1>2 DEF Queue, Grouped
<1>4. 1 \in 1 .. Len(group)
  BY <1>1, <1>3
<1>5. group[1] = writers[1] /\ Len(group) \in 1 .. Len(writers)
  BY <1>1, <1>4 DEF Grouped
<1>. QED BY <1>2, <1>3, <1>5 DEF Phase

\* The leader goes on, and the data with it.
LEMMA LeaderMoves ==
    ASSUME GroupInv, NEW c \in Threads, pc[c] \in Leads, NEW q \in Leads,
           pc' = [pc EXCEPT ![c] = q],
           UNCHANGED queue, log' \in Seq(Threads), seq' \in [Threads -> Nat],
           UNCHANGED last_sequence, Visible' \subseteq Threads,
           DataInv(group, q, req, arrived, done, status, Visible', mem', synced', log', seq',
           last_sequence)
    PROVE  GroupInv'
<1>1. /\ writers \in Seq(Threads) /\ group \in Seq(Threads) /\ Queue(writers, pc, done)
      /\ Grouped(writers, pc, group, req)
      /\ done \in [Threads -> BOOLEAN] /\ pc \in [Threads -> Labels]
      /\ Arrival(writers, pc, done, arrived) /\ Requests(pc, req)
  BY Zenon DEF GroupInv, GroupTypes
<1>2. group /= <<>> /\ c = group[1] /\ c = writers[1] /\ ~done[c] /\ pc[c] \in Queued
  BY LeaderFacts, Zenon
<1>3. q \in Labels /\ q \in Queued /\ q \notin Ranging /\ q /= "idle" /\ pc[c] /= "idle"
  BY Zenon DEF Labels, Queued, Fronts, Leads, Ranging
<1>4. UNCHANGED <<writers, req, done, status, group, arrived>>
  BY Zenon DEF queue
<1>5. Queue(writers, pc', done)
  BY <1>1, <1>2, <1>3, QueueMove, Zenon
<1>6. Grouped(writers, pc', group, req)
  BY <1>1, GroupedMove, Zenon
<1>7. Arrival(writers, pc', done, arrived)
  BY <1>1, <1>3, ArrivalMove, Zenon
<1>8. Requests(pc', req)
  BY <1>1, <1>3, RequestsMove, Zenon
<1>9. Phase(group, pc') = q
  BY <1>1, <1>2 DEF Phase
<1>10. GroupTypes'
  <2>1. pc' \in [Threads -> Labels]
    BY <1>1, <1>3
  <2>. QED BY <1>4, <2>1, Zenon DEF GroupInv, GroupTypes
<1>. QED BY <1>4, <1>5, <1>6, <1>7, <1>8, <1>9, <1>10, Zenon DEF GroupInv

\* The batches of the group.
LEMMA GroupBatches ==
    ASSUME GroupInv
    PROVE  Batches \in Seq(Threads) /\ \E f : Totals(f, Batches, group, req)
<1>1. /\ writers \in Seq(Threads) /\ group \in Seq(Threads) /\ Grouped(writers, pc, group, req)
      /\ Distinct(writers)
      /\ req \in [Threads -> Reqs]
  BY Zenon DEF GroupInv, GroupTypes, Queue
<1>2. Distinct(group)
  BY <1>1, GroupDistinct, Zenon
<1>. QED BY <1>1, <1>2, BatchTotals, Zenon DEF Batches

\* logfile_->Sync().
LEMMA SyncGroups ==
    ASSUME GroupInv, NEW c \in Threads, Sync(c)
    PROVE  GroupInv'
<1>1. /\ pc[c] = "sync" /\ UNCHANGED queue
      /\ UNCHANGED <<mem, imm, tables, log, last_sequence, seq>>
  BY Zenon DEF Sync
<1>2. "sync" \in Leads /\ "insert" \in Leads /\ "sync failed" \in Leads
  BY DEF Leads
<1>3. group /= <<>> /\ Phase(group, pc) = "sync"
  BY <1>1, <1>2, LeaderFacts, Zenon
<1>4. PICK f : Batches \in Seq(Threads) /\ Totals(f, Batches, group, req)
  BY GroupBatches, Zenon
<1>5. PICK ph : /\ pc' = [pc EXCEPT ![c] = ph] /\ ph \in {"insert", "sync failed"}
                /\ synced \subseteq synced'
                /\ ph = "insert" => synced' = synced \cup mem \cup Range(Batches)
  <2>1. CASE synced' = synced \cup mem \cup Range(Batches) /\ pc' = [pc EXCEPT ![c] = "insert"]
    BY <2>1, Zenon
  <2>2. CASE pc' = [pc EXCEPT ![c] = "sync failed"] /\ UNCHANGED synced
    <3>1. synced \subseteq synced' /\ "sync failed" /= "insert"
      BY <2>2, Zenon
    <3>. QED BY <2>2, <3>1, Zenon
  <2>. QED BY <2>1, <2>2, Zenon DEF Sync
<1>6. ph \in Leads
  BY <1>2, <1>5, Zenon
<1>7. ph = "sync failed" \/ (ph = "insert" /\ \A t \in Threads : InBatch(group, req,
        t) => t \in synced')
  <2>1. \A t \in Threads : InBatch(group, req, t) => Has(Batches, t)
    BY <1>4, Zenon DEF Totals
  <2>2. \A t \in Threads : Has(Batches, t) => t \in Range(Batches)
    BY <1>4 DEF Has, Range
  <2>. QED BY <1>5, <2>1, <2>2, Zenon
<1>8. /\ group \in Seq(Threads) /\ writers \in Seq(Threads) /\ Visible \in SUBSET Threads
      /\ mem \in SUBSET Visible
      /\ Queue(writers, pc, done) /\ Grouped(writers, pc, group, req)
      /\ DataInv(group, "sync", req, arrived, done, status, Visible, mem, synced, log, seq,
            last_sequence)
  BY <1>3 DEF GroupInv, GroupTypes, Visible
<1>9. DataInv(group, ph, req, arrived, done, status, Visible, mem, synced', log, seq,
        last_sequence)
  BY ONLY <1>3, <1>5, <1>7, <1>8, DataSynced, Zenon
<1>10. Visible' = Visible
  BY <1>1, VisibleSame
<1>11. log' \in Seq(Threads) /\ seq' \in [Threads -> Nat] /\ Visible' \subseteq Threads
  BY <1>1, <1>10, Zenon DEF GroupInv, GroupTypes
<1>12. DataInv(group, ph, req, arrived, done, status, Visible', mem', synced', log', seq',
         last_sequence)
  BY <1>1, <1>9, <1>10, Zenon
<1>. QED BY <1>1, <1>2, <1>5, <1>6, <1>11, <1>12, LeaderMoves, Zenon

\* A batch with the least number.
LEMMA Earliest ==
    ASSUME NEW S, S \subseteq Threads, S /= {}, NEW sq \in [Threads -> Nat]
    PROVE  \E u \in S : \A v \in S : sq[u] <= sq[v]
<1>1. PICK N : N = {sq[u] : u \in S}
  BY Zenon
<1>2. N \subseteq Nat /\ N /= {}
  BY <1>1
<1>3. PICK n \in N : \A m \in N : n <= m
  BY <1>2, Least
<1>. QED BY <1>1, <1>3

\* One batch of the group enters mem_.
LEMMA InsertGroups ==
    ASSUME GroupInv, NEW c \in Threads, InsertInto(c)
    PROVE  GroupInv'
<1>1. /\ pc[c] = "insert" /\ UNCHANGED queue
      /\ UNCHANGED <<imm, tables, log, synced, last_sequence, seq>>
  BY Zenon DEF InsertInto
<1>2. "insert" \in Leads /\ "inserted" \in Leads
  BY DEF Leads
<1>3. group /= <<>> /\ Phase(group, pc) = "insert"
  BY <1>1, <1>2, LeaderFacts, Zenon
<1>4. PICK f : Batches \in Seq(Threads) /\ Totals(f, Batches, group, req)
  BY GroupBatches, Zenon
<1>5. /\ group \in Seq(Threads) /\ Visible \in SUBSET Threads /\ mem \in SUBSET Visible
      /\ seq \in [Threads -> Nat]
      /\ DataInv(group, "insert", req, arrived, done, status, Visible, mem, synced, log, seq,
            last_sequence)
  BY <1>3 DEF GroupInv, GroupTypes, Visible
<1>6. PICK B : B = Range(Batches)
  OBVIOUS
<1>7. B \subseteq Threads /\ \A t \in Threads : t \in B <=> InBatch(group, req, t)
  <2>1. \A t \in Threads : InBatch(group, req, t) <=> Has(Batches, t)
    BY <1>4, Zenon DEF Totals
  <2>2. B \subseteq Threads /\ \A t \in Threads : Has(Batches, t) <=> t \in B
    BY <1>4, <1>6 DEF Has, Range
  <2>. QED BY <2>1, <2>2
<1>8. B \ mem /= {}
  BY <1>5, <1>7 DEF DataInv, Inserting
<1>9. \E u \in B \ mem : \A v \in B \ mem : seq[u] <= seq[v]
  <2>1. PICK S : S = B \ mem
    BY Zenon
  <2>2. S \subseteq Threads /\ S /= {}
    BY <1>7, <1>8, <2>1
  <2>. QED BY <1>5, <2>1, <2>2, Earliest, Zenon
<1>10. PICK t0 : t0 = CHOOSE u \in B \ mem : \A v \in B \ mem : seq[u] <= seq[v]
  OBVIOUS
<1>11. t0 \in B \ mem
  BY <1>9, <1>10, Zenon
<1>12. /\ mem' = mem \cup {t0}
       /\ pc' = [pc EXCEPT ![c] = IF B \ (mem \cup {t0}) = {} THEN "inserted" ELSE "insert"]
  BY <1>6, <1>10, Zenon DEF InsertInto
<1>13. PICK ph : /\ pc' = [pc EXCEPT ![c] = ph]
                 /\ \/ ph = "inserted" /\ B \ (mem \cup {t0}) = {}
                    \/ ph = "insert" /\ B \ (mem \cup {t0}) /= {}
  BY <1>12, Zenon
<1>14. /\ t0 \in Threads /\ InBatch(group, req, t0)
       /\ \/ /\ ph = "inserted"
             /\ \A t \in Threads : InBatch(group, req, t) => t \in mem \cup {t0}
          \/ /\ ph = "insert"
             /\ \E t \in Threads : InBatch(group, req, t) /\ t \notin mem \cup {t0}
  BY <1>7, <1>11, <1>13
<1>15. DataInv(group, ph, req, arrived, done, status, Visible \cup {t0}, mem \cup {t0}, synced,
         log, seq, last_sequence)
  BY ONLY <1>5, <1>14, DataInserted
<1>16. Visible' = Visible \cup {t0}
  BY <1>1, <1>12, VisibleInsert
<1>17. log' \in Seq(Threads) /\ seq' \in [Threads -> Nat] /\ Visible' \subseteq Threads
  <2>1. log' \in Seq(Threads) /\ seq' \in [Threads -> Nat]
    BY <1>1, Zenon DEF GroupInv, GroupTypes
  <2>. QED BY <1>5, <1>14, <1>16, <2>1
<1>18. DataInv(group, ph, req, arrived, done, status, Visible', mem', synced', log', seq',
         last_sequence)
  BY <1>1, <1>12, <1>15, <1>16, Zenon
<1>19. ph \in Leads
  BY <1>2, <1>13
<1>. QED BY <1>1, <1>2, <1>13, <1>17, <1>18, <1>19, LeaderMoves, Zenon

\* What AddRecord() computes.
Assigns(bs, f, last, sq, sq2) ==
    sq2 = [t \in Threads |-> IF \E i \in 1 .. Len(bs) : bs[i] = t
                               THEN last + f[(CHOOSE j \in 1 .. Len(bs) : bs[j] = t) - 1] + 1
                               ELSE sq[t]]

\* The numbers that AddRecord() hands out.
LEMMA NumbersAssigned ==
    ASSUME NEW gr, NEW rq, NEW bs \in Seq(Threads), NEW f, Totals(f, bs, gr, rq),
           NEW sq \in [Threads -> Nat], NEW last \in Nat,
           NEW sq2, Assigns(bs, f, last, sq, sq2)
    PROVE  Renumbered(bs, rq, sq, sq2, last)
<1>. sq2 = [t \in Threads |-> IF \E i \in 1 .. Len(bs) : bs[i] = t
                                THEN last + f[(CHOOSE j \in 1 .. Len(bs) : bs[j] = t) - 1] + 1
                                ELSE sq[t]]
  BY Zenon DEF Assigns
<1>1. /\ f \in [0 .. Len(bs) -> Nat] /\ f = SizeOf(bs, rq)
      /\ Distinct(bs)
  BY Zenon DEF Totals
<1>2. ASSUME NEW k \in 1 .. Len(bs) PROVE (CHOOSE j \in 1 .. Len(bs) : bs[j] = bs[k]) = k
  <2>1. \A j \in 1 .. Len(bs) : bs[j] = bs[k] => j = k
    BY <1>1 DEF Distinct
  <2>. QED BY <2>1
<1>3. ASSUME NEW k \in 1 .. Len(bs)
      PROVE  bs[k] \in Threads /\ sq2[bs[k]] = last + f[k - 1] + 1 /\ f[k - 1] \in Nat
  <2>1. bs[k] \in Threads
    BY InSeq
  <2>2. PICK t \in Threads : t = bs[k]
    BY <2>1
  <2>3. (CHOOSE j \in 1 .. Len(bs) : bs[j] = t) = k /\ \E i \in 1 .. Len(bs) : bs[i] = t
    BY <1>2, <2>2
  <2>4. sq2[t] = last + f[(CHOOSE j \in 1 .. Len(bs) : bs[j] = t) - 1] + 1
    BY <2>3, Zenon
  <2>5. k - 1 \in 0 .. Len(bs)
    OBVIOUS
  <2>. QED BY <1>1, <2>2, <2>3, <2>4, <2>5, Zenon
<1>4. ASSUME NEW t \in Threads, ~Has(bs, t) PROVE sq2[t] = sq[t]
  BY <1>4 DEF Has
<1>5. ASSUME NEW t \in Threads PROVE sq2[t] \in Nat
  <2>1. CASE Has(bs, t)
    <3>1. PICK k \in 1 .. Len(bs) : bs[k] = t
      BY <2>1 DEF Has
    <3>2. PICK n \in Nat : sq2[t] = last + n + 1
      BY <1>3, <3>1, Zenon
    <3>. QED BY <3>2
  <2>. QED BY <1>4, <2>1, Zenon
<1>6. Numbered(bs, rq, sq2, last)
  BY <1>1, <1>3, Zenon DEF Numbered
<1>7. sq2 \in [Threads -> Nat]
  <2>1. sq2 = [t \in Threads |-> sq2[t]]
    OBVIOUS
  <2>. QED BY <1>5, <2>1, Zenon
<1>. QED BY <1>4, <1>6, <1>7, Zenon DEF Renumbered

\* log_->AddRecord().
LEMMA AppendGroups ==
    ASSUME GroupInv, NEW c \in Threads, AddRecord(c)
    PROVE  GroupInv'
<1>1. /\ pc[c] = "append" /\ UNCHANGED queue
      /\ UNCHANGED <<mem, imm, tables, synced, last_sequence>>
  BY Zenon DEF AddRecord
<1>2. "append" \in Leads /\ "sync" \in Leads /\ "insert" \in Leads /\ "failed" \in Leads
  BY DEF Leads
<1>3. group /= <<>> /\ Phase(group, pc) = "append" /\ c = group[1]
  BY <1>1, <1>2, LeaderFacts, Zenon
<1>4. PICK bs \in Seq(Threads) : bs = Batches
  BY GroupBatches, Zenon
<1>5. PICK f : Totals(f, bs, group, req)
  BY <1>4, GroupBatches, Zenon
<1>6. /\ writers \in Seq(Threads) /\ group \in Seq(Threads) /\ req \in [Threads -> Reqs]
      /\ done \in [Threads -> BOOLEAN]
      /\ Visible \in SUBSET Threads /\ mem \in SUBSET Visible /\ seq \in [Threads -> Nat]
      /\ last_sequence \in Nat /\ log \in Seq(Threads)
      /\ Queue(writers, pc, done) /\ Grouped(writers, pc, group, req)
      /\ Arrival(writers, pc, done, arrived)
      /\ DataInv(group, "append", req, arrived, done, status, Visible, mem, synced, log, seq,
            last_sequence)
  BY <1>3 DEF GroupInv, GroupTypes, Visible
<1>7. PICK r : r = log \o bs /\ Joined(r, log, bs)
  BY <1>6, ConcatJoins, Zenon
<1>8. Renumbered(bs, req, seq, seq', last_sequence)
  <2>1. Assigns(bs, f, last_sequence, seq, seq')
    <3>1. f = SizeOf(bs, req)
      BY <1>5, Zenon DEF Totals
    <3>. QED BY <1>4, <3>1, Zenon DEF AddRecord, LastOf, Assigns
  <2>2. seq \in [Threads -> Nat] /\ last_sequence \in Nat
    BY <1>6, Zenon
  <2>. QED BY ONLY <1>4, <1>5, <2>1, <2>2, NumbersAssigned, Zenon
<1>9. PICK ph : /\ pc' = [pc EXCEPT ![c] = ph]
                /\ \/ ph = "failed" /\ log' = log
                   \/ ph = (IF req[group[1]].sync THEN "sync" ELSE "insert") /\ log' = r
  BY <1>3, <1>4, <1>7, Zenon DEF AddRecord
<1>10. bs = Appended(group, req)
  BY <1>4, Zenon DEF Batches
<1>11. DataInv(group, ph, req, arrived, done, status, Visible, mem, synced, log', seq',
         last_sequence)
  BY ONLY <1>3, <1>4, <1>5, <1>6, <1>7, <1>8, <1>9, <1>10, DataAppends, Zenon
<1>12. Visible' = Visible
  BY <1>1, VisibleSame
<1>13. log' \in Seq(Threads) /\ Visible' \subseteq Threads /\ seq' \in [Threads -> Nat]
  BY <1>6, <1>7, <1>8, <1>9, <1>12, Zenon DEF Joined, Renumbered
<1>14. DataInv(group, ph, req, arrived, done, status, Visible', mem', synced', log', seq',
         last_sequence)
  BY <1>1, <1>11, <1>12, Zenon
<1>15. ph \in Leads
  BY <1>2, <1>9, Zenon
<1>. QED BY <1>1, <1>2, <1>9, <1>13, <1>14, <1>15, LeaderMoves, Zenon

\* The end of the group.
LEMMA PublishGroups ==
    ASSUME GroupInv, NEW c \in Threads, Publish(c)
    PROVE  GroupInv'
<1>1. /\ pc[c] \in {"inserted", "failed", "sync failed"} /\ group' = <<>>
      /\ last_sequence' = LastOf(Len(Batches))
      /\ UNCHANGED <<req, arrived, mem, imm, tables, log, synced, seq>>
  BY Zenon DEF Publish
<1>2. pc[c] \in Leads
  BY <1>1, Zenon DEF Leads
<1>3. /\ group /= <<>> /\ Phase(group, pc) = pc[c] /\ c = group[1] /\ c = writers[1]
      /\ Len(group) \in 1 .. Len(writers)
  BY <1>2, LeaderFacts, Zenon
<1>4. PICK ph : ph = pc[c]
  OBVIOUS
<1>5. /\ writers \in Seq(Threads) /\ group \in Seq(Threads) /\ pc \in [Threads -> Labels]
      /\ req \in [Threads -> Reqs] /\ done \in [Threads -> BOOLEAN]
      /\ status \in [Threads -> {"ok", "error"}]
      /\ Visible \in SUBSET Threads /\ seq \in [Threads -> Nat] /\ last_sequence \in Nat
      /\ log \in Seq(Threads) /\ arrived \in Seq(Threads)
      /\ Queue(writers, pc, done) /\ Grouped(writers, pc, group, req)
      /\ Arrival(writers, pc, done, arrived) /\ Requests(pc, req)
      /\ DataInv(group, ph, req, arrived, done, status, Visible, mem, synced, log, seq,
            last_sequence)
  BY <1>3, <1>4, Zenon DEF GroupInv, GroupTypes
<1>6. PICK after, st : /\ Finish(c, writers, Len(group), st, after)
                       /\ after \in {pc, SignalAll(pc)}
                       /\ st \in {"ok", "error"} /\ (st = "ok" <=> ph = "inserted")
  <2>1. PICK after : after = IF SyncError(c) THEN RecordBackgroundError(pc) ELSE pc
    OBVIOUS
  <2>2. Finish(c, writers, Len(group), Status(c), after)
    BY <2>1, Zenon DEF Publish
  <2>3. after \in {pc, SignalAll(pc)}
    BY <2>1, Zenon DEF RecordBackgroundError
  <2>4. Status(c) \in {"ok", "error"} /\ (Status(c) = "ok" <=> ph = "inserted")
    BY <1>4 DEF Status
  <2>. QED BY <2>2, <2>3, <2>4, Zenon
<1>7. after \in [Threads -> Labels] /\ Stirred(pc, after)
  <2>1. CASE after = pc
    BY <1>5, <2>1 DEF Stirred
  <2>2. CASE after = SignalAll(pc)
    BY <1>5, <2>2, SignalStirs, Zenon
  <2>. QED BY <1>6, <2>1, <2>2
<1>8. /\ Queue(writers, after, done) /\ Arrival(writers, after, done, arrived)
      /\ Requests(after, req)
  BY <1>5, <1>7, QueueStirred, ArrivalStirred, RequestsStirred, Zenon
<1>9. PICK n \in 1 .. Len(writers) : n = Len(group)
  BY <1>3
<1>10. /\ Pops(writers, n, after, done, writers', pc', done')
       /\ Answers(writers, n, st, status, status')
  <2>1. Finish(writers[1], writers, n, st, after) /\ Distinct(writers)
    BY <1>3, <1>6, <1>8, <1>9, Zenon DEF Queue
  <2>. QED BY ONLY <1>5, <1>7, <1>9, <2>1, FinishPops, Zenon
<1>11. \A t \in Threads : Has(group, t) <=> \E i \in 1 .. n : writers[i] = t
  <2>1. \A i \in 1 .. n : group[i] = writers[i]
    BY <1>5, <1>9, Zenon DEF Grouped
  <2>. QED BY <1>9, <2>1, Zenon DEF Has
<1>12. /\ writers' \in Seq(Threads) /\ pc' \in [Threads -> Labels]
       /\ done' \in [Threads -> BOOLEAN]
       /\ \A t \in Threads : done'[t] <=> done[t] \/ Has(group, t)
  BY <1>10, <1>11, Zenon DEF Pops
<1>13. /\ status' \in [Threads -> {"ok", "error"}]
       /\ \A t \in Threads : Has(group, t) => (status'[t] = "ok" <=> ph = "inserted")
       /\ \A t \in Threads : ~Has(group, t) => status'[t] = status[t]
  <2>1. status' = [t \in Threads |-> IF Has(group, t) THEN st ELSE status[t]]
    BY <1>10, <1>11, Zenon DEF Answers
  <2>. QED BY <1>5, <1>6, <2>1
<1>14. Queue(writers', pc', done') /\ \A t \in Threads : pc'[t] \notin Fronts
  BY ONLY <1>5, <1>7, <1>8, <1>9, <1>10, QueuePops, Zenon
<1>15. /\ Arrival(writers', pc', done', arrived)
       /\ \A t \in Threads : pc'[t] = "idle" <=> after[t] = "idle"
  <2>1. writers \in Seq(Threads) /\ done \in [Threads -> BOOLEAN]
    BY <1>5, Zenon
  <2>. QED BY ONLY <1>7, <1>8, <1>9, <1>10, <2>1, ArrivalPops
<1>16. Requests(pc', req)
  BY <1>5, <1>8, <1>9, <1>10, <1>15, RequestsPops, Zenon
<1>17. Grouped(writers', pc', group', req)
  <2>1. \A t \in Threads : pc'[t] \notin Leads
    BY <1>14, Zenon DEF Fronts
  <2>2. group' = <<>>
    BY <1>1, Zenon
  <2>3. Len(writers') \in Nat
    BY <1>12
  <2>4. Len(group') <= Len(writers') /\ \A i : i \notin 1 .. Len(group')
    BY <2>2, <2>3
  <2>. QED BY <2>1, <2>2, <2>4, Zenon DEF Grouped
<1>18. PICK bs \in Seq(Threads) : bs = Batches
  BY GroupBatches, Zenon
<1>19. PICK f : Totals(f, bs, group, req)
  BY <1>18, GroupBatches, Zenon
<1>20. last_sequence' = last_sequence + f[Len(bs)] /\ bs = Appended(group, req)
  BY <1>1, <1>18, <1>19, Zenon DEF LastOf, Totals, Batches
<1>21. last_sequence' \in Nat
  <2>1. PICK n1 \in Nat : n1 = f[Len(bs)]
    <3>1. f \in [0 .. Len(bs) -> Nat]
      BY <1>19, Zenon DEF Totals
    <3>2. Len(bs) \in 0 .. Len(bs)
      BY LenNat
    <3>. QED BY ONLY <3>1, <3>2
  <2>. QED BY <1>5, <1>20, <2>1
<1>22. DataInv(<<>>, "none", req, arrived, done', status', Visible, mem, synced, log, seq,
         last_sequence')
  <2>1. ph \in {"inserted", "failed", "sync failed"}
    BY <1>1, <1>4, Zenon
  <2>2. Served(group, ph, done, done', status, status')
    BY <1>12, <1>13, Zenon DEF Served
  <2>. QED BY ONLY <1>3, <1>5, <1>18, <1>19, <1>20, <2>1, <2>2, DataPublished, Zenon
<1>23. Visible' = Visible
  BY <1>1, VisibleSame, Zenon
<1>24. Phase(group', pc') = "none"
  BY <1>1, Zenon DEF Phase
<1>25. GroupTypes'
  <2>1. group' = <<>>
    BY <1>1, Zenon
  <2>2. group' \in Seq(Threads)
    BY <2>1
  <2>. QED BY <1>1, <1>5, <1>12, <1>13, <1>21, <1>23, <2>2, Zenon DEF GroupTypes
<1>. QED BY <1>1, <1>14, <1>15, <1>16, <1>17, <1>22, <1>23, <1>24, <1>25, Zenon DEF GroupInv

\* The steps of a thread that are outside Write()'s critical part.
LEMMA ThreadGroups ==
    ASSUME GroupSetting, GroupInv, NEW c \in Threads,
           Slept(c) \/ Return(c) \/ WaitForImm(c) \/ BeginManual(c) \/ Manual(c)
    PROVE  GroupInv'
<1>1. /\ Queue(writers, pc, done) /\ Requests(pc, req) /\ pc \in [Threads -> Labels]
      /\ done \in [Threads -> BOOLEAN]
      /\ status \in [Threads -> {"ok", "error"}]
  BY Zenon DEF GroupInv, GroupTypes
<1>2. pc[c] \in Fronts => ~done[c] /\ c = writers[1]
  BY <1>1 DEF Queue
<1>3. pc[c] \in Ranging \cup {"return"} => done[c]
  BY <1>1 DEF Queue
<1>4. pc[c] \in Ranging => c \notin Writers
  BY <1>1 DEF Requests
<1>5. Ranging \cup {"return", "end", "run", "sleep"} \subseteq Labels \ (Leads \cup {"idle"})
  BY DEF Ranging, Labels, Leads, Queued, Fronts
<1>6. CASE Slept(c)
  <2>1. /\ pc[c] = "sleep" /\ pc' = [pc EXCEPT ![c] = "run"] /\ UNCHANGED data
        /\ UNCHANGED <<writers, req, done, status, group, arrived>>
    BY <1>6, Zenon DEF Slept
  <2>2. UNCHANGED <<log, synced, last_sequence, seq, mem>> /\ Visible' = Visible
    BY <2>1, VisibleSame DEF data
  <2>3. /\ "sleep" \in Fronts /\ "sleep" \in Queued /\ "run" \in Queued /\ "run" \notin Fronts
        /\ "run" \notin Ranging
    BY DEF Queued, Fronts, Leads, Ranging
  <2>4. /\ "sleep" \notin Leads \cup {"idle"} /\ "run" \notin Leads \cup {"idle"}
        /\ "run" \in Labels
    BY <1>5
  <2>. QED BY <1>2, <2>1, <2>2, <2>3, <2>4, GroupMoves, Zenon
<1>7. ASSUME pc[c] \in Ranging \cup {"return"}, NEW q \in Ranging \cup {"end"},
             pc' = [pc EXCEPT ![c] = q],
             q \in Ranging => c \notin Writers,
             UNCHANGED <<writers, req, done, group, arrived, log, synced, last_sequence, seq,
             mem>>,
             UNCHANGED <<imm, tables>>, status' \in [Threads -> {"ok", "error"}],
             \A t \in Writers : status'[t] = status[t]
      PROVE  GroupInv'
  <2>1. Visible' = Visible
    BY <1>7, VisibleSame
  <2>2. /\ q \in Labels /\ pc[c] \notin Leads \cup {"idle"} /\ q \notin Leads \cup {"idle"}
        /\ q \in Ranging \cup {"return", "end"}
    BY <1>5, <1>7
  <2>3. done[c]
    BY <1>3, <1>7
  <2>. QED BY <1>7, <2>1, <2>2, <2>3, GroupMovesOn, Zenon
<1>8. {"imm", "imm wait", "begin", "manual", "manual wait"} = Ranging
  BY DEF Ranging
<1>9. CASE Return(c)
  <2>1. PICK q : q = CASE c \in Writers -> "end"
                       [] c \in Compactors /\ status[c] = "ok" -> "imm"
                       [] OTHER -> "begin"
    OBVIOUS
  <2>2. pc[c] = "return" /\ pc' = [pc EXCEPT ![c] = q] /\ UNCHANGED queue /\ UNCHANGED data
    BY <1>9, <2>1, Zenon DEF Return
  <2>3. q \in Ranging \cup {"end"} /\ (q \in Ranging => c \notin Writers)
    <3>1. c \in Writers => q = "end"
      <4>1. c \in Writers => c \notin Compactors
        BY DEF GroupSetting
      <4>. QED BY <2>1, <4>1
    <3>2. c \notin Writers => q \in {"imm", "begin"}
      BY <2>1 DEF Threads
    <3>. QED BY <3>1, <3>2, Zenon DEF Ranging
  <2>4. /\ UNCHANGED <<writers, req, done, group, arrived, log, synced, last_sequence, seq, mem>>
        /\ UNCHANGED <<imm, tables, status>>
    BY <2>2, Zenon DEF queue, data
  <2>. QED BY <1>1, <1>7, <2>2, <2>3, <2>4, Zenon
<1>10. CASE WaitForImm(c)
  <2>1. PICK q, s : /\ pc[c] = "imm" /\ pc' = [pc EXCEPT ![c] = q]
                    /\ q \in {"imm wait", "begin"}
                    /\ status' = [status EXCEPT ![c] = s] /\ s \in {"ok", "error"}
    <3>1. CASE pc' = [pc EXCEPT ![c] = "imm wait"] /\ UNCHANGED status
      <4>1. status' = [status EXCEPT ![c] = status[c]] /\ status[c] \in {"ok", "error"}
        BY <1>1, <3>1, Zenon
      <4>. QED BY <1>10, <3>1, <4>1, Zenon DEF WaitForImm
    <3>2. CASE /\ pc' = [pc EXCEPT ![c] = "begin"]
               /\ status' = [status EXCEPT ![c] = IF imm # {} THEN "error" ELSE "ok"]
      BY <1>10, <3>2, Zenon DEF WaitForImm
    <3>. QED BY <1>10, <3>1, <3>2, Zenon DEF WaitForImm
  <2>2. pc[c] \in Ranging /\ q \in Ranging
    BY <2>1, Zenon DEF Ranging
  <2>3. c \notin Writers /\ Writers \subseteq Threads
    BY <1>4, <2>2 DEF Threads
  <2>4. status' \in [Threads -> {"ok", "error"}] /\ \A t \in Writers : status'[t] = status[t]
    BY <1>1, <2>1, <2>3, Zenon
  <2>5. /\ UNCHANGED <<writers, req, done, group, arrived, log, synced, last_sequence, seq, mem>>
        /\ UNCHANGED <<imm, tables>>
    BY <1>10, Zenon DEF WaitForImm, data
  <2>. QED BY <1>7, <2>1, <2>2, <2>3, <2>4, <2>5, Zenon
<1>11. CASE BeginManual(c)
  <2>1. /\ pc[c] = "begin" /\ pc' = [pc EXCEPT ![c] = "manual"] /\ UNCHANGED queue
        /\ UNCHANGED data
    BY <1>11, Zenon DEF BeginManual
  <2>2. pc[c] \in Ranging /\ "manual" \in Ranging
    BY <2>1 DEF Ranging
  <2>3. /\ UNCHANGED <<writers, req, done, group, arrived, log, synced, last_sequence, seq, mem>>
        /\ UNCHANGED <<imm, tables, status>>
    BY <2>1, Zenon DEF queue, data
  <2>. QED BY <1>1, <1>4, <1>7, <2>1, <2>2, <2>3, Zenon
<1>12. CASE Manual(c)
  <2>1. PICK q : /\ pc[c] = "manual" /\ pc' = [pc EXCEPT ![c] = q]
                 /\ q \in {"manual wait", "end"}
    BY <1>12, Zenon DEF Manual
  <2>2. pc[c] \in Ranging /\ q \in Ranging \cup {"end"}
    BY <2>1, Zenon DEF Ranging
  <2>3. /\ UNCHANGED <<writers, req, done, group, arrived, log, synced, last_sequence, seq, mem>>
        /\ UNCHANGED <<imm, tables, status>>
    BY <1>12, Zenon DEF Manual, queue
  <2>. QED BY <1>1, <1>4, <1>7, <2>1, <2>2, <2>3, Zenon
<1>. QED BY <1>6, <1>9, <1>10, <1>11, <1>12

\* Two signals.
LEMMA StirredTwice ==
    ASSUME NEW p, NEW q, NEW r, Stirred(p, q), Stirred(q, r)
    PROVE  Stirred(p, r)
<1>1. SUFFICES ASSUME NEW t \in Threads
               PROVE  \/ r[t] = p[t] \/ (p[t] = "bg wait" /\ r[t] = "run")
                      \/ (p[t] \in Ranging /\ r[t] \in Ranging)
  BY Zenon DEF Stirred
<1>2. "run" \notin Ranging /\ "bg wait" \notin Ranging
  BY DEF Ranging
<1>3. \/ q[t] = p[t] \/ (p[t] = "bg wait" /\ q[t] = "run")
      \/ (p[t] \in Ranging /\ q[t] \in Ranging)
  BY Zenon DEF Stirred
<1>4. \/ r[t] = q[t] \/ (q[t] = "bg wait" /\ r[t] = "run")
      \/ (q[t] \in Ranging /\ r[t] \in Ranging)
  BY Zenon DEF Stirred
<1>. QED BY <1>2, <1>3, <1>4, Zenon

\* The background thread moves entries and wakes threads.
LEMMA BackgroundGroups ==
    ASSUME GroupInv, Background
    PROVE  GroupInv'
<1>1. pc \in [Threads -> Labels]
  BY Zenon DEF GroupInv, GroupTypes
<1>2. PICK one : one = SignalAll(pc) /\ one \in [Threads -> Labels] /\ Stirred(pc, one)
  BY <1>1, SignalStirs, Zenon
<1>3. PICK two : two = SignalAll(one) /\ two \in [Threads -> Labels] /\ Stirred(pc, two)
  BY <1>2, SignalStirs, StirredTwice, Zenon
<1>4. Stirred(pc, pc)
  BY Zenon DEF Stirred
<1>5. EndCall => pc' = one
  BY <1>2, Zenon DEF EndCall
<1>6. \A ok : EndCompaction(ok) => pc' \in {pc, one}
  BY <1>5, Zenon DEF EndCompaction
<1>7. \A p : EndCompactMemTable(p) => pc' \in {SignalAll(p), one}
  BY <1>5, Zenon DEF EndCompactMemTable
<1>8. RecordBackgroundError(pc) \in {pc, one}
  BY <1>2, Zenon DEF RecordBackgroundError
<1>9. EndCompactMemTable(pc) \/ EndCompactMemTable(RecordBackgroundError(pc)) => pc' \in {one,
        two}
  BY <1>2, <1>3, <1>7, <1>8, Zenon
<1>10. ASSUME pc' \in {pc, one, two}, UNCHANGED queue,
              UNCHANGED <<mem, log, synced, last_sequence, seq>>, Visible' = Visible
       PROVE  GroupInv'
  <2>1. pc' \in [Threads -> Labels] /\ Stirred(pc, pc')
    BY <1>1, <1>2, <1>3, <1>4, <1>10, Zenon
  <2>. QED BY <1>10, <2>1, GroupStirred, Zenon
<1>11. CASE BackgroundCall
  <2>1. /\ UNCHANGED queue /\ UNCHANGED <<mem, imm, tables, log, synced, last_sequence, seq>>
        /\ (EndCall \/ UNCHANGED pc)
    BY <1>11, Zenon DEF BackgroundCall
  <2>. QED BY <1>5, <1>10, <2>1, VisibleSame, Zenon
<1>12. CASE PrioritizeImm
  <2>1. /\ UNCHANGED queue /\ UNCHANGED <<mem, imm, tables, log, synced, last_sequence, seq>>
        /\ UNCHANGED pc
    BY <1>12, Zenon DEF PrioritizeImm, data
  <2>. QED BY <1>10, <2>1, VisibleSame, Zenon
<1>13. CASE BuildTable
  <2>1. /\ UNCHANGED queue /\ UNCHANGED <<mem, imm, tables, log, synced, last_sequence, seq>>
        /\ EndCompactMemTable(RecordBackgroundError(pc)) \/ UNCHANGED pc
    BY <1>13, Zenon DEF BuildTable, data
  <2>. QED BY <1>9, <1>10, <2>1, VisibleSame, Zenon
<1>14. CASE InstallMemTable
  <2>1. /\ UNCHANGED queue /\ UNCHANGED <<mem, log, synced, last_sequence, seq>>
        /\ EndCompactMemTable(pc) \/ EndCompactMemTable(RecordBackgroundError(pc))
        /\ \/ tables' = tables \cup UNION imm /\ imm' = {}
           \/ UNCHANGED <<tables, imm>>
    BY <1>14, Zenon DEF InstallMemTable, ImmAfter
  <2>2. Visible' = Visible
    BY <2>1, VisibleSame, VisibleInstall, Zenon
  <2>. QED BY <1>9, <1>10, <2>1, <2>2, Zenon
<1>15. CASE Merged
  <2>1. /\ UNCHANGED queue /\ UNCHANGED <<mem, imm, tables, log, synced, last_sequence, seq>>
        /\ EndCompaction(FALSE) \/ UNCHANGED pc
    BY <1>15, Zenon DEF Merged, data
  <2>. QED BY <1>6, <1>10, <2>1, VisibleSame, Zenon
<1>16. CASE Install
  <2>1. /\ UNCHANGED queue /\ UNCHANGED <<mem, imm, tables, log, synced, last_sequence, seq>>
        /\ EndCompaction(TRUE) \/ EndCompaction(FALSE)
    BY <1>16, Zenon DEF Install
  <2>. QED BY <1>6, <1>10, <2>1, VisibleSame, Zenon
<1>. QED BY <1>11, <1>12, <1>13, <1>14, <1>15, <1>16 DEF Background

\* Every step keeps GroupInv.
LEMMA GroupInductive ==
    ASSUME GroupSetting, GroupInv, [Next]_vars
    PROVE  GroupInv'
<1>1. pc \in [Threads -> Labels]
  BY Zenon DEF GroupInv, GroupTypes
<1>2. ASSUME UNCHANGED queue, UNCHANGED pc, UNCHANGED <<mem, log, synced, last_sequence, seq>>,
             Visible' = Visible
      PROVE  GroupInv'
  <2>1. pc' \in [Threads -> Labels] /\ Stirred(pc, pc')
    BY <1>1, <1>2, Zenon DEF Stirred
  <2>. QED BY <1>2, <2>1, GroupStirred, Zenon
<1>3. CASE UNCHANGED vars
  <2>1. /\ UNCHANGED queue /\ UNCHANGED pc
        /\ UNCHANGED <<mem, imm, tables, log, synced, last_sequence, seq>>
    BY <1>3, Zenon DEF vars, data
  <2>. QED BY <1>2, <2>1, VisibleSame, Zenon
<1>4. ASSUME NEW c \in Writers, NEW n \in Sizes, NEW s \in Syncs,
             Write(c, [batch |-> n, sync |-> s])
      PROVE  GroupInv'
  <2>1. PICK r : r = [batch |-> n, sync |-> s]
    BY Zenon
  <2>2. r \in Reqs /\ r.batch /= 0 /\ c \in Threads /\ c \notin Compactors
    BY <2>1 DEF Reqs, GroupSetting, Threads
  <2>. QED BY <1>4, <2>1, <2>2, WriteGroups, Zenon
<1>5. ASSUME NEW c \in Compactors, WriteNull(c) PROVE GroupInv'
  <2>1. PICK r : r = [batch |-> 0, sync |-> FALSE]
    BY Zenon
  <2>2. r \in Reqs /\ r.batch = 0 /\ c \in Threads /\ c \notin Writers
    BY <2>1 DEF Reqs, GroupSetting, Threads
  <2>3. Write(c, r)
    BY <1>5, <2>1, Zenon DEF WriteNull
  <2>. QED BY <2>2, <2>3, WriteGroups, Zenon
<1>6. ASSUME NEW c \in Threads, Step(c) PROVE GroupInv'
  BY <1>6, WakeGroups, AppendGroups, SyncGroups, InsertGroups, PublishGroups, ThreadGroups,
     Zenon DEF Step
<1>7. CASE UpdateStats
  <2>1. /\ UNCHANGED queue /\ UNCHANGED pc
        /\ UNCHANGED <<mem, imm, tables, log, synced, last_sequence, seq>>
    BY <1>7, Zenon DEF UpdateStats
  <2>. QED BY <1>2, <2>1, VisibleSame, Zenon
<1>8. CASE Destroy
  <2>1. /\ UNCHANGED queue /\ UNCHANGED pc
        /\ UNCHANGED <<mem, imm, tables, log, synced, last_sequence, seq>>
    BY <1>8, Zenon DEF Destroy, data
  <2>. QED BY <1>2, <2>1, VisibleSame, Zenon
<1>. QED BY <1>3, <1>4, <1>5, <1>6, <1>7, <1>8, BackgroundGroups, Zenon DEF Next, Closed

\* The invariant holds in a new database.
LEMMA GroupInit ==
    ASSUME Init
    PROVE  GroupInv
<1>1. /\ writers = <<>> /\ pc = [t \in Threads |-> "idle"]
            /\ req = [t \in Threads |-> [batch |-> 0, sync |-> FALSE]]
      /\ done = [t \in Threads |-> FALSE] /\ status = [t \in Threads |-> "ok"] /\ group = <<>>
      /\ log = <<>> /\ arrived = <<>> /\ last_sequence = 0 /\ seq = [t \in Threads |-> 0]
  BY Zenon DEF Init
<1>2. Visible = {}
  BY DEF Init, Visible
<1>3. /\ "idle" \in Labels /\ "idle" \notin Queued /\ "idle" \notin Fronts /\ "idle" \notin Leads
      /\ "idle" \notin Ranging
  BY DEF Labels, Queued, Fronts, Leads, Ranging
<1>4. GroupTypes
  <2>1. /\ pc \in [Threads -> Labels] /\ done \in [Threads -> BOOLEAN]
        /\ status \in [Threads -> {"ok", "error"}] /\ seq \in [Threads -> Nat]
    BY <1>1, <1>3
  <2>2. req \in [Threads -> Reqs]
    BY <1>1 DEF Reqs
  <2>3. /\ writers \in Seq(Threads) /\ group \in Seq(Threads) /\ log \in Seq(Threads)
        /\ arrived \in Seq(Threads) /\ last_sequence \in Nat
    BY <1>1
  <2>. QED BY <1>2, <2>1, <2>2, <2>3 DEF GroupTypes
<1>5. \A t \in Threads : pc[t] = "idle" /\ ~done[t] /\ req[t].batch = 0
  BY <1>1
<1>6. Len(<<>>) = 0 /\ \A i : i \notin 1 .. Len(<<>>)
  OBVIOUS
<1>7. Queue(writers, pc, done)
  BY <1>1, <1>3, <1>5, <1>6 DEF Queue, Distinct, Has
<1>8. Grouped(writers, pc, group, req)
  BY <1>1, <1>3, <1>5, <1>6 DEF Grouped
<1>9. Arrival(writers, pc, done, arrived)
  BY <1>1, <1>5, <1>6 DEF Arrival, Distinct, Has
<1>10. Requests(pc, req)
  BY <1>3, <1>5 DEF Requests, Threads
<1>11. Phase(group, pc) = "none"
  BY <1>1 DEF Phase
<1>12. DataInv(<<>>, "none", req, <<>>, done, status, {}, mem, synced, <<>>, seq, 0)
  <2>1. \A t : ~Has(<<>>, t)
    BY <1>6 DEF Has
  <2>2. OnlyAcknowledged({}, <<>>, "none", req, done, status)
    BY Zenon DEF OnlyAcknowledged
  <2>3. AcknowledgedKept({}, synced, <<>>, req, done, status)
    BY <1>5 DEF AcknowledgedKept, Threads
  <2>4. LogContents(<<>>, <<>>, "none", req, done)
    BY <2>1 DEF LogContents, Logged
  <2>5. SyncFirst(<<>>, "none", req, synced) /\ Inserting(<<>>, "none", req, mem, {})
    BY DEF SyncFirst, Inserting
  <2>6. Sequenced(<<>>, <<>>, "none", req, done, seq, 0)
    BY <2>1 DEF Sequenced
  <2>7. LogInOrder(<<>>, <<>>, req, seq)
    BY <1>6 DEF LogInOrder
  <2>. QED BY <2>2, <2>3, <2>4, <2>5, <2>6, <2>7, Zenon DEF DataInv
<1>. QED BY <1>1, <1>2, <1>4, <1>7, <1>8, <1>9, <1>10, <1>11, <1>12, Zenon DEF GroupInv

\* What the invariant says of the calls that returned, of the log and of readers.
LEMMA GroupImplies ==
    ASSUME GroupInv
    PROVE  /\ SyncedWhenAcknowledged /\ ReadableIffAcknowledged /\ LogFollowsArrival
           /\ GroupsAppearWhole
<1>1. /\ writers \in Seq(Threads) /\ group \in Seq(Threads) /\ pc \in [Threads -> Labels]
      /\ req \in [Threads -> Reqs]
      /\ done \in [Threads -> BOOLEAN] /\ log \in Seq(Threads) /\ arrived \in Seq(Threads)
      /\ last_sequence \in Nat /\ seq \in [Threads -> Nat] /\ Visible \subseteq Threads
      /\ Queue(writers, pc, done) /\ Grouped(writers, pc, group, req) /\ Requests(pc, req)
      /\ Arrival(writers, pc, done, arrived)
  BY Zenon DEF GroupInv, GroupTypes
<1>2. PICK ph : DataInv(group, ph, req, arrived, done, status, Visible, mem, synced, log, seq,
        last_sequence)
  BY Zenon DEF GroupInv
<1>3. Writers \subseteq Threads
  BY DEF Threads
<1>4. ASSUME NEW t \in Threads, NEW st, Returned(t, st)
      PROVE  t \in Writers /\ done[t] /\ status[t] = st /\ req[t].batch /= 0
  <2>1. t \in Writers /\ pc[t] \in {"return", "end"} /\ status[t] = st
    BY <1>4, Zenon DEF Returned
  <2>2. done[t]
    BY <1>1, <2>1 DEF Queue
  <2>3. req[t].batch /= 0
    BY <1>1, <2>1 DEF Requests
  <2>. QED BY <2>1, <2>2, <2>3
<1>5. \A t \in Writers : done[t] /\ status[t] = "ok"
                         => t \in Visible /\ (req[t].sync => t \in synced) /\ Has(log, t)
  BY <1>2, Zenon DEF DataInv, AcknowledgedKept
<1>6. \A t \in Threads : Has(group, t) => ~done[t]
  BY <1>1, InGroup, Zenon
<1>7. SyncedWhenAcknowledged
  BY <1>4, <1>5, Zenon DEF SyncedWhenAcknowledged
<1>8. ReadableIffAcknowledged
  <2>1. ASSUME NEW t \in Threads, Returned(t, "ok")
        PROVE  t \in Visible /\ seq[t] <= last_sequence
    <3>1. t \in Visible /\ Has(log, t) /\ done[t] /\ req[t].batch /= 0
      BY <1>4, <1>5, <2>1, Zenon
    <3>2. seq[t] + req[t].batch <= last_sequence + 1
      BY <1>2, <3>1, Zenon DEF DataInv, Sequenced
    <3>3. PICK n, b \in Nat : n = seq[t] /\ b = req[t].batch
      BY <1>1 DEF Reqs
    <3>. QED BY <1>1, <3>1, <3>2, <3>3
  <2>2. ASSUME NEW t \in Threads, Returned(t, "error"), t \in Visible PROVE FALSE
    <3>1. done[t] /\ status[t] = "error"
      BY <1>4, <2>2, Zenon
    <3>2. status[t] = "ok" \/ Has(group, t)
      BY <1>2, <2>2, Zenon DEF DataInv, OnlyAcknowledged, InBatch
    <3>. QED BY <1>6, <3>1, <3>2
  <2>. QED BY <2>1, <2>2, Zenon DEF ReadableIffAcknowledged
<1>9. LogFollowsArrival
  <2>. DEFINE at(t) == CHOOSE i \in 1 .. Len(arrived) : arrived[i] = t
  <2>1. ASSUME NEW t, NEW a \in 1 .. Len(arrived), arrived[a] = t PROVE at(t) = a
    <3>1. \A i \in 1 .. Len(arrived) : arrived[i] = t <=> i = a
      BY <1>1, <2>1, Zenon DEF Arrival, Distinct
    <3>. QED BY <3>1
  <2>2. SUFFICES ASSUME NEW i \in 1 .. Len(log), NEW j \in 1 .. Len(log), i < j
                 PROVE  /\ at(log[i]) < at(log[j])
                        /\ seq[log[i]] + req[log[i]].batch <= seq[log[j]]
    BY Zenon DEF LogFollowsArrival
  <2>. HIDE DEF at
  <2>3. Before(arrived, log[i], log[j]) /\ seq[log[i]] + req[log[i]].batch <= seq[log[j]]
    BY <1>2, <2>2, Zenon DEF DataInv, LogInOrder
  <2>4. PICK a \in 1 .. Len(arrived), b \in 1 .. Len(arrived) :
               a < b /\ arrived[a] = log[i] /\ arrived[b] = log[j]
    BY <2>3, Zenon DEF Before
  <2>5. at(log[i]) = a /\ at(log[j]) = b
    BY <2>1, <2>4, Zenon
  <2>. QED BY <2>3, <2>4, <2>5, Zenon
<1>10. GroupsAppearWhole
  <2>1. SUFFICES ASSUME NEW i \in 1 .. Len(group), req[group[i]].batch # 0, group[i] \in mem
                 PROVE  seq[group[i]] > last_sequence
    BY Zenon DEF GroupsAppearWhole
  <2>2. PICK t \in Threads : t = group[i]
    BY <1>1, InSeq, Zenon
  <2>3. InBatch(group, req, t) /\ Has(group, t) /\ t \in Visible
    <3>1. t \in Visible
      BY <2>1, <2>2 DEF Visible
    <3>. QED BY <2>1, <2>2, <3>1, Zenon DEF InBatch, Has
  <2>4. ph \in {"insert", "inserted"}
    BY <1>2, <1>6, <2>3, Zenon DEF DataInv, OnlyAcknowledged
  <2>5. ph \notin {"none", "append"}
    BY <2>4
  <2>6. PICK bs \in Seq(Threads) : bs = Appended(group, req)
    BY GroupBatches, Zenon DEF Batches
  <2>7. PICK f : Totals(f, bs, group, req)
    BY <2>6, GroupBatches, Zenon DEF Batches
  <2>8. Numbered(bs, req, seq, last_sequence)
    BY <1>2, <2>5, <2>6, Zenon DEF DataInv, Sequenced
  <2>9. \A k \in 1 .. Len(bs) : seq[bs[k]] > last_sequence
    BY <1>1, <2>6, <2>7, <2>8, NumbersGrow, Zenon
  <2>10. Has(bs, t)
    BY <2>3, <2>7, Zenon DEF Totals
  <2>. QED BY <2>2, <2>9, <2>10, Zenon DEF Has
<1>. QED BY <1>7, <1>8, <1>9, <1>10

\* Theorem: whatever the batches, the sync flags and the number of threads, a
\* write that returned OK is synced if it asked for it, visible, and numbered up
\* to last_sequence; one that returned an error is not visible; the log has the
\* batches in the order in which Write() was called, with growing numbers; and a
\* group stays above last_sequence until all of it is in mem_, so that no snapshot
\* sees part of it.
THEOREM WritesAcknowledgedRight ==
    ASSUME GroupSetting
    PROVE  Spec => [](/\ SyncedWhenAcknowledged /\ ReadableIffAcknowledged
                      /\ LogFollowsArrival /\ GroupsAppearWhole)
<1>1. Init => GroupInv
  BY GroupInit
<1>2. GroupInv /\ [Next]_vars => GroupInv'
  BY GroupInductive
<1>3. GroupInv => /\ SyncedWhenAcknowledged /\ ReadableIffAcknowledged
                  /\ LogFollowsArrival /\ GroupsAppearWhole
  BY GroupImplies
<1>. QED BY <1>1, <1>2, <1>3, PTL DEF Spec

===============================================================================
