----------------------------- MODULE MCConcurrent ----------------------------
(***************************************************************************)
(* The parts that threads, processes, signals and crashes make hard, for    *)
(* TLC.  They have no variable in common, so a behaviour here is one of one  *)
(* part and the state graph is the sum of theirs.  The parts share the       *)
(* variables v1, v2, ...: the first, second, ... variable that the module of *)
(* the part declares.                                                       *)
(***************************************************************************)
EXTENDS Integers, Sequences, FiniteSets

CONSTANT Parts      \* the parts to explore

VARIABLES part, v1, v2, v3, v4, v5, v6, v7, v8, v9, v10, v11, v12,
          v13, v14, v15, v16, v17, v18, v19, v20, v21, v22, v23
vars == <<part, v1, v2, v3, v4, v5, v6, v7, v8, v9, v10, v11, v12,
          v13, v14, v15, v16, v17, v18, v19, v20, v21, v22, v23>>

\* The variables from the n-th on are not those of the part.
Unused(n) ==
    /\ n <= 5 => v5 = 0 /\ v6 = 0
    /\ n <= 7 => v7 = 0
    /\ n <= 8 => v8 = 0 /\ v9 = 0
    /\ n <= 10 => v10 = 0
    /\ n <= 11 => v11 = 0 /\ v12 = 0
    /\ n <= 13 => v13 = 0 /\ v14 = 0 /\ v15 = 0 /\ v16 = 0 /\ v17 = 0 /\ v18 = 0
    /\ n <= 19 => v19 = 0 /\ v20 = 0 /\ v21 = 0 /\ v22 = 0 /\ v23 = 0
Kept(n) ==
    /\ n <= 5 => UNCHANGED <<v5, v6>>
    /\ n <= 7 => UNCHANGED v7
    /\ n <= 8 => UNCHANGED <<v8, v9>>
    /\ n <= 10 => UNCHANGED v10
    /\ n <= 11 => UNCHANGED <<v11, v12>>
    /\ n <= 13 => UNCHANGED <<v13, v14, v15, v16, v17, v18>>
    /\ n <= 19 => UNCHANGED <<v19, v20, v21, v22, v23>>

\* A step of part p, whose variables are the first n - 1.
In(p, n) == part = p /\ UNCHANGED part /\ Kept(n)

-----------------------------------------------------------------------------
\* DBWrite.  A batch fills the memtable, and two make a group of the largest size if
\* it is 4, not if it is 3.  With CompactionTrigger tables a compaction is due, and
\* writers are delayed; with StopTrigger they wait.
Groups == INSTANCE DBWrite WITH
    writers <- v1, pc <- v2, req <- v3, done <- v4, status <- v5, slept <- v6, group <- v7, mem <- v8, imm <- v9,
    tables <- v10, log <- v11, synced <- v12, last_sequence <- v13, seq <- v14, l0 <- v15, seek <- v16, scheduled <- v17,
    bg <- v18, manual <- v19, pieces <- v20, bg_error <- v21, shutting_down <- v22, arrived <- v23,
    Writers <- {"w1", "w2", "w3"}, Compactors <- {}, None <- "none", Syncs <- {TRUE, FALSE}, Sizes <- {2}, SmallBatch <- 1,
    BigGroup <- 4, WriteBuffer <- 1, CompactionTrigger <- 2, SlowdownTrigger <- 2, StopTrigger <- 3, MaxPieces <- 1,
    MergeLoops <- 1, InitialTables <- {0}, Faults <- {}
Manual == INSTANCE DBWrite WITH
    writers <- v1, pc <- v2, req <- v3, done <- v4, status <- v5, slept <- v6, group <- v7, mem <- v8, imm <- v9,
    tables <- v10, log <- v11, synced <- v12, last_sequence <- v13, seq <- v14, l0 <- v15, seek <- v16, scheduled <- v17,
    bg <- v18, manual <- v19, pieces <- v20, bg_error <- v21, shutting_down <- v22, arrived <- v23,
    Writers <- {"w1"}, Compactors <- {"w2"}, None <- "none", Syncs <- {TRUE}, Sizes <- {2}, SmallBatch <- 1,
    BigGroup <- 3, WriteBuffer <- 1, CompactionTrigger <- 1, SlowdownTrigger <- 1, StopTrigger <- 2, MaxPieces <- 1,
    MergeLoops <- 1, InitialTables <- {2}, Faults <- {"sync"}
Failing == INSTANCE DBWrite WITH
    writers <- v1, pc <- v2, req <- v3, done <- v4, status <- v5, slept <- v6, group <- v7, mem <- v8, imm <- v9,
    tables <- v10, log <- v11, synced <- v12, last_sequence <- v13, seq <- v14, l0 <- v15, seek <- v16, scheduled <- v17,
    bg <- v18, manual <- v19, pieces <- v20, bg_error <- v21, shutting_down <- v22, arrived <- v23,
    Writers <- {"w1", "w2"}, Compactors <- {}, None <- "none", Syncs <- {TRUE}, Sizes <- {2}, SmallBatch <- 1,
    BigGroup <- 3, WriteBuffer <- 1, CompactionTrigger <- 1, SlowdownTrigger <- 1, StopTrigger <- 2, MaxPieces <- 1,
    MergeLoops <- 1, InitialTables <- {1}, Faults <- {"append", "sync", "newlog", "build", "manifest", "merge", "seek"}

MemList == INSTANCE SkipList WITH
    next <- v1, max_height <- v2, height <- v3, w <- v4, r <- v5, ops <- v6,
    Keys <- 3, MaxHeight <- 2, Readers <- {1}, MaxOps <- 1

\* Threads of their own processes; threads of one process, one of which destroys.
Apart == [t \in 1 .. 3 |-> t]
Together == [t \in 1 .. 3 |-> 1]
LockApart == INSTANCE FileLock WITH
    pc <- v1, fd <- v2, locked <- v3, owner <- v4, name <- v5, inodes <- v6, exits <- v7,
    Threads <- 1 .. 3, Processes <- 1 .. 3, ProcessOf <- Apart, Destroyers <- {}, MaxInodes <- 1, MaxExits <- 3
LockTogether == INSTANCE FileLock WITH
    pc <- v1, fd <- v2, locked <- v3, owner <- v4, name <- v5, inodes <- v6, exits <- v7,
    Threads <- 1 .. 3, Processes <- 1 .. 3, ProcessOf <- Together, Destroyers <- {1}, MaxInodes <- 3, MaxExits <- 1

Env == INSTANCE EnvThread WITH
    queue <- v1, started <- v2, bg <- v3, item <- v4, left <- v5, scheduled <- v6, ran <- v7,
    Callers <- {"c1", "c2"}, MaxItems <- 3

\* A directory with a damaged table and an altered log.
Repairs == INSTANCE Repair WITH
    dir <- v1, lost <- v2, pc <- v3, r <- v4, crashes <- v5, before <- v6, faulted <- v7,
    Keys <- {1}, Dark <- TRUE, Bad <- TRUE, MaxFaults <- 1, MaxCrashes <- 1

\* Streams of up to six bytes, newlines at several places.
Streams == {<<>>, <<1, 2, 3, 4>>, <<1, 0, 2, 0, 3, 0>>, <<0, 0, 1>>, <<1, 2, 0>>}
IO == INSTANCE SocketIO WITH
    stream <- v1, coming <- v2, kernel <- v3, sent <- v4, pc <- v5, count <- v6, buf <- v7, io <- v8, line <- v9, ret <- v10,
    errno <- v11, signals <- v12,
    Streams <- Streams, Newline <- 0, Counts <- {1, 3, 5}, MaxLines <- {1, 2, 5}, MaxSignals <- 2, Faults <- TRUE
Timeout == INSTANCE SocketTimeout WITH
    op <- v1, wait <- v2, pc <- v3, left <- v4, fd <- v5, nonblock <- v6, ret <- v7, errno <- v8, clock <- v9, signals <- v10,
    Waits <- {0, 1, 3}, MaxSignals <- 3, MaxClock <- 8, Faults <- TRUE

\* Three processes with one key and one with another.
KeyOf == [p \in 1 .. 4 |-> IF p = 4 THEN "other" ELSE "shared"]
Sem == INSTANCE IpcSem WITH
    sems <- v1, pc <- v2, semid <- v3, crashes <- v4,
    Procs <- 1 .. 4, Keys <- {"shared", "other"}, KeyOf <- KeyOf, MaxSems <- 1, ENOSPC <- 28, MaxCrashes <- 1
Shm == INSTANCE IpcShm WITH
    version <- v1, segs <- v2, key <- v3, asked <- v4, hdl <- v5, addr <- v6,
    Procs <- 1 .. 2, Seeds <- {"s"}, MaxVersion <- 1, MaxSegs <- 2, Faults <- TRUE

Undo == INSTANCE UndoList WITH
    next <- v1, prev <- v2, last <- v3, push <- v4, pc <- v5, node <- v6, m_undo_lock <- v7, taken <- v8, brushed <- v9,
    Apps <- {"a1", "a2"}, Nobody <- "nobody", MaxMessages <- 4

\* Two connections, the second with a descriptor of its own or that of the first, which
\* is then reused while calls are under way.
Calls == INSTANCE TcpThreads WITH
    peer <- v1, readable <- v2, reset <- v3, fdConn <- v4, backlog <- v5, ready <- v6, events <- v7, m_free_tasks <- v8,
    m_ready_list <- v9, m_socket <- v10, m_undo_tasks <- v11, jobs <- v12, dead <- v13, arrivals <- v14, overrun <- v15,
    exhausted <- v16, missed <- v17, call <- v18,
    Conns <- {"c1", "c2"}, None <- "none", ListenFd <- 1, FirstFd <- 2, MaxFd <- 3, MAX_TASK <- 4, MAX_EVENTS <- 2,
    MaxRequests <- 1, MaxArrivals <- 1, Workers <- {"w1"}, App <- "app"

-----------------------------------------------------------------------------
Init ==
    /\ part \in Parts
    /\ \/ part = "groups" /\ Groups!Init
       \/ part = "manual" /\ Manual!Init
       \/ part = "failing" /\ Failing!Init
       \/ part = "skip list" /\ MemList!Init /\ Unused(7)
       \/ part = "processes" /\ LockApart!Init /\ Unused(8)
       \/ part = "one process" /\ LockTogether!Init /\ Unused(8)
       \/ part = "env" /\ Env!Init /\ Unused(8)
       \/ part = "repair" /\ Repairs!Init /\ Unused(8)
       \/ part = "socket" /\ IO!Init /\ Unused(13)
       \/ part = "timeout" /\ Timeout!Init /\ Unused(11)
       \/ part = "sem" /\ Sem!Init /\ Unused(5)
       \/ part = "shm" /\ Shm!Init /\ Unused(7)
       \/ part = "undo" /\ Undo!Init /\ Unused(10)
       \/ part = "calls" /\ Calls!ThreadsInit /\ Unused(19)
Next ==
    \/ In("groups", 24) /\ Groups!Next
    \/ In("manual", 24) /\ Manual!Next
    \/ In("failing", 24) /\ Failing!Next
    \/ In("skip list", 7) /\ MemList!Next
    \/ In("processes", 8) /\ LockApart!Next
    \/ In("one process", 8) /\ LockTogether!Next
    \/ In("env", 8) /\ Env!Next
    \/ In("repair", 8) /\ Repairs!Next
    \/ In("socket", 13) /\ IO!Next
    \/ In("timeout", 11) /\ Timeout!Next
    \/ In("sem", 5) /\ Sem!Next
    \/ In("shm", 7) /\ Shm!Next
    \/ In("undo", 10) /\ Undo!Next
    \/ In("calls", 19) /\ Calls!ThreadsNext
Spec == Init /\ [][Next]_vars

\* The i-th thread or process of each part.  It is fair because the system schedules
\* every thread that can run; Tick is time and Arrive the peer, who sends or closes.
\* A semaphore wakes its waiters in turn, so a P() that is possible again and again is
\* done.  No fairness: signals, crashes, faults, and calls nobody has to make.
Thread == <<"w1", "w2">>
Actor(i) ==
    \/ In("manual", 24) /\ ((i <= 2 /\ Manual!Step(Thread[i])) \/ (i = 3 /\ Manual!Background) \/ (i = 4 /\ Manual!Destroy))
    \/ In("failing", 24) /\ ((i <= 2 /\ Failing!Step(Thread[i])) \/ (i = 3 /\ Failing!Background) \/ (i = 4 /\ Failing!Destroy))
    \/ i = 1 /\ In("skip list", 7) /\ MemList!Search(1)
    \/ i <= 3 /\ In("processes", 8) /\ LockApart!Step(i)
    \/ i = 1 /\ In("env", 8) /\ Env!BGThread
    \/ i = 1 /\ In("repair", 8) /\ Repairs!Step
    \/ In("socket", 13) /\ ((i = 1 /\ (IO!Read \/ IO!Write \/ IO!Peek \/ IO!Scan)) \/ (i = 2 /\ IO!Arrive))
    \/ In("timeout", 11) /\ \/ i = 1 /\ (Timeout!Connect \/ Timeout!Select \/ Timeout!Getsockopt \/ Timeout!Accept)
                            \/ i = 2 /\ Timeout!Tick
    \/ In("sem", 5) /\ (Sem!CreateSem(i) \/ Sem!SetSemVal(i) \/ Sem!OpenSem(i) \/ Sem!SemV(i))
FairSpec == Spec /\ (\A i \in 1 .. 4 : WF_vars(Actor(i))) /\ \A p \in 1 .. 4 : SF_vars(In("sem", 5) /\ Sem!SemP(p))

-----------------------------------------------------------------------------
\* DBImpl::Write() and its background thread: a write that returned OK is readable, in
\* the log in its place of the queue, and synced if it asked for that, one that failed
\* is not; a group appears whole; no flush, switch of memtables or compaction takes an
\* entry away; work that is due is scheduled.  PosixEnv runs items in order, and its
\* thread does not sleep on a queue that has some.
WritesRight ==
    /\ [](/\ part = "groups" => /\ Groups!TypeOK /\ Groups!SyncedWhenAcknowledged /\ Groups!ReadableIffAcknowledged
                                /\ Groups!LogFollowsArrival /\ Groups!GroupsAppearWhole /\ Groups!WorkIsScheduled
          /\ part = "manual" => Manual!ReadableIffAcknowledged /\ Manual!WorkIsScheduled
          /\ part = "failing" => Failing!SyncedWhenAcknowledged /\ Failing!ReadableIffAcknowledged
          /\ part = "env" => Env!RunsInOrder /\ Env!NoSleepOnWork)
    /\ [][/\ part = "groups" => Groups!NothingVanishes
          /\ part = "manual" => Manual!NothingVanishes
          /\ part = "failing" => Failing!NothingVanishes]_vars

\* A reader of the skip list, which takes no lock, sees whole sorted nodes while the
\* writer links others, finds what was there when it began, and nothing is unlinked.
ListRight ==
    /\ [](part = "skip list" => MemList!ListRight)
    /\ [][part = "skip list" => MemList!OnlyGrows]_vars

\* At most one has opened the database, of threads that each have a process and of
\* threads of one process, one of which destroys it: the system's lock and PosixEnv's
\* table of names agree, also when LockFile() fails half way or a process dies
\* (PosixEnv::LockFile, UnlockFile).  When two of three threads share a process, or a
\* process destroys what another opens, this does not hold: see the README.
OneHolder ==
    /\ part = "processes" => LockApart!OneHolder /\ LockApart!HolderHasSystemLock /\ LockApart!TableIsExact
    /\ part = "one process" => LockTogether!OneHolder /\ LockTogether!TableIsExact

\* Whatever step of a repair fails or crashes, no entry is destroyed, but for those that
\* cannot be read in a table that could not be archived and that its copy replaced; when
\* no step failed the new descriptor has the entries of every file that can be read; and
\* when it returns OK its numbers are above all of theirs (Repairer::Run).
RepairRight == part = "repair" => Repairs!NothingDestroyed /\ Repairs!AllRecovered /\ Repairs!DescriptorGood

\* readn() and writen() move count bytes or all there are, in order, over short
\* transfers and signals; recv_peek() leaves the bytes; no call writes past its buffer.
TransfersExact == part = "socket" => IO!ReadnExact /\ IO!WritenExact /\ IO!InsideBuffer /\ IO!PeekLeaves

\* A call with a timeout waits no longer than it, however many signals interrupt it;
\* connect_timeout() returns 0 only if the connection is there; and the descriptor
\* blocks again afterwards, except when select() or getsockopt() failed.
TimeoutsRight == part = "timeout" => Timeout!TimeoutsRight

\* Processes that create or open one semaphore exclude one another in the section that
\* it guards, also when create_sem() meets the system's limit, whose number, ENOSPC, is
\* not the id of a semaphore here; and create_shm() called again with the same seed gives
\* the segment of the first call.
IpcRight == [](part = "sem" => Sem!MutualExclusion) /\ [][part = "shm" => Shm!KeepsSegment]_vars

\* The application's threads take the messages of m_undo_tasks in the order they came,
\* each once, although add_undo_task() appends without m_undo_lock, as long as no append
\* meets the taking of the node it links to.
TakenInOrder == part = "undo" => Undo!TakenInOrder

\* A read() of a worker or write() of the application, which loaded its descriptor some
\* time ago, reaches the connection it was made for as long as that is open, although
\* others are closed meanwhile and their descriptors given out again.
CallsAimRight == part = "calls" => Calls!CallsAimRight

\* The i-th thread or process is in a call that has to return; for DBWrite the third
\* is the destructor, which waits for the background thread.
InCall(i) ==
    \/ part = "manual" /\ IF i = 3 THEN Manual!DestructorCalled ELSE Manual!Called(Thread[i])
    \/ part = "failing" /\ IF i = 3 THEN Failing!DestructorCalled ELSE Failing!Called(Thread[i])
    \/ part = "skip list" /\ MemList!Called(1)
    \/ part = "processes" /\ LockApart!Called(i)
    \/ part = "env" /\ Env!Called(i)
    \/ part = "repair"
    \/ part = "socket" /\ IO!Called
    \/ part = "timeout" /\ Timeout!Called
    \/ part = "sem" /\ Sem!Called(i)
Returned(i) ==
    \/ part = "manual" /\ \/ Manual!Crashed
                          \/ IF i = 3 THEN Manual!DestructorReturned ELSE Manual!Done(Thread[i])
    \/ part = "failing" /\ IF i = 3 THEN Failing!DestructorReturned ELSE Failing!Done(Thread[i])
    \/ part = "skip list" /\ MemList!Returned(1)
    \/ part = "processes" /\ LockApart!Returned(i)
    \/ part = "env" /\ Env!Returned(i)
    \/ part = "repair" /\ Repairs!Ended
    \/ part = "socket" /\ IO!Returned
    \/ part = "timeout" /\ Timeout!Returned
    \/ part = "sem" /\ Sem!Returned(i)

\* Every such call returns: writers and compactors are woken, the destructor does not
\* wait for a compaction that nobody runs, items that were scheduled run, searches,
\* transfers and timeouts end, and a process that waits for the semaphore gets it
\* unless one has died, which keeps it.  (A sync error that ends TEST_CompactRange()
\* under a compaction of its range makes db_impl.cc:760 use a null pointer; a crash
\* there counts as the end.)
EveryCallReturns == \A i \in 1 .. 3 : InCall(i) ~> Returned(i)
===============================================================================
