# A TLA+ model of libnet

libnet is a small C++ server library: an epoll loop accepts TCP connections,
hands reads to a thread pool, and gives the messages it received to the
application through `pull_msg()` / `push_msg()`. Around it stand helpers for
sockets, System V IPC and MySQL, and a vendored copy of leveldb 1.18 that
nothing links against yet, by far the larger part of `src/`. This directory holds TLA+ models of that code, the
TLC runs that check them on small instances, and TLAPS proofs. Paths below are
relative to `src/`.

## 1. The system

### Parts

| component | code | state | operations |
|---|---|---|---|
| thread pool | `base/thread_pool.h`, `base/locker.h` | `m_workqueue`, `m_queuelocker`, `m_queuestat` | `append()`, `run()` on 9 threads |
| buffer | `base/buffer.cpp` | `m_buf`, `m_length` | `put_buf`, `get_buf`, `clean` |
| connection task | `net/tcp_socket.cpp` | `m_socket`, `m_send_pos`, `m_reference_count`, two buffers, `m_lock` | `send_buf`, `recv_buf`, `reset`, `process` |
| task pool | `net/tcp_task_pool.cpp` | `m_free_tasks`, `m_ready_list`, `m_undo_tasks`, `m_recv_tasks`, the task array | `add_connect`, `close_connect`, `recv_msg`, `send_now`, `get_undo_task` |
| event loop and interface | `net/net_work.cpp` | the batch of epoll events | `run`, `pull_msg`, `push_msg` |
| applications | `net/main.cpp`, `test/test.cpp` | the reply | echo, answer `hello` |
| socket helpers | `base/socket_util.cpp` | a descriptor's flags, bytes read so far | `read_timeout`, `readn`, `readline`, ... |
| IPC helpers | `base/ipc_sem.c`, `base/ipc_shm.c` | a semaphore set, a segment | create, open, P, V, map, delete |
| MySQL wrapper | `db/mysql/db_mysql.cpp` | the connection, the result buffer | connect, query, result to JSON |
| small helpers | `base/timex.cpp`, `base/singleton.h`, `base/errx.h` | | time stamp bytes, one instance, logging |
| leveldb | `db/leveldb` | writer queue, log, versions, memtable, caches, files | write, compact, recover, read |

`PROJECT.json` lists them all, leveldb split into its parts, with what is
modelled of each.

### How they interact

Three kinds of thread share the state. The *loop* (`NetWork::run()`) is the only
one that changes `m_free_tasks`, `m_ready_list` and a task's `m_socket`. For a
readable descriptor it first makes a message for the application and then
appends the task to the thread pool. A *worker* runs `recv_buf()` of the task.
The *application* polls `pull_msg()`, writes its reply straight into the task's
send buffer through pointers in the message, and calls `push_msg()`, which runs
`send_buf()` on the application's thread. Nothing orders worker and
application.

### What is hard about it

`PROJECT.json` lists each hazard at its line. In groups:

- wakeups, limits and order in the pool's list, with interrupted waits;
- tasks, descriptors and connections are three numberings with different
  lifetimes: events of one batch, jobs and messages may outlive a connection;
- epoll is edge-triggered, but one event is answered by one `accept()` or one
  `read()`;
- `m_lock` guards only part of a socket: `m_send_pos = 0`, `m_reference_count ++`,
  the copy of `m_recv_buf` and the reply itself are outside;
- arrays are indexed by descriptor, and `-1` results become lengths;
- leveldb: crashes between any two system calls of a write, a flush or a
  recovery; writers, background thread and destructor that wait for each other;
  readers without lock; compactions beside flushes, snapshots and iterators;
  one of several writes failing; damage on disk;
- the helpers: signals and short transfers, and processes that create one
  semaphore at a time.

## 2. Modules

| module | models | from |
|---|---|---|
| `JobQueue` | what the pool promises: a bounded FIFO, each job taken once, all taken | abstract |
| `ThreadPool` | `append()` and `run()`, a step per statement that matters | `base/thread_pool.h` |
| `TcpTaskPool` | the loop's handlers on tasks, descriptors, epoll and both queues | `net/net_work.cpp`, `net/tcp_task_pool.cpp` |
| `TcpSocket` | one socket used by loop, workers and application, a step per shared load or store | `net/tcp_socket.cpp`, `base/buffer.cpp`, the applications |
| `UndoList` | the links of `m_undo_tasks`, an unlocked `push_back` against locked `pop_front`s | `net/tcp_task_pool.cpp` |
| `TcpThreads` | `TcpTaskPool` with the calls of a worker and the application split where they load `m_socket` | `net/tcp_socket.cpp`, `net/tcp_task_pool.cpp` |
| `SocketIO` | `readn`, `writen`, `recv_peek`, `readline` | `base/socket_util.cpp` |
| `SocketTimeout` | the four calls with a timeout, over `select()` | `base/socket_util.cpp` |
| `IpcSem`, `IpcShm` | semaphores and shared memory of several processes | `base/ipc_sem.c`, `base/ipc_shm.c` |
| `LogFile` | `log::Writer` and `log::Reader` over a file that is cut, torn or damaged | `db/log_writer.cc`, `db/log_reader.cc` |
| `DBWrite` | `DBImpl::Write()`, its queue, the background thread, manual compactions, the destructor | `db/db_impl.cc` |
| `DBFiles` | opening, recovery, manifest, flushes, compactions and `DeleteObsoleteFiles()`, a step per system call | `db/db_impl.cc`, `db/version_set.cc`, `db/builder.cc` |
| `PosixFiles` | what files and directories keep over a crash (operators of `DBFiles`) | `util/env_posix.cc`, the file system |
| `KVStore` | what a database promises: atomic batches, reads as of a snapshot | abstract |
| `LSM` | memtables, levels, the choice and the work of compactions, `Get()`, snapshots | `db/version_set.cc`, `db/db_impl.cc`, `db/memtable.cc` |
| `SkipList` | one `Insert()` against readers, a step per load and store of a link | `db/skiplist.h` |
| `DBIter` | the iterator of a database over merged children, both directions | `db/db_iter.cc`, `table/merger.cc`, `table/two_level_iterator.cc` |
| `Block` | `BlockBuilder` and `Block::Iter` | `table/block_builder.cc`, `table/block.cc` |
| `Table`, `InternalKeys`, `BloomFilter` | building and reading a table, its shortened keys, its filters | `table/table_builder.cc`, `table/table.cc`, `table/filter_block.cc`, `util/comparator.cc`, `util/bloom.cc` |
| `Cache` | `LRUCache` and its hash table, `TableCache::FindTable()` | `util/cache.cc`, `db/table_cache.cc` |
| `FileLock`, `EnvThread`, `MmapLimiter` | the lock file, the background queue, the mmap slots | `util/env_posix.cc` |
| `MemEnv` | the environment in memory | `helpers/memenv/memenv.cc` |
| `Repair` | `Repairer::Run()` | `db/repair.cc` |
| `VersionEdit`, `FileNames` | encoding of manifest records and varints; file names | `db/version_edit.cc`, `util/coding.cc`, `db/filename.cc`, `util/logging.cc` |
| `QueueProofs` | theorems about `ThreadPool` and `UndoList` | |
| `TcpTaskPoolProofs` | theorems about `TcpTaskPool` and `TcpThreads` | |
| `TcpSocketProofs` | theorems about `TcpSocket` | |
| `LevelDBProofs` | theorems about `SkipList`, `FileLock` and `EnvThread` | |
| `DBWriteProofs` | theorem about the readers and the waiters of `DBWrite` | |
| `DBGroupKernel`, `DBGroupProofs` | the invariant of the group commit of `DBWrite` and lemmas about its parts; that every step keeps it, and the theorem | |
| `HelperProofs` | theorems about `IpcSem`, `IpcShm`, `SocketTimeout` and `SocketIO` | |
| `MC...` | instances for TLC, with the bounds explained | |

Paths of the rows from `LogFile` on are relative to `src/db/leveldb/`.

**ThreadPool.** Variables carry the members' names; `pc` says where each thread
is. The critical sections are split wherever the code reads the list and changes
it later, so that the mutex has something to protect. `SemWaitInterrupted` is a
`sem_wait()` that fails with `EINTR`; `run()` ignores the result. This needs a
signal handler installed without `SA_RESTART`; the one `run()` of `NetWork`
installs with `signal()` restarts the call. `accepted`, `taken` and `surplus`
are histories. The server has one caller of `append()`, the loop; the pool is
modelled for any number.

**TcpTaskPool.** Each handler of the loop is one action, because no other thread
changes the pool's arrays: `AddConnect`, `AddConnectExhausted`,
`AddConnectFails` (an uninitialised `peerlen`), `AddConnectNoFd`, `RecvMsg`,
`CloseConnect`, `NoTask`. `EpollWait` takes a batch; its events are then handled
one by one, in any order, while peers go on. A worker's `recv_buf()` and the
application's answer are one step each, of which only the descriptor matters.
`m_recv_tasks` does not appear: `add_recv_task()` pushes and pops it under one
lock. `dead` marks the end of the program: a signal, or undefined behaviour
where a crash is one possible outcome.

**TcpSocket.** One connection, from its accept to its close. A step is one load
or store of shared memory, or what `m_lock` makes one; taking a lock or an
element of a queue is one step with the store after it. Two builds exist
(`Makefile.in` with `-O2`, `net/_makefile` without): where they differ, in
whether `send_buf()` loads `m_send_pos` again for `left`, both outcomes are
allowed. Requests are single bytes; buffers keep the bytes written so far, zeros
behind them, and `m_length`. Descriptor 0, which `reset()` stores in `m_socket`,
is standard input: a `read()` of it finds the end, or bytes, or does not return
(`WorkerReadInput`; `Stdin` says which, and it is never fair). `recv_buf()` reads
before it takes `m_lock`, so that such a read stops one worker and nobody else.
`append()` may refuse the socket because the list is full, which `recv_msg()`
ignores; `refused` remembers that the bytes there were to be read by that job.

**UndoList, TcpThreads.** Both refine what `TcpTaskPool` takes as one step.
`UndoList` has the nodes and links of `std::list` and an append of three stores
that holds no lock. `TcpThreads` lets the loop close a connection and give its
descriptor out again between a thread's load of `m_socket` and its `read()` or
`write()`.

**leveldb, data.** `LogFile` keeps the bytes: a file is a sequence of cells, each
a byte of a header or of a record. Checksums are ideal: a fragment that is not
what was written does not match. `DBFiles` abstracts a file to the records in it
and how many of them are synced, and keeps every directory since the last one on
disk, so that a crash of the machine may leave any of them. A process that ends
within `AddRecord()` leaves a torn record; where the log is used again, the reader
drops it and any number of records behind it, those in the rest of its block. An
append to a log never fails here; `DBWrite` has what `Write()` does then. `LSM` has
entries `[k, s, del]`, files as sets of entries in levels, and one compaction
under way, from its choice to `InstallCompactionResults()`; sizes are numbers of
entries. `seen`, what every snapshot and the present show for each key, is
what `KVStore` is compared with. `DBIter` and `Block` compute the iterator's
state as the code does and keep, as a history, what a plain set or sequence
of entries would show.

**leveldb, threads.** `DBWrite` splits `Write()`, `MakeRoomForWrite()`,
`TEST_CompactRange()`, `BackgroundCall()` and `~DBImpl()` wherever `mutex_` is
released or a condition variable waited for. `pc` says which thread waits for
what, and a signal moves those that wait at that moment, no others. Tables are
counted; entries are named by the thread that wrote them. In `SkipList` a load or a
store of a link is a step; links are ordered by `AtomicPointer`, while a reader
takes any value that `max_height_` has had.

epoll, accept, sockets and peers are outside `src/`; they are modelled from how
the code uses them and marked external in the map.

## 3. Runs

| run | question | states |
|---|---|---|
| `server` | with every thread scheduled: are wakeups, order, the limit and the refinement of `JobQueue` right, under interrupted waits; are reset connections closed and waiting ones accepted; do `recv_buf()` and `send_buf()` return? | @server |
| `tcp_task_pool` | do the arrays agree, are events fresh, does queued work reach its connection; what happens first when there are too many connections? | @tcp_task_pool |
| `tcp_socket` | what does `m_lock` protect? | @tcp_socket |
| `leveldb` | do logs, files, blocks, tables, iterators, levels, encodings and pools give back what was put in, under faults and crashes? | @leveldb |
| `concurrent` | are the write queue, skip list, locks, repair, helpers and the server's calls right under every interleaving, and does every call return? | @concurrent |
| `hello`, `echo`, `read_later`, `peer_close`, `lsm_overlap`, `lsm_hop`, `mem_env_append` | seven things the repository says of the program and the code does not do | violations |

What the passing runs show:

- **server**, three parts of which one runs at a time. `TokenBalance`: tokens, workers on their way to the list and
  posts to come always add up to the list plus unsettled interrupts, so no
  wakeup is lost. `EmptyOnlyAfterInterrupt`: the `empty()` branch of `run()` is
  dead code without interrupted waits. `QueueBounded`: at most one request over
  `m_max_requests`. `ExactlyOnceInOrder`. `ImplementsJobQueue`: refinement,
  liveness included. `ResetIsClosed`, `AcceptedUnlessMissed`: of one connection,
  which stands for all. `CallsReturn`: whatever the others hold, also when a
  worker's `read()` of standard input never returns.
- **tcp_task_pool.** `TaskOwnership`: until the array is overrun, the free
  stack, `m_ready_list` and `m_socket` describe one partition of the tasks.
  `NoStaleEvent`: no event of a batch is stale when it is handled, and the
  blocking `accept()` never blocks. `TasksAimRight`: jobs and messages of an
  open connection reach that connection. `OneAcceptPerEdge`: the backlog is
  exactly the edges outstanding plus the edges lost. Connections that arrive
  together are therefore left waiting, and each lost edge costs one for good.
  `ExhaustedAfterOverrun`: `m_ready_list` has `MAX_TASK`
  cells but is indexed by descriptor, and the first descriptors are not
  connections. The "no free task" branch is reached only after the array was
  written past its end. With `MAX_TASK` 100 and 5 as the first descriptor that
  is the 96th simultaneous connection.
- **tcp_socket.** `RecvBufWhole`: several workers and `reset()` never mix bytes
  in `m_recv_buf`. `ReplyIntact`: what `send_buf()` writes is the reply and then
  zeros; only the *number* of bytes can be wrong. `NoStrandedBytes`: one read
  per edge is enough while a read takes everything, unless `append()` refused the
  job: those bytes wait for the peer's next. `TypeOK` includes that
  `m_reference_count` stays non-negative despite its races.

`leveldb` and `concurrent` each explore several components that share no state:
`part` says which one a behaviour is of, and v1, v2, ... are its variables. The
state graph is the sum of theirs, so nothing is multiplied, and `Parts` in the cfg
chooses which to explore. The properties are stated per subject and name those of
the component modules.

- **leveldb.** `LogReadsRight`: a reader gets the records that were added, in
  order, each whole or not at all. A cut or zeros cost the records they touch, a
  flipped bit those with a fragment in its block, a block that cannot be read those
  from it on; a loss in the middle is reported.
  `WritesSurvive`: after a crash at any system call the database opens and holds
  every acknowledged write (after one of the machine, every synced one), if appends
  to logs succeed and logs are not reused; after a failed write of the manifest it
  holds them if it opens. With `reuse_logs` it may lose those behind a record that an
  earlier process left torn, and no others, although `options.h` says of a process
  that crashes "no writes will be lost even if sync==false". `FilesInUseStay`: no table in use is deleted, beside a compaction, a
  flush nested in it and failing manifest writes. `BlockReadsRight`,
  `TableReadsRight`, `IteratorRight`: any mix of seeks and steps ends where a
  sorted list would, through prefixes, restart points, shortened index keys,
  filters and merges. A damaged block of a table is reported; a block that an
  iterator cannot read is an error of a scan forward, once it is past it.
  `ImplementsStore`: `LSM` refines `KVStore`, which makes flushes, moves and
  compactions invisible to readers and snapshots, where a file has all entries of a
  key or there is no snapshot (see `lsm_hop`). `LevelsRight` is what that rests on,
  away from the flush of `lsm_overlap`. `MemEnvRight`, `EncodingsReadBack`,
  `PoolsExact`.
- **concurrent.** `WritesRight`: acknowledged means readable and, if asked for,
  synced; groups appear whole, in the order of the queue; nothing vanishes when
  memtables are switched and flushed. `ListRight`: lock-free readers see whole,
  sorted nodes. `OneHolder`, `RepairRight`, `TransfersExact`, `TimeoutsRight`,
  `IpcRight`, `TakenInOrder`, `CallsAimRight`. `EveryCallReturns`: leads-to for
  the calls of nine parts, among them writers, manual compaction and the
  destructor.

The violations are findings in `PROJECT.json`:

- `hello`: `test/test.cpp` answers with six bytes, and twelve go out, because
  `m_send_pos` starts at 6 and is zeroed only by a worker.
- `echo`: the message is copied before the request is read, so `net/main.cpp`
  echoes older bytes, at first the `"1"` of `Buffer`'s constructor.
- `read_later`: `EAGAIN` prints "read later" and then copies 2^32 - 1 bytes.
- `peer_close`: a connection that the peer closes is never closed here.
- `lsm_overlap`: a memtable flushed beside a manual compaction lands in a gap of its
  output, and two files of a level overlap, which `version_set.cc` asserts they
  do not.
- `lsm_hop`: a compaction leaves behind the next file of its level, which starts with
  an older entry of the same user key, and `Get()` stops at that one. "Entries never
  hop across levels", says its comment.
- `mem_env_append`: `NewAppendableFile()` leaves NULL in the map of names.

### Where the code differs from what its comments say

The violation runs are findings. Modelling leveldb and the helpers met
others; the passing runs use instances that do not reach them, or count them as
an end, and the module named shows each with the constants given.

| what the code does | where | to see it |
|---|---|---|
| `LockFile()` opens and closes the lock file although its process holds the lock, and `close()` drops it | `util/env_posix.cc:436` | `FileLock!OneHolder`, two of three threads in one process |
| `DestroyDB()` deletes the lock file after unlocking it, another process may have opened it | `db/db_impl.cc:1561` | `FileLock!OneHolder`, a destroyer in a process of its own |
| `NewDB()` does not sync the first manifest | `db/db_impl.cc:195` | `DBFiles!OpenNeverCorrupt`, `Fresh` with a crash of the machine |
| the manifest may reach the disk before the names of the tables in it | `util/env_posix.cc:244` | `DBFiles!OpenNeverCorrupt`, `SyncKeepsName` FALSE |
| index, metaindex and filter are verified only with `paranoid_checks` | `table/table.cc:99` | `Table!DamageReported`, `Paranoid` FALSE |
| a failed `TEST_CompactRange()` unregisters a manual compaction that is running, which then uses NULL | `db/db_impl.cc:756` | `DBWrite!Crashed` is reached in the part `manual` |
| a NULL batch joins another writer's group, and `TEST_CompactMemTable()` returns without a switch | `db/db_impl.cc:1294` | a step of `DBWrite` |
| a half-failed `Append()` moves `block_offset_` by the whole fragment, and a reused log goes on behind a torn record: later records are dropped by the reader | `db/log_writer.cc:107`, `:29` | `LogFile` after `AddFails` and `Reopen`; `ReadsRight` claims the records before |
| with `reuse_logs` a log, or a manifest, goes on behind a record that a process left torn, and recovery drops acknowledged writes behind it | `db/db_impl.cc:454`, `db/version_set.cc:1018` | `DBFiles!NothingAcknowledgedIsLost`, the part `reuse` |
| after a failed append to the manifest the compaction under way appends its edit behind the torn one, and `DB::Open()` may find the manifest corrupt | `db/db_impl.cc:916` | `DBFiles!OpenNeverCorrupt`, the part `busy` |
| a table that cannot be moved to `lost/` is replaced by its copy, and the entries that could not be read are gone | `db/repair.cc:363`, `:449` | `Repair!NothingDestroyed` excepts them |
| repair numbers the tables of logs in directory order, and replays records without checking their checksums | `db/repair.cc:137`, `:193` | steps of `Repair` |
| `readline()` goes on after the line it has read | `base/socket_util.cpp:328` | a step of `SocketIO` |
| `create_sem()` uses an errno as an id | `base/ipc_sem.c:18` | `IpcSem`, `ENOSPC` the id of a semaphore |
| `create_shm()` keeps the key of the first seed for all, and returns 0 when `shmget()` fails | `base/ipc_shm.c:15`, `:29` | steps of `IpcShm` |

### Bounds

Names starting with `Max` are bounds or limits of the code; each is declared with
its meaning. `MaxAppends`, `MaxInterrupts`, `MaxArrivals`, `MaxSends` cap what
the environment does. Two workers and two callers give every pairwise race.
`MaxRequests = 1` with four appends fills the list past its limit and empties it.
Three connections on two good descriptors and one bad one, with two events per
batch, make tasks, descriptors and events be reused while older work waits. In
`TcpSocket` two requests, a FIN and a RST give three messages and a close event
for one socket. The liveness half of `server` has one worker and one request, and
three connections on two descriptors. The instances of `MCLevelDB` and
`MCConcurrent` say above each what they make happen; in short: a log of three
records over several blocks with every fault once; two crashes with file numbers
for a recovery after each and a flush or a merge between, and one crash with
numbers for a flush, a merge, a flush nested in it and the recovery; blocks of
five entries with a restart every two; three levels, three or four writes, one
snapshot; one failure and one kill of a repair; three writers whose batches fill
the memtable, with groups that may and may not grow, or two with every file
operation failing; one writer and one reader of a list of two levels; three
lockers. Within these bounds the runs are exhaustive. Symmetry is used for
connections and workers in safety runs only. Deadlock is not checked: a server
whose peers have nothing more to do within the bounds, or that has died, stops.

### Fairness

Weak fairness of each thread: the operating system schedules every runnable
thread. Nothing is assumed of peers, nor in `TcpTaskPool` of workers and the
application. In `ThreadPool` nobody has to call `append()`, but a caller inside
it goes on, and `process()` returns. Locks are contended only finitely often
within the bounds, so weak fairness is enough for them. In `MCConcurrent` each
thread or process is weakly fair, time passes and the peer sends or closes;
`sem_p()` is strongly fair because a semaphore wakes its waiters in turn. Signals,
crashes, faults and calls that nobody has to make are not fair.

## 4. Proofs

All theorems hold for every value of the constants that satisfies the named
assumptions. For the server these are `ThreadsAssumption`, `RequestsAssumption`,
`BoundsAssumption`, `PoolAssumption` and `SocketAssumption`, which only say what the
constructors and the kernel guarantee: finite sets, positive limits, distinct
special values, a listening descriptor below those of connections. The other
components are instances of their modules inside a proof module, or extended by it,
and their theorems name their hypotheses (`LockSetting`, `ListSetting`, ...); each
is explained below. What `MCConcurrent` checks of these components under its own
names (`OneHolder`, `ListRight`, `TransfersExact`, `TimeoutsRight`, `TakenInOrder`,
`CallsAimRight`, and the invariants and the action property in `WritesRight`) is
the component's definition for the part that is running; the theorems state that
definition for the component itself, with any constants (of `TransfersExact` all but
`PeekLeaves`, that `recv_peek()` leaves the bytes in the socket). `ExhaustedAfterOverrun`
is `OverrunComesFirst` of two instances.

**QueueProofs** (1437 obligations). For `ThreadPool`, `IInv` adds to the checked invariants
`MutexInv` (who holds the mutex is determined by `pc`) and `FrontInv` (between
`front()` and `pop_front()` the front is still what was read). Without the first
two threads could change the list at once; without the second the pop might not
remove what was taken. `TokenBalance` is an equation between cardinalities: each
step moves one thread into or out of one of the two sets. The theorems are
`Inductive`, `TypeCorrect`, `NoLostWakeup`, `EmptyBranchDead`, `Bounded`,
`FifoExactlyOnce`, and `RefinesJobQueue`: every step is a step of `JobQueue` or
a stutter.

For `UndoList`, `MessagesTakenInOrder`: until an append meets the taking of a node it
links (`brushed`), the links are a chain of the numbers from the last one taken to the
last one pushed, in both directions but for the link the push has yet to write; the
taker holds `m_undo_lock`. `UndoInv` says which links are written at each place of
`push_back` and `pop_front`, and that the two touch different nodes.

**TcpTaskPoolProofs** (2428 obligations). The types, the kernel's tables and the edges
come first, then the sharing of tasks. `IInv` adds `KernelInv` (descriptors
stand for different open connections, the backlog has no duplicates),
`QueuedWereAccepted` (jobs and messages are of connections that were accepted, so
a new connection cannot inherit them by name) and `InBounds` (before the overrun
every open descriptor is an index of the array). `NeverEmptyInBounds` is the
pigeonhole step: `ListenFd` and the descriptors below `FirstFd` are never
connections, so while all open descriptors are below `MAX_TASK` some task is
free. The theorems are `PoolInvariant`, `PoolTypeCorrect`, `TasksSharedOut`,
`BatchNeverStale`, `EdgesCountBacklog`, `OverrunBeforeExhaustion` and
`QueuesAimRight`.

For `TcpThreads` the calls of a worker and the application are split where they load
`m_socket`; `CallInv` says of a thread in the middle of one what its descriptor still
means. With it `IInv` of the pool stays inductive: `ThreadsInvariant`, and
`CallsReachTheirConnection`.

**TcpSocketProofs** (1275 obligations), for any number of workers, requests and
bytes. `RecvBufWhole` speaks of `m_recv_buf` when `m_lock` is free; to keep it one
has to know what the buffer holds between the two stores of `put_buf()`, who can be
there, and what that worker has read. `IInv` therefore says who holds `m_lock` at
each place (`LockInv`), what a worker carries (`ReadInv`) and how much of it the
buffer has (`RecvInv`), that the kernel has the last requests in order
(`InboxInv`), that `m_reference_count` stays positive from `send_buf()`'s test of it
to its use, since the loop only adds (`CountInv`), and that from the pull to the copy `m_send_buf` holds the reply
unless the connection goes down (`SendInv`). The theorems are `SocketInvariant`,
`SocketTypeCorrect`, `ReceivesWhole`, `RepliesIntact` and `NothingStranded`.

**LevelDBProofs** (1593 obligations). `SkipList`: `On(l)` is the set of nodes on a level: those
high enough, the one being inserted only on the levels it was published on.
`ListInv` says that each level is a chain of exactly these nodes (`ListShape`), that
the writer has for every level still to do the node right before its key
(`WriterPlan`), and that a search stands on a node of its level before its key
(`ReadersPlace`). `ListRight` alone is not inductive: it says nothing of a search
under way, nor why the store of `Publish` keeps a level sorted. Since nodes are only
added, the readers' part survives every step of the writer (`ReadersKept`), and
`Splice` is the one fact about links: a node that already has its own link is
put into the chain by one store. `Largest` (a set of numbers with a bound has a
largest one) shows that `prev[]` is right. `ReadersNeedNoLock` states `ListRight` and
`OnlyGrows`, for any number of keys and readers and any `kMaxHeight` above 0.

`FileLock`: `LockInv` has the types, that the
table of a process has the name exactly while one of its threads has put it there,
and that no second thread of the process can be there; when every process has one
thread and nobody destroys the database there is also one inode, whose system lock
belongs to the holder. `DatabaseOpenOnce` needs `OneEach` (a thread per process and
no `DestroyDB()`) or `OneProcess`: in the mixed case it is false, as section 3 says.
`LockTableExact` needs neither, `SystemKnowsHolder` needs `OneEach`. `EnvThread`:
the items scheduled are those run, the one in hand and the queue, in this order, and
a thread that waits has an empty queue (`ItemsRunInOrder`, `NeverSleepsOnWork`).

**DBWriteProofs** (779 obligations), for any number of writers, compactors and readers.
That no waiter on `bg_cv_` waits for nothing (`WorkIsScheduled`) is not
inductive: `MakeRoomForWrite()` and `TEST_CompactMemTable()` wait without scheduling
anything, because whoever made the memtable immutable or filled level 0 did. `WorkInv`
says so: work that is due is scheduled (`Due`), a background thread at work is
scheduled, and when the destructor runs every other call has returned. It needs
`WorkSetting`: `kL0_CompactionTrigger` is at most `kL0_StopWritesTrigger` (4 and 12),
without which a writer could wait for a level 0 that nobody finds worth compacting.
`ReadersAndWaitersServed` states `WorkIsScheduled` and `NothingVanishes`: the switch
of memtables, the installation of its table and every failure on the way leave each
entry where a reader finds it. Both tools must read `Visible` alike, hence its
parentheses: they disagree on how far a prefix UNION reaches.

**DBGroupKernel, DBGroupProofs** (2045 and 1770 obligations), for any number of
writers and compactors and any batches. `WritesAcknowledgedRight` states `SyncedWhenAcknowledged`, `ReadableIffAcknowledged`,
`LogFollowsArrival` and `GroupsAppearWhole`. None is inductive: each speaks of calls that
returned, and what makes it true happened while another thread led the group. `GroupInv`
follows a group from its start to its end. `Queue` says that `writers_` has exactly the
calls that are not done, and that only its front is past the wait; `Grouped` that the
group is the first part of `writers_`, and that its first writer asked for a sync if any
of it did; `Arrival` that the queue, and the calls done before those in it, are in the
order of arrival; `Requests` that writers have a batch and compactors none. `DataInv`
relates these to the data, depending on how far the leader is: what readers see was
acknowledged or is being inserted, what was acknowledged is visible, logged and synced if
that was asked for, the log has earlier groups and this one once it is appended, a group
that asked for it is synced before it is inserted, and its numbers follow
`last_sequence_`, below which are those of every earlier group. The numbers are sums over
the queue (`SizeOf`), and the group's batches a selection from it (`Appended`): both are
recursive functions, and `Least` (a set of numbers has a least one) gives `UpTo`, an
induction over an interval for a set that a lemma names, by which the first lemmas of
`DBGroupKernel` show what they compute for every queue. Hypothesis `GroupSetting`: a
batch has at least one entry, and no thread both writes and compacts.

**HelperProofs** (1633 obligations).

- `SemaphoreExcludes`: a key has one semaphore, and its unit is in its value, with the
  process in the section, or not put there yet; crashes may lose it, never double it.
  Hypothesis `LimitHarmless`: if the number `ENOSPC` is the id of a semaphore, no
  process meets the limit on semaphores in `create_sem()`, which would go on with that
  number as an id (section 3).
- `SegmentKept`: a handle names a segment of the process's key, and of the segments of
  a key one at most is not deleted, so `shmget()` with the same key finds it again.
- `TimeoutsKept`: while `select()` waits, the time that passed and the time left add up to
  the timeout, however often it is interrupted. Hypothesis: `wait_seconds` is not negative (it is unsigned).
- `TransfersKept`: what a call has read, what the kernel holds and what is still to come
  are the stream (`Whole`), what is sent are the first bytes of the buffer (`SentInv`),
  and for each place of `readn()`, `writen()` and `readline()` the bytes done and the
  bytes left make up what was asked for (`Plans`). `ReadnExact` alone is not inductive:
  between two calls of `read()` only `Plans` says where the next byte goes. `InsideBuffer`
  needs what `readline()` may still read to fit behind what it has. Hypothesis `IOSetting`:
  streams are sequences and counts are natural numbers.

**Only model-checked.**

- Liveness: the liveness half of `ImplementsJobQueue`, `ResetIsClosed`,
  `AcceptedUnlessMissed`, `CallsReturn`, `EveryCallReturns`. Fairness is out of the
  prover's reach.
- Components built on RECURSIVE operators: `LogFile`, `Block`, `DBIter`, `Table`, `LSM`
  (with `ImplementsStore`), `VersionEdit`, `FileNames`, `MemEnv`, `Cache`, `Repair`. The
  proof system does not work beside such operators, and its library's induction takes a
  predicate as a parameter, which no prover here can instantiate. Where a recursive
  function over an interval says the same, as in `DBWrite`, the induction can be done by
  hand from a least counterexample.
- `MmapLimiter`, whose invariant is a sum over a set of threads, and `DBFiles`, whose
  invariant would have to say what each file holds at each of its steps under a crash:
  not attempted.

## 5. Not modelled, and the plan

In the server: `Message::recv_msg` having 128 bytes (nothing bounds a request to
them, so there is no claim to check); code without callers (`send_msg`, `put_msg`,
`Cond`, `is_full`, the write branch of `process()`).

In the helpers: `getlocalip()` and calls that set one option; `del_sem()`,
`set_sem_mode()`; `get_sem_val()` only reads. What `accept_timeout()` says of its
timeout is meant for a process that accepts alone, and is modelled so.

In leveldb: the components are modelled one by one. `LSM` takes files as sets,
`DBFiles` as records, `DBWrite` as counts; that a table gives back its set is
`Table`'s property and that a log gives back its records `LogFile`'s, but no module
composes them. `VersionEdit::Clear()` leaves `compact_pointers_` as they are, and
`DebugString()` is printing. Compression, the bytes of the footer, the arena, hash
and checksum functions, statistics, default options, logging, the C binding, the
benchmarks and the command-line tools are left out: they compute, print or forward,
and the properties here do not depend on how.

The MySQL wrapper is one object of one thread that calls the client library and
writes rows as JSON into a block whose length it has added up before; what could be
wrong is the arithmetic of text lengths, which needs the text itself.

Next:

1. Proofs: `DBFiles`, `MmapLimiter`.
2. A composition of `DBWrite` with `DBFiles`, so that a crash meets a group of
   writers.
