----------------------------- MODULE TcpTaskPool -----------------------------
(***************************************************************************)
(* TcpTaskPool and NetWork::run() of net/: the loop thread takes events     *)
(* from an edge-triggered epoll, gives each accepted connection one of      *)
(* MAX_TASK TcpSocket objects (a task), and hands a task to the thread pool *)
(* and to the application when its connection becomes readable.             *)
(*                                                                          *)
(* Only the loop thread changes m_free_tasks, m_ready_list and m_socket, so *)
(* each of its handlers is one step.  TcpSocket models the statements of    *)
(* recv_buf() and send_buf(); here they are one step each, of which only    *)
(* the descriptor they use matters.                                         *)
(***************************************************************************)
EXTENDS Integers, Sequences, FiniteSets

CONSTANTS Conns,         \* the connections peers make
          None,          \* no connection
          ListenFd,      \* m_listen_fd
          FirstFd,       \* the lowest descriptor accept() can return
          MaxFd,         \* the highest one the process may open
          MAX_TASK,
          MAX_EVENTS,
          MaxRequests,   \* m_max_requests of the thread pool
          MaxArrivals    \* bound: segments peers send

\* Descriptors 0, 1, 2, the listening socket and the epoll instance are open
\* before the first accept(), so FirstFd is 5 in the program.
ASSUME PoolAssumption ==
    /\ IsFiniteSet(Conns)
    /\ None \notin Conns
    /\ ListenFd \in Nat /\ FirstFd \in Nat /\ MaxFd \in Nat
    /\ 0 < ListenFd /\ ListenFd < FirstFd
    /\ MAX_TASK \in Nat \ {0}
    /\ MAX_EVENTS \in Nat \ {0}
    /\ MaxRequests \in Nat \ {0}
    /\ MaxArrivals \in Nat

Fds == FirstFd .. MaxFd
Tasks == 0 .. MAX_TASK - 1
Garbage == -2   \* what memory past the end of m_ready_list may hold

VARIABLES peer,          \* kernel: the state of each connection
          readable,      \* kernel: unread bytes, or a FIN
          reset,         \* kernel: the peer has reset the connection
          fdConn,        \* kernel: the connection each descriptor stands for
          backlog,       \* kernel: established, not accepted, oldest first
          ready,         \* kernel: epoll's ready list, in any order
          events,        \* run(): the events of the batch it has not handled
          m_free_tasks,  \* a stack, its top last
          m_ready_list,  \* the task of each descriptor
          m_socket,      \* the descriptor of each task
          m_undo_tasks,  \* the messages the application has not pulled
          jobs,          \* the thread pool's list
          dead,          \* a signal or undefined behaviour ended the program
          arrivals,      \* history: segments so far
          overrun,       \* history: m_ready_list was written past its end
          exhausted,     \* history: add_connect() found no free task
          missed         \* history: connections whose edge was lost: epoll
                         \* already had one, or accept() found no descriptor

kernelVars == <<peer, readable, reset, fdConn, backlog, ready>>
poolVars == <<m_free_tasks, m_ready_list, m_socket>>
queueVars == <<m_undo_tasks, jobs>>
histVars == <<arrivals, overrun, exhausted, missed>>
vars == <<kernelVars, events, poolVars, queueVars, dead, histVars>>

Init ==
    /\ peer = [c \in Conns |-> "new"]
    /\ readable = [c \in Conns |-> FALSE]
    /\ reset = [c \in Conns |-> FALSE]
    /\ fdConn = [f \in Fds |-> None]
    /\ backlog = <<>>
    /\ ready = {}
    /\ events = {}
    /\ m_free_tasks = [i \in 1 .. MAX_TASK |-> i - 1]
    /\ m_ready_list = [f \in Fds |-> IF f < MAX_TASK THEN -1 ELSE Garbage]
    /\ m_socket = [t \in Tasks |-> 0]
    /\ m_undo_tasks = <<>>
    /\ jobs = <<>>
    /\ dead = FALSE
    /\ arrivals = 0
    /\ overrun = FALSE
    /\ exhausted = FALSE
    /\ missed = 0

-------------------------------------------------------------------------------
(* Peers and the kernel (external). *)

\* The descriptor of an accepted connection; epoll watches it.
FdsOf(c) == {f \in Fds : fdConn[f] = c}

Connect(c) ==
    /\ peer[c] = "new"
    /\ peer' = [peer EXCEPT ![c] = "backlog"]
    /\ backlog' = Append(backlog, c)
    /\ ready' = ready \cup {ListenFd}
    /\ missed' = IF ListenFd \in ready THEN missed + 1 ELSE missed
    /\ UNCHANGED <<readable, reset, fdConn, events, poolVars, queueVars, dead,
                   arrivals, overrun, exhausted>>

\* Bytes or a FIN arrive: without EPOLLRDHUP in the mask both are EPOLLIN.
Arrive(c) ==
    /\ peer[c] \in {"backlog", "open"}
    /\ ~reset[c]
    /\ arrivals < MaxArrivals
    /\ arrivals' = arrivals + 1
    /\ readable' = [readable EXCEPT ![c] = TRUE]
    /\ ready' = ready \cup FdsOf(c)
    /\ UNCHANGED <<peer, reset, fdConn, backlog, events, poolVars, queueVars,
                   dead, overrun, exhausted, missed>>

\* A RST arrives: EPOLLERR and EPOLLHUP.
PeerResets(c) ==
    /\ peer[c] \in {"backlog", "open"}
    /\ ~reset[c]
    /\ reset' = [reset EXCEPT ![c] = TRUE]
    /\ ready' = ready \cup FdsOf(c)
    /\ UNCHANGED <<peer, readable, fdConn, backlog, events, poolVars, queueVars,
                   dead, histVars>>

Pending(f) ==
    IF f = ListenFd THEN backlog /= <<>>
                    ELSE readable[fdConn[f]] \/ reset[fdConn[f]]

\* The connection of an event is history: struct epoll_event holds only the
\* descriptor.
EventOn(f) ==
    IF f = ListenFd
      THEN [fd |-> f, err |-> FALSE, conn |-> None]
      ELSE [fd |-> f, err |-> reset[fdConn[f]], conn |-> fdConn[f]]

-------------------------------------------------------------------------------
(* NetWork::run() and the handlers it calls. *)

\* epoll_wait() asks each item of the ready list again what is pending on it,
\* drops the item when nothing is, and reports at most MAX_EVENTS others.
EpollWait ==
    /\ events = {}
    /\ \E batch \in SUBSET {f \in ready : Pending(f)} :
          /\ batch /= {}
          /\ Cardinality(batch) <= MAX_EVENTS
          /\ \/ Cardinality(batch) = MAX_EVENTS /\ ready' = ready \ batch
             \/ batch = {f \in ready : Pending(f)} /\ ready' = {}
          /\ events' = {EventOn(f) : f \in batch}
    /\ UNCHANGED <<peer, readable, reset, fdConn, backlog, poolVars, queueVars,
                   dead, histVars>>

\* Mutant: the loop does not advance.
ConsumeAgain(f, err) ==
    \E e \in events : e.fd = f /\ e.err = err /\ events' = events

\* The next event of the batch, err being its HUP/ERR test.
Consume(f, err) ==
    \E e \in events : e.fd = f /\ e.err = err /\ events' = events \ {e}

\* Mutant: accept() fails and leaves the connection where it is.
AddConnectFailsEarly ==
    /\ Consume(ListenFd, FALSE)
    /\ UNCHANGED <<kernelVars, poolVars, queueVars, dead, histVars>>

\* accept() fails: peerlen is uninitialised, and when the kernel, which has
\* found a free descriptor first, reads it as negative, it closes the connection
\* and returns EINVAL.
AddConnectFails ==
    /\ Consume(ListenFd, FALSE)
    /\ \E f \in Fds : fdConn[f] = None
    /\ backlog /= <<>>
    /\ peer' = [peer EXCEPT ![Head(backlog)] = "closed"]
    /\ backlog' = Tail(backlog)
    /\ UNCHANGED <<readable, reset, fdConn, ready, poolVars, queueVars, dead,
                   histVars>>

\* accept() fails with EMFILE: the connection stays in the backlog.
AddConnectNoFd ==
    /\ Consume(ListenFd, FALSE)
    /\ \A f \in Fds : fdConn[f] /= None
    /\ missed' = missed + 1
    /\ UNCHANGED <<kernelVars, poolVars, queueVars, dead,
                   arrivals, overrun, exhausted>>

LowestFree(f) ==
    /\ fdConn[f] = None
    /\ \A g \in FirstFd .. f - 1 : fdConn[g] /= None

\* std::stack.
Top(s) == s[Len(s)]
Pop(s) == SubSeq(s, 1, Len(s) - 1)

\* accept() and epoll_ctl( EPOLL_CTL_ADD ), which polls the new descriptor.
Accept(f) ==
    LET c == Head(backlog) IN
    /\ backlog /= <<>>
    /\ LowestFree(f)
    /\ backlog' = Tail(backlog)
    /\ peer' = [peer EXCEPT ![c] = "open"]
    /\ fdConn' = [fdConn EXCEPT ![f] = c]
    /\ ready' = IF readable[c] \/ reset[c] THEN ready \cup {f} ELSE ready

\* No free task: add_connect() returns false and leaves the descriptor open
\* and registered.
AddConnectExhausted(f) ==
    /\ Consume(ListenFd, FALSE)
    /\ m_free_tasks = <<>>
    /\ Accept(f)
    /\ exhausted' = TRUE
    /\ UNCHANGED <<readable, reset, poolVars, queueVars, dead,
                   arrivals, overrun, missed>>

\* Mutant: get_free_task() forgets pop().
AddConnectNoPop(f) ==
    LET free_subscript == Top(m_free_tasks) IN
    /\ Consume(ListenFd, FALSE)
    /\ m_free_tasks /= <<>>
    /\ Accept(f)
    /\ m_ready_list' = [m_ready_list EXCEPT ![f] = free_subscript]
    /\ m_socket' = [m_socket EXCEPT ![free_subscript] = f]
    /\ overrun' = (overrun \/ f >= MAX_TASK)
    /\ dead' \in IF f >= MAX_TASK THEN BOOLEAN ELSE {FALSE}
    /\ UNCHANGED <<readable, reset, m_free_tasks, queueVars,
                   arrivals, exhausted, missed>>

\* A write past the end of m_ready_list lands in the allocation's slack, and
\* works, or damages the heap.
AddConnect(f) ==
    LET free_subscript == Top(m_free_tasks) IN
    /\ Consume(ListenFd, FALSE)
    /\ m_free_tasks /= <<>>
    /\ Accept(f)
    /\ m_free_tasks' = Pop(m_free_tasks)
    /\ m_ready_list' = [m_ready_list EXCEPT ![f] = free_subscript]
    /\ m_socket' = [m_socket EXCEPT ![free_subscript] = f]
    /\ overrun' = (overrun \/ f >= MAX_TASK)
    /\ dead' \in IF f >= MAX_TASK THEN BOOLEAN ELSE {FALSE}
    /\ UNCHANGED <<readable, reset, queueVars, arrivals, exhausted, missed>>

Message(t, c, close) == [task |-> t, conn |-> c, close |-> close]

\* recv_msg(): the message for the application is made before a worker has
\* read anything; append() refuses the task when the list is full, and
\* recv_msg() ignores that.
RecvMsg(f) ==
    LET ready_subscript == m_ready_list[f]
        c == fdConn[f] IN
    /\ Consume(f, FALSE)
    /\ f /= ListenFd
    /\ ready_subscript \in Tasks
    /\ m_undo_tasks' = Append(m_undo_tasks, Message(ready_subscript, c, FALSE))
    /\ jobs' = IF Len(jobs) > MaxRequests
                  THEN jobs
                  ELSE Append(jobs, [task |-> ready_subscript, conn |-> c])
    /\ UNCHANGED <<kernelVars, poolVars, dead, histVars>>

\* Mutant: push_free_task() is given the descriptor.
CloseConnectPushesFd(f) ==
    LET del_subscript == m_ready_list[f]
        c == fdConn[f] IN
    /\ Consume(f, TRUE)
    /\ del_subscript \in Tasks
    /\ m_socket' = [m_socket EXCEPT ![del_subscript] = 0]
    /\ peer' = [peer EXCEPT ![c] = "closed"]
    /\ fdConn' = [fdConn EXCEPT ![f] = None]
    /\ ready' = ready \ {f}
    /\ m_undo_tasks' = Append(m_undo_tasks, Message(del_subscript, c, TRUE))
    /\ m_free_tasks' = Append(m_free_tasks, f)
    /\ UNCHANGED <<readable, reset, backlog, m_ready_list, jobs, dead, histVars>>

\* Mutant: the task is not pushed back.
CloseConnectLeaksTask(f) ==
    LET del_subscript == m_ready_list[f]
        c == fdConn[f] IN
    /\ Consume(f, TRUE)
    /\ del_subscript \in Tasks
    /\ m_socket' = [m_socket EXCEPT ![del_subscript] = 0]
    /\ peer' = [peer EXCEPT ![c] = "closed"]
    /\ fdConn' = [fdConn EXCEPT ![f] = None]
    /\ ready' = ready \ {f}
    /\ m_undo_tasks' = Append(m_undo_tasks, Message(del_subscript, c, TRUE))
    /\ UNCHANGED m_free_tasks
    /\ UNCHANGED <<readable, reset, backlog, m_ready_list, jobs, dead, histVars>>

\* Mutant: close() is forgotten.
CloseConnectLeaksFd(f) ==
    LET del_subscript == m_ready_list[f]
        c == fdConn[f] IN
    /\ Consume(f, TRUE)
    /\ del_subscript \in Tasks
    /\ m_socket' = [m_socket EXCEPT ![del_subscript] = 0]
    /\ ready' = ready \ {f}
    /\ UNCHANGED <<peer, fdConn>>
    /\ m_undo_tasks' = Append(m_undo_tasks, Message(del_subscript, c, TRUE))
    /\ m_free_tasks' = Append(m_free_tasks, del_subscript)
    /\ UNCHANGED <<readable, reset, backlog, m_ready_list, jobs, dead, histVars>>

\* close_connect(): reset(), EPOLL_CTL_DEL, close(), the close event for the
\* application, push_free_task().  m_ready_list keeps the stale task.
CloseConnect(f) ==
    LET del_subscript == m_ready_list[f]
        c == fdConn[f] IN
    /\ Consume(f, TRUE)
    /\ del_subscript \in Tasks
    /\ m_socket' = [m_socket EXCEPT ![del_subscript] = 0]
    /\ peer' = [peer EXCEPT ![c] = "closed"]
    /\ fdConn' = [fdConn EXCEPT ![f] = None]
    /\ ready' = ready \ {f}
    /\ m_undo_tasks' = Append(m_undo_tasks, Message(del_subscript, c, TRUE))
    /\ m_free_tasks' = Append(m_free_tasks, del_subscript)
    /\ UNCHANGED <<readable, reset, backlog, m_ready_list, jobs, dead, histVars>>

\* recv_msg() or close_connect() of a descriptor without a task indexes
\* m_tcp_tasks out of bounds.
NoTask(f, err) ==
    /\ Consume(f, err)
    /\ f /= ListenFd
    /\ m_ready_list[f] \notin Tasks
    /\ dead' = TRUE
    /\ UNCHANGED <<kernelVars, poolVars, queueVars, histVars>>
-------------------------------------------------------------------------------
(* The other threads. *)

\* A worker runs process(): one read() of whatever descriptor the task has
\* now; bytes beyond the buffer, or a FIN, stay readable.  read() fails with
\* EAGAIN when nothing is left, recv_buf() goes on with length -1, and
\* put_buf() copies 2^32 - 1 bytes.  Descriptor 0 is standard input.
WorkerReads ==
    LET f == m_socket[Head(jobs).task]
        c == fdConn[f] IN
    /\ jobs /= <<>>
    /\ jobs' = Tail(jobs)
    /\ IF f = 0
         THEN UNCHANGED <<readable, dead>>
         ELSE /\ readable' \in {readable, [readable EXCEPT ![c] = FALSE]}
              /\ dead' = (~readable[c] /\ ~reset[c])
    /\ UNCHANGED <<peer, reset, fdConn, backlog, ready, events, poolVars,
                   m_undo_tasks, histVars>>

\* The application pulls a message, writes its reply through the pointers of
\* the message and calls push_msg().  A close event's pointers dangle: its
\* TcpSocket is deleted.  write() to a connection the peer has reset raises
\* SIGPIPE or fails.
Answer ==
    LET m == Head(m_undo_tasks)
        f == m_socket[m.task]
        harmless == ~m.close /\ (f = 0 \/ ~reset[fdConn[f]]) IN
    /\ m_undo_tasks /= <<>>
    /\ m_undo_tasks' = Tail(m_undo_tasks)
    /\ dead' \in IF harmless THEN {FALSE} ELSE BOOLEAN
    /\ UNCHANGED <<kernelVars, events, poolVars, jobs, histVars>>

-------------------------------------------------------------------------------

LoopStep ==
    \/ EpollWait
    \/ AddConnectFails
    \/ AddConnectNoFd
    \/ \E f \in Fds :
          \/ AddConnectExhausted(f)
          \/ AddConnect(f)
          \/ RecvMsg(f)
          \/ CloseConnect(f)
          \/ \E err \in BOOLEAN : NoTask(f, err)

Environment ==
    \E c \in Conns : Connect(c) \/ Arrive(c) \/ PeerResets(c)

Next == ~dead /\ (LoopStep \/ WorkerReads \/ Answer \/ Environment)

Spec == Init /\ [][Next]_vars

\* The loop thread is scheduled; peers, workers and the application need not
\* do anything.
FairSpec == Spec /\ WF_vars(~dead /\ LoopStep)

-------------------------------------------------------------------------------
(* Properties *)

Open == {f \in Fds : fdConn[f] /= None}

\* The declarations of tcp_task_pool.h: tasks are indices of the array, each
\* task's m_socket is 0 or a descriptor accept() returned, and events name
\* descriptors.
TypeOK ==
    /\ peer \in [Conns -> {"new", "backlog", "open", "closed"}]
    /\ readable \in [Conns -> BOOLEAN]
    /\ reset \in [Conns -> BOOLEAN]
    /\ fdConn \in [Fds -> Conns \cup {None}]
    /\ backlog \in Seq(Conns)
    /\ ready \subseteq Open \cup {ListenFd}
    /\ events \subseteq [fd : Fds \cup {ListenFd}, err : BOOLEAN,
                     conn : Conns \cup {None}]
    /\ m_free_tasks \in Seq(Tasks)
    /\ m_ready_list \in [Fds -> Tasks \cup {-1, Garbage}]
    /\ m_socket \in [Tasks -> Fds \cup {0}]
    /\ m_undo_tasks \in Seq([task : Tasks, conn : Conns, close : BOOLEAN])
    /\ jobs \in Seq([task : Tasks, conn : Conns])
    /\ dead \in BOOLEAN
    /\ arrivals \in Nat
    /\ overrun \in BOOLEAN
    /\ exhausted \in BOOLEAN
    /\ missed \in Nat

FreeTasks == {m_free_tasks[i] : i \in 1 .. Len(m_free_tasks)}

\* As long as every descriptor was an index of m_ready_list, the tasks are
\* shared out exactly: each is either on the free stack, once, with no
\* descriptor, or belongs to exactly one open descriptor, and the two arrays
\* that say so (m_ready_list and m_socket) agree.
TaskOwnership ==
    ~overrun =>
        /\ \A f \in Open : m_ready_list[f] \in Tasks /\ m_socket[m_ready_list[f]] = f
        /\ \A t \in Tasks : t \in FreeTasks <=> m_socket[t] = 0
        /\ \A t \in Tasks : m_socket[t] /= 0 =>
              m_socket[t] \in Open /\ m_ready_list[m_socket[t]] = t
        /\ \A i, j \in 1 .. Len(m_free_tasks) :
              i /= j => m_free_tasks[i] /= m_free_tasks[j]

\* The no-free-task branch of add_connect() and the out-of-bounds indices of
\* recv_msg() and close_connect() are reached only after m_ready_list, which
\* has MAX_TASK cells but is indexed by descriptor, was written past its end:
\* the array overflows before the pool runs out.
OverrunComesFirst ==
    \/ overrun
    \/ /\ ~exhausted
       /\ \A e \in events : e.fd /= ListenFd => m_ready_list[e.fd] \in Tasks

\* run() never acts on a stale event: whatever it did with the earlier events
\* of the batch, each event left names a descriptor that still stands for the
\* connection epoll reported, no descriptor is named twice, and accept() on
\* the blocking listening socket finds a connection and does not block.
NoStaleEvent ==
    /\ \A e \in events :
          IF e.fd = ListenFd THEN backlog /= <<>>
                             ELSE e.conn /= None /\ fdConn[e.fd] = e.conn
    /\ \A e, g \in events : e.fd = g.fd => e = g

\* What recv_msg() queued for a connection reaches that connection as long as
\* it is open: the worker reads from it and push_msg() writes to it.  (Once it
\* is closed the task may serve another connection.)
TasksAimRight ==
    ~overrun =>
        /\ \A i \in 1 .. Len(jobs) :
              peer[jobs[i].conn] = "open" =>
                  /\ m_socket[jobs[i].task] \in Open
                  /\ fdConn[m_socket[jobs[i].task]] = jobs[i].conn
        /\ \A i \in 1 .. Len(m_undo_tasks) :
              peer[m_undo_tasks[i].conn] = "open" =>
                  /\ m_socket[m_undo_tasks[i].task] \in Open
                  /\ fdConn[m_socket[m_undo_tasks[i].task]] = m_undo_tasks[i].conn

\* add_connect() accepts one connection per edge.  A connection that arrives
\* while the edge of an earlier one is still on the ready list gets no edge of
\* its own, and an accept() that finds no descriptor uses its edge up: from
\* then on one connection more waits in the backlog.
OneAcceptPerEdge ==
    Len(backlog) = missed + (IF ListenFd \in ready THEN 1 ELSE 0)
                          + (IF \E e \in events : e.fd = ListenFd THEN 1 ELSE 0)

\* The peer of c resets it and run() closes it, or c is in the backlog and
\* add_connect() takes it from there.
ClosedWhenReset(c) ==
    peer[c] = "open" /\ reset[c] ~> peer[c] = "closed" \/ dead
LeavesBacklog(c) ==
    peer[c] = "backlog" ~> peer[c] /= "backlog" \/ missed > 0 \/ dead
===============================================================================
