--------------------------- MODULE TcpTaskPoolProofs --------------------------
(***************************************************************************)
(* Safety of TcpTaskPool, for any number of connections, descriptors,      *)
(* tasks and events per batch: the inductive invariant, that every step    *)
(* keeps the variables in their types, the descriptor table, the backlog,  *)
(* the batch of events and the listening socket's edge, the tasks shared   *)
(* out and the queued jobs aimed.                                          *)
(* Then CallsAimRight of TcpThreads, for any number of workers too: a      *)
(* read() or write() reaches the connection its job or message was made    *)
(* for, although the loop thread may close and accept between the load of  *)
(* m_socket and the call.                                                  *)
(***************************************************************************)
EXTENDS TcpThreads, TLAPS

\* What the kernel guarantees: descriptors stand for different connections,
\* all of them open, and the backlog holds each waiting connection once.
KernelInv ==
    /\ \A f, g \in Fds : fdConn[f] = fdConn[g] /\ fdConn[f] /= None => f = g
    /\ \A f \in Fds : fdConn[f] /= None => peer[fdConn[f]] = "open"
    /\ \A i \in 1 .. Len(backlog) : peer[backlog[i]] = "backlog"
    /\ \A i, j \in 1 .. Len(backlog) : i /= j => backlog[i] /= backlog[j]

\* Jobs and messages belong to connections that were accepted.
QueuedWereAccepted ==
    /\ \A i \in 1 .. Len(jobs) : peer[jobs[i].conn] \in {"open", "closed"}
    /\ \A i \in 1 .. Len(m_undo_tasks) :
          peer[m_undo_tasks[i].conn] \in {"open", "closed"}

\* Before the overrun every open descriptor is an index of m_ready_list.
InBounds == ~overrun => ~exhausted /\ \A f \in Open : f < MAX_TASK

IInv ==
    /\ TypeOK
    /\ KernelInv
    /\ NoStaleEvent
    /\ OneAcceptPerEdge
    /\ TaskOwnership
    /\ InBounds
    /\ QueuedWereAccepted
    /\ TasksAimRight

-------------------------------------------------------------------------------
(* Sequences: lengths, the front of a queue, its end. *)

\* A sequence maps the numbers up to its length.
LEMMA Lengths ==
    ASSUME NEW S, NEW q \in Seq(S)
    PROVE  /\ Len(q) \in Nat
           /\ q \in [1 .. Len(q) -> S]
           /\ q /= <<>> => Len(q) >= 1
OBVIOUS

\* What is left of a queue when its front is taken.
LEMMA HeadTail ==
    ASSUME NEW S, NEW q \in Seq(S), q /= <<>>
    PROVE  /\ Head(q) \in S
           /\ Tail(q) \in Seq(S)
           /\ Len(Tail(q)) = Len(q) - 1
           /\ \A i \in 1 .. Len(Tail(q)) : Tail(q)[i] = q[i + 1]
OBVIOUS

\* A queue with one more at its end.
LEMMA Appending ==
    ASSUME NEW S, NEW q \in Seq(S), NEW x \in S
    PROVE  /\ Append(q, x) \in Seq(S)
           /\ Append(q, x) /= <<>>
           /\ Len(Append(q, x)) = Len(q) + 1
           /\ \A i \in 1 .. Len(q) : Append(q, x)[i] = q[i]
           /\ Append(q, x)[Len(q) + 1] = x
OBVIOUS

-------------------------------------------------------------------------------
(* Facts about the backlog and the free stack. *)

\* What the front of a queue is, and what is left behind it.
LEMMA TailFacts ==
    ASSUME NEW S, NEW q \in Seq(S), q /= <<>>
    PROVE  /\ Head(q) \in S /\ Head(q) = q[1]
           /\ Tail(q) \in Seq(S)
           /\ Len(q) \in Nat /\ Len(q) >= 1
           /\ Len(Tail(q)) = Len(q) - 1
           /\ \A i \in 1 .. Len(q) - 1 : Tail(q)[i] = q[i + 1]
BY HeadTail, Lengths

\* A queue with x put at its end.
LEMMA AppendFacts ==
    ASSUME NEW S, NEW q \in Seq(S), NEW x \in S
    PROVE  /\ Append(q, x) \in Seq(S)
           /\ Len(q) \in Nat
           /\ Len(Append(q, x)) = Len(q) + 1
           /\ \A i \in 1 .. Len(q) : Append(q, x)[i] = q[i]
           /\ Append(q, x)[Len(q) + 1] = x
BY Appending, Lengths

\* Top() and pop_back() of the free list.
LEMMA PopFacts ==
    ASSUME NEW S, NEW q \in Seq(S), q /= <<>>
    PROVE  /\ Top(q) \in S /\ Top(q) = q[Len(q)]
           /\ Pop(q) \in Seq(S)
           /\ Len(q) \in Nat /\ Len(q) >= 1
           /\ Len(Pop(q)) = Len(q) - 1
           /\ \A i \in 1 .. Len(q) - 1 : Pop(q)[i] = q[i]
<1>1. Len(q) \in Nat /\ Len(q) >= 1
  BY Lengths
<1>2. q[Len(q)] \in S
  BY <1>1, Lengths
<1>3. \A i \in 1 .. Len(q) - 1 : q[i] \in S
  BY <1>1, Lengths
<1>4. 1 \in Int /\ Len(q) - 1 \in Int
  BY <1>1
<1>5. /\ Pop(q) \in Seq(S)
      /\ Len(Pop(q)) = IF 1 <= Len(q) - 1 THEN Len(q) - 1 - 1 + 1 ELSE 0
      /\ \A i \in 1 .. Len(q) - 1 - 1 + 1 : Pop(q)[i] = q[1 + i - 1]
  BY ONLY <1>3, <1>4 DEF Pop
<1>6. Len(Pop(q)) = Len(q) - 1
  <2>1. PICK n \in Nat : n = Len(q) /\ n >= 1
    BY <1>1
  <2>2. Len(Pop(q)) = IF 1 <= n - 1 THEN n - 1 - 1 + 1 ELSE 0
    BY <1>5, <2>1
  <2>. QED
    BY <2>1, <2>2
<1>7. ASSUME NEW i \in 1 .. Len(q) - 1 PROVE Pop(q)[i] = q[i]
  <2>1. i \in 1 .. Len(q) - 1 - 1 + 1 /\ 1 + i - 1 = i
    BY <1>1, <1>7
  <2>. QED
    BY <1>5, <2>1
<1>. QED
  BY <1>1, <1>2, <1>5, <1>6, <1>7 DEF Top

-------------------------------------------------------------------------------
(* Types and the kernel. *)

\* The server starts in the invariant.
LEMMA PoolInit == Init => IInv
<1> SUFFICES ASSUME Init PROVE IInv
  OBVIOUS
<1>1. TypeOK
  <2>1. m_free_tasks \in Seq(Tasks)
    <3>1. \A i \in 1 .. MAX_TASK : i - 1 \in Tasks
      BY PoolAssumption DEF Tasks
    <3>. QED
      BY <3>1, PoolAssumption DEF Init
  <2>2. m_ready_list \in [Fds -> Tasks \cup {-1, Garbage}]
    BY DEF Init
  <2>3. /\ ready \subseteq Open \cup {ListenFd}
        /\ events \subseteq [fd : Fds \cup {ListenFd}, err : BOOLEAN,
                            conn : Conns \cup {None}]
    BY DEF Init
  <2>4. /\ peer \in [Conns -> {"new", "backlog", "open", "closed"}]
        /\ readable \in [Conns -> BOOLEAN]
        /\ reset \in [Conns -> BOOLEAN]
        /\ fdConn \in [Fds -> Conns \cup {None}]
        /\ m_socket \in [Tasks -> Fds \cup {0}]
    BY DEF Init
  <2>5. dead \in BOOLEAN /\ overrun \in BOOLEAN /\ exhausted \in BOOLEAN
    BY Zenon DEF Init
  <2>6. /\ backlog \in Seq(Conns)
        /\ m_undo_tasks \in Seq([task : Tasks, conn : Conns, close : BOOLEAN])
        /\ jobs \in Seq([task : Tasks, conn : Conns])
        /\ arrivals \in Nat /\ missed \in Nat
    BY DEF Init
  <2>. QED
    BY <2>1, <2>2, <2>3, <2>4, <2>5, <2>6, Zenon DEF TypeOK
<1>2. KernelInv /\ NoStaleEvent /\ QueuedWereAccepted /\ InBounds /\ TasksAimRight
  BY DEF Init, KernelInv, NoStaleEvent, QueuedWereAccepted, InBounds,
         TasksAimRight, Open
<1>3. OneAcceptPerEdge
  BY DEF Init, OneAcceptPerEdge
<1>4. TaskOwnership
  <2>1. Open = {}
    BY DEF Init, Open
  <2>2. /\ Len(m_free_tasks) = MAX_TASK
        /\ \A i \in 1 .. MAX_TASK : m_free_tasks[i] = i - 1
    BY PoolAssumption DEF Init
  <2>3. \A t \in Tasks : t \in FreeTasks
    <3> TAKE t \in Tasks
    <3>1. t + 1 \in 1 .. MAX_TASK /\ m_free_tasks[t + 1] = t
      BY <2>2, PoolAssumption DEF Tasks
    <3>. QED
      BY <2>2, <3>1 DEF FreeTasks
  <2>4. \A i, j \in 1 .. MAX_TASK : i /= j => m_free_tasks[i] /= m_free_tasks[j]
    BY <2>2, PoolAssumption
  <2>5. \A t \in Tasks : m_socket[t] = 0
    BY DEF Init
  <2>. QED
    BY <2>1, <2>2, <2>3, <2>4, <2>5 DEF TaskOwnership
<1>. QED
  BY <1>1, <1>2, <1>3, <1>4 DEF IInv

\* The part of TypeOK that SMT handles, and the Boolean variables.
FlagsOK == dead \in BOOLEAN /\ overrun \in BOOLEAN /\ exhausted \in BOOLEAN

\* The flags the loop sets stay Booleans.
LEMMA FlagsStep == ASSUME TypeOK, Next PROVE FlagsOK'
<1> USE DEF TypeOK, FlagsOK, histVars, kernelVars, poolVars, queueVars
<1>1. CASE Environment
  BY <1>1, Zenon DEF Environment, Connect, Arrive, PeerResets
<1>2. CASE WorkerReads
  BY <1>2, Zenon DEF WorkerReads
<1>3. CASE Answer
  <2>1. dead' \in BOOLEAN /\ overrun' = overrun /\ exhausted' = exhausted
    BY <1>3, Zenon DEF Answer
  <2>. QED
    BY <2>1, Zenon
<1>4. CASE EpollWait \/ AddConnectFails \/ AddConnectNoFd
  BY <1>4, Zenon DEF EpollWait, AddConnectFails, AddConnectNoFd
<1>5. ASSUME NEW f \in Fds, RecvMsg(f) \/ CloseConnect(f) \/ AddConnectExhausted(f)
      PROVE  FlagsOK'
  BY <1>5, Zenon DEF RecvMsg, CloseConnect, AddConnectExhausted
<1>6. ASSUME NEW f \in Fds, NEW err \in BOOLEAN, NoTask(f, err) PROVE FlagsOK'
  BY <1>6, Zenon DEF NoTask
<1>7. ASSUME NEW f \in Fds, AddConnect(f) PROVE FlagsOK'
  <2>1. /\ overrun' = (overrun \/ f >= MAX_TASK)
        /\ exhausted' = exhausted
    BY <1>7 DEF AddConnect
  <2>2. dead' \in IF f >= MAX_TASK THEN BOOLEAN ELSE {FALSE}
    BY <1>7, Zenon DEF AddConnect
  <2>. QED
    BY <2>1, <2>2, Zenon
<1>. QED
  BY <1>1, <1>2, <1>3, <1>4, <1>5, <1>6, <1>7 DEF Next, LoopStep

\* The rest of TypeOK.
DataOK ==
    /\ peer \in [Conns -> {"new", "backlog", "open", "closed"}]
    /\ readable \in [Conns -> BOOLEAN]
    /\ reset \in [Conns -> BOOLEAN]
    /\ fdConn \in [Fds -> Conns \cup {None}]
    /\ backlog \in Seq(Conns)
    /\ ready \subseteq Open \cup {ListenFd}
    /\ events \subseteq [fd : Fds \cup {ListenFd}, err : BOOLEAN,
                         conn : Conns \cup {None}]
    /\ m_free_tasks \in Seq(Tasks)
    /\ m_ready_list \in [Fds -> Tasks \cup {-1, Garbage}]
    /\ m_socket \in [Tasks -> Fds \cup {0}]
    /\ m_undo_tasks \in Seq([task : Tasks, conn : Conns, close : BOOLEAN])
    /\ jobs \in Seq([task : Tasks, conn : Conns])
    /\ arrivals \in Nat
    /\ missed \in Nat

\* TypeOK is the types of the data and those of the flags.
LEMMA TypeSplit == TypeOK <=> DataOK /\ FlagsOK
BY Zenon DEF TypeOK, DataOK, FlagsOK

\* Peers and the network keep the data in their types.
LEMMA DataEnvironment == ASSUME DataOK, Environment PROVE DataOK'
<1> USE DEF DataOK, histVars, kernelVars, poolVars, queueVars
<1>1. ASSUME NEW c \in Conns, Connect(c) PROVE DataOK'
  BY <1>1, Appending DEF Connect, Open
<1>2. ASSUME NEW c \in Conns, Arrive(c) PROVE DataOK'
  <2>1. FdsOf(c) \subseteq Open
    BY PoolAssumption DEF FdsOf, Open
  <2>2. ready' \subseteq Open' \cup {ListenFd}
    BY <1>2, <2>1 DEF Arrive, Open
  <2>. QED
    BY <1>2, <2>2 DEF Arrive
<1>3. ASSUME NEW c \in Conns, PeerResets(c) PROVE DataOK'
  <2>1. FdsOf(c) \subseteq Open
    BY PoolAssumption DEF FdsOf, Open
  <2>2. ready' \subseteq Open' \cup {ListenFd}
    BY <1>3, <2>1 DEF PeerResets, Open
  <2>. QED
    BY <1>3, <2>2 DEF PeerResets
<1>. QED
  BY <1>1, <1>2, <1>3, Zenon DEF Environment

\* So do the workers' reads and the application's answers.
LEMMA DataThreads == ASSUME DataOK, WorkerReads \/ Answer PROVE DataOK'
<1> USE DEF DataOK, histVars, kernelVars, poolVars, queueVars
<1>1. CASE WorkerReads
  <2>1. jobs' \in Seq([task : Tasks, conn : Conns])
    BY <1>1, HeadTail, Zenon DEF WorkerReads
  <2>2. readable' \in [Conns -> BOOLEAN]
    BY <1>1, Zenon DEF WorkerReads
  <2>3. Open' = Open
    BY <1>1, Zenon DEF WorkerReads, Open
  <2>. QED
    BY <1>1, <2>1, <2>2, <2>3, Zenon DEF WorkerReads
<1>2. CASE Answer
  <2>1. m_undo_tasks' \in Seq([task : Tasks, conn : Conns, close : BOOLEAN])
    BY <1>2, HeadTail DEF Answer
  <2>2. Open' = Open
    BY <1>2 DEF Answer, Open
  <2>. QED
    BY <1>2, <2>1, <2>2 DEF Answer
<1>. QED
  BY <1>1, <1>2

\* So does every step of the loop thread: an event in the batch is of an open descriptor.
LEMMA DataLoop == ASSUME DataOK, NoStaleEvent, LoopStep PROVE DataOK'
<1> USE DEF DataOK, histVars, kernelVars, poolVars, queueVars
<1>a. ASSUME NEW f, NEW err, Consume(f, err)
      PROVE  events' \subseteq events
  BY <1>a DEF Consume
<1>1. CASE EpollWait
  <2>1. \A f \in ready : EventOn(f) \in [fd : Fds \cup {ListenFd}, err : BOOLEAN,
                                        conn : Conns \cup {None}]
    BY DEF EventOn, Open
  <2>2. Open' = Open
    BY <1>1 DEF EpollWait, Open
  <2>3. events' \subseteq [fd : Fds \cup {ListenFd}, err : BOOLEAN,
                          conn : Conns \cup {None}]
    BY <1>1, <2>1 DEF EpollWait
  <2>. QED
    BY <1>1, <2>2, <2>3 DEF EpollWait
<1>2. CASE AddConnectFails
  <2>1. events' \subseteq events
    BY <1>2, <1>a, Zenon DEF AddConnectFails
  <2>2. /\ peer' \in [Conns -> {"new", "backlog", "open", "closed"}]
        /\ backlog' \in Seq(Conns)
        /\ Open' = Open
    BY <1>2, HeadTail DEF AddConnectFails, Open
  <2>. QED
    BY <1>2, <2>1, <2>2 DEF AddConnectFails
<1>3. CASE AddConnectNoFd
  <2>1. events' \subseteq events /\ Open' = Open
    BY <1>3, <1>a, Zenon DEF AddConnectNoFd, Open
  <2>. QED
    BY <1>3, <2>1 DEF AddConnectNoFd
<1>4. ASSUME NEW f \in Fds, AddConnectExhausted(f) PROVE DataOK'
  <2>1. ready' \subseteq Open' \cup {ListenFd}
    BY <1>4, PoolAssumption, HeadTail
    DEF AddConnectExhausted, Accept, LowestFree, Open
  <2>2. /\ peer' \in [Conns -> {"new", "backlog", "open", "closed"}]
        /\ fdConn' \in [Fds -> Conns \cup {None}] /\ backlog' \in Seq(Conns)
    BY <1>4, HeadTail DEF AddConnectExhausted, Accept
  <2>. QED
    BY <1>4, <1>a, <2>1, <2>2, Zenon DEF AddConnectExhausted
<1>5. ASSUME NEW f \in Fds, AddConnect(f) PROVE DataOK'
  <2>1. Top(m_free_tasks) \in Tasks /\ Pop(m_free_tasks) \in Seq(Tasks)
    BY <1>5, PopFacts DEF AddConnect
  <2>2. ready' \subseteq Open' \cup {ListenFd}
    BY <1>5, PoolAssumption, HeadTail, SMTT(60)
    DEF AddConnect, Accept, LowestFree, Open
  <2>3. peer' \in [Conns -> {"new", "backlog", "open", "closed"}]
        /\ fdConn' \in [Fds -> Conns \cup {None}] /\ backlog' \in Seq(Conns)
    BY <1>5, HeadTail DEF AddConnect, Accept
  <2>. QED
    BY <1>5, <1>a, <2>1, <2>2, <2>3, Zenon DEF AddConnect
<1>6. ASSUME NEW f \in Fds, RecvMsg(f) PROVE DataOK'
  <2>1. fdConn[f] \in Conns
    <3>1. PICK e \in events : e.fd = f
      BY <1>6 DEF RecvMsg, Consume
    <3>. QED
      BY <1>6, <3>1 DEF RecvMsg, NoStaleEvent
  <2>2. /\ Message(m_ready_list[f], fdConn[f], FALSE)
             \in [task : Tasks, conn : Conns, close : BOOLEAN]
        /\ [task |-> m_ready_list[f], conn |-> fdConn[f]] \in [task : Tasks, conn : Conns]
    BY <1>6, <2>1 DEF RecvMsg, Message
  <2>3. /\ m_undo_tasks' \in Seq([task : Tasks, conn : Conns, close : BOOLEAN])
        /\ jobs' \in Seq([task : Tasks, conn : Conns])
    BY <1>6, <2>2, Appending, Zenon DEF RecvMsg
  <2>. QED
    BY <1>6, <1>a, <2>3, Zenon DEF RecvMsg, Open
<1>7. ASSUME NEW f \in Fds, CloseConnect(f) PROVE DataOK'
  <2>1. fdConn[f] \in Conns
    <3>1. PICK e \in events : e.fd = f
      BY <1>7 DEF CloseConnect, Consume
    <3>2. f /= ListenFd
      BY PoolAssumption DEF Fds
    <3>. QED
      BY <3>1, <3>2 DEF NoStaleEvent
  <2>2. Message(m_ready_list[f], fdConn[f], TRUE)
             \in [task : Tasks, conn : Conns, close : BOOLEAN]
    BY <1>7, <2>1 DEF CloseConnect, Message
  <2>3. /\ m_undo_tasks' \in Seq([task : Tasks, conn : Conns, close : BOOLEAN])
        /\ m_free_tasks' \in Seq(Tasks)
    BY <1>7, <2>2, Appending, Zenon DEF CloseConnect
  <2>4. ready' \subseteq Open' \cup {ListenFd}
    BY <1>7 DEF CloseConnect, Open
  <2>. QED
    BY <1>7, <1>a, <2>1, <2>3, <2>4, Zenon DEF CloseConnect
<1>8. ASSUME NEW f \in Fds, NEW err \in BOOLEAN, NoTask(f, err) PROVE DataOK'
  BY <1>8, <1>a DEF NoTask, Open
<1>. QED
  BY <1>1, <1>2, <1>3, <1>4, <1>5, <1>6, <1>7, <1>8, Zenon DEF LoopStep

(* The kernel's tables and the batch. *)

\* What is queued names a task and a connection.
LEMMA QueueTypes ==
    ASSUME DataOK
    PROVE  /\ \A i \in 1 .. Len(jobs) : jobs[i].task \in Tasks /\ jobs[i].conn \in Conns
           /\ \A i \in 1 .. Len(m_undo_tasks) :
                 m_undo_tasks[i].task \in Tasks /\ m_undo_tasks[i].conn \in Conns
<1>1. \A i \in 1 .. Len(jobs) : jobs[i] \in [task : Tasks, conn : Conns]
  <2>1. jobs \in Seq([task : Tasks, conn : Conns])
    BY DEF DataOK
  <2>. QED
    BY <2>1, Lengths, Zenon
<1>2. \A i \in 1 .. Len(m_undo_tasks) :
          m_undo_tasks[i] \in [task : Tasks, conn : Conns, close : BOOLEAN]
  <2>1. m_undo_tasks \in Seq([task : Tasks, conn : Conns, close : BOOLEAN])
    BY DEF DataOK
  <2>. QED
    BY <2>1, Lengths, Zenon
<1>. QED
  BY <1>1, <1>2

KernelPart == KernelInv /\ NoStaleEvent /\ QueuedWereAccepted

\* Taking an event leaves none of its descriptor in the batch.
LEMMA ConsumeFacts ==
    ASSUME NoStaleEvent, NEW f, NEW err, Consume(f, err)
    PROVE  /\ \A e \in events' : e \in events /\ e.fd /= f
           /\ \E e \in events : e.fd = f
BY DEF Consume, NoStaleEvent

\* accept() takes the descriptor of the front of the backlog into the table.
LEMMA KernelAccept ==
    ASSUME DataOK, KernelPart, NEW f \in Fds,
           Consume(ListenFd, FALSE), Accept(f), UNCHANGED queueVars
    PROVE  KernelPart'
<1> DEFINE c == Head(backlog)
<1>1. /\ backlog /= <<>> /\ fdConn[f] = None
      /\ backlog' = Tail(backlog)
      /\ peer' = [peer EXCEPT ![c] = "open"]
      /\ fdConn' = [fdConn EXCEPT ![f] = c]
  BY DEF Accept, LowestFree
<1>2. backlog \in Seq(Conns)
  BY DEF DataOK
<1>3. PICK n \in Nat : n = Len(backlog) /\ n >= 1
  BY <1>1, <1>2, TailFacts
<1>4. /\ c \in Conns /\ c = backlog[1]
      /\ Len(backlog') = n - 1
      /\ \A i \in 1 .. n - 1 : backlog'[i] = backlog[i + 1]
  BY <1>1, <1>2, <1>3, TailFacts
<1> HIDE DEF c
<1>5. peer[c] = "backlog"
  BY <1>3, <1>4 DEF KernelPart, KernelInv
<1>6. KernelInv'
  <2>1. \A g \in Fds : fdConn[g] /= c
    BY <1>4, <1>5, PoolAssumption DEF KernelPart, KernelInv
  <2>2. \A g, h \in Fds : fdConn'[g] = fdConn'[h] /\ fdConn'[g] /= None => g = h
    BY <1>1, <2>1 DEF DataOK, KernelPart, KernelInv
  <2>3. \A g \in Fds : fdConn'[g] /= None => peer'[fdConn'[g]] = "open"
    BY <1>1, <1>4 DEF DataOK, KernelPart, KernelInv
  <2>4. \A i, j \in 1 .. n : i /= j => backlog[i] /= backlog[j]
    BY <1>3 DEF KernelPart, KernelInv
  <2>5. \A i \in 1 .. n : peer[backlog[i]] = "backlog" /\ backlog[i] \in Conns
    BY <1>2, <1>3 DEF KernelPart, KernelInv
  <2>6. \A i \in 1 .. n - 1 : peer'[backlog'[i]] = "backlog"
    <3> TAKE i \in 1 .. n - 1
    <3>1. i + 1 \in 1 .. n /\ 1 \in 1 .. n /\ i + 1 /= 1
      BY <1>3
    <3>2. backlog'[i] /= c /\ peer[backlog'[i]] = "backlog" /\ backlog'[i] \in Conns
      BY <1>4, <2>4, <2>5, <3>1
    <3>. QED
      BY <1>1, <3>2, Zenon DEF DataOK
  <2>7. \A i, j \in 1 .. n - 1 : i /= j => backlog'[i] /= backlog'[j]
    <3> TAKE i, j \in 1 .. n - 1
    <3>1. i + 1 \in 1 .. n /\ j + 1 \in 1 .. n /\ (i /= j => i + 1 /= j + 1)
      BY <1>3
    <3>. QED
      BY <1>4, <2>4, <3>1
  <2>. QED
    BY <1>4, <2>2, <2>3, <2>6, <2>7 DEF KernelInv
<1>7. NoStaleEvent'
  BY <1>1, ConsumeFacts, ZenonT(40) DEF KernelPart, NoStaleEvent, DataOK
<1>8. QueuedWereAccepted'
  <2>1. \A d \in Conns : peer[d] \in {"open", "closed"} => peer'[d] \in {"open", "closed"}
    BY <1>1, <1>5 DEF DataOK
  <2>2. jobs' = jobs /\ m_undo_tasks' = m_undo_tasks
    BY DEF queueVars
  <2>. QED
    BY <2>1, <2>2, QueueTypes, SMTT(30) DEF KernelPart, QueuedWereAccepted
<1>. QED
  BY <1>6, <1>7, <1>8 DEF KernelPart
\* CloseConnect() takes the descriptor out of the table.
LEMMA KernelClose ==
    ASSUME DataOK, KernelPart, NEW f \in Fds, CloseConnect(f)
    PROVE  KernelPart'
<1> DEFINE c == fdConn[f]
<1>1. /\ Consume(f, TRUE)
      /\ peer' = [peer EXCEPT ![c] = "closed"]
      /\ fdConn' = [fdConn EXCEPT ![f] = None]
      /\ backlog' = backlog /\ jobs' = jobs
      /\ m_undo_tasks' = Append(m_undo_tasks, Message(m_ready_list[f], c, TRUE))
      /\ m_ready_list[f] \in Tasks
  BY Zenon DEF CloseConnect
<1>2. c \in Conns /\ peer[c] = "open"
  <2>1. PICK e \in events : e.fd = f
    BY <1>1 DEF Consume
  <2>2. f /= ListenFd
    BY PoolAssumption DEF Fds
  <2>. QED
    BY <2>1, <2>2 DEF NoStaleEvent, KernelPart, KernelInv, DataOK
<1> HIDE DEF c
<1>3. \A g \in Fds : g /= f => fdConn[g] /= c
  <2>1. c = fdConn[f] /\ c /= None
    BY <1>2, PoolAssumption DEF c
  <2>. QED
    BY <2>1 DEF KernelPart, KernelInv
<1>4. KernelInv'
  <2>1. \A g, h \in Fds : fdConn'[g] = fdConn'[h] /\ fdConn'[g] /= None => g = h
    BY <1>1 DEF DataOK, KernelPart, KernelInv
  <2>2. \A g \in Fds : fdConn'[g] /= None => peer'[fdConn'[g]] = "open"
    BY <1>1, <1>3 DEF DataOK, KernelPart, KernelInv
  <2>3. \A i \in 1 .. Len(backlog) : backlog[i] \in Conns /\ peer[backlog[i]] = "backlog"
    BY DEF DataOK, KernelPart, KernelInv
  <2>4. \A i \in 1 .. Len(backlog) : peer'[backlog[i]] = "backlog"
    BY <1>1, <1>2, <2>3 DEF DataOK
  <2>. QED
    BY <1>1, <2>1, <2>2, <2>4 DEF KernelPart, KernelInv
<1>5. NoStaleEvent'
  <2>1. \A e \in events' : e \in events /\ e.fd /= f
    BY <1>1, ConsumeFacts, Zenon DEF KernelPart
  <2>2. \A e \in events : e.fd \in Fds \cup {ListenFd}
    BY DEF DataOK
  <2>3. \A g \in Fds : g /= f => fdConn'[g] = fdConn[g]
    BY <1>1 DEF DataOK
  <2>. QED
    BY <1>1, <2>1, <2>2, <2>3 DEF KernelPart, NoStaleEvent
<1>6. QueuedWereAccepted'
  <2>1. \A d \in Conns : peer[d] \in {"open", "closed"} => peer'[d] \in {"open", "closed"}
    BY <1>1 DEF DataOK
  <2>2. Message(m_ready_list[f], c, TRUE)
          \in [task : Tasks, conn : Conns, close : BOOLEAN]
    BY <1>1, <1>2 DEF Message
  <2>3. m_undo_tasks \in Seq([task : Tasks, conn : Conns, close : BOOLEAN])
    BY DEF DataOK
  <2>4. PICK n \in Nat :
          /\ n = Len(m_undo_tasks) /\ Len(m_undo_tasks') = n + 1
          /\ \A i \in 1 .. n : m_undo_tasks'[i] = m_undo_tasks[i]
          /\ m_undo_tasks'[n + 1].conn = c
    <3>1. PICK m \in [task : Tasks, conn : Conns, close : BOOLEAN] :
            m = Message(m_ready_list[f], c, TRUE)
      BY <2>2, Zenon
    <3>2. m.conn = c
      BY <3>1 DEF Message
    <3>3. m_undo_tasks' = Append(m_undo_tasks, m)
      BY <1>1, <3>1, Zenon
    <3>. QED
      BY ONLY <2>3, <3>2, <3>3, AppendFacts
  <2>5. peer'[c] = "closed"
    BY <1>1, <1>2 DEF DataOK
  <2>6. \A i \in 1 .. n + 1 : peer'[m_undo_tasks'[i].conn] \in {"open", "closed"}
    <3>1. \A i \in 1 .. n : peer'[m_undo_tasks[i].conn] \in {"open", "closed"}
      BY <2>1, <2>4, QueueTypes DEF KernelPart, QueuedWereAccepted
    <3>2. \A i \in 1 .. n + 1 : i \in 1 .. n \/ i = n + 1
      OBVIOUS
    <3>. QED
      BY <2>4, <2>5, <3>1, <3>2
  <2>7. \A i \in 1 .. Len(jobs) : peer'[jobs[i].conn] \in {"open", "closed"}
    BY <2>1, QueueTypes DEF KernelPart, QueuedWereAccepted
  <2>. QED
    BY <1>1, <2>4, <2>6, <2>7, Zenon DEF QueuedWereAccepted
<1>. QED
  BY <1>4, <1>5, <1>6 DEF KernelPart
\* A step that leaves the tables alone and only consumes an event.
LEMMA KernelConsume ==
    ASSUME DataOK, KernelPart, NEW f, NEW err, Consume(f, err),
           UNCHANGED <<kernelVars, queueVars>>
    PROVE  KernelPart'
<1>1. \A e \in events' : e \in events
  BY ConsumeFacts DEF KernelPart
<1>. QED
  BY <1>1 DEF KernelPart, KernelInv, NoStaleEvent, QueuedWereAccepted,
              kernelVars, queueVars

\* Connects, arrivals and resets keep the kernel's side of the invariant.
LEMMA KernelEnvironment ==
    ASSUME DataOK, KernelPart, Environment
    PROVE  KernelPart'
<1>1. ASSUME NEW c \in Conns, Connect(c) PROVE KernelPart'
  <2>1. /\ peer[c] = "new" /\ peer' = [peer EXCEPT ![c] = "backlog"]
        /\ backlog' = Append(backlog, c)
        /\ fdConn' = fdConn /\ events' = events
        /\ jobs' = jobs /\ m_undo_tasks' = m_undo_tasks
    BY <1>1 DEF Connect, queueVars
  <2>2. PICK n \in Nat :
          /\ n = Len(backlog) /\ Len(backlog') = n + 1
          /\ \A i \in 1 .. n : backlog'[i] = backlog[i]
          /\ backlog'[n + 1] = c
    <3>1. backlog \in Seq(Conns)
      BY DEF DataOK
    <3>. QED
      BY <2>1, <3>1, AppendFacts
  <2>3. \A i \in 1 .. n + 1 : i \in 1 .. n \/ i = n + 1
    OBVIOUS
  <2>4. \A i \in 1 .. n : backlog[i] \in Conns /\ peer[backlog[i]] = "backlog"
    <3>1. backlog \in Seq(Conns)
      BY DEF DataOK
    <3>. QED
      BY <2>2, <3>1 DEF KernelPart, KernelInv
  <2>5. peer'[c] = "backlog" /\ \A d \in Conns : d /= c => peer'[d] = peer[d]
    BY <2>1 DEF DataOK
  <2>6. KernelInv'
    <3>1. \A i \in 1 .. n + 1 : peer'[backlog'[i]] = "backlog"
      BY <2>1, <2>2, <2>3, <2>4, <2>5
    <3>2. \A i, j \in 1 .. n : i /= j => backlog[i] /= backlog[j]
      BY <2>2 DEF KernelPart, KernelInv
    <3>3. \A i, j \in 1 .. n + 1 : i /= j => backlog'[i] /= backlog'[j]
      BY <2>1, <2>2, <2>3, <2>4, <3>2
    <3>4. \A f \in Fds : fdConn[f] /= None => peer'[fdConn[f]] = "open"
      BY <2>1, <2>5 DEF DataOK, KernelPart, KernelInv
    <3>5. \A f, g \in Fds : fdConn[f] = fdConn[g] /\ fdConn[f] /= None => f = g
      BY Zenon DEF KernelPart, KernelInv
    <3>6. 1 .. Len(backlog') = 1 .. n + 1
      BY <2>2, Zenon
    <3>7. /\ \A i \in 1 .. Len(backlog') : peer'[backlog'[i]] = "backlog"
          /\ \A i, j \in 1 .. Len(backlog') : i /= j => backlog'[i] /= backlog'[j]
      BY <3>1, <3>3, <3>6, Zenon
    <3>. QED
      BY <2>1, <3>4, <3>5, <3>7, Zenon DEF KernelInv
  <2>7. NoStaleEvent'
    <3>1. backlog' /= <<>>
      BY <2>2, Lengths
    <3>. QED
      BY <2>1, <3>1 DEF KernelPart, NoStaleEvent
  <2>8. QueuedWereAccepted'
    <3>1. \A d \in Conns : peer[d] \in {"open", "closed"} => peer'[d] \in {"open", "closed"}
      BY <2>1, <2>5
    <3>. QED
      BY <2>1, <3>1, QueueTypes DEF KernelPart, QueuedWereAccepted
  <2>. QED
    BY <2>6, <2>7, <2>8 DEF KernelPart
<1>2. ASSUME NEW c \in Conns, Arrive(c) \/ PeerResets(c) PROVE KernelPart'
  <2>1. CASE Arrive(c)
    <3>1. KernelInv' /\ NoStaleEvent'
      BY <2>1 DEF Arrive, queueVars, KernelPart, KernelInv, NoStaleEvent
    <3>2. QueuedWereAccepted'
      BY <2>1 DEF Arrive, queueVars, KernelPart, QueuedWereAccepted
    <3>. QED
      BY <3>1, <3>2 DEF KernelPart
  <2>2. CASE PeerResets(c)
    <3>1. KernelInv' /\ NoStaleEvent'
      BY <2>2 DEF PeerResets, queueVars, KernelPart, KernelInv, NoStaleEvent
    <3>2. QueuedWereAccepted'
      BY <2>2 DEF PeerResets, queueVars, KernelPart, QueuedWereAccepted
    <3>. QED
      BY <3>1, <3>2 DEF KernelPart
  <2>. QED
    BY <1>2, <2>1, <2>2
<1>. QED
  BY <1>1, <1>2 DEF Environment

\* The workers and the application do not touch the descriptor table.
LEMMA KernelThreads ==
    ASSUME DataOK, KernelPart, WorkerReads \/ Answer
    PROVE  KernelPart'
<1>1. UNCHANGED <<peer, fdConn, backlog, events>>
  BY Zenon DEF WorkerReads, Answer, kernelVars
<1>2. KernelInv' /\ NoStaleEvent'
  BY <1>1 DEF KernelPart, KernelInv, NoStaleEvent
<1>3. \A i \in 1 .. Len(jobs') : peer'[jobs'[i].conn] \in {"open", "closed"}
  <2>1. CASE WorkerReads
    <3>1. jobs /= <<>> /\ jobs' = Tail(jobs)
      BY <2>1, Zenon DEF WorkerReads
    <3>2. PICK n \in Nat :
            /\ n = Len(jobs) /\ Len(jobs') = n - 1
            /\ \A i \in 1 .. n - 1 : jobs'[i] = jobs[i + 1]
      BY <3>1, TailFacts DEF DataOK
    <3>3. \A i \in 1 .. n - 1 : i + 1 \in 1 .. n
      OBVIOUS
    <3>. QED
      BY <1>1, <3>2, <3>3, SMTT(120) DEF KernelPart, QueuedWereAccepted
  <2>2. CASE Answer
    BY <1>1, <2>2 DEF Answer, KernelPart, QueuedWereAccepted
  <2>. QED
    BY <2>1, <2>2
<1>4. \A i \in 1 .. Len(m_undo_tasks') : peer'[m_undo_tasks'[i].conn] \in {"open", "closed"}
  <2>1. CASE Answer
    <3>1. m_undo_tasks /= <<>> /\ m_undo_tasks' = Tail(m_undo_tasks)
      BY <2>1 DEF Answer
    <3>2. PICK n \in Nat :
            /\ n = Len(m_undo_tasks) /\ Len(m_undo_tasks') = n - 1
            /\ \A i \in 1 .. n - 1 : m_undo_tasks'[i] = m_undo_tasks[i + 1]
      BY <3>1, TailFacts, SMTT(30) DEF DataOK
    <3>3. \A i \in 1 .. n - 1 : i + 1 \in 1 .. n
      OBVIOUS
    <3>. QED
      BY <1>1, <3>2, <3>3 DEF KernelPart, QueuedWereAccepted
  <2>2. CASE WorkerReads
    BY <1>1, <2>2, Zenon DEF WorkerReads, KernelPart, QueuedWereAccepted
  <2>. QED
    BY <2>1, <2>2
<1>. QED
  BY <1>2, <1>3, <1>4, SMTT(30) DEF KernelPart, QueuedWereAccepted

\* epoll_wait() moves ready descriptors, all of them open, into the batch.
LEMMA KernelEpollWait ==
    ASSUME DataOK, KernelPart, EpollWait
    PROVE  KernelPart'
<1>1. UNCHANGED <<peer, fdConn, backlog, jobs, m_undo_tasks>>
  BY DEF EpollWait, queueVars
<1>2. PICK batch \in SUBSET {f \in ready : Pending(f)} :
          events' = {EventOn(f) : f \in batch}
  BY DEF EpollWait
<1>3. \A f \in batch :
          /\ f \in Open \cup {ListenFd} /\ Pending(f)
          /\ EventOn(f).fd = f
          /\ f /= ListenFd => EventOn(f).conn = fdConn[f]
  BY <1>2 DEF DataOK, EventOn
<1>4. NoStaleEvent'
  <2>1. ASSUME NEW e \in events'
        PROVE  IF e.fd = ListenFd THEN backlog /= <<>>
                                  ELSE e.conn /= None /\ fdConn[e.fd] = e.conn
    <3>1. PICK f \in batch : e = EventOn(f)
      BY <1>2, <2>1
    <3>2. /\ f \in Open \cup {ListenFd} /\ Pending(f)
          /\ EventOn(f).fd = f
          /\ f /= ListenFd => EventOn(f).conn = fdConn[f]
      BY <1>3
    <3>3. CASE f = ListenFd
      BY <3>1, <3>2, <3>3 DEF Pending
    <3>4. CASE f /= ListenFd
      BY <3>1, <3>2, <3>4 DEF Open
    <3>. QED
      BY <3>3, <3>4
  <2>2. ASSUME NEW e \in events', NEW g \in events', e.fd = g.fd PROVE e = g
    <3>1. PICK f \in batch : e = EventOn(f)
      BY <1>2
    <3>2. PICK h \in batch : g = EventOn(h)
      BY <1>2
    <3>3. EventOn(f).fd = f /\ EventOn(h).fd = h
      BY <1>3
    <3>. QED
      BY <2>2, <3>1, <3>2, <3>3
  <2>. QED
    BY <1>1, <2>1, <2>2 DEF NoStaleEvent
<1>. QED
  BY <1>1, <1>4 DEF KernelPart, KernelInv, QueuedWereAccepted

\* A failed accept() drops the event and nothing else.
LEMMA KernelFails ==
    ASSUME DataOK, KernelPart, AddConnectFails
    PROVE  KernelPart'
<1> DEFINE c == Head(backlog)
<1>1. /\ backlog /= <<>> /\ Consume(ListenFd, FALSE)
      /\ backlog' = Tail(backlog)
      /\ peer' = [peer EXCEPT ![c] = "closed"]
      /\ fdConn' = fdConn /\ jobs' = jobs /\ m_undo_tasks' = m_undo_tasks
  BY Zenon DEF AddConnectFails, queueVars
<1>2. backlog \in Seq(Conns)
  BY DEF DataOK
<1>3. PICK n \in Nat : n = Len(backlog) /\ n >= 1
  BY <1>1, <1>2, TailFacts
<1>4. /\ c \in Conns /\ c = backlog[1]
      /\ Len(backlog') = n - 1
      /\ \A i \in 1 .. n - 1 : backlog'[i] = backlog[i + 1]
  BY <1>1, <1>2, <1>3, TailFacts
<1> HIDE DEF c
<1>5. peer[c] = "backlog"
  BY <1>3, <1>4 DEF KernelPart, KernelInv
<1>6. KernelInv'
  <2>1. \A g \in Fds : fdConn[g] /= None => peer'[fdConn[g]] = "open"
    BY <1>1, <1>4, <1>5, SMTT(60) DEF DataOK, KernelPart, KernelInv
  <2>4. \A i, j \in 1 .. n : i /= j => backlog[i] /= backlog[j]
    BY <1>3 DEF KernelPart, KernelInv
  <2>5. \A i \in 1 .. n : peer[backlog[i]] = "backlog" /\ backlog[i] \in Conns
    BY <1>2, <1>3 DEF KernelPart, KernelInv
  <2>6. \A i \in 1 .. n - 1 : peer'[backlog'[i]] = "backlog"
    <3> TAKE i \in 1 .. n - 1
    <3>1. i + 1 \in 1 .. n /\ 1 \in 1 .. n /\ i + 1 /= 1
      BY <1>3
    <3>2. backlog'[i] /= c /\ peer[backlog'[i]] = "backlog" /\ backlog'[i] \in Conns
      BY <1>4, <2>4, <2>5, <3>1
    <3>. QED
      BY <1>1, <3>2, Zenon DEF DataOK
  <2>7. \A i, j \in 1 .. n - 1 : i /= j => backlog'[i] /= backlog'[j]
    <3> TAKE i, j \in 1 .. n - 1
    <3>1. i + 1 \in 1 .. n /\ j + 1 \in 1 .. n /\ (i /= j => i + 1 /= j + 1)
      BY <1>3
    <3>. QED
      BY <1>4, <2>4, <3>1
  <2>. QED
    BY <1>1, <1>4, <2>1, <2>6, <2>7, SMTT(30) DEF KernelPart, KernelInv
<1>7. NoStaleEvent'
  BY <1>1, ConsumeFacts, Zenon DEF KernelPart, NoStaleEvent, DataOK
<1>8. QueuedWereAccepted'
  <2>1. \A d \in Conns : peer[d] \in {"open", "closed"} => peer'[d] \in {"open", "closed"}
    BY <1>1, <1>5 DEF DataOK
  <2>. QED
    BY <1>1, <2>1, QueueTypes, SMTT(30) DEF KernelPart, QueuedWereAccepted
<1>. QED
  BY <1>6, <1>7, <1>8 DEF KernelPart

\* The connection of the descriptor an event names.
LEMMA EventConn ==
    ASSUME DataOK, KernelPart, NEW f \in Fds, NEW err, Consume(f, err)
    PROVE  fdConn[f] \in Conns /\ f \in Open /\ peer[fdConn[f]] = "open"
<1>1. PICK e \in events : e.fd = f
  BY DEF Consume
<1>2. f /= ListenFd
  BY PoolAssumption DEF Fds
<1>. QED
  BY <1>1, <1>2 DEF NoStaleEvent, KernelPart, KernelInv, DataOK, Open

\* RecvMsg() queues jobs of accepted connections only.
LEMMA KernelRecv ==
    ASSUME DataOK, KernelPart, NEW f \in Fds, RecvMsg(f)
    PROVE  KernelPart'
<1>1. /\ Consume(f, FALSE) /\ UNCHANGED <<peer, fdConn, backlog>>
      /\ m_ready_list[f] \in Tasks
  BY Zenon DEF RecvMsg, kernelVars
<1>2. KernelInv' /\ NoStaleEvent'
  BY <1>1, ConsumeFacts, ZenonT(40) DEF KernelPart, KernelInv, NoStaleEvent
<1>3. fdConn[f] \in Conns /\ peer[fdConn[f]] = "open"
  BY <1>1, EventConn, Zenon
<1> DEFINE m == Message(m_ready_list[f], fdConn[f], FALSE)
           j == [task |-> m_ready_list[f], conn |-> fdConn[f]]
<1>4. /\ m \in [task : Tasks, conn : Conns, close : BOOLEAN] /\ m.conn = fdConn[f]
      /\ j \in [task : Tasks, conn : Conns] /\ j.conn = fdConn[f]
  BY <1>1, <1>3 DEF Message
<1>5. /\ m_undo_tasks' = Append(m_undo_tasks, m)
      /\ jobs' = jobs \/ jobs' = Append(jobs, j)
  BY DEF RecvMsg
<1> HIDE DEF m, j
<1>6. \A i \in 1 .. Len(m_undo_tasks') : peer'[m_undo_tasks'[i].conn] \in {"open", "closed"}
  <2>1. m_undo_tasks \in Seq([task : Tasks, conn : Conns, close : BOOLEAN])
    BY DEF DataOK
  <2>2. PICK n \in Nat :
          /\ n = Len(m_undo_tasks) /\ Len(m_undo_tasks') = n + 1
          /\ \A i \in 1 .. n : m_undo_tasks'[i] = m_undo_tasks[i]
          /\ m_undo_tasks'[n + 1] = m
    BY ONLY <1>4, <1>5, <2>1, AppendFacts
  <2>3. \A i \in 1 .. n + 1 : i \in 1 .. n \/ i = n + 1
    OBVIOUS
  <2>4. \A i \in 1 .. n : peer'[m_undo_tasks[i].conn] \in {"open", "closed"}
    BY <1>1, <2>2, Zenon DEF KernelPart, QueuedWereAccepted
  <2>5. peer'[m.conn] \in {"open", "closed"}
    BY <1>1, <1>3, <1>4, Zenon
  <2>. QED
    BY <2>2, <2>3, <2>4, <2>5, Zenon
<1>7. \A i \in 1 .. Len(jobs') : peer'[jobs'[i].conn] \in {"open", "closed"}
  <2>1. CASE jobs' = jobs
    BY <1>1, <2>1 DEF KernelPart, QueuedWereAccepted
  <2>2. CASE jobs' = Append(jobs, j)
    <3>1. jobs \in Seq([task : Tasks, conn : Conns])
      BY DEF DataOK
    <3>2. PICK n \in Nat :
            /\ n = Len(jobs) /\ Len(jobs') = n + 1
            /\ \A i \in 1 .. n : jobs'[i] = jobs[i]
            /\ jobs'[n + 1] = j
      BY <1>4, <2>2, <3>1, AppendFacts, SMTT(60)
    <3>3. \A i \in 1 .. n + 1 : i \in 1 .. n \/ i = n + 1
      OBVIOUS
    <3>. QED
      BY <1>1, <1>3, <1>4, <3>2, <3>3 DEF KernelPart, QueuedWereAccepted
  <2>. QED
    BY <1>5, <2>1, <2>2
<1>. QED
  BY <1>2, <1>6, <1>7 DEF KernelPart, QueuedWereAccepted

\* So every step of the loop thread keeps the kernel's side.
LEMMA KernelLoop ==
    ASSUME DataOK, KernelPart, LoopStep
    PROVE  KernelPart'
<1>1. CASE EpollWait
  BY <1>1, KernelEpollWait
<1>2. CASE AddConnectFails
  BY <1>2, KernelFails
<1>3. CASE AddConnectNoFd
  BY <1>3, KernelConsume, Zenon DEF AddConnectNoFd
<1>4. ASSUME NEW f \in Fds, AddConnectExhausted(f) PROVE KernelPart'
  BY <1>4, KernelAccept, Zenon DEF AddConnectExhausted
<1>5. ASSUME NEW f \in Fds, AddConnect(f) PROVE KernelPart'
  BY <1>5, KernelAccept, Zenon DEF AddConnect
<1>6. ASSUME NEW f \in Fds, RecvMsg(f) PROVE KernelPart'
  BY <1>6, KernelRecv
<1>7. ASSUME NEW f \in Fds, CloseConnect(f) PROVE KernelPart'
  BY <1>7, KernelClose
<1>8. ASSUME NEW f \in Fds, NEW err \in BOOLEAN, NoTask(f, err) PROVE KernelPart'
  BY <1>8, KernelConsume DEF NoTask
<1>. QED
  BY <1>1, <1>2, <1>3, <1>4, <1>5, <1>6, <1>7, <1>8 DEF LoopStep
-------------------------------------------------------------------------------
(* Edges of the listening socket. *)

InReady == ListenFd \in ready
InBatch == \E e \in events : e.fd = ListenFd

\* OneAcceptPerEdge as a sum.
LEMMA EdgeForm ==
    /\ OneAcceptPerEdge <=>
          Len(backlog) = missed + (IF InReady THEN 1 ELSE 0) + (IF InBatch THEN 1 ELSE 0)
    /\ OneAcceptPerEdge' <=>
          Len(backlog') = missed' + (IF InReady' THEN 1 ELSE 0)
                                  + (IF InBatch' THEN 1 ELSE 0)
BY DEF OneAcceptPerEdge, InReady, InBatch

\* add_connect() uses up the listening socket's event.
LEMMA EdgeConsumed ==
    ASSUME NoStaleEvent, Consume(ListenFd, FALSE)
    PROVE  InBatch /\ ~InBatch'
BY ConsumeFacts, Zenon DEF InBatch

\* The other handlers do not.
LEMMA EdgeKept ==
    ASSUME NEW f \in Fds, NEW err, Consume(f, err)
    PROVE  InBatch' <=> InBatch
<1>1. PICK e \in events : e.fd = f /\ events' = events \ {e}
  BY DEF Consume
<1>2. f /= ListenFd
  BY PoolAssumption DEF Fds
<1>. QED
  BY <1>1, <1>2 DEF InBatch

\* An accept() takes one of the backlog and the event it came with.
LEMMA EdgeAccept ==
    ASSUME DataOK, NoStaleEvent, OneAcceptPerEdge, backlog /= <<>>,
           Consume(ListenFd, FALSE), backlog' = Tail(backlog),
           missed' = missed, InReady' <=> InReady
    PROVE  OneAcceptPerEdge'
<1>1. InBatch /\ ~InBatch'
  BY EdgeConsumed
<1>2. backlog \in Seq(Conns) /\ missed \in Nat
  BY DEF DataOK
<1>3. PICK n \in Nat : n = Len(backlog) /\ Len(backlog') = n - 1
  BY <1>2, TailFacts
<1>. QED
  BY <1>1, <1>2, <1>3, EdgeForm

\* Every step keeps the balance of the backlog, the edge and the missed connections.
LEMMA EdgeStep ==
    ASSUME DataOK, NoStaleEvent, OneAcceptPerEdge, Next
    PROVE  OneAcceptPerEdge'
<1>a. missed \in Nat /\ backlog \in Seq(Conns) /\ Len(backlog) \in Nat
  BY Lengths DEF DataOK
<1>b. ListenFd \notin Fds
  BY PoolAssumption DEF Fds
<1>1. ASSUME NEW c \in Conns, Connect(c) PROVE OneAcceptPerEdge'
  <2>1. InBatch' <=> InBatch
    BY <1>1 DEF Connect, InBatch
  <2>2. InReady' /\ missed' = IF InReady THEN missed + 1 ELSE missed
    BY <1>1 DEF Connect, InReady
  <2>3. Len(backlog') = Len(backlog) + 1
    BY <1>1, <1>a, AppendFacts DEF Connect
  <2>. QED
    BY <1>a, <2>1, <2>2, <2>3, EdgeForm, SMTT(30)
<1>2. ASSUME NEW c \in Conns, Arrive(c) \/ PeerResets(c) PROVE OneAcceptPerEdge'
  <2>1. UNCHANGED <<backlog, missed, events>> /\ ready' = ready \cup FdsOf(c)
    BY <1>2 DEF Arrive, PeerResets, histVars
  <2>2. (InReady' <=> InReady) /\ (InBatch' <=> InBatch)
    BY <1>b, <2>1 DEF InReady, InBatch, FdsOf
  <2>. QED
    BY <2>1, <2>2, EdgeForm
<1>3. CASE WorkerReads \/ Answer
  <2>1. UNCHANGED <<backlog, missed, events, ready>>
    BY <1>3, Zenon DEF WorkerReads, Answer, kernelVars, histVars
  <2>. QED
    BY <2>1, SMTT(30) DEF OneAcceptPerEdge
<1>4. CASE EpollWait
  <2>1. backlog' = backlog /\ missed' = missed
    BY <1>4 DEF EpollWait, histVars
  <2>2. events = {}
    BY <1>4 DEF EpollWait
  <2>3. PICK batch \in SUBSET {f \in ready : Pending(f)} :
            /\ \/ ready' = ready \ batch
               \/ batch = {f \in ready : Pending(f)} /\ ready' = {}
            /\ events' = {EventOn(f) : f \in batch}
    BY <1>4 DEF EpollWait
  <2>4. ~InBatch
    BY <2>2 DEF InBatch
  <2>5. InReady => backlog /= <<>>
    <3>1. InReady => Len(backlog) /= 0
      BY <1>a, <2>4, EdgeForm
    <3>. QED
      BY <1>a, <3>1, Lengths
  <2>6. \A f : EventOn(f).fd = f
    BY DEF EventOn
  <2>7. InBatch' <=> ListenFd \in batch
    BY <2>3, <2>6 DEF InBatch
  <2>8. InReady => (InBatch' <=> ~InReady')
    BY <2>3, <2>5, <2>7 DEF InReady, Pending
  <2>9. ~InReady => ~InBatch' /\ ~InReady'
    BY <2>3, <2>7 DEF InReady
  <2>. QED
    BY <1>a, <2>1, <2>4, <2>8, <2>9, EdgeForm, SMTT(30)
<1>5. CASE AddConnectFails
  BY <1>5, EdgeAccept DEF AddConnectFails, histVars, InReady
<1>6. CASE AddConnectNoFd
  <2>1. InBatch /\ ~InBatch'
    BY <1>6, EdgeConsumed DEF AddConnectNoFd
  <2>2. backlog' = backlog /\ missed' = missed + 1 /\ (InReady' <=> InReady)
    BY <1>6 DEF AddConnectNoFd, kernelVars, InReady
  <2>. QED
    BY <1>a, <2>1, <2>2, EdgeForm
<1>7. ASSUME NEW f \in Fds, AddConnect(f) \/ AddConnectExhausted(f)
      PROVE  OneAcceptPerEdge'
  <2>1. /\ Consume(ListenFd, FALSE) /\ missed' = missed
        /\ backlog /= <<>> /\ backlog' = Tail(backlog)
        /\ ready' = ready \/ ready' = ready \cup {f}
    BY <1>7, Zenon DEF AddConnect, AddConnectExhausted, Accept
  <2>2. InReady' <=> InReady
    BY <1>b, <2>1 DEF InReady
  <2>. QED
    BY <2>1, <2>2, EdgeAccept
<1>8. ASSUME NEW f \in Fds, NEW err \in BOOLEAN,
             RecvMsg(f) \/ CloseConnect(f) \/ NoTask(f, err)
      PROVE  OneAcceptPerEdge'
  <2>1. /\ \E x \in BOOLEAN : Consume(f, x)
        /\ UNCHANGED <<backlog, missed>>
        /\ ready' = ready \/ ready' = ready \ {f}
    BY <1>8, Zenon DEF RecvMsg, CloseConnect, NoTask, kernelVars, histVars
  <2>2. (InReady' <=> InReady) /\ (InBatch' <=> InBatch)
    BY <1>b, <2>1, EdgeKept DEF InReady
  <2>. QED
    BY <2>1, <2>2, EdgeForm
<1>. QED
  BY <1>1, <1>2, <1>3, <1>4, <1>5, <1>6, <1>7, <1>8, Zenon
  DEF Next, LoopStep, Environment

-------------------------------------------------------------------------------
(* Who owns which task. *)

LOCAL INSTANCE FiniteSetTheorems

PoolPart == TaskOwnership /\ InBounds

\* The array of MAX_TASK cells overflows before the pool of MAX_TASK tasks is
\* empty: FirstFd descriptors are taken before the first connection.
LEMMA NeverEmptyInBounds ==
    ASSUME DataOK, PoolPart, ~overrun
    PROVE  m_free_tasks /= <<>>
<1> SUFFICES ASSUME m_free_tasks = <<>> PROVE FALSE
  OBVIOUS
<1>1. FreeTasks = {}
  BY DEF FreeTasks
<1>2. \A t \in Tasks : m_socket[t] \in Open /\ m_ready_list[m_socket[t]] = t
  BY <1>1 DEF PoolPart, TaskOwnership
<1>3. \A t \in Tasks : m_socket[t] \in 1 .. MAX_TASK - 1
  BY <1>2, PoolAssumption DEF PoolPart, InBounds, Open, Fds
<1>4. m_socket \in [Tasks -> 1 .. MAX_TASK - 1]
  BY <1>3 DEF DataOK
<1>5. /\ IsFiniteSet(Tasks) /\ IsFiniteSet(1 .. MAX_TASK - 1)
      /\ Cardinality(1 .. MAX_TASK - 1) < Cardinality(Tasks)
  <2>1. PICK n \in Nat : n = MAX_TASK /\ n >= 1
    BY PoolAssumption
  <2>2. /\ IsFiniteSet(0 .. n - 1) /\ IsFiniteSet(1 .. n - 1)
        /\ Cardinality(0 .. n - 1) = IF 0 > n - 1 THEN 0 ELSE n - 1 - 0 + 1
        /\ Cardinality(1 .. n - 1) = IF 1 > n - 1 THEN 0 ELSE n - 1 - 1 + 1
    BY <2>1, FS_Interval
  <2>. QED
    BY <2>1, <2>2 DEF Tasks
<1>6. PICK x \in Tasks, y \in Tasks : x /= y /\ m_socket[x] = m_socket[y]
  BY <1>4, <1>5, FS_PigeonHole, Zenon
<1>. QED
  BY <1>2, <1>6

\* AddConnect() gives one free task to the new descriptor.
LEMMA PoolAdd ==
    ASSUME DataOK, PoolPart, NEW f \in Fds, AddConnect(f)
    PROVE  PoolPart'
<1> SUFFICES ASSUME ~overrun'
             PROVE  PoolPart'
  BY Zenon DEF PoolPart, TaskOwnership, InBounds
<1> DEFINE t == Top(m_free_tasks)
           c == Head(backlog)
<1>1. /\ m_free_tasks /= <<>> /\ m_free_tasks' = Pop(m_free_tasks)
      /\ m_ready_list' = [m_ready_list EXCEPT ![f] = t]
      /\ m_socket' = [m_socket EXCEPT ![t] = f]
      /\ backlog /= <<>> /\ fdConn[f] = None
      /\ fdConn' = [fdConn EXCEPT ![f] = c]
      /\ exhausted' = exhausted
  BY DEF AddConnect, Accept, LowestFree
<1>2. ~overrun /\ f < MAX_TASK
  <2>1. overrun' = (overrun \/ f >= MAX_TASK)
    BY DEF AddConnect
  <2>2. ~overrun /\ ~(f >= MAX_TASK)
    BY <2>1, Zenon
  <2>3. f \in Int /\ MAX_TASK \in Int
    BY PoolAssumption DEF Fds
  <2>. QED
    BY <2>2, <2>3
<1>3. c \in Conns /\ c /= None
  BY <1>1, TailFacts, PoolAssumption DEF DataOK
<1>4. m_free_tasks \in Seq(Tasks)
  BY DEF DataOK
<1>5. PICK n \in Nat :
        /\ n = Len(m_free_tasks) /\ n >= 1
        /\ t \in Tasks /\ t = m_free_tasks[n]
        /\ Len(m_free_tasks') = n - 1
        /\ \A i \in 1 .. n - 1 : m_free_tasks'[i] = m_free_tasks[i]
  BY <1>1, <1>4, PopFacts, Zenon
<1> HIDE DEF t, c
<1>6. Open' = Open \cup {f} /\ f \notin Open
  BY <1>1, <1>3 DEF DataOK, Open
<1>7. /\ \A g \in Open : m_ready_list[g] \in Tasks /\ m_socket[m_ready_list[g]] = g
      /\ \A u \in Tasks : u \in FreeTasks <=> m_socket[u] = 0
      /\ \A u \in Tasks : m_socket[u] /= 0 =>
            m_socket[u] \in Open /\ m_ready_list[m_socket[u]] = u
      /\ \A i, j \in 1 .. n : i /= j => m_free_tasks[i] /= m_free_tasks[j]
      /\ ~exhausted /\ \A g \in Open : g < MAX_TASK
  BY <1>2, <1>5 DEF PoolPart, TaskOwnership, InBounds
<1>8. t \in FreeTasks /\ m_socket[t] = 0
  BY <1>5, <1>7 DEF FreeTasks
<1>9. FreeTasks' = FreeTasks \ {t}
  <2>1. FreeTasks = {m_free_tasks[i] : i \in 1 .. n}
    BY <1>5 DEF FreeTasks
  <2>2. FreeTasks' = {m_free_tasks[i] : i \in 1 .. n - 1}
    BY <1>5 DEF FreeTasks
  <2>3. \A i \in 1 .. n - 1 : i \in 1 .. n /\ i /= n
    OBVIOUS
  <2>4. \A i \in 1 .. n : i \in 1 .. n - 1 \/ i = n
    OBVIOUS
  <2>5. n \in 1 .. n
    BY <1>5
  <2>. QED
    <3>1. \A i \in 1 .. n - 1 : m_free_tasks[i] /= t
      BY <1>5, <1>7, <2>3, <2>5, Zenon
    <3>2. \A x : x \in FreeTasks <=> x = t \/ \E i \in 1 .. n - 1 : x = m_free_tasks[i]
      BY <1>5, <2>1, <2>3, <2>4, <2>5, Zenon
    <3>3. \A x : x \in FreeTasks' <=> \E i \in 1 .. n - 1 : x = m_free_tasks[i]
      BY <2>2, Zenon
    <3>. QED
      BY ONLY <3>1, <3>2, <3>3, Zenon
<1>10. f /= 0
  BY PoolAssumption DEF Fds
<1>11. /\ m_ready_list'[f] = t /\ \A g \in Fds : g /= f => m_ready_list'[g] = m_ready_list[g]
       /\ m_socket'[t] = f /\ \A u \in Tasks : u /= t => m_socket'[u] = m_socket[u]
  BY <1>1, <1>5 DEF DataOK
<1>12. \A g \in Open' : m_ready_list'[g] \in Tasks /\ m_socket'[m_ready_list'[g]] = g
  <2>1. \A g \in Open : g \in Fds /\ g /= f /\ m_ready_list[g] /= t
    <3>1. \A g \in Open : g \in Fds /\ g /= f
      BY <1>6, Zenon DEF Open
    <3>2. \A g \in Fds : g /= 0
      BY PoolAssumption DEF Fds
    <3>3. \A g \in Open : m_socket[m_ready_list[g]] = g
      BY <1>7, Zenon
    <3>. QED
      BY ONLY <1>8, <3>1, <3>2, <3>3, Zenon
  <2>2. ASSUME NEW g \in Open
        PROVE  m_ready_list'[g] \in Tasks /\ m_socket'[m_ready_list'[g]] = g
    <3>1. /\ m_ready_list'[g] = m_ready_list[g]
          /\ m_ready_list[g] \in Tasks /\ m_ready_list[g] /= t
          /\ m_socket[m_ready_list[g]] = g
      BY <1>7, <1>11, <2>1, Zenon
    <3>. QED
      BY <1>11, <3>1, Zenon
  <2>3. m_ready_list'[f] \in Tasks /\ m_socket'[m_ready_list'[f]] = f
    BY <1>5, <1>11, Zenon
  <2>. QED
    BY <1>6, <2>2, <2>3, Zenon
<1>13. \A u \in Tasks : u \in FreeTasks' <=> m_socket'[u] = 0
  <2> SUFFICES ASSUME NEW u \in Tasks
               PROVE  u \in FreeTasks' <=> m_socket'[u] = 0
    BY Zenon
  <2>1. CASE u = t
    BY <1>9, <1>10, <1>11, <2>1, Zenon
  <2>2. CASE u /= t
    <3>1. (u \in FreeTasks' <=> u \in FreeTasks) /\ m_socket'[u] = m_socket[u]
      BY <1>9, <1>11, <2>2, Zenon
    <3>. QED
      BY <1>7, <3>1, Zenon
  <2>. QED
    BY <2>1, <2>2, Zenon
<1>14. \A u \in Tasks : m_socket'[u] /= 0 =>
          m_socket'[u] \in Open' /\ m_ready_list'[m_socket'[u]] = u
  <2> SUFFICES ASSUME NEW u \in Tasks, m_socket'[u] /= 0
               PROVE  m_socket'[u] \in Open' /\ m_ready_list'[m_socket'[u]] = u
    BY Zenon
  <2>1. CASE u = t
    <3>1. m_socket'[u] = f /\ f \in Open'
      BY <1>6, <1>11, <2>1, Zenon
    <3>. QED
      BY <1>11, <2>1, <3>1, Zenon
  <2>2. CASE u /= t
    <3>1. m_socket'[u] = m_socket[u] /\ m_socket[u] \in Open /\ m_ready_list[m_socket[u]] = u
      BY <1>7, <1>11, <2>2, Zenon
    <3>2. m_socket[u] \in Fds /\ m_socket[u] /= f /\ m_socket[u] \in Open'
      BY <1>6, <3>1, Zenon DEF Open
    <3>. QED
      BY <1>11, <3>1, <3>2, Zenon
  <2>. QED
    BY <2>1, <2>2, Zenon
<1>15. \A i, j \in 1 .. n - 1 : i /= j => m_free_tasks'[i] /= m_free_tasks'[j]
  <2>1. \A i \in 1 .. n - 1 : i \in 1 .. n
    OBVIOUS
  <2> SUFFICES ASSUME NEW i \in 1 .. n - 1, NEW j \in 1 .. n - 1, i /= j
               PROVE  m_free_tasks'[i] /= m_free_tasks'[j]
    BY Zenon
  <2>2. m_free_tasks[i] /= m_free_tasks[j]
    BY <1>7, <2>1, Zenon
  <2>. QED
    BY <1>5, <2>2, Zenon
<1>16. ~exhausted' /\ \A g \in Open' : g < MAX_TASK
  BY <1>1, <1>2, <1>6, <1>7, SMTT(30)
<1>. QED
  BY <1>5, <1>12, <1>13, <1>14, <1>15, <1>16 DEF PoolPart, TaskOwnership, InBounds

\* A connection is accepted when no task is free.
LEMMA PoolExhausted ==
    ASSUME DataOK, PoolPart, NEW f \in Fds, AddConnectExhausted(f)
    PROVE  PoolPart'
<1>1. m_free_tasks = <<>> /\ overrun' = overrun
  BY DEF AddConnectExhausted
<1>2. overrun
  BY <1>1, NeverEmptyInBounds
<1>3. overrun'
  BY <1>1, <1>2, Zenon
<1>. QED
  BY <1>3 DEF PoolPart, TaskOwnership, InBounds

\* CloseConnect() gives the task of the descriptor back.
LEMMA PoolClose ==
    ASSUME DataOK, PoolPart, NEW f \in Fds, CloseConnect(f), fdConn[f] /= None
    PROVE  PoolPart'
<1>0. overrun' = overrun /\ exhausted' = exhausted
  BY DEF CloseConnect, histVars
<1> SUFFICES ASSUME ~overrun
             PROVE  PoolPart'
  BY <1>0, ZenonT(40) DEF PoolPart, TaskOwnership, InBounds
<1> DEFINE t == m_ready_list[f]
<1>1. /\ t \in Tasks
      /\ m_socket' = [m_socket EXCEPT ![t] = 0]
      /\ fdConn' = [fdConn EXCEPT ![f] = None]
      /\ m_free_tasks' = Append(m_free_tasks, t)
      /\ m_ready_list' = m_ready_list
  BY SMTT(30) DEF CloseConnect
<1>2. t = m_ready_list[f]
  OBVIOUS
<1> HIDE DEF t
<1>3. m_free_tasks \in Seq(Tasks)
  BY DEF DataOK
<1>4. PICK n \in Nat :
        /\ n = Len(m_free_tasks)
        /\ Len(m_free_tasks') = n + 1
        /\ m_free_tasks'[n + 1] = t
        /\ \A i \in 1 .. n : m_free_tasks'[i] = m_free_tasks[i]
  BY <1>1, <1>3
<1>5. Open' = Open \ {f} /\ f \in Open
  BY <1>1, SMTT(30) DEF DataOK, Open
<1>6. /\ \A g \in Open : m_ready_list[g] \in Tasks /\ m_socket[m_ready_list[g]] = g
      /\ \A u \in Tasks : u \in FreeTasks <=> m_socket[u] = 0
      /\ \A u \in Tasks : m_socket[u] /= 0 =>
            m_socket[u] \in Open /\ m_ready_list[m_socket[u]] = u
      /\ \A i, j \in 1 .. n : i /= j => m_free_tasks[i] /= m_free_tasks[j]
      /\ ~exhausted /\ \A g \in Open : g < MAX_TASK
  BY <1>4 DEF PoolPart, TaskOwnership, InBounds
<1>7. f /= 0
  BY PoolAssumption DEF Fds
<1>8. m_socket[t] = f /\ t \notin FreeTasks
  BY <1>1, <1>2, <1>5, <1>6, <1>7
<1>9. /\ FreeTasks = {m_free_tasks[i] : i \in 1 .. n}
      /\ FreeTasks' = FreeTasks \cup {t}
  <2>1. FreeTasks = {m_free_tasks[i] : i \in 1 .. n}
    BY <1>4 DEF FreeTasks
  <2>2. FreeTasks' = {m_free_tasks'[i] : i \in 1 .. n + 1}
    BY <1>4 DEF FreeTasks
  <2>3. \A i \in 1 .. n + 1 : i \in 1 .. n \/ i = n + 1
    OBVIOUS
  <2>4. \A i \in 1 .. n : i \in 1 .. n + 1
    OBVIOUS
  <2>5. n + 1 \in 1 .. n + 1
    OBVIOUS
  <2>. QED
    BY <1>4, <2>1, <2>2, <2>3, <2>4, <2>5
<1>10. m_socket'[t] = 0 /\ \A u \in Tasks : u /= t => m_socket'[u] = m_socket[u]
  BY <1>1 DEF DataOK
<1>11. \A g \in Open' : m_ready_list'[g] \in Tasks /\ m_socket'[m_ready_list'[g]] = g
  BY <1>1, <1>5, <1>6, <1>8, <1>10
<1>12. \A u \in Tasks : u \in FreeTasks' <=> m_socket'[u] = 0
  BY <1>6, <1>9, <1>10, ZenonT(40)
<1>13. \A u \in Tasks : m_socket'[u] /= 0 =>
          m_socket'[u] \in Open' /\ m_ready_list'[m_socket'[u]] = u
  <2> SUFFICES ASSUME NEW u \in Tasks, m_socket'[u] /= 0
               PROVE  m_socket'[u] \in Open' /\ m_ready_list'[m_socket'[u]] = u
    BY Zenon
  <2>1. u /= t
    BY <1>10, Zenon
  <2>2. m_socket'[u] = m_socket[u] /\ m_socket[u] \in Open /\ m_ready_list[m_socket[u]] = u
    BY <1>6, <1>10, <2>1, Zenon
  <2>3. m_socket[u] /= f
    BY <1>2, <2>1, <2>2, Zenon
  <2>. QED
    <3>1. m_ready_list' = m_ready_list
      BY <1>1, Zenon
    <3>2. m_socket[u] \in Open'
      BY <1>5, <2>2, <2>3, Zenon
    <3>. QED
      BY ONLY <2>2, <3>1, <3>2
<1>14. \A i, j \in 1 .. n + 1 : i /= j => m_free_tasks'[i] /= m_free_tasks'[j]
  <2>1. \A i \in 1 .. n : m_free_tasks[i] /= t
    BY <1>8, <1>9
  <2>2. \A i \in 1 .. n + 1 : i \in 1 .. n \/ i = n + 1
    OBVIOUS
  <2> SUFFICES ASSUME NEW i \in 1 .. n + 1, NEW j \in 1 .. n + 1, i /= j
               PROVE  m_free_tasks'[i] /= m_free_tasks'[j]
    OBVIOUS
  <2>3. CASE i \in 1 .. n /\ j \in 1 .. n
    BY <1>4, <1>6, <2>3, Zenon
  <2>4. CASE i \in 1 .. n /\ j = n + 1
    BY <1>4, <2>1, <2>4, Zenon
  <2>5. CASE i = n + 1 /\ j \in 1 .. n
    BY <1>4, <2>1, <2>5, Zenon
  <2>. QED
    BY <2>2, <2>3, <2>4, <2>5, Zenon
<1>15. ~exhausted' /\ \A g \in Open' : g < MAX_TASK
  BY <1>0, <1>5, <1>6, Zenon
<1>. QED
  BY ONLY <1>4, <1>11, <1>12, <1>13, <1>14, <1>15 DEF PoolPart, TaskOwnership, InBounds

\* The ownership of tasks depends on the table, the pool and the two flags only.
LEMMA PoolKept ==
    ASSUME PoolPart, UNCHANGED <<fdConn, poolVars, overrun, exhausted>>
    PROVE  PoolPart'
<1>1. /\ Open' = Open /\ FreeTasks' = FreeTasks
      /\ m_ready_list' = m_ready_list /\ m_socket' = m_socket
      /\ m_free_tasks' = m_free_tasks
  BY DEF Open, FreeTasks, poolVars
<1>2. TaskOwnership'
  BY <1>1, Zenon DEF PoolPart, TaskOwnership
<1>3. InBounds'
  BY <1>1, Zenon DEF PoolPart, InBounds
<1>. QED
  BY <1>2, <1>3 DEF PoolPart

\* Every step keeps the tasks shared out between the free list and the descriptors.
LEMMA PoolStep ==
    ASSUME DataOK, NoStaleEvent, PoolPart, Next
    PROVE  PoolPart'
<1>1. CASE Environment \/ WorkerReads \/ Answer
  <2>1. UNCHANGED <<fdConn, poolVars, overrun, exhausted>>
    BY <1>1, ZenonT(40) DEF Environment, Connect, Arrive, PeerResets, WorkerReads, Answer,
                kernelVars, histVars, poolVars
  <2>. QED
    BY <2>1, PoolKept
<1>2. CASE EpollWait \/ AddConnectFails \/ AddConnectNoFd
  <2>1. UNCHANGED <<fdConn, poolVars, overrun, exhausted>>
    BY <1>2, Zenon DEF EpollWait, AddConnectFails, AddConnectNoFd,
                kernelVars, histVars, poolVars
  <2>. QED
    BY <2>1, PoolKept
<1>3. ASSUME NEW f \in Fds, RecvMsg(f) \/ \E err \in BOOLEAN : NoTask(f, err)
      PROVE  PoolPart'
  <2>1. UNCHANGED <<fdConn, poolVars, overrun, exhausted>>
    BY <1>3, Zenon DEF RecvMsg, NoTask, kernelVars, histVars, poolVars
  <2>. QED
    BY <2>1, PoolKept
<1>4. ASSUME NEW f \in Fds, CloseConnect(f)
      PROVE  PoolPart'
  <2>1. Consume(f, TRUE)
    BY <1>4, Zenon DEF CloseConnect
  <2>2. f /= ListenFd
    BY PoolAssumption DEF Fds
  <2>3. fdConn[f] /= None
    BY <2>1, <2>2 DEF Consume, NoStaleEvent
  <2>. QED
    BY <1>4, <2>3, PoolClose
<1>. QED
  BY <1>1, <1>2, <1>3, <1>4, PoolAdd, PoolExhausted DEF Next, LoopStep
-------------------------------------------------------------------------------
(* Jobs and messages aim at the connection they were queued for. *)

Aimed(t, c) ==
    peer[c] = "open" => m_socket[t] \in Open /\ fdConn[m_socket[t]] = c

\* A step keeps the aim of a task at a connection that was accepted.
LEMMA AimAdd ==
    ASSUME DataOK, KernelPart, PoolPart, NEW f \in Fds, AddConnect(f), ~overrun,
           NEW t \in Tasks, NEW c \in Conns,
           peer[c] \in {"open", "closed"}, Aimed(t, c)
    PROVE  Aimed(t, c)'
<1> DEFINE u == Top(m_free_tasks)
           d == Head(backlog)
<1>1. /\ m_free_tasks /= <<>> /\ backlog /= <<>> /\ fdConn[f] = None
      /\ peer' = [peer EXCEPT ![d] = "open"]
      /\ fdConn' = [fdConn EXCEPT ![f] = d]
      /\ m_socket' = [m_socket EXCEPT ![u] = f]
  BY DEF AddConnect, Accept, LowestFree
<1>2. backlog \in Seq(Conns) /\ m_free_tasks \in Seq(Tasks)
  BY DEF DataOK
<1>3. d \in Conns /\ peer[d] = "backlog" /\ d /= c
  <2>1. PICK n \in Nat : n = Len(backlog) /\ n >= 1 /\ d \in Conns /\ d = backlog[1]
    BY <1>1, <1>2, TailFacts
  <2>2. 1 \in 1 .. n
    BY <2>1
  <2>. QED
    BY <2>1, <2>2, Zenon DEF KernelPart, KernelInv
<1>4. u \in Tasks /\ m_socket[u] = 0
  <2>1. PICK n \in Nat :
          n = Len(m_free_tasks) /\ n >= 1 /\ u \in Tasks /\ u = m_free_tasks[n]
    BY <1>1, <1>2, PopFacts
  <2>2. n \in 1 .. n
    BY <2>1
  <2>. QED
    BY <2>1, <2>2 DEF PoolPart, TaskOwnership, FreeTasks
<1> HIDE DEF u, d
<1> SUFFICES ASSUME peer[c] = "open"
             PROVE  m_socket'[t] \in Open' /\ fdConn'[m_socket'[t]] = c
  BY <1>1, <1>3, SMTT(30) DEF Aimed, DataOK
<1>5. m_socket[t] \in Open /\ fdConn[m_socket[t]] = c
  BY DEF Aimed
<1>6. m_socket[t] \in Fds /\ m_socket[t] /= 0 /\ m_socket[t] /= f
  BY <1>1, <1>5, PoolAssumption DEF Open, Fds
<1>7. m_socket'[t] = m_socket[t]
  BY <1>1, <1>4, <1>6 DEF DataOK
<1>8. fdConn'[m_socket[t]] = fdConn[m_socket[t]]
  BY <1>1, <1>6, SMTT(30) DEF DataOK
<1>. QED
  BY <1>5, <1>6, <1>7, <1>8, Zenon DEF Open

\* Closing one connection keeps the aim of the tasks of the others.
LEMMA AimClose ==
    ASSUME DataOK, KernelPart, PoolPart, NEW f \in Fds, CloseConnect(f), ~overrun,
           NEW t \in Tasks, NEW c \in Conns, Aimed(t, c)
    PROVE  Aimed(t, c)'
<1>1. /\ m_ready_list[f] \in Tasks /\ Consume(f, TRUE)
      /\ m_socket' = [m_socket EXCEPT ![m_ready_list[f]] = 0]
      /\ peer' = [peer EXCEPT ![fdConn[f]] = "closed"]
      /\ fdConn' = [fdConn EXCEPT ![f] = None]
  BY Zenon DEF CloseConnect
<1>2. fdConn[f] \in Conns /\ f \in Open
  BY <1>1, EventConn, Zenon
<1>3. m_socket[m_ready_list[f]] = f
  BY <1>2 DEF PoolPart, TaskOwnership
<1> SUFFICES ASSUME peer[c] = "open", c /= fdConn[f]
             PROVE  m_socket'[t] \in Open' /\ fdConn'[m_socket'[t]] = c
  BY <1>1, <1>2, SMTT(30) DEF Aimed, DataOK
<1>4. m_socket[t] \in Open /\ fdConn[m_socket[t]] = c
  BY DEF Aimed
<1>5. m_socket[t] \in Fds /\ m_socket[t] /= f
  BY <1>4 DEF Open
<1>6. m_socket'[t] = m_socket[t]
  BY <1>1, <1>3, <1>5 DEF DataOK
<1>7. fdConn'[m_socket[t]] = fdConn[m_socket[t]]
  BY <1>1, <1>5 DEF DataOK
<1>. QED
  BY <1>4, <1>5, <1>6, <1>7 DEF Open

\* Every step keeps the aim of a task at a connection that was accepted.
LEMMA AimStep ==
    ASSUME DataOK, KernelPart, PoolPart, Next, ~overrun,
           NEW t \in Tasks, NEW c \in Conns,
           peer[c] \in {"open", "closed"}, Aimed(t, c)
    PROVE  Aimed(t, c)'
<1>1. ASSUME UNCHANGED <<fdConn, m_socket>>, peer'[c] = "open" => peer[c] = "open"
      PROVE  Aimed(t, c)'
  BY <1>1, SMTT(30) DEF Aimed, Open
<1>2. CASE Environment
  <2>1. UNCHANGED <<fdConn, m_socket>>
    BY <1>2 DEF Environment, Connect, Arrive, PeerResets, poolVars
  <2>2. peer'[c] = "open" => peer[c] = "open"
    BY <1>2, Zenon DEF Environment, Connect, Arrive, PeerResets, DataOK
  <2>. QED
    BY ONLY <1>1, <2>1, <2>2
<1>3. CASE WorkerReads \/ Answer \/ EpollWait \/ AddConnectNoFd
  <2>1. UNCHANGED <<peer, fdConn, m_socket>>
    BY <1>3, Zenon DEF WorkerReads, Answer, EpollWait, AddConnectNoFd, kernelVars, poolVars
  <2>. QED
    BY <1>1, <2>1
<1>4. CASE AddConnectFails
  <2>1. /\ UNCHANGED <<fdConn, m_socket>>
        /\ backlog /= <<>> /\ peer' = [peer EXCEPT ![Head(backlog)] = "closed"]
    BY <1>4 DEF AddConnectFails, poolVars
  <2>2. peer'[c] = "open" => peer[c] = "open"
    BY <2>1 DEF DataOK
  <2>. QED
    BY <1>1, <2>1, <2>2
<1>5. ASSUME NEW f \in Fds, RecvMsg(f) \/ \E err \in BOOLEAN : NoTask(f, err)
      PROVE  Aimed(t, c)'
  <2>1. UNCHANGED <<peer, fdConn, m_socket>>
    BY <1>5, Zenon DEF RecvMsg, NoTask, kernelVars, poolVars
  <2>. QED
    BY <1>1, <2>1
<1>6. ASSUME NEW f \in Fds PROVE ~AddConnectExhausted(f)
  BY NeverEmptyInBounds, Zenon DEF AddConnectExhausted
<1>. QED
  BY <1>2, <1>3, <1>4, <1>5, <1>6, AimAdd, AimClose, SMTT(30) DEF Next, LoopStep

\* What a step adds to a queue is aimed, and the rest was there before.
LEMMA JobsStep ==
    ASSUME DataOK, KernelPart, PoolPart, Next, ~overrun
    PROVE  \A i \in 1 .. Len(jobs') :
              \/ \E k \in 1 .. Len(jobs) : jobs'[i] = jobs[k]
              \/ Aimed(jobs[i].task, jobs[i].conn)'
<1>0. jobs \in Seq([task : Tasks, conn : Conns])
  BY DEF DataOK
<1>1. CASE jobs' = jobs
  BY <1>1
<1>2. CASE WorkerReads
  <2>1. jobs /= <<>> /\ jobs' = Tail(jobs)
    BY <1>2 DEF WorkerReads
  <2>2. PICK n \in Nat :
          /\ n = Len(jobs) /\ Len(jobs') = n - 1
          /\ \A i \in 1 .. n - 1 : jobs'[i] = jobs[i + 1]
    BY <1>0, <2>1, TailFacts
  <2>3. \A i \in 1 .. n - 1 : i + 1 \in 1 .. n
    OBVIOUS
  <2>. QED
    BY <2>2, <2>3, SMTT(30)
<1>3. ASSUME NEW f \in Fds, RecvMsg(f), jobs' /= jobs
      PROVE  \A i \in 1 .. Len(jobs') :
                \/ \E k \in 1 .. Len(jobs) : jobs'[i] = jobs[k]
                \/ Aimed(jobs[i].task, jobs[i].conn)'
  <2> DEFINE j == [task |-> m_ready_list[f], conn |-> fdConn[f]]
  <2>1. /\ Consume(f, FALSE) /\ UNCHANGED <<peer, fdConn, m_socket>>
        /\ m_ready_list[f] \in Tasks /\ jobs' = Append(jobs, j)
    BY <1>3, Zenon DEF RecvMsg, kernelVars, poolVars
  <2>2. fdConn[f] \in Conns /\ f \in Open
    BY <2>1, EventConn, Zenon
  <2>3. m_socket[m_ready_list[f]] = f
    BY <2>2 DEF PoolPart, TaskOwnership
  <2>4. /\ j \in [task : Tasks, conn : Conns]
        /\ j.task = m_ready_list[f] /\ j.conn = fdConn[f]
    BY <2>1, <2>2
  <2> HIDE DEF j
  <2>5. PICK n \in Nat :
          /\ n = Len(jobs) /\ Len(jobs') = n + 1
          /\ \A i \in 1 .. n : jobs'[i] = jobs[i]
          /\ jobs'[n + 1] = j
    BY <1>0, <2>1, <2>4, AppendFacts
  <2>6. \A i \in 1 .. n + 1 : i \in 1 .. n \/ i = n + 1
    OBVIOUS
  <2>7. m_socket'[jobs'[n + 1].task] \in Open'
        /\ fdConn'[m_socket'[jobs'[n + 1].task]] = jobs'[n + 1].conn
    <3>1. jobs'[n + 1] = j
      BY <2>5, Zenon
    <3>2. m_socket' = m_socket /\ fdConn' = fdConn /\ Open' = Open
      BY <2>1, Zenon DEF Open
    <3>3. m_socket[j.task] \in Open /\ fdConn[m_socket[j.task]] = j.conn
      BY <2>2, <2>3, <2>4, Zenon
    <3>. QED
      BY <3>1, <3>2, <3>3, Zenon
  <2>. QED
    BY <2>5, <2>6, <2>7, ZenonT(40) DEF Aimed
<1>. QED
  BY <1>1, <1>2, <1>3, ZenonT(40)
     DEF Next, LoopStep, Environment, Connect, Arrive, PeerResets, Answer, EpollWait,
         AddConnectFails, AddConnectNoFd, AddConnectExhausted, AddConnect,
         CloseConnect, NoTask, queueVars

\* A message in m_undo_tasks was there before, or its task is aimed when it is put.
LEMMA UndoStep ==
    ASSUME DataOK, KernelPart, PoolPart, Next, ~overrun
    PROVE  \A i \in 1 .. Len(m_undo_tasks') :
              \/ \E k \in 1 .. Len(m_undo_tasks) : m_undo_tasks'[i] = m_undo_tasks[k]
              \/ Aimed(m_undo_tasks[i].task, m_undo_tasks[i].conn)'
<1> DEFINE M == [task : Tasks, conn : Conns, close : BOOLEAN]
           Goal == \A i \in 1 .. Len(m_undo_tasks') :
                      \/ \E k \in 1 .. Len(m_undo_tasks) :
                            m_undo_tasks'[i] = m_undo_tasks[k]
                      \/ Aimed(m_undo_tasks[i].task, m_undo_tasks[i].conn)'
<1>0. m_undo_tasks \in Seq(M)
  BY DEF DataOK
<1>1. CASE m_undo_tasks' = m_undo_tasks
  BY <1>1
<1>2. CASE Answer
  <2>1. m_undo_tasks /= <<>> /\ m_undo_tasks' = Tail(m_undo_tasks)
    BY <1>2 DEF Answer
  <2>2. PICK n \in Nat :
          /\ n = Len(m_undo_tasks) /\ Len(m_undo_tasks') = n - 1
          /\ \A i \in 1 .. n - 1 : m_undo_tasks'[i] = m_undo_tasks[i + 1]
    BY <1>0, <2>1, TailFacts, SMTT(30)
  <2>3. \A i \in 1 .. n - 1 : i + 1 \in 1 .. n
    OBVIOUS
  <2>. QED
    BY <2>2, <2>3, SMTT(60)
<1>3. ASSUME NEW m \in M, m_undo_tasks' = Append(m_undo_tasks, m),
             peer'[m.conn] = "open" =>
                m_socket'[m.task] \in Open' /\ fdConn'[m_socket'[m.task]] = m.conn
      PROVE  Goal
  <2>1. PICK n \in Nat :
          /\ n = Len(m_undo_tasks) /\ Len(m_undo_tasks') = n + 1
          /\ \A i \in 1 .. n : m_undo_tasks'[i] = m_undo_tasks[i]
          /\ m_undo_tasks'[n + 1] = m
    BY ONLY <1>0, <1>3, AppendFacts
  <2>2. \A i \in 1 .. n + 1 : i \in 1 .. n \/ i = n + 1
    OBVIOUS
  <2>3. m_undo_tasks'[n + 1] = m => Aimed(m_undo_tasks[n + 1].task, m_undo_tasks[n + 1].conn)'
    BY <1>3, Zenon DEF Aimed
  <2>4. \A i \in 1 .. n : \E k \in 1 .. n : m_undo_tasks'[i] = m_undo_tasks[k]
    BY <2>1, Zenon
  <2>. QED
    BY <2>1, <2>2, <2>3, <2>4, Zenon
<1>4. ASSUME NEW f \in Fds, RecvMsg(f) PROVE Goal
  <2> DEFINE m == Message(m_ready_list[f], fdConn[f], FALSE)
  <2>1. /\ Consume(f, FALSE) /\ UNCHANGED <<peer, fdConn, m_socket>>
        /\ m_ready_list[f] \in Tasks /\ m_undo_tasks' = Append(m_undo_tasks, m)
    BY <1>4, Zenon DEF RecvMsg, kernelVars, poolVars
  <2>2. fdConn[f] \in Conns /\ f \in Open
    BY <2>1, EventConn, Zenon
  <2>3. m_socket[m_ready_list[f]] = f
    BY <2>2 DEF PoolPart, TaskOwnership
  <2>4. m \in M /\ m.task = m_ready_list[f] /\ m.conn = fdConn[f]
    BY <2>1, <2>2 DEF Message
  <2> HIDE DEF m
  <2>5. m_socket'[m.task] \in Open' /\ fdConn'[m_socket'[m.task]] = m.conn
    BY ONLY <2>1, <2>2, <2>3, <2>4 DEF Open
  <2>. QED
    BY <1>3, <2>1, <2>4, <2>5, ZenonT(40)
<1>5. ASSUME NEW f \in Fds, CloseConnect(f) PROVE Goal
  <2> DEFINE m == Message(m_ready_list[f], fdConn[f], TRUE)
  <2>1. /\ Consume(f, TRUE) /\ peer' = [peer EXCEPT ![fdConn[f]] = "closed"]
        /\ m_ready_list[f] \in Tasks /\ m_undo_tasks' = Append(m_undo_tasks, m)
    BY <1>5, Zenon DEF CloseConnect
  <2>2. fdConn[f] \in Conns
    BY <2>1, EventConn, Zenon
  <2>3. m \in M /\ m.conn = fdConn[f]
    BY <2>1, <2>2 DEF Message
  <2> HIDE DEF m
  <2>4. peer'[m.conn] = "closed"
    BY <2>1, <2>2, <2>3 DEF DataOK
  <2>. QED
    BY <1>3, <2>1, <2>3, <2>4
<1>. QED
  BY <1>1, <1>2, <1>4, <1>5, ZenonT(40)
     DEF Next, LoopStep, Environment, Connect, Arrive, PeerResets, WorkerReads,
         EpollWait, AddConnectFails, AddConnectNoFd, AddConnectExhausted, AddConnect,
         NoTask, queueVars

\* So every step keeps the queued jobs and messages aimed.
LEMMA TasksAimStep ==
    ASSUME DataOK, KernelPart, PoolPart, TasksAimRight, Next, overrun' \/ ~overrun
    PROVE  TasksAimRight'
<1> SUFFICES ASSUME ~overrun'
             PROVE  TasksAimRight'
  BY Zenon DEF TasksAimRight
<1>0. ~overrun
  BY SMTT(30)
<1>1. \A k \in 1 .. Len(jobs) :
         /\ jobs[k].task \in Tasks /\ jobs[k].conn \in Conns
         /\ peer[jobs[k].conn] \in {"open", "closed"}
         /\ Aimed(jobs[k].task, jobs[k].conn)
  BY <1>0, QueueTypes, Zenon DEF TasksAimRight, Aimed, KernelPart, QueuedWereAccepted
<1>2. \A k \in 1 .. Len(m_undo_tasks) :
         /\ m_undo_tasks[k].task \in Tasks /\ m_undo_tasks[k].conn \in Conns
         /\ peer[m_undo_tasks[k].conn] \in {"open", "closed"}
         /\ Aimed(m_undo_tasks[k].task, m_undo_tasks[k].conn)
  BY <1>0, QueueTypes, Zenon DEF TasksAimRight, Aimed, KernelPart, QueuedWereAccepted
<1>3. \A t \in Tasks, c \in Conns :
         peer[c] \in {"open", "closed"} /\ Aimed(t, c) =>
            (peer'[c] = "open" => m_socket'[t] \in Open' /\ fdConn'[m_socket'[t]] = c)
  <2> SUFFICES ASSUME NEW t \in Tasks, NEW c \in Conns,
                      peer[c] \in {"open", "closed"}, Aimed(t, c)
               PROVE  peer'[c] = "open" => m_socket'[t] \in Open' /\ fdConn'[m_socket'[t]] = c
    BY Zenon
  <2>1. Aimed(t, c)'
    BY <1>0, AimStep, Zenon
  <2>. QED
    BY <2>1, Zenon DEF Aimed
<1>4. \A i \in 1 .. Len(jobs') :
         peer'[jobs'[i].conn] = "open" =>
            /\ m_socket'[jobs'[i].task] \in Open'
            /\ fdConn'[m_socket'[jobs'[i].task]] = jobs'[i].conn
  <2> TAKE i \in 1 .. Len(jobs')
  <2>1. CASE \E k \in 1 .. Len(jobs) : jobs'[i] = jobs[k]
    BY <1>1, <1>3, <2>1
  <2>2. CASE Aimed(jobs[i].task, jobs[i].conn)'
    BY <2>2 DEF Aimed
  <2>. QED
    BY <1>0, <2>1, <2>2, JobsStep
<1>5. \A i \in 1 .. Len(m_undo_tasks') :
         peer'[m_undo_tasks'[i].conn] = "open" =>
            /\ m_socket'[m_undo_tasks'[i].task] \in Open'
            /\ fdConn'[m_socket'[m_undo_tasks'[i].task]] = m_undo_tasks'[i].conn
  <2> TAKE i \in 1 .. Len(m_undo_tasks')
  <2>1. CASE \E k \in 1 .. Len(m_undo_tasks) : m_undo_tasks'[i] = m_undo_tasks[k]
    BY <1>2, <1>3, <2>1
  <2>2. CASE Aimed(m_undo_tasks[i].task, m_undo_tasks[i].conn)'
    BY <2>2 DEF Aimed
  <2>. QED
    BY <1>0, <2>1, <2>2, UndoStep
<1>. QED
  BY <1>4, <1>5, ZenonT(40) DEF TasksAimRight

-------------------------------------------------------------------------------
(* The theorems. *)

\* The history of writes past m_ready_list only grows.
LEMMA OverrunStays == ASSUME Next PROVE overrun' \/ ~overrun
<1>1. ASSUME NEW f \in Fds, AddConnect(f) PROVE overrun' \/ ~overrun
  <2>1. overrun' = (overrun \/ f >= MAX_TASK)
    BY <1>1 DEF AddConnect
  <2>. QED
    BY <2>1, Zenon
<1>2. CASE overrun' = overrun
  BY <1>2, Zenon
<1>. QED
  BY <1>1, <1>2, ZenonT(40)
     DEF Next, LoopStep, Environment, Connect, Arrive, PeerResets, WorkerReads, Answer,
         EpollWait, AddConnectFails, AddConnectNoFd, AddConnectExhausted, RecvMsg,
         CloseConnect, NoTask, histVars

\* Every step, and stuttering, keeps the invariant.
LEMMA PoolInductive == ASSUME IInv, [Next]_vars PROVE IInv'
<1>1. CASE Next
  <2>1. DataOK /\ FlagsOK /\ TypeOK
    BY TypeSplit DEF IInv
  <2>2. KernelPart /\ PoolPart /\ NoStaleEvent /\ OneAcceptPerEdge /\ TasksAimRight
    BY DEF IInv, KernelPart, PoolPart
  <2>3. DataOK'
    BY <1>1, <2>1, <2>2, DataEnvironment, DataThreads, DataLoop DEF Next
  <2>4. TypeOK'
    <3>1. FlagsOK'
      BY <1>1, <2>1, FlagsStep
    <3>. QED
      BY <2>3, <3>1, Zenon DEF TypeOK, DataOK, FlagsOK
  <2>5. KernelPart'
    BY <1>1, <2>1, <2>2, KernelEnvironment, KernelThreads, KernelLoop DEF Next
  <2>6. OneAcceptPerEdge'
    BY <1>1, <2>1, <2>2, EdgeStep
  <2>7. PoolPart'
    BY <1>1, <2>1, <2>2, PoolStep
  <2>8. TasksAimRight'
    BY <1>1, <2>1, <2>2, OverrunStays, TasksAimStep
  <2>. QED
    BY <2>4, <2>5, <2>6, <2>7, <2>8 DEF IInv, KernelPart, PoolPart
<1>2. CASE UNCHANGED vars
  <2>1. UNCHANGED <<peer, readable, reset, fdConn, backlog, ready, events,
                    m_free_tasks, m_ready_list, m_socket, m_undo_tasks, jobs,
                    dead, arrivals, overrun, exhausted, missed>>
    BY <1>2, SMTT(30) DEF vars, kernelVars, poolVars, queueVars, histVars
  <2>2. TypeOK'
    BY <2>1 DEF IInv, TypeOK, Open
  <2>3. KernelInv' /\ NoStaleEvent' /\ OneAcceptPerEdge' /\ QueuedWereAccepted'
    BY <2>1, Zenon DEF IInv, KernelInv, NoStaleEvent, OneAcceptPerEdge, QueuedWereAccepted
  <2>4. TaskOwnership' /\ InBounds'
    <3>1. Open' = Open /\ FreeTasks' = FreeTasks
      BY <2>1, Zenon DEF Open, FreeTasks
    <3>. QED
      BY <2>1, <3>1, Zenon DEF IInv, TaskOwnership, InBounds
  <2>5. TasksAimRight'
    BY <2>1, Zenon DEF IInv, TasksAimRight, Open
  <2>. QED
    BY <2>2, <2>3, <2>4, <2>5 DEF IInv
<1>. QED
  BY <1>1, <1>2

\* IInv is an invariant of the loop, whatever peers, workers and the
\* application do.
THEOREM PoolInvariant == Spec => []IInv
BY PoolInit, PoolInductive, PTL DEF Spec

\* Tasks stay indices of m_tcp_tasks, and descriptors stay descriptors.
THEOREM PoolTypeCorrect == Spec => []TypeOK
<1>1. IInv => TypeOK
  BY DEF IInv
<1>. QED
  BY <1>1, PoolInvariant, PTL

\* The free stack, m_ready_list and m_socket always agree on who owns a task.
THEOREM TasksSharedOut == Spec => []TaskOwnership
<1>1. IInv => TaskOwnership
  BY DEF IInv
<1>. QED
  BY <1>1, PoolInvariant, PTL

\* A batch of epoll events holds no stale one, whatever was closed and
\* accepted while the earlier ones were handled.
THEOREM BatchNeverStale == Spec => []NoStaleEvent
<1>1. IInv => NoStaleEvent
  BY DEF IInv
<1>. QED
  BY <1>1, PoolInvariant, PTL

\* The connections that wait for ever in the backlog are the ones whose edge
\* was lost.
THEOREM EdgesCountBacklog == Spec => []OneAcceptPerEdge
<1>1. IInv => OneAcceptPerEdge
  BY DEF IInv
<1>. QED
  BY <1>1, PoolInvariant, PTL

\* add_connect() writes past m_ready_list before it finds the pool empty, for
\* any size of the pool and any limit on descriptors.
THEOREM OverrunBeforeExhaustion == Spec => []OverrunComesFirst
<1>1. ASSUME IInv, ~overrun
      PROVE  ~exhausted /\ \A e \in events : e.fd /= ListenFd => m_ready_list[e.fd] \in Tasks
  <2>1. \A e \in events : e.fd /= ListenFd => e.fd \in Open
    BY <1>1, SMTT(30) DEF IInv, TypeOK, NoStaleEvent, Open
  <2>. QED
    BY <1>1, <2>1 DEF IInv, InBounds, TaskOwnership
<1>2. IInv => OverrunComesFirst
  BY <1>1 DEF OverrunComesFirst
<1>. QED
  BY <1>2, PoolInvariant, PTL

\* Workers read from, and push_msg() writes to, the connection a message was
\* made for, as long as that connection is open.
THEOREM QueuesAimRight == Spec => []TasksAimRight
<1>1. IInv => TasksAimRight
  BY DEF IInv
<1>. QED
  BY <1>1, PoolInvariant, PTL

-------------------------------------------------------------------------------
(* The threads of TcpThreads: the invariant of TcpTaskPool with what each  *)
(* thread holds.                                                           *)

Threads == Workers \cup {App}

\* A descriptor still stands for connection c, if c is still open.
Reaches(f, c) == peer[c] = "open" => f \in Open /\ fdConn[f] = c

\* What one thread holds: a call was made for a connection that was accepted;
\* before the load its task is aimed at it, after it the descriptor is.
Held(r) ==
    /\ r \in [at : {"idle", "taken", "loaded"}, task : Tasks,
             conn : Conns \cup {None}, fd : Fds \cup {0}]
    /\ r.at /= "idle" => r.conn \in Conns /\ peer[r.conn] \in {"open", "closed"}
    /\ ~overrun =>
          /\ r.at = "taken" => Aimed(r.task, r.conn)
          /\ r.at = "loaded" => Reaches(r.fd, r.conn)

CallInv ==
    /\ DOMAIN call = Threads /\ call = [t \in Threads |-> call[t]]
    /\ \A t \in Threads : Held(call[t])

ThreadsIInv == IInv /\ CallInv

-------------------------------------------------------------------------------
(* The threads' steps keep the invariant of the pool. *)

\* Taking from a queue, reading bytes and dying disturb nothing the loop
\* thread relies on.
LEMMA QueuesShrink ==
    ASSUME IInv,
           UNCHANGED <<peer, reset, fdConn, backlog, ready, events, poolVars, histVars>>,
           readable' \in [Conns -> BOOLEAN], dead' \in BOOLEAN,
           jobs' = jobs \/ (jobs /= <<>> /\ jobs' = Tail(jobs)),
           m_undo_tasks' = m_undo_tasks
              \/ (m_undo_tasks /= <<>> /\ m_undo_tasks' = Tail(m_undo_tasks))
    PROVE  IInv'
<1>0. /\ UNCHANGED <<peer, reset, fdConn, backlog, ready, events, m_free_tasks,
                     m_ready_list, m_socket, arrivals, overrun, exhausted, missed>>
      /\ Open' = Open /\ FreeTasks' = FreeTasks
  BY Zenon DEF poolVars, histVars, Open, FreeTasks
<1> DEFINE J == [task : Tasks, conn : Conns]
           M == [task : Tasks, conn : Conns, close : BOOLEAN]
<1>1. jobs \in Seq(J) /\ m_undo_tasks \in Seq(M)
  BY DEF IInv, TypeOK
<1> HIDE DEF J, M
<1>2. /\ jobs' \in Seq(J)
      /\ \A i \in 1 .. Len(jobs') : \E k \in 1 .. Len(jobs) : jobs'[i] = jobs[k]
  <2>1. CASE jobs' = jobs
    BY <1>1, <2>1
  <2>2. CASE jobs /= <<>> /\ jobs' = Tail(jobs)
    <3>1. PICK n \in Nat :
            /\ n = Len(jobs) /\ jobs' \in Seq(J) /\ Len(jobs') = n - 1
            /\ \A i \in 1 .. n - 1 : jobs'[i] = jobs[i + 1]
      BY <1>1, <2>2, TailFacts
    <3>2. \A i \in 1 .. n - 1 : i + 1 \in 1 .. n
      OBVIOUS
    <3>. QED
      BY ONLY <3>1, <3>2
  <2>. QED
    BY <2>1, <2>2
<1>3. /\ m_undo_tasks' \in Seq(M)
      /\ \A i \in 1 .. Len(m_undo_tasks') :
            \E k \in 1 .. Len(m_undo_tasks) : m_undo_tasks'[i] = m_undo_tasks[k]
  <2>1. CASE m_undo_tasks' = m_undo_tasks
    BY <1>1, <2>1
  <2>2. CASE m_undo_tasks /= <<>> /\ m_undo_tasks' = Tail(m_undo_tasks)
    <3>1. PICK n \in Nat :
            /\ n = Len(m_undo_tasks)
            /\ m_undo_tasks' \in Seq(M) /\ Len(m_undo_tasks') = n - 1
            /\ \A i \in 1 .. n - 1 : m_undo_tasks'[i] = m_undo_tasks[i + 1]
      BY <1>1, <2>2, TailFacts
    <3>2. \A i \in 1 .. n - 1 : i + 1 \in 1 .. n
      OBVIOUS
    <3>. QED
      BY ONLY <3>1, <3>2
  <2>. QED
    BY <2>1, <2>2
<1>4. TypeOK'
  BY <1>0, <1>2, <1>3, Zenon DEF IInv, TypeOK, J, M
<1>5. KernelInv' /\ NoStaleEvent' /\ OneAcceptPerEdge'
  <2>1. KernelInv'
    BY <1>0, ZenonT(60) DEF IInv, KernelInv
  <2>2. NoStaleEvent'
    BY <1>0, Zenon DEF IInv, NoStaleEvent
  <2>3. OneAcceptPerEdge'
    <3>1. OneAcceptPerEdge
      BY Zenon DEF IInv
    <3>. QED
      BY ONLY <1>0, <3>1 DEF OneAcceptPerEdge
  <2>. QED
    BY <2>1, <2>2, <2>3
<1>6. TaskOwnership' /\ InBounds'
  BY <1>0, Zenon DEF IInv, TaskOwnership, InBounds
<1>7. QueuedWereAccepted'
  <2>0. QueuedWereAccepted
    BY Zenon DEF IInv
  <2>1. \A i \in 1 .. Len(jobs') : peer'[jobs'[i].conn] \in {"open", "closed"}
    BY ONLY <1>0, <1>2, <2>0 DEF QueuedWereAccepted
  <2>2. \A i \in 1 .. Len(m_undo_tasks') :
           peer'[m_undo_tasks'[i].conn] \in {"open", "closed"}
    BY ONLY <1>0, <1>3, <2>0 DEF QueuedWereAccepted
  <2>. QED
    BY <2>1, <2>2, Zenon DEF QueuedWereAccepted
<1>8. TasksAimRight'
  <2> SUFFICES ASSUME ~overrun PROVE TasksAimRight'
    BY <1>0, Zenon DEF TasksAimRight
  <2>1. \A i \in 1 .. Len(jobs') :
           peer'[jobs'[i].conn] = "open" =>
              /\ m_socket'[jobs'[i].task] \in Open'
              /\ fdConn'[m_socket'[jobs'[i].task]] = jobs'[i].conn
    <3> TAKE i \in 1 .. Len(jobs')
    <3>1. PICK k \in 1 .. Len(jobs) : jobs'[i] = jobs[k]
      BY <1>2
    <3>. QED
      BY <1>0, <3>1 DEF IInv, TasksAimRight
  <2>2. \A i \in 1 .. Len(m_undo_tasks') :
           peer'[m_undo_tasks'[i].conn] = "open" =>
              /\ m_socket'[m_undo_tasks'[i].task] \in Open'
              /\ fdConn'[m_socket'[m_undo_tasks'[i].task]] = m_undo_tasks'[i].conn
    <3> TAKE i \in 1 .. Len(m_undo_tasks')
    <3>1. PICK k \in 1 .. Len(m_undo_tasks) : m_undo_tasks'[i] = m_undo_tasks[k]
      BY <1>3
    <3>. QED
      BY <1>0, <3>1 DEF IInv, TasksAimRight
  <2>. QED
    BY <2>1, <2>2, Zenon DEF TasksAimRight
<1>. QED
  BY <1>4, <1>5, <1>6, <1>7, <1>8, Zenon DEF IInv

-------------------------------------------------------------------------------
(* The loop thread's steps keep what the other threads hold. *)

\* A connection that was accepted is never new again.
LEMMA AcceptedStays ==
    ASSUME IInv, LoopStep \/ Environment, NEW c \in Conns,
           peer[c] \in {"open", "closed"}
    PROVE  peer'[c] \in {"open", "closed"}
<1>0. peer \in [Conns -> {"new", "backlog", "open", "closed"}]
  BY DEF IInv, TypeOK
<1>1. CASE Environment
  <2>1. peer' = peer \/ \E d \in Conns : peer[d] = "new" /\ peer' = [peer EXCEPT ![d] = "backlog"]
    BY <1>1, Zenon DEF Environment, Connect, Arrive, PeerResets
  <2>. QED
    BY <1>0, <2>1
<1>2. ASSUME NEW d, NEW s \in {"open", "closed"}, peer' = [peer EXCEPT ![d] = s]
      PROVE  peer'[c] \in {"open", "closed"}
  BY <1>0, <1>2
<1>3. CASE peer' = peer
  BY <1>3
<1>4. CASE EpollWait \/ AddConnectNoFd \/ AddConnectFails
  BY <1>2, <1>3, <1>4, Zenon DEF EpollWait, AddConnectNoFd, AddConnectFails, kernelVars
<1>5. ASSUME NEW f \in Fds,
             \/ AddConnectExhausted(f) \/ AddConnect(f) \/ RecvMsg(f) \/ CloseConnect(f)
             \/ \E err \in BOOLEAN : NoTask(f, err)
      PROVE  peer'[c] \in {"open", "closed"}
  BY <1>2, <1>3, <1>5, Zenon
     DEF AddConnectExhausted, AddConnect, Accept, RecvMsg, CloseConnect, NoTask, kernelVars
<1>. QED
  BY <1>1, <1>4, <1>5, Zenon DEF LoopStep

\* accept() gives a connection a descriptor that stands for none.
LEMMA ReachAccept ==
    ASSUME IInv, NEW f \in Fds, Accept(f),
           NEW g, NEW c \in Conns, peer[c] \in {"open", "closed"}, Reaches(g, c)
    PROVE  Reaches(g, c)'
<1> DEFINE d == Head(backlog)
<1>1. /\ backlog /= <<>> /\ fdConn[f] = None
      /\ peer' = [peer EXCEPT ![d] = "open"]
      /\ fdConn' = [fdConn EXCEPT ![f] = d]
  BY DEF Accept, LowestFree
<1>2. d \in Conns /\ peer[d] = "backlog" /\ d /= c
  <2>0. backlog \in Seq(Conns)
    BY DEF IInv, TypeOK
  <2>1. PICK n \in Nat : n = Len(backlog) /\ n >= 1 /\ d \in Conns /\ d = backlog[1]
    BY <1>1, <2>0, TailFacts
  <2>2. 1 \in 1 .. n
    BY <2>1
  <2>. QED
    BY <2>1, <2>2, Zenon DEF IInv, KernelInv
<1> HIDE DEF d
<1>3. /\ peer \in [Conns -> {"new", "backlog", "open", "closed"}]
      /\ fdConn \in [Fds -> Conns \cup {None}]
  BY DEF IInv, TypeOK
<1> SUFFICES ASSUME peer'[c] = "open" PROVE g \in Open' /\ fdConn'[g] = c
  BY DEF Reaches
<1>4. peer[c] = "open"
  BY <1>1, <1>2, <1>3
<1>5. g \in Fds /\ fdConn[g] = c /\ g /= f
  BY <1>1, <1>4, PoolAssumption DEF Reaches, Open
<1>6. fdConn'[g] = c
  BY <1>1, <1>3, <1>5
<1>. QED
  BY <1>5, <1>6, PoolAssumption DEF Open

\* close_connect() closes a descriptor with the connection it stands for.
LEMMA ReachClose ==
    ASSUME IInv, NEW f \in Fds, CloseConnect(f), NEW g, NEW c \in Conns, Reaches(g, c)
    PROVE  Reaches(g, c)'
<1>0. DataOK /\ KernelPart
  BY TypeSplit DEF IInv, KernelPart
<1>1. /\ Consume(f, TRUE)
      /\ peer' = [peer EXCEPT ![fdConn[f]] = "closed"]
      /\ fdConn' = [fdConn EXCEPT ![f] = None]
  BY Zenon DEF CloseConnect
<1>2. fdConn[f] \in Conns
  BY <1>0, <1>1, EventConn, Zenon
<1>3. /\ peer \in [Conns -> {"new", "backlog", "open", "closed"}]
      /\ fdConn \in [Fds -> Conns \cup {None}]
  BY DEF IInv, TypeOK
<1> SUFFICES ASSUME peer'[c] = "open" PROVE g \in Open' /\ fdConn'[g] = c
  BY DEF Reaches
<1>4. peer[c] = "open" /\ c /= fdConn[f]
  BY <1>1, <1>2, <1>3
<1>5. g \in Fds /\ fdConn[g] = c /\ g /= f
  BY <1>4 DEF Reaches, Open
<1>6. fdConn'[g] = c
  BY <1>1, <1>3, <1>5
<1>. QED
  BY <1>5, <1>6, PoolAssumption DEF Open

\* The loop thread and the peers keep a call in progress on its connection.
LEMMA ReachStep ==
    ASSUME IInv, LoopStep \/ Environment,
           NEW g, NEW c \in Conns, peer[c] \in {"open", "closed"}, Reaches(g, c)
    PROVE  Reaches(g, c)'
<1>0. peer \in [Conns -> {"new", "backlog", "open", "closed"}]
  BY DEF IInv, TypeOK
<1>1. ASSUME fdConn' = fdConn, peer'[c] = "open" => peer[c] = "open"
      PROVE  Reaches(g, c)'
  BY <1>1, Zenon DEF Reaches, Open
<1>2. CASE Environment
  <2>1. fdConn' = fdConn
    BY <1>2, Zenon DEF Environment, Connect, Arrive, PeerResets
  <2>2. peer'[c] = "open" => peer[c] = "open"
    <3>1. peer' = peer \/ \E d \in Conns : peer' = [peer EXCEPT ![d] = "backlog"]
      BY <1>2, Zenon DEF Environment, Connect, Arrive, PeerResets
    <3>. QED
      BY <1>0, <3>1
  <2>. QED
    BY <1>1, <2>1, <2>2
<1>3. CASE EpollWait \/ AddConnectNoFd
  BY <1>1, <1>3, Zenon DEF EpollWait, AddConnectNoFd, kernelVars
<1>4. CASE AddConnectFails
  <2>1. fdConn' = fdConn /\ peer' = [peer EXCEPT ![Head(backlog)] = "closed"]
    BY <1>4, Zenon DEF AddConnectFails
  <2>2. peer'[c] = "open" => peer[c] = "open"
    BY <1>0, <2>1
  <2>. QED
    BY <1>1, <2>1, <2>2
<1>5. ASSUME NEW f \in Fds, RecvMsg(f) \/ \E err \in BOOLEAN : NoTask(f, err)
      PROVE  Reaches(g, c)'
  BY <1>1, <1>5, Zenon DEF RecvMsg, NoTask, kernelVars
<1>6. ASSUME NEW f \in Fds, AddConnectExhausted(f) \/ AddConnect(f)
      PROVE  Reaches(g, c)'
  <2>1. Accept(f)
    BY <1>6, Zenon DEF AddConnectExhausted, AddConnect
  <2>. QED
    BY <2>1, ReachAccept, Zenon
<1>7. ASSUME NEW f \in Fds, CloseConnect(f) PROVE Reaches(g, c)'
  BY <1>7, ReachClose, Zenon
<1>. QED
  BY <1>2, <1>3, <1>4, <1>5, <1>6, <1>7, Zenon DEF LoopStep

\* What a thread holds stays good whatever the loop thread and peers do.
LEMMA HeldLoop ==
    ASSUME IInv, ~dead, LoopStep \/ Environment, NEW r, Held(r)
    PROVE  Held(r)'
<1>0. Next
  BY DEF Next
<1>1. DataOK /\ KernelPart /\ PoolPart
  BY TypeSplit DEF IInv, KernelPart, PoolPart
<1>2. CASE r.at = "idle"
  BY <1>2, Zenon DEF Held
<1>3. CASE r.at /= "idle"
  <2>1. /\ r.task \in Tasks /\ r.conn \in Conns
        /\ peer[r.conn] \in {"open", "closed"}
    BY <1>3 DEF Held
  <2>2. peer'[r.conn] \in {"open", "closed"}
    BY <2>1, AcceptedStays
  <2>3. ASSUME ~overrun', r.at = "taken" PROVE Aimed(r.task, r.conn)'
    <3>1. ~overrun
      BY <1>0, <2>3, OverrunStays, Zenon
    <3>2. Aimed(r.task, r.conn)
      BY <2>3, <3>1, Zenon DEF Held
    <3> DEFINE t == r.task
               c == r.conn
    <3>3. t \in Tasks /\ c \in Conns /\ peer[c] \in {"open", "closed"} /\ Aimed(t, c)
      BY <2>1, <3>2
    <3> HIDE DEF t, c
    <3>4. Aimed(t, c)'
      BY <1>0, <1>1, <3>1, <3>3, AimStep
    <3>. QED
      BY <3>4 DEF t, c
  <2>4. ASSUME ~overrun', r.at = "loaded" PROVE Reaches(r.fd, r.conn)'
    <3>1. ~overrun
      BY <1>0, <2>4, OverrunStays, Zenon
    <3>2. Reaches(r.fd, r.conn)
      BY <2>4, <3>1, Zenon DEF Held
    <3> DEFINE g == r.fd
               c == r.conn
    <3>3. c \in Conns /\ peer[c] \in {"open", "closed"} /\ Reaches(g, c)
      BY <2>1, <3>2
    <3> HIDE DEF g, c
    <3>4. Reaches(g, c)'
      BY <3>3, ReachStep
    <3>. QED
      BY <3>4 DEF g, c
  <2>5. r \in [at : {"idle", "taken", "loaded"}, task : Tasks,
              conn : Conns \cup {None}, fd : Fds \cup {0}]
    BY DEF Held
  <2>. QED
    BY <2>1, <2>2, <2>3, <2>4, <2>5, Zenon DEF Held
<1>. QED
  BY <1>2, <1>3

\* Nor do the other threads' calls disturb it.
LEMMA HeldKept ==
    ASSUME UNCHANGED <<peer, fdConn, m_socket, overrun>>, NEW r, Held(r)
    PROVE  Held(r)'
<1>1. /\ peer' = peer /\ fdConn' = fdConn /\ m_socket' = m_socket /\ overrun' = overrun
      /\ Open' = Open
  BY Zenon DEF Open
<1>2. Held(r)
  OBVIOUS
<1>. QED
  BY ONLY <1>1, <1>2 DEF Held, Aimed, Reaches

\* A step of one thread changes only what that thread holds.
LEMMA OneThread ==
    ASSUME CallInv, NEW t \in Threads, NEW r,
           UNCHANGED <<peer, fdConn, m_socket, overrun>>,
           call' = [call EXCEPT ![t] = r], Held(r)
    PROVE  CallInv'
<1>1. /\ call = [u \in Threads |-> call[u]]
      /\ call'[t] = r
      /\ \A u \in Threads : u /= t => call'[u] = call[u]
      /\ DOMAIN call' = Threads /\ call' = [u \in Threads |-> call'[u]]
  BY Zenon DEF CallInv
<1>2. ASSUME NEW u \in Threads PROVE Held(call[u])'
  <2>1. PICK s : s = IF u = t THEN r ELSE call[u]
    OBVIOUS
  <2>2. Held(s) /\ call'[u] = s
    BY <1>1, <2>1, Zenon DEF CallInv
  <2>3. Held(s)'
    BY <2>2, HeldKept
  <2>. QED
    BY <2>2, <2>3
<1>. QED
  BY <1>1, <1>2, Zenon DEF CallInv

-------------------------------------------------------------------------------
(* One step per action. *)

\* A job or a message that is taken is aimed at its connection.
LEMMA TakenHeld ==
    ASSUME IInv, NEW m, m.task \in Tasks, m.conn \in Conns,
           peer[m.conn] \in {"open", "closed"}, ~overrun => Aimed(m.task, m.conn)
    PROVE  Held(Taken(m))
<1>1. /\ Taken(m) \in [at : {"idle", "taken", "loaded"}, task : Tasks,
                      conn : Conns \cup {None}, fd : Fds \cup {0}]
      /\ Taken(m).at = "taken" /\ Taken(m).task = m.task /\ Taken(m).conn = m.conn
  BY DEF Taken
<1>. QED
  BY <1>1, Zenon DEF Held

\* A thread that makes no call holds nothing.
LEMMA NoCallHeld == Held(NoCall)
<1>1. /\ NoCall \in [at : {"idle", "taken", "loaded"}, task : Tasks,
                    conn : Conns \cup {None}, fd : Fds \cup {0}]
      /\ NoCall.at = "idle"
  BY PoolAssumption DEF NoCall, Tasks
<1>. QED
  BY <1>1 DEF Held

\* A worker takes a job, aimed since it was queued.
LEMMA TakeJobStep ==
    ASSUME ThreadsIInv, NEW w \in Workers, TakeJob(w)
    PROVE  ThreadsIInv'
<1> DEFINE m == Head(jobs)
<1>1. /\ jobs /= <<>> /\ jobs' = Tail(jobs)
      /\ call' = [call EXCEPT ![w] = Taken(m)]
      /\ UNCHANGED <<peer, readable, reset, fdConn, backlog, ready, events, poolVars,
                     m_undo_tasks, dead, histVars>>
  BY DEF TakeJob, kernelVars
<1>2. /\ UNCHANGED <<peer, fdConn, m_socket, overrun>>
      /\ readable' \in [Conns -> BOOLEAN]
  BY <1>1 DEF poolVars, histVars, ThreadsIInv, IInv, TypeOK
<1>3. dead' \in BOOLEAN
  BY <1>1, Zenon DEF ThreadsIInv, IInv, TypeOK
<1>4. IInv'
  <2>1. /\ IInv /\ UNCHANGED <<peer, reset, fdConn, backlog, ready, events, poolVars, histVars>>
        /\ jobs' = jobs \/ (jobs /= <<>> /\ jobs' = Tail(jobs))
        /\ m_undo_tasks' = m_undo_tasks
              \/ (m_undo_tasks /= <<>> /\ m_undo_tasks' = Tail(m_undo_tasks))
    BY <1>1, <1>2, Zenon DEF ThreadsIInv
  <2>. QED
    BY ONLY <1>2, <1>3, <2>1, QueuesShrink, Zenon
<1>5. Held(Taken(m))
  <2>1. jobs \in Seq([task : Tasks, conn : Conns]) /\ DataOK
    BY TypeSplit DEF ThreadsIInv, IInv, TypeOK
  <2>2. PICK n \in Nat : n = Len(jobs) /\ n >= 1 /\ m = jobs[1]
    BY <1>1, <2>1, TailFacts
  <2>3. 1 \in 1 .. Len(jobs)
    BY <2>2
  <2>4. /\ m.task \in Tasks /\ m.conn \in Conns
        /\ peer[m.conn] \in {"open", "closed"}
    BY <2>1, <2>2, <2>3, QueueTypes DEF ThreadsIInv, IInv, QueuedWereAccepted
  <2>5. ~overrun => Aimed(m.task, m.conn)
    BY <2>2, <2>3 DEF ThreadsIInv, IInv, TasksAimRight, Aimed
  <2>. QED
    BY <2>4, <2>5, TakenHeld, Zenon DEF ThreadsIInv
<1>6. CallInv'
  <2> HIDE DEF m
  <2>1. PICK r : r = Taken(m)
    OBVIOUS
  <2>. QED
    BY <1>1, <1>2, <1>5, <2>1, OneThread, Zenon DEF ThreadsIInv, Threads
<1>. QED
  BY <1>4, <1>6 DEF ThreadsIInv

\* The application takes a message, aimed since it was queued.
LEMMA TakeMessageStep ==
    ASSUME ThreadsIInv, TakeMessage
    PROVE  ThreadsIInv'
<1> DEFINE m == Head(m_undo_tasks)
<1>1. /\ m_undo_tasks /= <<>> /\ m_undo_tasks' = Tail(m_undo_tasks)
      /\ call' = [call EXCEPT ![App] = Taken(m)]
      /\ UNCHANGED <<peer, readable, reset, fdConn, backlog, ready, events, poolVars,
                     jobs, histVars>>
  BY Zenon DEF TakeMessage, kernelVars
<1>2. /\ UNCHANGED <<peer, fdConn, m_socket, overrun>>
      /\ readable' \in [Conns -> BOOLEAN]
  BY <1>1 DEF poolVars, histVars, ThreadsIInv, IInv, TypeOK
<1>3. dead' \in BOOLEAN
  BY Zenon DEF TakeMessage
<1>4. IInv'
  <2>1. /\ IInv /\ UNCHANGED <<peer, reset, fdConn, backlog, ready, events, poolVars, histVars>>
        /\ jobs' = jobs \/ (jobs /= <<>> /\ jobs' = Tail(jobs))
        /\ m_undo_tasks' = m_undo_tasks
              \/ (m_undo_tasks /= <<>> /\ m_undo_tasks' = Tail(m_undo_tasks))
    BY <1>1, <1>2, Zenon DEF ThreadsIInv
  <2>. QED
    BY ONLY <1>2, <1>3, <2>1, QueuesShrink, Zenon
<1>5. Held(Taken(m))
  <2>1. /\ m_undo_tasks \in Seq([task : Tasks, conn : Conns, close : BOOLEAN])
        /\ DataOK
    BY TypeSplit DEF ThreadsIInv, IInv, TypeOK
  <2>2. PICK n \in Nat : n = Len(m_undo_tasks) /\ n >= 1 /\ m = m_undo_tasks[1]
    BY <1>1, <2>1, TailFacts
  <2>3. 1 \in 1 .. Len(m_undo_tasks)
    BY <2>2
  <2>4. /\ m.task \in Tasks /\ m.conn \in Conns
        /\ peer[m.conn] \in {"open", "closed"}
    BY <2>1, <2>2, <2>3, QueueTypes DEF ThreadsIInv, IInv, QueuedWereAccepted
  <2>5. ~overrun => Aimed(m.task, m.conn)
    BY <2>2, <2>3 DEF ThreadsIInv, IInv, TasksAimRight, Aimed
  <2>. QED
    BY <2>4, <2>5, TakenHeld, Zenon DEF ThreadsIInv
<1>6. CallInv'
  <2> HIDE DEF m
  <2>1. PICK r : r = Taken(m)
    OBVIOUS
  <2>. QED
    BY <1>1, <1>2, <1>5, <2>1, OneThread, Zenon DEF ThreadsIInv, Threads
<1>. QED
  BY <1>4, <1>6 DEF ThreadsIInv

\* The load copies the aim of the task to the descriptor.
LEMMA LoadStep ==
    ASSUME ThreadsIInv, NEW t \in Threads, LoadSocket(t)
    PROVE  ThreadsIInv'
<1> DEFINE R == [at : {"idle", "taken", "loaded"}, task : Tasks,
                 conn : Conns \cup {None}, fd : Fds \cup {0}]
<1>1. /\ UNCHANGED vars /\ call[t].at = "taken"
      /\ call' = [call EXCEPT ![t].at = "loaded", ![t].fd = m_socket[call[t].task]]
  BY DEF LoadSocket
<1>2. IInv' /\ UNCHANGED <<peer, fdConn, m_socket, overrun>>
  BY <1>1, PoolInductive DEF ThreadsIInv, vars, kernelVars, poolVars, histVars
<1>3. PICK r : r = [at |-> "loaded", task |-> call[t].task, conn |-> call[t].conn,
                    fd |-> m_socket[call[t].task]]
  BY Zenon
<1>4. call[t] \in R /\ Held(call[t])
  BY DEF ThreadsIInv, CallInv, Held
<1>5. call' = [call EXCEPT ![t] = r]
  <2>1. call = [u \in Threads |-> call[u]]
    BY DEF ThreadsIInv, CallInv
  <2>2. PICK c : c = call[t]
    OBVIOUS
  <2>3. [[c EXCEPT !.at = "loaded"] EXCEPT !.fd = m_socket[c.task]] = r
    <3>1. PICK f : f = m_socket[c.task]
      OBVIOUS
    <3>2. PICK a, b, d, e : c = [at |-> a, task |-> b, conn |-> d, fd |-> e]
      BY <1>4, <2>2, Zenon
    <3>3. r = [at |-> "loaded", task |-> b, conn |-> d, fd |-> f]
      <4>1. c.task = b /\ c.conn = d
        BY ONLY <3>2, Zenon
      <4>. QED
        BY ONLY <1>3, <2>2, <3>1, <4>1, Zenon
    <3>4. [c EXCEPT !.at = "loaded"] = [at |-> "loaded", task |-> b, conn |-> d, fd |-> e]
      BY ONLY <3>2, SMTT(30)
    <3>5. [[at |-> "loaded", task |-> b, conn |-> d, fd |-> e] EXCEPT !.fd = f] = r
      BY ONLY <3>3, SMTT(30)
    <3>. QED
      BY ONLY <3>1, <3>4, <3>5, Zenon
  <2>4. call' = [call EXCEPT ![t] = [[c EXCEPT !.at = "loaded"] EXCEPT !.fd = m_socket[c.task]]]
    BY <1>1, <2>1, <2>2, Zenon
  <2>. QED
    BY <2>3, <2>4, Zenon
<1>6. Held(r)
  <2>1. m_socket[call[t].task] \in Fds \cup {0}
    BY <1>4 DEF ThreadsIInv, IInv, TypeOK
  <2>2. /\ r \in R /\ r.at = "loaded" /\ r.conn = call[t].conn
        /\ r.fd = m_socket[call[t].task]
    BY <1>3, <1>4, <2>1
  <2>3. call[t].conn \in Conns /\ peer[call[t].conn] \in {"open", "closed"}
    BY <1>1, <1>4 DEF Held
  <2>4. ~overrun => Reaches(r.fd, r.conn)
    BY <1>1, <1>4, <2>2 DEF Held, Aimed, Reaches
  <2>. QED
    <3>1. r.conn \in Conns /\ peer[r.conn] \in {"open", "closed"}
      BY <2>2, <2>3, Zenon
    <3>2. r.at /= "taken"
      BY <2>2
    <3>. QED
      BY <2>2, <2>4, <3>1, <3>2, Zenon DEF Held
<1>7. CallInv'
  BY <1>2, <1>5, <1>6, OneThread, Zenon DEF ThreadsIInv
<1>. QED
  BY <1>2, <1>7 DEF ThreadsIInv

\* read() of a descriptor that was closed is tried again with what m_socket is
\* then: its connection is closed too.
LEMMA ReadStep ==
    ASSUME ThreadsIInv, NEW w \in Workers, ReadSocket(w)
    PROVE  ThreadsIInv'
<1> DEFINE f == call[w].fd
           R == [at : {"idle", "taken", "loaded"}, task : Tasks,
                 conn : Conns \cup {None}, fd : Fds \cup {0}]
<1>0. /\ call[w] \in R /\ Held(call[w]) /\ w \in Threads
      /\ readable \in [Conns -> BOOLEAN] /\ reset \in [Conns -> BOOLEAN]
      /\ dead \in BOOLEAN /\ fdConn \in [Fds -> Conns \cup {None}]
  BY Zenon DEF ThreadsIInv, CallInv, Held, Threads, IInv, TypeOK
<1>1. /\ call[w].at = "loaded"
      /\ call' = [call EXCEPT ![w] = IF Closed(f) THEN [call[w] EXCEPT !.at = "taken"]
                                                  ELSE NoCall]
      /\ UNCHANGED <<peer, reset, fdConn, backlog, ready, events, poolVars, queueVars,
                     histVars>>
  BY Zenon DEF ReadSocket
<1>2. UNCHANGED <<peer, fdConn, m_socket, overrun, jobs, m_undo_tasks>>
  BY <1>1 DEF poolVars, queueVars, histVars
<1>3. readable' \in [Conns -> BOOLEAN] /\ dead' \in BOOLEAN
  <2>1. CASE f = 0 \/ Closed(f)
    <3>1. readable' = readable /\ dead' = dead
      BY <2>1, Zenon DEF ReadSocket
    <3>. QED
      BY <1>0, <3>1, Zenon
  <2>2. CASE ~(f = 0 \/ Closed(f))
    <3>1. \/ readable' = readable
          \/ readable' = [readable EXCEPT ![fdConn[f]] = FALSE]
      BY <2>2, Zenon DEF ReadSocket
    <3>2. dead' = (~readable[fdConn[f]] /\ ~reset[fdConn[f]])
      BY <2>2, Zenon DEF ReadSocket
    <3>3. readable' \in [Conns -> BOOLEAN]
      BY <1>0, <3>1, Zenon
    <3>4. dead' \in BOOLEAN
      BY <3>2, Zenon
    <3>. QED
      BY <3>3, <3>4
  <2>. QED
    BY <2>1, <2>2
<1>4. IInv'
  <2>1. /\ IInv /\ UNCHANGED <<peer, reset, fdConn, backlog, ready, events, poolVars, histVars>>
        /\ jobs' = jobs \/ (jobs /= <<>> /\ jobs' = Tail(jobs))
        /\ m_undo_tasks' = m_undo_tasks
              \/ (m_undo_tasks /= <<>> /\ m_undo_tasks' = Tail(m_undo_tasks))
    BY <1>1, <1>2, Zenon DEF ThreadsIInv
  <2>. QED
    BY ONLY <1>2, <1>3, <2>1, QueuesShrink, Zenon
<1>5. PICK r : r = IF Closed(f) THEN [call[w] EXCEPT !.at = "taken"] ELSE NoCall
  BY Zenon
<1>6. Held(r)
  <2>1. CASE Closed(f)
    <3>1. r \in R /\ r.at = "taken" /\ r.task = call[w].task /\ r.conn = call[w].conn
      BY <1>0, <1>5, <2>1, SMTT(30)
    <3>2. r.conn \in Conns /\ peer[r.conn] \in {"open", "closed"}
      BY <1>0, <1>1, <3>1 DEF Held
    <3>3. f \notin Open
      BY <2>1 DEF Closed, Open
    <3>4. ~overrun => Aimed(r.task, r.conn)
      BY <1>0, <1>1, <3>1, <3>3 DEF Held, Reaches, Aimed
    <3>. QED
      <4>1. r.at /= "loaded"
        BY <3>1
      <4>. QED
        BY <3>1, <3>2, <3>4, <4>1, Zenon DEF Held
  <2>2. CASE ~Closed(f)
    BY <1>5, <2>2, NoCallHeld
  <2>. QED
    BY <2>1, <2>2
<1>7. CallInv'
  BY <1>0, <1>1, <1>2, <1>5, <1>6, OneThread, Zenon DEF ThreadsIInv
<1>. QED
  BY <1>4, <1>7 DEF ThreadsIInv

\* The application's write() ends its call.
LEMMA WriteStep ==
    ASSUME ThreadsIInv, WriteSocket
    PROVE  ThreadsIInv'
<1>1. /\ call' = [call EXCEPT ![App] = NoCall]
      /\ UNCHANGED <<peer, readable, reset, fdConn, backlog, ready, events, poolVars,
                     queueVars, histVars>>
  BY Zenon DEF WriteSocket, kernelVars
<1>2. /\ UNCHANGED <<peer, fdConn, m_socket, overrun, jobs, m_undo_tasks>>
      /\ readable' \in [Conns -> BOOLEAN]
  BY <1>1 DEF poolVars, queueVars, histVars, ThreadsIInv, IInv, TypeOK
<1>3. dead' \in BOOLEAN
  BY Zenon DEF WriteSocket
<1>4. IInv'
  <2>1. /\ IInv /\ UNCHANGED <<peer, reset, fdConn, backlog, ready, events, poolVars, histVars>>
        /\ jobs' = jobs \/ (jobs /= <<>> /\ jobs' = Tail(jobs))
        /\ m_undo_tasks' = m_undo_tasks
              \/ (m_undo_tasks /= <<>> /\ m_undo_tasks' = Tail(m_undo_tasks))
    BY <1>1, <1>2, Zenon DEF ThreadsIInv
  <2>. QED
    BY ONLY <1>2, <1>3, <2>1, QueuesShrink, Zenon
<1>5. CallInv'
  <2>1. PICK r : r = NoCall
    OBVIOUS
  <2>. QED
    BY <1>1, <1>2, <2>1, NoCallHeld, OneThread, Zenon DEF ThreadsIInv, Threads
<1>. QED
  BY <1>4, <1>5 DEF ThreadsIInv

\* The loop thread runs between the load of m_socket and the call.
LEMMA LoopThreadStep ==
    ASSUME ThreadsIInv, ~dead, LoopStep \/ Environment, UNCHANGED call
    PROVE  ThreadsIInv'
<1>1. IInv'
  BY PoolInductive DEF ThreadsIInv, Next
<1>2. ASSUME NEW t \in Threads PROVE Held(call[t])'
  <2>1. PICK r : r = call[t]
    OBVIOUS
  <2>2. Held(r) /\ call'[t] = r
    BY <2>1 DEF ThreadsIInv, CallInv
  <2>3. Held(r)'
    BY <2>2, HeldLoop DEF ThreadsIInv
  <2>. QED
    BY <2>2, <2>3
<1>. QED
  BY <1>1, <1>2, Zenon DEF ThreadsIInv, CallInv

\* Every step, and stuttering, keeps the invariant of the threads.
LEMMA ThreadsInductive ==
    ASSUME ThreadsIInv, [ThreadsNext]_allVars
    PROVE  ThreadsIInv'
<1>1. CASE UNCHANGED allVars
  <2>1. UNCHANGED <<vars, call, peer, fdConn, m_socket, overrun>>
    BY <1>1 DEF allVars, vars, kernelVars, poolVars, histVars
  <2>2. IInv'
    BY <2>1, PoolInductive DEF ThreadsIInv
  <2>3. ASSUME NEW t \in Threads PROVE Held(call[t])'
    <3>1. PICK r : r = call[t]
      OBVIOUS
    <3>2. Held(r) /\ call'[t] = r
      BY <2>1, <3>1 DEF ThreadsIInv, CallInv
    <3>3. Held(r)'
      BY <2>1, <3>2, HeldKept
    <3>. QED
      BY <3>2, <3>3
  <2>. QED
    BY <2>1, <2>2, <2>3, Zenon DEF ThreadsIInv, CallInv
<1>2. CASE ThreadsNext
  BY <1>2, LoopThreadStep, TakeJobStep, LoadStep, ReadStep, TakeMessageStep, WriteStep,
     Zenon DEF ThreadsNext, Threads
<1>. QED
  BY <1>1, <1>2

\* The threads start in it.
LEMMA ThreadsStart == ThreadsInit => ThreadsIInv
<1> SUFFICES ASSUME ThreadsInit PROVE ThreadsIInv
  OBVIOUS
<1>1. IInv /\ call = [t \in Threads |-> NoCall]
  BY PoolInit DEF ThreadsInit, Threads
<1>. QED
  BY <1>1, NoCallHeld, Zenon DEF ThreadsIInv, CallInv

-------------------------------------------------------------------------------
(* The theorems. *)

\* The invariant of TcpTaskPool holds too when the reads of the workers and the
\* writes of the application take several steps, and every thread in the
\* middle of one holds what it may use.
THEOREM ThreadsInvariant == ThreadsSpec => []ThreadsIInv
BY ThreadsStart, ThreadsInductive, PTL DEF ThreadsSpec

\* recv_buf() reads from, and send_buf() writes to, the connection the job or
\* the message was made for as long as it is open, although the descriptor was
\* loaded before the loop thread's last closes and accepts.
THEOREM CallsReachTheirConnection == ThreadsSpec => []CallsAimRight
<1>1. ThreadsIInv => CallsAimRight
  <2> SUFFICES ASSUME ThreadsIInv, ~overrun, NEW t \in Workers \cup {App},
                      call[t].at = "loaded", peer[call[t].conn] = "open"
               PROVE  call[t].fd \in Open /\ fdConn[call[t].fd] = call[t].conn
    BY Zenon DEF CallsAimRight
  <2>1. Held(call[t])
    BY Zenon DEF ThreadsIInv, CallInv, Threads
  <2>. QED
    BY <2>1, Zenon DEF Held, Reaches
<1>. QED
  BY <1>1, ThreadsInvariant, PTL
===============================================================================
