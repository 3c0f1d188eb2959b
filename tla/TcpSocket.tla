------------------------------ MODULE TcpSocket ------------------------------
(***************************************************************************)
(* One TcpSocket of net/ and the three kinds of thread that use it at the   *)
(* same time: the loop (recv_msg(), close_connect()), workers (recv_buf())  *)
(* and the application (pull_msg(), the reply, push_msg() -> send_buf()).   *)
(* m_lock guards only part of what they share, so a step here is one load   *)
(* or store of shared memory, or what m_lock makes one; taking a lock or an *)
(* element of a queue is one step with the store that follows it, because   *)
(* a thread that stops in between is one that starts later.                 *)
(*                                                                          *)
(* A byte is a number: 0 is '\0', One the "1" of Buffer's constructor,      *)
(* request i of the peer is the single byte i, and Input is what standard   *)
(* input, whose descriptor reset() stores in m_socket, may hold.            *)
(***************************************************************************)
EXTENDS Integers, Sequences

CONSTANTS Workers,
          Loop, App, Free,   \* the other two threads; nobody holds m_lock
          Echo,              \* net/main.cpp answers the request, test/test.cpp hello
          ReadMax,           \* BUFFER_SIZE - 1
          Stdin,             \* how a read() of standard input returns, if it does
          MaxSends           \* bound: requests of the peer

ASSUME SocketAssumption ==
    /\ Loop \notin Workers /\ App \notin Workers /\ Free \notin Workers
    /\ Loop /= App /\ Loop /= Free /\ App /= Free
    /\ Echo \in BOOLEAN
    /\ ReadMax \in Nat \ {0}
    /\ MaxSends \in Nat

Threads == Workers \cup {Loop, App}
One == -1
Input == -2
Hello == <<104, 101, 108, 108, 111, 0>>

VARIABLES inbox,              \* kernel: bytes not read
          sends,              \* kernel: requests sent so far
          peer,               \* kernel: "up", "fin" (sent a FIN) or "rst"
          edge,               \* epoll has the descriptor on its ready list
          m_socket,           \* 1 for the connection's descriptor, or 0
          m_send_pos, m_reference_count, m_lock,
          m_send_buf, m_recv_buf,
          m_undo_tasks,       \* the messages the application has not pulled
          jobs,               \* how often the socket is on the pool's list
          refused,            \* history: the job that was to read inbox was refused
          pc,
          temp,               \* what a thread has loaded: a number
          count,              \* m_reference_count as a thread has loaded it
          data,               \* what a thread has copied: bytes
          dead,
          reply               \* history: what the application answers

kernelVars == <<inbox, sends, peer, edge>>
socketVars == <<m_socket, m_send_pos, m_reference_count, m_lock, m_send_buf, m_recv_buf>>
queueVars == <<m_undo_tasks, jobs, refused>>
threadVars == <<pc, temp, count, data>>
vars == <<kernelVars, socketVars, queueVars, threadVars, dead, reply>>

-------------------------------------------------------------------------------
(* Buffer: the bytes written so far, zeros behind them, and m_length. *)

\* The first n bytes.
Bytes(b, n) == [i \in 1 .. n |-> IF i <= Len(b) THEN b[i] ELSE 0]

\* memcpy(m_buf, d, Len(d)).
Overwrite(b, d) == d \o SubSeq(b, Len(d) + 1, Len(b))

Get(buffer) == Bytes(buffer.buf, buffer.length)

Constructed == [buf |-> <<One>>, length |-> 1]
Clean == [buf |-> <<>>, length |-> 0]

Init ==
    /\ inbox = <<>> /\ sends = 0 /\ peer = "up" /\ edge = FALSE
    /\ m_socket = 1 /\ m_send_pos = 6 /\ m_reference_count = 1 /\ m_lock = Free
    /\ m_send_buf = Constructed /\ m_recv_buf = Constructed
    /\ m_undo_tasks = <<>> /\ jobs = 0 /\ refused = FALSE
    /\ pc = [t \in Threads |-> "idle"]
    /\ temp = [t \in Threads |-> 0]
    /\ count = [t \in Threads |-> 0]
    /\ data = [t \in Threads |-> <<>>]
    /\ dead = FALSE
    /\ reply = <<>>

Goto(t, from, to) == pc[t] = from /\ pc' = [pc EXCEPT ![t] = to]
Load(t, n) == temp' = [temp EXCEPT ![t] = n]
Copy(t, d) == data' = [data EXCEPT ![t] = d]
Forget(t) == Load(t, 0) /\ Copy(t, <<>>)
Lock(t) == m_lock = Free /\ m_lock' = t

-------------------------------------------------------------------------------
(* The peer (external). *)

PeerSends ==
    /\ peer = "up" /\ sends < MaxSends
    /\ sends' = sends + 1
    /\ inbox' = Append(inbox, sends')
    /\ edge' = TRUE
    /\ UNCHANGED <<peer, socketVars, queueVars, threadVars, dead, reply>>

PeerCloses ==
    /\ peer = "up"
    /\ peer' = "fin"
    /\ edge' = TRUE
    /\ UNCHANGED <<inbox, sends, socketVars, queueVars, threadVars, dead, reply>>

PeerResets ==
    /\ peer /= "rst"
    /\ peer' = "rst"
    /\ inbox' = <<>>
    /\ edge' = TRUE
    /\ refused' = FALSE
    /\ UNCHANGED <<sends, socketVars, m_undo_tasks, jobs, threadVars, dead, reply>>

-------------------------------------------------------------------------------
(* The loop: recv_msg() copies m_recv_buf into a message, without m_lock,   *)
(* before a worker has read anything.                                       *)

LoopEpollIn ==
    /\ edge /\ m_socket = 1
    /\ peer = "fin" \/ (peer = "up" /\ inbox /= <<>>)
    /\ edge' = FALSE
    /\ Goto(Loop, "idle", "length")
    /\ UNCHANGED <<inbox, sends, peer, socketVars, queueVars, temp, count, data, dead, reply>>

LoopGetLength ==
    /\ Goto(Loop, "length", "copy")
    /\ Load(Loop, m_recv_buf.length)
    /\ UNCHANGED <<kernelVars, socketVars, queueVars, count, data, dead, reply>>

LoopGetCopy ==
    /\ Goto(Loop, "copy", "return")
    /\ Copy(Loop, Bytes(m_recv_buf.buf, temp[Loop]))
    /\ UNCHANGED <<kernelVars, socketVars, queueVars, temp, count, dead, reply>>

\* get_buf() loads m_length again for its result; the rest of recv_msg is 0.
LoopGetReturn ==
    /\ Goto(Loop, "return", "count")
    /\ Copy(Loop, Bytes(data[Loop], IF temp[Loop] = 0 THEN 0 ELSE m_recv_buf.length))
    /\ Load(Loop, 0)
    /\ UNCHANGED <<kernelVars, socketVars, queueVars, count, dead, reply>>

\* get_send_buf_len_addr(): m_reference_count ++, without m_lock.
LoopCountLoad ==
    /\ Goto(Loop, "count", "counted")
    /\ count' = [count EXCEPT ![Loop] = m_reference_count]
    /\ UNCHANGED <<kernelVars, socketVars, queueVars, temp, data, dead, reply>>

LoopCountStore ==
    /\ Goto(Loop, "counted", "push")
    /\ m_reference_count' = count[Loop] + 1
    /\ count' = [count EXCEPT ![Loop] = 0]
    /\ UNCHANGED <<kernelVars, m_socket, m_send_pos, m_lock, m_send_buf, m_recv_buf,
                   queueVars, temp, data, dead, reply>>

\* Mutant: a socket that a worker is busy with is not appended again.
LoopPushUnlessBusy ==
    /\ Goto(Loop, "push", "idle")
    /\ m_undo_tasks' = Append(m_undo_tasks, [msg |-> data[Loop], close |-> FALSE])
    /\ jobs' = IF \E w \in Workers : pc[w] /= "idle" THEN jobs ELSE jobs + 1
    /\ refused' = FALSE
    /\ Copy(Loop, <<>>)
    /\ UNCHANGED <<kernelVars, socketVars, temp, count, dead, reply>>

\* The message goes on the undo list, then the socket on the pool's: one step,
\* since no other step needs a message without its job (a worker may be late).
\* append() refuses when the list is full, of jobs of other sockets or of this
\* one; recv_msg() does not look at its result.
LoopPush ==
    /\ Goto(Loop, "push", "idle")
    /\ m_undo_tasks' = Append(m_undo_tasks, [msg |-> data[Loop], close |-> FALSE])
    /\ \/ jobs' = jobs + 1 /\ refused' = FALSE
       \/ jobs' = jobs /\ refused' = (inbox /= <<>>)
    /\ Copy(Loop, <<>>)
    /\ UNCHANGED <<kernelVars, socketVars, temp, count, dead, reply>>

(* close_connect(), whose first part is TcpSocket::reset(). *)

LoopResetFd ==
    /\ edge /\ m_socket = 1 /\ peer = "rst"
    /\ edge' = FALSE
    /\ m_socket' = 0
    /\ Goto(Loop, "idle", "reset")
    /\ UNCHANGED <<inbox, sends, peer, m_send_pos, m_reference_count, m_lock, m_send_buf,
                   m_recv_buf, queueVars, temp, count, data, dead, reply>>

\* m_lock.lock() and the memset() of m_send_buf->clean().
LoopResetLock ==
    /\ Goto(Loop, "reset", "clean")
    /\ Lock(Loop)
    /\ m_send_buf' = [m_send_buf EXCEPT !.buf = <<>>]
    /\ UNCHANGED <<kernelVars, m_socket, m_send_pos, m_reference_count, m_recv_buf,
                   queueVars, temp, count, data, dead, reply>>

LoopResetClean ==
    /\ Goto(Loop, "clean", "close")
    /\ m_send_buf' = [m_send_buf EXCEPT !.length = 0]
    /\ m_recv_buf' = Clean
    /\ m_lock' = Free
    /\ UNCHANGED <<kernelVars, m_socket, m_send_pos, m_reference_count,
                   queueVars, temp, count, data, dead, reply>>

\* The close event: the "1" of a new TcpSocket that is then deleted.
LoopClose ==
    /\ Goto(Loop, "close", "idle")
    /\ m_undo_tasks' = Append(m_undo_tasks, [msg |-> <<One>>, close |-> TRUE])
    /\ UNCHANGED <<kernelVars, socketVars, jobs, refused, temp, count, data, dead, reply>>

-------------------------------------------------------------------------------
(* A worker: recv_buf(). *)

\* A job off the pool's list, and m_send_pos = 0, without m_lock.
WorkerTake(w) ==
    /\ jobs > 0
    /\ jobs' = jobs - 1
    /\ m_send_pos' = 0
    /\ Goto(w, "idle", "read")
    /\ UNCHANGED <<kernelVars, m_socket, m_reference_count, m_lock, m_send_buf, m_recv_buf,
                   m_undo_tasks, refused, temp, count, data, dead, reply>>

\* One read(); what does not fit stays.
WorkerRead(w) ==
    LET n == IF Len(inbox) < ReadMax THEN Len(inbox) ELSE ReadMax IN
    /\ Goto(w, "read", "lock")
    /\ m_socket = 1 /\ inbox /= <<>>
    /\ Copy(w, SubSeq(inbox, 1, n))
    /\ Load(w, n)
    /\ inbox' = SubSeq(inbox, n + 1, Len(inbox))
    /\ refused' = (refused /\ inbox' /= <<>>)
    /\ UNCHANGED <<sends, peer, edge, socketVars, m_undo_tasks, jobs, count, dead, reply>>

\* EAGAIN: "read later", and on with recv_buf_length = -1.
WorkerReadNothing(w) ==
    /\ Goto(w, "read", "lock")
    /\ m_socket = 1 /\ inbox = <<>> /\ peer = "up"
    /\ Load(w, -1)
    /\ UNCHANGED <<kernelVars, socketVars, queueVars, count, data, dead, reply>>

\* End of file, at once or after ECONNRESET.
WorkerReadEnd(w) ==
    /\ Goto(w, "read", "idle")
    /\ m_socket = 1 /\ inbox = <<>> /\ peer /= "up"
    /\ UNCHANGED <<kernelVars, socketVars, queueVars, temp, count, data, dead, reply>>

\* read() of descriptor 0, once reset() has stored that: standard input is at
\* its end or has bytes; or it has neither, and the read() does not return.
WorkerReadInput(w) ==
    /\ m_socket = 0
    /\ \/ "end" \in Stdin /\ Goto(w, "read", "idle") /\ UNCHANGED <<temp, data>>
       \/ "bytes" \in Stdin /\ Goto(w, "read", "lock") /\ Load(w, 1) /\ Copy(w, <<Input>>)
    /\ UNCHANGED <<kernelVars, socketVars, queueVars, count, dead, reply>>

\* Mutant: recv_buf() does not take m_lock.
WorkerPutUnlocked(w) ==
    /\ Goto(w, "lock", "length")
    /\ dead' = (temp[w] = -1)
    /\ m_recv_buf' = [m_recv_buf EXCEPT !.buf = Overwrite(@, data[w])]
    /\ UNCHANGED <<kernelVars, m_socket, m_send_pos, m_reference_count, m_lock, m_send_buf,
                   queueVars, temp, count, data, reply>>

\* lock() and put_buf()'s memcpy(), of 2^32 - 1 bytes when the length is -1.
WorkerPut(w) ==
    /\ Goto(w, "lock", "length")
    /\ Lock(w)
    /\ dead' = (temp[w] = -1)
    /\ m_recv_buf' = [m_recv_buf EXCEPT !.buf = Overwrite(@, data[w])]
    /\ UNCHANGED <<kernelVars, m_socket, m_send_pos, m_reference_count, m_send_buf,
                   queueVars, temp, count, data, reply>>

\* Mutant: recv_buf() returns without unlock().
WorkerLengthKeepsLock(w) ==
    /\ Goto(w, "length", "idle")
    /\ m_recv_buf' = [m_recv_buf EXCEPT !.length = temp[w]]
    /\ Forget(w)
    /\ UNCHANGED <<kernelVars, m_socket, m_send_pos, m_reference_count, m_lock, m_send_buf,
                   queueVars, count, dead, reply>>

\* put_buf(): m_length, and unlock().
WorkerLength(w) ==
    /\ Goto(w, "length", "idle")
    /\ m_recv_buf' = [m_recv_buf EXCEPT !.length = temp[w]]
    /\ m_lock' = Free
    /\ Forget(w)
    /\ UNCHANGED <<kernelVars, m_socket, m_send_pos, m_reference_count, m_send_buf,
                   queueVars, count, dead, reply>>

-------------------------------------------------------------------------------
(* The application, and send_buf() on its thread. *)

\* The message, and the reply's bytes into m_send_buf through the pointers of
\* the message, unlocked.
AppPull ==
    /\ m_undo_tasks /= <<>>
    /\ ~Head(m_undo_tasks).close
    /\ m_undo_tasks' = Tail(m_undo_tasks)
    /\ reply' = IF Echo THEN Head(m_undo_tasks).msg ELSE Hello
    /\ m_send_buf' = [m_send_buf EXCEPT !.buf = Overwrite(@, reply')]
    /\ Goto(App, "idle", "length")
    /\ UNCHANGED <<kernelVars, m_socket, m_send_pos, m_reference_count, m_lock, m_recv_buf,
                   jobs, refused, temp, count, data, dead>>

\* A close event's pointers dangle: writing the reply damages the heap, or
\* goes unnoticed.
AppPullClose ==
    /\ m_undo_tasks /= <<>>
    /\ Head(m_undo_tasks).close
    /\ m_undo_tasks' = Tail(m_undo_tasks)
    /\ dead' \in BOOLEAN
    /\ reply' = <<>>
    /\ Goto(App, "idle", "send")
    /\ UNCHANGED <<kernelVars, socketVars, jobs, refused, temp, count, data>>

AppReplyLength ==
    /\ Goto(App, "length", "send")
    /\ m_send_buf' = [m_send_buf EXCEPT !.length = Len(reply)]
    /\ UNCHANGED <<kernelVars, m_socket, m_send_pos, m_reference_count, m_lock, m_recv_buf,
                   queueVars, temp, count, data, dead, reply>>

\* Mutant: m_reference_count is not tested.
AppSendLockUntested ==
    /\ Goto(App, "send", "add")
    /\ Lock(App)
    /\ UNCHANGED <<kernelVars, m_socket, m_send_pos, m_reference_count, m_send_buf,
                   m_recv_buf, queueVars, temp, count, data, dead, reply>>

\* lock() and the test of m_reference_count.
AppSendLock ==
    /\ Goto(App, "send", IF m_reference_count > 0 THEN "add" ELSE "left")
    /\ Lock(App)
    /\ UNCHANGED <<kernelVars, m_socket, m_send_pos, m_reference_count, m_send_buf,
                   m_recv_buf, queueVars, temp, count, data, dead, reply>>

\* m_send_pos += get_size(), and then m_reference_count --, each a load and a
\* store: a worker may store 0, or the loop count, in between.
AppSendAdd ==
    /\ Goto(App, "add", "added")
    /\ Load(App, m_send_pos + m_send_buf.length)
    /\ UNCHANGED <<kernelVars, socketVars, queueVars, count, data, dead, reply>>

AppSendAdded ==
    /\ Goto(App, "added", "counted")
    /\ m_send_pos' = temp[App]
    /\ count' = [count EXCEPT ![App] = m_reference_count]
    /\ UNCHANGED <<kernelVars, m_socket, m_reference_count, m_lock, m_send_buf, m_recv_buf,
                   queueVars, temp, data, dead, reply>>

\* The build without -O then loads m_send_pos again for left; the one with
\* -O2 keeps the value it stored.
AppSendCounted ==
    /\ \E next \in {"left", "get"} : Goto(App, "counted", next)
    /\ m_reference_count' = count[App] - 1
    /\ count' = [count EXCEPT ![App] = 0]
    /\ UNCHANGED <<kernelVars, m_socket, m_send_pos, m_lock, m_send_buf, m_recv_buf,
                   queueVars, temp, data, dead, reply>>

AppSendLeft ==
    /\ Goto(App, "left", "get")
    /\ Load(App, m_send_pos)
    /\ UNCHANGED <<kernelVars, socketVars, queueVars, count, data, dead, reply>>

\* Mutant: get_buf() of the other buffer.
AppSendGetReceived ==
    /\ Goto(App, "get", "write")
    /\ Copy(App, Get(m_recv_buf))
    /\ m_lock' = Free
    /\ UNCHANGED <<kernelVars, m_socket, m_send_pos, m_reference_count, m_send_buf,
                   m_recv_buf, queueVars, temp, count, dead, reply>>

\* get_buf() and unlock().
AppSendGet ==
    /\ Goto(App, "get", "write")
    /\ Copy(App, Get(m_send_buf))
    /\ m_lock' = Free
    /\ UNCHANGED <<kernelVars, m_socket, m_send_pos, m_reference_count, m_send_buf,
                   m_recv_buf, queueVars, temp, count, dead, reply>>

\* The arguments of write() are forgotten when it is done.
Written ==
    /\ Copy(App, <<>>)
    /\ reply' = <<>>
    /\ UNCHANGED <<kernelVars, m_socket, m_send_pos, m_reference_count, m_lock, m_send_buf,
                   m_recv_buf, queueVars, count>>

\* Nothing to send, or no connection to send it to.
AppWriteNothing ==
    /\ Goto(App, "write", "idle")
    /\ data[App] = <<>> \/ temp[App] = 0 \/ m_socket = 0
    /\ Written
    /\ Load(App, 0)
    /\ UNCHANGED dead

\* The kernel takes left bytes.
AppWrite ==
    /\ Goto(App, "write", "idle")
    /\ data[App] /= <<>> /\ temp[App] /= 0 /\ m_socket = 1 /\ peer /= "rst"
    /\ Written
    /\ Load(App, 0)
    /\ UNCHANGED dead

\* The kernel takes some and then fails with EAGAIN; the rest is not sent, and
\* m_send_pos -= -1 is a load and a store.
AppWriteBlocked ==
    /\ Goto(App, "write", "blocked")
    /\ data[App] /= <<>> /\ temp[App] /= 0 /\ m_socket = 1 /\ peer /= "rst"
    /\ Written
    /\ Load(App, m_send_pos + 1)
    /\ UNCHANGED dead

AppBlocked ==
    /\ Goto(App, "blocked", "idle")
    /\ m_send_pos' = temp[App]
    /\ Load(App, 0)
    /\ UNCHANGED <<kernelVars, m_socket, m_reference_count, m_lock, m_send_buf, m_recv_buf,
                   queueVars, count, data, dead, reply>>

\* SIGPIPE, which the program does not handle, or an error.
AppWriteReset ==
    /\ Goto(App, "write", "idle")
    /\ data[App] /= <<>> /\ temp[App] /= 0 /\ m_socket = 1 /\ peer = "rst"
    /\ Written
    /\ Load(App, 0)
    /\ dead' \in BOOLEAN

-------------------------------------------------------------------------------

Peer == PeerSends \/ PeerCloses \/ PeerResets

LoopStep ==
    \/ LoopEpollIn \/ LoopGetLength \/ LoopGetCopy \/ LoopGetReturn
    \/ LoopCountLoad \/ LoopCountStore \/ LoopPush
    \/ LoopResetFd \/ LoopResetLock \/ LoopResetClean \/ LoopClose

\* What a worker does that nothing but m_lock can hold up.
WorkerRuns(w) ==
    \/ WorkerTake(w) \/ WorkerRead(w) \/ WorkerReadNothing(w)
    \/ WorkerReadEnd(w) \/ WorkerPut(w) \/ WorkerLength(w)

WorkerStep(w) == WorkerRuns(w) \/ WorkerReadInput(w)

AppStep ==
    \/ AppPull \/ AppPullClose \/ AppReplyLength
    \/ AppSendLock \/ AppSendAdd \/ AppSendAdded \/ AppSendCounted \/ AppSendLeft
    \/ AppSendGet \/ AppWriteNothing \/ AppWrite \/ AppWriteBlocked
    \/ AppBlocked \/ AppWriteReset

Next == ~dead /\ (Peer \/ LoopStep \/ AppStep \/ \E w \in Workers : WorkerStep(w))

Spec == Init /\ [][Next]_vars

\* Every thread of the program is scheduled.  The peer need not do anything, and
\* nobody has to type: a read() of standard input may not return.
FairSpec ==
    /\ Spec
    /\ WF_vars(~dead /\ LoopStep)
    /\ WF_vars(~dead /\ AppStep)
    /\ \A w \in Workers : WF_vars(~dead /\ WorkerRuns(w))

-------------------------------------------------------------------------------
(* Properties *)

Byte == {One, Input} \cup 0 .. MaxSends \cup {Hello[i] : i \in 1 .. 6}
Buffer == [buf : Seq(Byte), length : Nat]

\* The declarations of tcp_socket.h and buffer.h; m_length is a uint32_t and
\* m_reference_count, an int, does not become negative.
TypeOK ==
    /\ inbox \in Seq(1 .. MaxSends) /\ sends \in 0 .. MaxSends
    /\ peer \in {"up", "fin", "rst"} /\ edge \in BOOLEAN
    /\ m_socket \in {0, 1}
    /\ m_send_pos \in Nat /\ m_reference_count \in Nat
    /\ m_lock \in Threads \cup {Free}
    /\ m_send_buf \in Buffer
    /\ m_recv_buf \in Buffer
    /\ m_undo_tasks \in Seq([msg : Seq(Byte), close : BOOLEAN])
    /\ jobs \in Nat /\ refused \in BOOLEAN
    /\ DOMAIN pc = Threads
    /\ temp \in [Threads -> Nat \cup {-1}]
    /\ count \in [Threads -> Nat]
    /\ data \in [Threads -> Seq(Byte)]
    /\ dead \in BOOLEAN
    /\ reply \in Seq(Byte)

\* Several workers may run recv_buf() of one socket, and the loop reset() it;
\* whenever m_lock is free, m_recv_buf holds what the constructor or clean()
\* left, or consecutive requests as one read() returned them, or standard input,
\* never a mixture.
RecvBufWhole ==
    LET b == Get(m_recv_buf) IN
    m_lock = Free =>
        \/ b \in {<<One>>, <<>>, <<Input>>}
        \/ b[1] \in 1 .. sends /\ \A i \in 2 .. Len(b) : b[i] = b[i - 1] + 1

\* What send_buf() writes to the connection: left bytes of its own copy.
Sending ==
    IF pc[App] = "write" /\ data[App] /= <<>> /\ m_socket = 1
      THEN Bytes(data[App], temp[App])
      ELSE <<>>

\* send_buf() writes the bytes of the reply, in order and from the first on,
\* whatever the loop and the workers do meanwhile, and zeros behind them.
ReplyIntact ==
    \A i \in 1 .. Len(Sending) : Sending[i] = IF i <= Len(reply) THEN reply[i] ELSE 0

\* The loop asks for one read() per edge.  As long as a read() takes everything,
\* that leaves no byte without an edge or a job that is still to read it, unless
\* the pool's list was full and append() refused the job: those bytes wait until
\* the peer sends more.
NoStrandedBytes ==
    ReadMax >= MaxSends =>
        \/ inbox = <<>> \/ edge \/ jobs > 0 \/ m_socket = 0
        \/ pc[Loop] /= "idle"
        \/ \E w \in Workers : pc[w] = "read"
        \/ refused

\* Whatever the others hold or store, recv_buf() and send_buf() return, but for
\* a recv_buf() that reads standard input because the loop has closed the
\* connection: it holds no lock, and the others return all the same.
CallsReturn ==
    \A t \in Workers \cup {App} :
        pc[t] /= "idle" ~> pc[t] = "idle" \/ dead \/ (m_socket = 0 /\ pc[t] = "read")

\* test/test.cpp answers "hello" with a length of 6: six bytes are sent, or
\* fewer when the connection does not take them.
HelloIsSixBytes == Len(Sending) <= Len(Hello)

\* net/main.cpp answers a request with its bytes: the peer gets back bytes it
\* has sent.
EchoesTheRequest == \A i \in 1 .. Len(Sending) : Sending[i] \in 1 .. sends

\* recv_buf() says "read later" when there is nothing to read: with the
\* connection up the program goes on.
ReadLater == peer = "up" => ~dead

\* run() closes a connection that the peer has closed ("close for peer done").
ClosedForPeer == peer = "fin" ~> m_socket = 0 \/ dead

===============================================================================
