---------------------------- MODULE TcpSocketProofs ----------------------------
(***************************************************************************)
(* The safety properties of TcpSocket, for any number of workers and of    *)
(* requests, any size of the receive buffer and both applications.         *)
(***************************************************************************)
EXTENDS TcpSocket, SequenceTheorems, TLAPS

AppLocked == {"add", "added", "counted", "left", "get"}

\* Who holds m_lock is between lock() and unlock(), and nobody else is.
LockInv ==
    /\ \A w \in Workers : m_lock = w <=> pc[w] = "length"
    /\ m_lock = Loop <=> pc[Loop] = "clean"
    /\ m_lock = App <=> pc[App] \in AppLocked

\* Only a worker's length may be -1; what send_buf() has tested stays positive
\* until it has loaded it, since the loop only adds.
CountInv ==
    /\ temp[Loop] \in Nat /\ temp[App] \in Nat
    /\ pc[App] \in {"add", "added"} => m_reference_count > 0
    /\ pc[App] = "counted" => count[App] > 0

\* The kernel holds the last requests, in order.
InboxInv ==
    /\ Len(inbox) <= sends
    /\ \A i \in 1 .. Len(inbox) : inbox[i] = sends - Len(inbox) + i

\* The first n bytes of b are consecutive requests, or one of standard input.
Requests(b, n) ==
    /\ n \in 1 .. Len(b)
    /\ b[1] \in 1 .. sends \/ (b[1] = Input /\ n = 1)
    /\ \A i \in 2 .. n : b[i] = b[i - 1] + 1

\* What a worker has read and not yet put.
ReadOf(w) ==
    /\ pc[w] \in {"lock", "length"} =>
          temp[w] = -1 \/ (temp[w] = Len(data[w]) /\ Requests(data[w], temp[w]))
    /\ pc[w] = "length" => temp[w] /= -1 \/ dead

ReadInv == \A w \in Workers : ReadOf(w)

\* m_recv_buf is whole unless a worker is between put_buf()'s two stores, and
\* then it begins with that worker's bytes.
Whole ==
    \/ m_recv_buf = Constructed
    \/ m_recv_buf.length = 0
    \/ Requests(m_recv_buf.buf, m_recv_buf.length)

PutOf(w) ==
    pc[w] = "length" =>
        /\ Len(data[w]) <= Len(m_recv_buf.buf)
        /\ \A i \in 1 .. Len(data[w]) : m_recv_buf.buf[i] = data[w][i]

RecvInv == (m_lock \notin Workers => Whole) /\ \A w \in Workers : PutOf(w)

\* As long as the connection is up the loop has not cleaned m_send_buf and there
\* is no close event: from the pull to the copy m_send_buf holds the reply.
NotClosing ==
    /\ pc[Loop] \notin {"reset", "clean", "close"}
    /\ \A i \in 1 .. Len(m_undo_tasks) : ~m_undo_tasks[i].close

ReplyKept ==
    /\ pc[App] \in {"length", "send"} \cup AppLocked =>
          /\ Len(reply) <= Len(m_send_buf.buf)
          /\ \A i \in 1 .. Len(reply) : m_send_buf.buf[i] = reply[i]
    /\ pc[App] \in {"send"} \cup AppLocked => m_send_buf.length = Len(reply)
    /\ pc[App] = "write" => data[App] = reply

SendInv == m_socket = 1 => NotClosing /\ ReplyKept

IInv ==
    /\ TypeOK
    /\ LockInv
    /\ CountInv
    /\ InboxInv
    /\ ReadInv
    /\ RecvInv
    /\ SendInv
    /\ NoStrandedBytes

-------------------------------------------------------------------------------
(* Buffers. *)

\* What is sent, answered or read before it is written is a byte.
LEMMA ByteFacts ==
    /\ One \in Byte /\ Input \in Byte /\ 0 \in Byte
    /\ \A n \in 1 .. MaxSends : n \in Byte
    /\ Hello \in Seq(Byte)
    /\ \A q \in Seq(1 .. MaxSends) : q \in Seq(Byte)
<1>1. One \in Byte /\ Input \in Byte /\ 0 \in Byte /\ \A n \in 1 .. MaxSends : n \in Byte
  BY SocketAssumption DEF Byte
<1>2. \A i \in 1 .. 6 : Hello[i] \in Byte
  BY DEF Byte
<1>3. Hello \in Seq(Byte)
  <2>1. 104 \in Byte /\ 101 \in Byte /\ 108 \in Byte /\ 111 \in Byte
    <3>1. Hello[1] = 104 /\ Hello[2] = 101 /\ Hello[3] = 108 /\ Hello[5] = 111
      BY DEF Hello
    <3>. QED
      BY <1>2, <3>1
  <2>. QED
    BY <1>1, <2>1 DEF Hello
<1>4. \A q \in Seq(1 .. MaxSends) : q \in Seq(Byte)
  BY <1>1, SeqMonotonic, Zenon
<1>. QED
  BY <1>1, <1>3, <1>4

\* What get_buf() copies: n bytes, zeros behind those that were written.
LEMMA BytesFacts ==
    ASSUME NEW b \in Seq(Byte), NEW n \in Nat
    PROVE  /\ Bytes(b, n) \in Seq(Byte)
           /\ Len(Bytes(b, n)) = n
           /\ \A i \in 1 .. n : Bytes(b, n)[i] = IF i <= Len(b) THEN b[i] ELSE 0
<1>1. \A i \in 1 .. n : (IF i <= Len(b) THEN b[i] ELSE 0) \in Byte
  BY ByteFacts, LenProperties
<1>. QED
  BY <1>1 DEF Bytes

\* memcpy() leaves its bytes at the front.
LEMMA OverwriteFacts ==
    ASSUME NEW b \in Seq(Byte), NEW d \in Seq(Byte)
    PROVE  /\ Overwrite(b, d) \in Seq(Byte)
           /\ Len(d) <= Len(Overwrite(b, d))
           /\ \A i \in 1 .. Len(d) : Overwrite(b, d)[i] = d[i]
<1> DEFINE rest == SubSeq(b, Len(d) + 1, Len(b))
<1>1. rest \in Seq(Byte) /\ Len(rest) \in Nat
  <2>1. \A i \in Len(d) + 1 .. Len(b) : b[i] \in Byte
    BY LenProperties
  <2>2. rest \in Seq(Byte)
    BY <2>1, LenProperties, SubSeqProperties
  <2>. QED
    BY <2>2, LenProperties
<1>2. d \o rest \in Seq(Byte) /\ Len(d \o rest) = Len(d) + Len(rest)
  BY <1>1, ConcatProperties
<1>3. \A i \in 1 .. Len(d) : (d \o rest)[i] = d[i]
  BY <1>1, ConcatProperties, LenProperties
<1>. QED
  BY <1>1, <1>2, <1>3, LenProperties DEF Overwrite

\* One store into a buffer.
LEMMA BufferFacts ==
    /\ Constructed \in Buffer /\ Clean \in Buffer
    /\ \A b \in Buffer, d \in Seq(Byte) :
          /\ [b EXCEPT !.buf = d] \in Buffer
          /\ [b EXCEPT !.buf = d].buf = d
          /\ [b EXCEPT !.buf = d].length = b.length
    /\ \A b \in Buffer, n \in Nat :
          /\ [b EXCEPT !.length = n] \in Buffer
          /\ [b EXCEPT !.length = n].buf = b.buf
          /\ [b EXCEPT !.length = n].length = n
<1>1. Constructed \in Buffer /\ Clean \in Buffer
  BY ByteFacts, EmptySeq DEF Constructed, Clean, Buffer
<1>. QED
  BY <1>1, Zenon DEF Buffer

\* What the front of a buffer is, and what is left behind it.
LEMMA SeqFacts ==
    ASSUME NEW S, NEW q \in Seq(S), q /= <<>>
    PROVE  /\ Head(q) \in S /\ Head(q) = q[1]
           /\ Tail(q) \in Seq(S)
           /\ Len(q) \in Nat \ {0}
           /\ Len(Tail(q)) = Len(q) - 1
           /\ \A i \in 1 .. Len(q) - 1 : Tail(q)[i] = q[i + 1]
BY HeadTailProperties, EmptySeq, LenProperties

\* A buffer with x put at its end.
LEMMA AppendFacts ==
    ASSUME NEW S, NEW q \in Seq(S), NEW x \in S
    PROVE  /\ Append(q, x) \in Seq(S)
           /\ Len(q) \in Nat /\ Len(Append(q, x)) = Len(q) + 1
           /\ \A i \in 1 .. Len(q) : Append(q, x)[i] = q[i]
           /\ Append(q, x)[Len(q) + 1] = x
BY AppendProperties, LenProperties

\* What read() takes and leaves.
LEMMA CutFacts ==
    ASSUME NEW S, NEW q \in Seq(S), NEW n \in 0 .. Len(q)
    PROVE  /\ SubSeq(q, 1, n) \in Seq(S) /\ Len(SubSeq(q, 1, n)) = n
           /\ \A i \in 1 .. n : SubSeq(q, 1, n)[i] = q[i]
           /\ SubSeq(q, n + 1, Len(q)) \in Seq(S)
           /\ Len(SubSeq(q, n + 1, Len(q))) = Len(q) - n
           /\ \A i \in 1 .. Len(q) - n : SubSeq(q, n + 1, Len(q))[i] = q[i + n]
<1>1. Len(q) \in Nat /\ n \in Nat /\ n <= Len(q) /\ \A i \in 1 .. Len(q) : q[i] \in S
  BY LenProperties
<1>2. /\ SubSeq(q, 1, n) \in Seq(S)
      /\ Len(SubSeq(q, 1, n)) = IF 1 <= n THEN n - 1 + 1 ELSE 0
      /\ \A i \in 1 .. n - 1 + 1 : SubSeq(q, 1, n)[i] = q[1 + i - 1]
  <2>1. \A i \in 1 .. n : q[i] \in S
    BY <1>1
  <2>. QED
    BY ONLY <1>1, <2>1, SubSeqProperties
<1>3. /\ SubSeq(q, n + 1, Len(q)) \in Seq(S)
      /\ Len(SubSeq(q, n + 1, Len(q))) = IF n + 1 <= Len(q) THEN Len(q) - (n + 1) + 1 ELSE 0
      /\ \A i \in 1 .. Len(q) - (n + 1) + 1 : SubSeq(q, n + 1, Len(q))[i] = q[n + 1 + i - 1]
  <2>1. n + 1 \in Int /\ Len(q) \in Int /\ \A i \in n + 1 .. Len(q) : q[i] \in S
    BY <1>1
  <2>. QED
    BY ONLY <2>1, SubSeqProperties
<1>4. ASSUME NEW i \in 1 .. n PROVE SubSeq(q, 1, n)[i] = q[i]
  <2>1. i \in 1 .. n - 1 + 1 /\ 1 + i - 1 = i
    BY <1>1
  <2>. QED
    BY <1>2, <2>1
<1>5. ASSUME NEW i \in 1 .. Len(q) - n PROVE SubSeq(q, n + 1, Len(q))[i] = q[i + n]
  <2>1. i \in 1 .. Len(q) - (n + 1) + 1 /\ n + 1 + i - 1 = i + n
    BY <1>1
  <2>. QED
    BY <1>3, <2>1
<1>6. Len(SubSeq(q, 1, n)) = n /\ Len(SubSeq(q, n + 1, Len(q))) = Len(q) - n
  <2>1. PICK k \in Nat : k = Len(q) /\ n <= k
    BY <1>1
  <2>2. /\ Len(SubSeq(q, 1, n)) = IF 1 <= n THEN n - 1 + 1 ELSE 0
        /\ Len(SubSeq(q, n + 1, k)) = IF n + 1 <= k THEN k - (n + 1) + 1 ELSE 0
    BY <1>2, <1>3, <2>1
  <2>. QED
    BY <1>1, <2>1, <2>2
<1>. QED
  BY <1>2, <1>3, <1>4, <1>5, <1>6

-------------------------------------------------------------------------------
(* Initially, and types. *)

\* The connection starts in the invariant.
LEMMA SocketInit == Init => IInv
<1> SUFFICES ASSUME Init PROVE IInv
  OBVIOUS
<1>1. /\ \A S : <<>> \in Seq(S)
      /\ data \in [Threads -> Seq(Byte)]
  BY EmptySeq DEF Init
<1>2. TypeOK
  <2>1. edge \in BOOLEAN /\ dead \in BOOLEAN /\ refused \in BOOLEAN
    BY Zenon DEF Init
  <2>2. /\ temp \in [Threads -> Nat \cup {-1}]
        /\ count \in [Threads -> Nat]
        /\ sends \in 0 .. MaxSends
    BY SocketAssumption DEF Init
  <2>. QED
    BY <1>1, <2>1, <2>2, BufferFacts DEF Init, TypeOK
<1>3. LockInv /\ CountInv /\ InboxInv
  BY SocketAssumption DEF Init, LockInv, CountInv, InboxInv, AppLocked, Threads
<1>4. ReadInv /\ RecvInv /\ SendInv /\ NoStrandedBytes
  BY SocketAssumption DEF Init, ReadInv, ReadOf, RecvInv, Whole, PutOf, SendInv, NotClosing, ReplyKept, NoStrandedBytes,
     AppLocked, Threads
<1>. QED
  BY <1>2, <1>3, <1>4 DEF IInv

\* The peer, and what the loop does to the connection.
LEMMA PeerTypes == TypeOK /\ Peer => TypeOK'
<1> SUFFICES ASSUME TypeOK, Peer PROVE TypeOK'
  OBVIOUS
<1> USE DEF kernelVars, socketVars, queueVars, threadVars
<1>1. CASE PeerSends
  <2>1. sends' \in 1 .. MaxSends /\ inbox' \in Seq(1 .. MaxSends)
    BY <1>1, SocketAssumption DEF PeerSends, TypeOK
  <2>. QED
    BY <1>1, <2>1 DEF PeerSends, TypeOK
<1>2. CASE PeerCloses
  BY <1>2 DEF PeerCloses, TypeOK
<1>3. CASE PeerResets
  <2>1. refused' \in BOOLEAN /\ edge' \in BOOLEAN
    BY <1>3, Zenon DEF PeerResets
  <2>. QED
    BY <1>3, <2>1 DEF PeerResets, TypeOK
<1>. QED
  BY <1>1, <1>2, <1>3 DEF Peer

\* The loop thread keeps the variables in their types.
LEMMA LoopTypes == TypeOK /\ CountInv /\ LoopStep => TypeOK'
<1> SUFFICES ASSUME TypeOK, CountInv, LoopStep PROVE TypeOK'
  OBVIOUS
<1> USE DEF kernelVars, socketVars, queueVars, threadVars, Goto, Load, Copy, Lock
<1>0. Loop \in Threads /\ temp[Loop] \in Nat /\ data[Loop] \in Seq(Byte) /\ count[Loop] \in Nat
  BY DEF TypeOK, CountInv, Threads
<1>1. CASE LoopEpollIn
  BY <1>1, Zenon DEF LoopEpollIn, TypeOK
<1>2. CASE LoopGetLength
  BY <1>0, <1>2 DEF LoopGetLength, TypeOK, Buffer
<1>3. CASE LoopGetCopy
  <2>1. Bytes(m_recv_buf.buf, temp[Loop]) \in Seq(Byte)
    BY <1>0, BytesFacts DEF TypeOK, Buffer
  <2>. QED
    BY <1>0, <1>3, <2>1 DEF LoopGetCopy, TypeOK
<1>4. CASE LoopGetReturn
  <2>1. Bytes(data[Loop], IF temp[Loop] = 0 THEN 0 ELSE m_recv_buf.length) \in Seq(Byte)
    BY <1>0, BytesFacts, Zenon DEF TypeOK, Buffer
  <2>. QED
    BY <1>0, <1>4, <2>1 DEF LoopGetReturn, TypeOK
<1>5. CASE LoopCountLoad
  BY <1>0, <1>5 DEF LoopCountLoad, TypeOK
<1>6. CASE LoopCountStore
  BY <1>0, <1>6 DEF LoopCountStore, TypeOK
<1>7. CASE LoopPush
  <2>1. [msg |-> data[Loop], close |-> FALSE] \in [msg : Seq(Byte), close : BOOLEAN]
    BY <1>0
  <2>2. m_undo_tasks' \in Seq([msg : Seq(Byte), close : BOOLEAN])
    BY <1>7, <2>1 DEF LoopPush, TypeOK
  <2>3. refused' \in BOOLEAN
    BY <1>7, Zenon DEF LoopPush
  <2>4. jobs' \in Nat
    BY <1>7 DEF LoopPush, TypeOK
  <2>. QED
    BY <1>0, <1>7, <2>2, <2>3, <2>4 DEF LoopPush, TypeOK
<1>8. CASE LoopResetFd
  BY <1>8, Zenon DEF LoopResetFd, TypeOK
<1>9. CASE LoopResetLock
  <2>1. m_send_buf' \in Buffer
    BY <1>9, BufferFacts, EmptySeq, Zenon DEF LoopResetLock, TypeOK
  <2>. QED
    BY <1>0, <1>9, <2>1 DEF LoopResetLock, TypeOK
<1>10. CASE LoopResetClean
  <2>1. m_send_buf' \in Buffer /\ m_recv_buf' \in Buffer
    BY <1>10, BufferFacts, Zenon DEF LoopResetClean, TypeOK
  <2>. QED
    BY <1>10, <2>1 DEF LoopResetClean, TypeOK
<1>11. CASE LoopClose
  <2>1. [msg |-> <<One>>, close |-> TRUE] \in [msg : Seq(Byte), close : BOOLEAN]
    BY ByteFacts
  <2>2. m_undo_tasks' \in Seq([msg : Seq(Byte), close : BOOLEAN])
    BY <1>11, <2>1 DEF LoopClose, TypeOK
  <2>. QED
    BY <1>11, <2>2 DEF LoopClose, TypeOK
<1>. QED
  BY <1>1, <1>2, <1>3, <1>4, <1>5, <1>6, <1>7, <1>8, <1>9, <1>10, <1>11 DEF LoopStep

\* So does a worker that reads.
LEMMA WorkerTypes ==
    ASSUME TypeOK, ReadInv, ~dead, NEW w \in Workers, WorkerStep(w)
    PROVE  TypeOK'
<1> USE DEF kernelVars, socketVars, queueVars, threadVars, Goto, Load, Copy, Forget, Lock
<1>0. w \in Threads /\ data[w] \in Seq(Byte) /\ temp[w] \in Nat \cup {-1}
  BY DEF TypeOK, Threads
<1>1. CASE WorkerTake(w)
  BY <1>1 DEF WorkerTake, TypeOK
<1>2. CASE WorkerRead(w)
  <2> DEFINE n == IF Len(inbox) < ReadMax THEN Len(inbox) ELSE ReadMax
  <2>1. n \in 0 .. Len(inbox)
    BY SocketAssumption, LenProperties DEF TypeOK
  <2>2. /\ SubSeq(inbox, 1, n) \in Seq(1 .. MaxSends)
        /\ SubSeq(inbox, n + 1, Len(inbox)) \in Seq(1 .. MaxSends)
    BY <2>1, CutFacts, Zenon DEF TypeOK
  <2>3. SubSeq(inbox, 1, n) \in Seq(Byte) /\ n \in Nat
    BY <2>1, <2>2, ByteFacts
  <2> HIDE DEF n
  <2>4. /\ data' = [data EXCEPT ![w] = SubSeq(inbox, 1, n)]
        /\ temp' = [temp EXCEPT ![w] = n]
        /\ inbox' = SubSeq(inbox, n + 1, Len(inbox))
    BY <1>2 DEF WorkerRead, n
  <2>5. /\ pc' = [pc EXCEPT ![w] = "lock"]
        /\ UNCHANGED <<sends, peer, edge, socketVars, m_undo_tasks, jobs, count, dead, reply>>
    BY <1>2 DEF WorkerRead
  <2>6. refused' \in BOOLEAN
    BY <1>2, Zenon DEF WorkerRead
  <2>. QED
    BY <1>0, <2>2, <2>3, <2>4, <2>5, <2>6 DEF TypeOK
<1>3. CASE WorkerReadNothing(w)
  BY <1>0, <1>3 DEF WorkerReadNothing, TypeOK
<1>4. CASE WorkerReadEnd(w)
  BY <1>4 DEF WorkerReadEnd, TypeOK
<1>7. CASE WorkerReadInput(w)
  <2>1. <<Input>> \in Seq(Byte)
    BY ByteFacts
  <2>2. data' \in [Threads -> Seq(Byte)] /\ temp' \in [Threads -> Nat \cup {-1}] /\ DOMAIN pc' = Threads
    <3>1. \/ data' = data /\ temp' = temp
          \/ data' = [data EXCEPT ![w] = <<Input>>] /\ temp' = [temp EXCEPT ![w] = 1]
      BY <1>7, Zenon DEF WorkerReadInput
    <3>2. DOMAIN pc' = Threads
      BY <1>7 DEF WorkerReadInput, TypeOK
    <3>3. data \in [Threads -> Seq(Byte)] /\ temp \in [Threads -> Nat \cup {-1}]
      BY DEF TypeOK
    <3>4. /\ [data EXCEPT ![w] = <<Input>>] \in [Threads -> Seq(Byte)]
          /\ [temp EXCEPT ![w] = 1] \in [Threads -> Nat \cup {-1}]
      BY ONLY <1>0, <2>1, <3>3
    <3>. QED
      BY ONLY <3>1, <3>2, <3>3, <3>4, Zenon
  <2>3. UNCHANGED <<kernelVars, socketVars, queueVars, count, dead, reply>>
    BY <1>7, Zenon DEF WorkerReadInput
  <2>. QED
    BY <2>2, <2>3, Zenon DEF TypeOK
<1>5. CASE WorkerPut(w)
  <2>1. Overwrite(m_recv_buf.buf, data[w]) \in Seq(Byte)
    BY <1>0, OverwriteFacts DEF TypeOK, Buffer
  <2>2. m_recv_buf' \in Buffer
    BY <1>5, <2>1, BufferFacts DEF WorkerPut, TypeOK
  <2>3. dead' \in BOOLEAN
    BY <1>5 DEF WorkerPut
  <2>. QED
    BY <1>0, <1>5, <2>2, <2>3 DEF WorkerPut, TypeOK
<1>6. CASE WorkerLength(w)
  <2>1. temp[w] \in Nat
    BY <1>0, <1>6 DEF WorkerLength, ReadInv, ReadOf
  <2>2. m_recv_buf' \in Buffer
    BY <1>6, <2>1, BufferFacts, SMTT(30) DEF WorkerLength, TypeOK
  <2>. QED
    BY <1>0, <1>6, <2>2 DEF WorkerLength, TypeOK
<1>. QED
  BY <1>1, <1>2, <1>3, <1>4, <1>5, <1>6, <1>7 DEF WorkerStep, WorkerRuns

\* So does the application.
LEMMA AppTypes == TypeOK /\ CountInv /\ AppStep => TypeOK'
<1> SUFFICES ASSUME TypeOK, CountInv, AppStep PROVE TypeOK'
  OBVIOUS
<1> USE DEF kernelVars, socketVars, queueVars, threadVars, Goto, Load, Copy, Lock, Written
<1>0. App \in Threads /\ temp[App] \in Nat /\ data[App] \in Seq(Byte) /\ count[App] \in Nat
  BY DEF TypeOK, CountInv, Threads
<1>1. CASE AppPull
  <2>1. /\ Head(m_undo_tasks).msg \in Seq(Byte)
        /\ m_undo_tasks' \in Seq([msg : Seq(Byte), close : BOOLEAN])
    <3>1. /\ Head(m_undo_tasks) \in [msg : Seq(Byte), close : BOOLEAN]
          /\ Tail(m_undo_tasks) \in Seq([msg : Seq(Byte), close : BOOLEAN])
      BY <1>1, SeqFacts, Zenon DEF AppPull, TypeOK
    <3>. QED
      BY <1>1, <3>1 DEF AppPull
  <2>2. reply' \in Seq(Byte)
    BY <1>1, <2>1, ByteFacts DEF AppPull
  <2>3. Overwrite(m_send_buf.buf, reply') \in Seq(Byte)
    BY <2>2, OverwriteFacts DEF TypeOK, Buffer
  <2>4. m_send_buf' \in Buffer
    BY <1>1, <2>3, BufferFacts DEF AppPull, TypeOK
  <2>. QED
    BY <1>1, <2>1, <2>2, <2>4 DEF AppPull, TypeOK
<1>2. CASE AppPullClose
  <2>1. m_undo_tasks' \in Seq([msg : Seq(Byte), close : BOOLEAN])
    BY <1>2, SeqFacts DEF AppPullClose, TypeOK
  <2>. QED
    BY <1>2, <2>1 DEF AppPullClose, TypeOK
<1>3. CASE AppReplyLength
  <2>1. m_send_buf' \in Buffer
    BY <1>3, LenProperties, BufferFacts DEF AppReplyLength, TypeOK
  <2>. QED
    BY <1>3, <2>1 DEF AppReplyLength, TypeOK
<1>4. CASE AppSendLock
  BY <1>0, <1>4 DEF AppSendLock, TypeOK
<1>5. CASE AppSendAdd
  <2>1. m_send_pos + m_send_buf.length \in Nat
    BY DEF TypeOK, Buffer
  <2>. QED
    BY <1>0, <1>5, <2>1 DEF AppSendAdd, TypeOK
<1>6. CASE AppSendAdded
  BY <1>0, <1>6 DEF AppSendAdded, TypeOK
<1>7. CASE AppSendCounted
  <2>1. count[App] - 1 \in Nat
    BY <1>0, <1>7 DEF AppSendCounted, CountInv
  <2>. QED
    BY <1>0, <1>7, <2>1 DEF AppSendCounted, TypeOK
<1>8. CASE AppSendLeft
  BY <1>0, <1>8 DEF AppSendLeft, TypeOK
<1>9. CASE AppSendGet
  <2>1. Get(m_send_buf) \in Seq(Byte)
    BY BytesFacts DEF TypeOK, Buffer, Get
  <2>. QED
    BY <1>0, <1>9, <2>1 DEF AppSendGet, TypeOK
<1>10. CASE AppWriteNothing
  BY <1>0, <1>10 DEF AppWriteNothing, TypeOK
<1>14. CASE AppWrite
  BY <1>0, <1>14 DEF AppWrite, TypeOK
<1>11. CASE AppWriteBlocked
  BY <1>0, <1>11 DEF AppWriteBlocked, TypeOK
<1>12. CASE AppBlocked
  BY <1>0, <1>12 DEF AppBlocked, TypeOK
<1>13. CASE AppWriteReset
  BY <1>0, <1>13 DEF AppWriteReset, TypeOK
<1>. QED
  BY <1>1, <1>2, <1>3, <1>4, <1>5, <1>6, <1>7, <1>8, <1>9, <1>10, <1>11, <1>12, <1>13,
     <1>14 DEF AppStep

-------------------------------------------------------------------------------
(* m_lock and the counters. *)

\* The loop thread, the application and the workers differ, and none is Free.
LEMMA ThreadFacts ==
    /\ Loop \in Threads /\ App \in Threads /\ Loop /= App /\ Loop /= Free /\ App /= Free
    /\ \A w \in Workers : w \in Threads /\ w /= Loop /\ w /= App /\ w /= Free
BY SocketAssumption DEF Threads

\* Every step keeps the lock with the thread that is between Lock() and Unlock().
LEMMA LockKept == TypeOK /\ LockInv /\ Next => LockInv'
<1> SUFFICES ASSUME TypeOK, LockInv, Next PROVE LockInv'
  OBVIOUS
<1> USE ThreadFacts
    DEF kernelVars, socketVars, queueVars, threadVars, Goto, Lock, AppLocked
<1>0. DOMAIN pc = Threads
  BY DEF TypeOK
<1>1. CASE Peer
  BY <1>1 DEF Peer, PeerSends, PeerCloses, PeerResets, LockInv
<1>2. CASE LoopResetLock
  BY <1>0, <1>2 DEF LoopResetLock, LockInv
<1>3. CASE LoopResetClean
  BY <1>0, <1>3 DEF LoopResetClean, LockInv
<1>4. CASE LoopEpollIn \/ LoopGetLength \/ LoopGetCopy \/ LoopGetReturn \/ LoopCountLoad
           \/ LoopCountStore \/ LoopPush \/ LoopResetFd \/ LoopClose
  BY <1>0, <1>4 DEF LoopEpollIn, LoopGetLength, LoopGetCopy, LoopGetReturn, LoopCountLoad,
     LoopCountStore, LoopPush, LoopResetFd, LoopClose, LockInv
<1>5. ASSUME NEW w \in Workers, WorkerPut(w) PROVE LockInv'
  BY <1>0, <1>5 DEF WorkerPut, LockInv
<1>6. ASSUME NEW w \in Workers, WorkerLength(w) PROVE LockInv'
  BY <1>0, <1>6 DEF WorkerLength, LockInv
<1>7. ASSUME NEW w \in Workers,
             WorkerTake(w) \/ WorkerRead(w) \/ WorkerReadNothing(w) \/ WorkerReadEnd(w) \/ WorkerReadInput(w)
      PROVE  LockInv'
  BY <1>0, <1>7 DEF WorkerTake, WorkerRead, WorkerReadNothing, WorkerReadEnd, WorkerReadInput, LockInv
<1>8. CASE AppSendLock
  BY <1>0, <1>8 DEF AppSendLock, LockInv
<1>9. CASE AppSendGet
  BY <1>0, <1>9 DEF AppSendGet, LockInv
<1>10. CASE AppSendAdd \/ AppSendAdded \/ AppSendCounted \/ AppSendLeft
  BY <1>0, <1>10 DEF AppSendAdd, AppSendAdded, AppSendCounted, AppSendLeft, LockInv
<1>11. CASE AppPull \/ AppPullClose \/ AppReplyLength \/ AppBlocked
  BY <1>0, <1>11 DEF AppPull, AppPullClose, AppReplyLength, AppBlocked, LockInv
<1>12. CASE AppWriteNothing \/ AppWrite \/ AppWriteBlocked \/ AppWriteReset
  BY <1>0, <1>12 DEF AppWriteNothing, AppWrite, AppWriteBlocked, AppWriteReset, Written, LockInv
<1>. QED
  BY <1>1, <1>2, <1>3, <1>4, <1>5, <1>6, <1>7, <1>8, <1>9, <1>10, <1>11, <1>12
     DEF Next, LoopStep, WorkerStep, WorkerRuns, AppStep

\* Every step keeps what send_buf() tested and loaded of the counter positive.
LEMMA CountKept == TypeOK /\ CountInv /\ Next => CountInv'
<1> SUFFICES ASSUME TypeOK, CountInv, Next PROVE CountInv'
  OBVIOUS
<1> USE ThreadFacts DEF kernelVars, socketVars, queueVars, threadVars, Goto, Load, Forget
<1>0. /\ DOMAIN pc = Threads /\ m_send_pos \in Nat /\ m_reference_count \in Nat
      /\ m_recv_buf.length \in Nat /\ m_send_buf.length \in Nat
      /\ temp \in [Threads -> Nat \cup {-1}] /\ count \in [Threads -> Nat]
  BY SMTT(30) DEF TypeOK, Buffer
<1>1. CASE Peer
  BY <1>1 DEF Peer, PeerSends, PeerCloses, PeerResets, CountInv
<1>2. CASE LoopCountStore
  BY <1>0, <1>2 DEF LoopCountStore, CountInv
<1>3. CASE LoopCountLoad
  BY <1>0, <1>3 DEF LoopCountLoad, CountInv
<1>4. CASE LoopGetLength \/ LoopGetReturn
  BY <1>0, <1>4, SMTT(60) DEF LoopGetLength, LoopGetReturn, CountInv
<1>5. CASE LoopEpollIn \/ LoopGetCopy \/ LoopPush \/ LoopResetFd \/ LoopResetLock
           \/ LoopResetClean \/ LoopClose
  BY <1>0, <1>5 DEF LoopEpollIn, LoopGetCopy, LoopPush, LoopResetFd, LoopResetLock,
     LoopResetClean, LoopClose, CountInv
<1>6. ASSUME NEW w \in Workers, WorkerStep(w) PROVE CountInv'
  <2>1. /\ UNCHANGED <<m_reference_count, count>>
        /\ temp' = temp \/ \E n : temp' = [temp EXCEPT ![w] = n]
        /\ \E to : pc' = [pc EXCEPT ![w] = to]
    BY <1>6 DEF WorkerStep, WorkerRuns, WorkerTake, WorkerRead, WorkerReadNothing, WorkerReadEnd,
       WorkerReadInput, WorkerPut, WorkerLength
  <2>. QED
    BY <1>0, <2>1 DEF CountInv
<1>7. CASE AppSendLock
  BY <1>0, <1>7 DEF AppSendLock, CountInv
<1>8. CASE AppSendAdd
  BY <1>0, <1>8 DEF AppSendAdd, CountInv
<1>9. CASE AppSendAdded
  BY <1>0, <1>9 DEF AppSendAdded, CountInv
<1>10. CASE AppSendCounted
  BY <1>0, <1>10 DEF AppSendCounted, CountInv
<1>11. CASE AppSendLeft \/ AppSendGet \/ AppPull \/ AppPullClose \/ AppReplyLength \/ AppBlocked
  BY <1>0, <1>11, SMTT(30) DEF AppSendLeft, AppSendGet, AppPull, AppPullClose, AppReplyLength,
     AppBlocked, CountInv
<1>12. CASE AppWriteNothing \/ AppWrite \/ AppWriteBlocked \/ AppWriteReset
  BY <1>0, <1>12, SMTT(120) DEF AppWriteNothing, AppWrite, AppWriteBlocked, AppWriteReset, Written,
     CountInv
<1>. QED
  BY <1>1, <1>2, <1>3, <1>4, <1>5, <1>6, <1>7, <1>8, <1>9, <1>10, <1>11, <1>12
     DEF Next, LoopStep, AppStep

-------------------------------------------------------------------------------
(* What a thread leaves alone. *)

Others(t) ==
    \A u \in Threads \ {t} :
        pc'[u] = pc[u] /\ temp'[u] = temp[u] /\ count'[u] = count[u] /\ data'[u] = data[u]

\* The loop thread moves no other thread, and neither the inbox nor the reply.
LEMMA LoopFrame ==
    ASSUME TypeOK, LoopStep
    PROVE  Others(Loop) /\ UNCHANGED <<inbox, sends, peer, dead, reply>>
<1> USE ThreadFacts
    DEF kernelVars, socketVars, queueVars, threadVars, Goto, Load, Copy, Others, TypeOK
<1>1. CASE LoopEpollIn \/ LoopGetLength
  BY <1>1 DEF LoopEpollIn, LoopGetLength
<1>2. CASE LoopGetCopy
  BY <1>2 DEF LoopGetCopy
<1>3. CASE LoopGetReturn
  BY <1>3 DEF LoopGetReturn
<1>4. CASE LoopCountLoad \/ LoopCountStore
  BY <1>4 DEF LoopCountLoad, LoopCountStore
<1>5. CASE LoopPush \/ LoopClose
  BY <1>5 DEF LoopPush, LoopClose
<1>6. CASE LoopResetFd \/ LoopResetLock \/ LoopResetClean
  BY <1>6 DEF LoopResetFd, LoopResetLock, LoopResetClean
<1>. QED
  BY <1>1, <1>2, <1>3, <1>4, <1>5, <1>6, Zenon DEF LoopStep

\* A worker moves no other thread, and nothing of the sending side.
LEMMA WorkerFrame ==
    ASSUME TypeOK, NEW w \in Workers, WorkerStep(w)
    PROVE  /\ Others(w)
           /\ UNCHANGED <<sends, peer, edge, m_socket, m_send_buf, m_undo_tasks, reply>>
<1> USE ThreadFacts
    DEF kernelVars, socketVars, queueVars, threadVars, Goto, Load, Copy, Forget, Others, TypeOK
<1>1. CASE WorkerTake(w) \/ WorkerReadNothing(w) \/ WorkerReadEnd(w)
  BY <1>1 DEF WorkerTake, WorkerReadNothing, WorkerReadEnd
<1>2. CASE WorkerRead(w)
  BY <1>2 DEF WorkerRead
<1>3. CASE WorkerPut(w) \/ WorkerLength(w)
  BY <1>3, SMTT(30) DEF WorkerPut, WorkerLength
<1>4. CASE WorkerReadInput(w)
  BY <1>4 DEF WorkerReadInput
<1>. QED
  BY <1>1, <1>2, <1>3, <1>4, Zenon DEF WorkerStep, WorkerRuns

\* The application moves no other thread, and neither the kernel nor the receive buffer.
LEMMA AppFrame ==
    ASSUME TypeOK, AppStep
    PROVE  Others(App) /\ UNCHANGED <<kernelVars, m_socket, m_recv_buf, jobs, refused>>
<1> USE ThreadFacts
    DEF kernelVars, socketVars, queueVars, threadVars, Goto, Load, Copy, Written, Others, TypeOK
<1>1. CASE AppPull \/ AppPullClose \/ AppReplyLength \/ AppSendLock
  BY <1>1, SMTT(30) DEF AppPull, AppPullClose, AppReplyLength, AppSendLock
<1>2. CASE AppSendAdd \/ AppSendAdded
  BY <1>2 DEF AppSendAdd, AppSendAdded
<1>3. CASE AppSendCounted \/ AppSendLeft
  BY <1>3 DEF AppSendCounted, AppSendLeft
<1>4. CASE AppSendGet
  BY <1>4 DEF AppSendGet
<1>5. CASE AppWriteNothing \/ AppWrite
  BY <1>5 DEF AppWriteNothing, AppWrite
<1>6. CASE AppWriteBlocked \/ AppBlocked
  BY <1>6 DEF AppWriteBlocked, AppBlocked
<1>7. CASE AppWriteReset
  BY <1>7 DEF AppWriteReset
<1>. QED
  BY <1>1, <1>2, <1>3, <1>4, <1>5, <1>6, <1>7, Zenon DEF AppStep

-------------------------------------------------------------------------------
(* Requests on their way to m_recv_buf. *)

\* A read() takes the oldest requests, and leaves the rest.
LEMMA ReadFacts ==
    ASSUME TypeOK, InboxInv, NEW w \in Workers, WorkerRead(w)
    PROVE  \E n \in 1 .. Len(inbox) :
              /\ n = Len(inbox) \/ n = ReadMax
              /\ data'[w] \in Seq(1 .. MaxSends) /\ Len(data'[w]) = n
              /\ \A i \in 1 .. n : data'[w][i] = inbox[i]
              /\ temp'[w] = n
              /\ inbox' \in Seq(1 .. MaxSends) /\ Len(inbox') = Len(inbox) - n
              /\ \A i \in 1 .. Len(inbox) - n : inbox'[i] = inbox[i + n]
<1> DEFINE n == IF Len(inbox) < ReadMax THEN Len(inbox) ELSE ReadMax
<1>1. Len(inbox) \in Nat /\ Len(inbox) > 0
  BY EmptySeq DEF TypeOK, WorkerRead
<1>2. n \in 1 .. Len(inbox) /\ n \in 0 .. Len(inbox) /\ (n = Len(inbox) \/ n = ReadMax)
  BY <1>1, SocketAssumption
<1>3. /\ data'[w] = SubSeq(inbox, 1, n) /\ temp'[w] = n
      /\ inbox' = SubSeq(inbox, n + 1, Len(inbox))
  BY ThreadFacts, Zenon DEF WorkerRead, Copy, Load, TypeOK
<1> HIDE DEF n
<1>4. /\ SubSeq(inbox, 1, n) \in Seq(1 .. MaxSends) /\ Len(SubSeq(inbox, 1, n)) = n
      /\ \A i \in 1 .. n : SubSeq(inbox, 1, n)[i] = inbox[i]
      /\ SubSeq(inbox, n + 1, Len(inbox)) \in Seq(1 .. MaxSends)
      /\ Len(SubSeq(inbox, n + 1, Len(inbox))) = Len(inbox) - n
      /\ \A i \in 1 .. Len(inbox) - n : SubSeq(inbox, n + 1, Len(inbox))[i] = inbox[i + n]
  <2>1. inbox \in Seq(1 .. MaxSends)
    BY DEF TypeOK
  <2>. QED
    BY ONLY <1>2, <2>1, CutFacts, ZenonT(30)
<1>. QED
  BY <1>2, <1>3, <1>4

\* Every step keeps the inbox the part of what was sent that is not read.
LEMMA InboxKept == TypeOK /\ InboxInv /\ Next => InboxInv'
<1> SUFFICES ASSUME TypeOK, InboxInv, Next PROVE InboxInv'
  OBVIOUS
<1>0. sends \in Nat /\ Len(inbox) \in Nat
  BY SocketAssumption, LenProperties DEF TypeOK
<1>1. CASE PeerSends
  <2>1. /\ Len(inbox') = Len(inbox) + 1 /\ sends' = sends + 1
        /\ \A i \in 1 .. Len(inbox) : inbox'[i] = inbox[i]
        /\ inbox'[Len(inbox) + 1] = sends + 1
    BY <1>1, AppendProperties DEF PeerSends, TypeOK
  <2>. QED
    BY <1>0, <2>1 DEF InboxInv
<1>2. CASE PeerResets
  BY <1>0, <1>2 DEF PeerResets, InboxInv
<1>3. ASSUME NEW w \in Workers, WorkerRead(w) PROVE InboxInv'
  <2>1. PICK n \in 1 .. Len(inbox) :
          /\ Len(inbox') = Len(inbox) - n
          /\ \A i \in 1 .. Len(inbox) - n : inbox'[i] = inbox[i + n]
    BY <1>3, ReadFacts, Zenon
  <2>2. sends' = sends
    BY <1>3 DEF WorkerRead
  <2>. QED
    BY <1>0, <2>1, <2>2 DEF InboxInv
<1>4. CASE PeerCloses \/ LoopStep \/ AppStep
  BY <1>4, LoopFrame, AppFrame DEF PeerCloses, kernelVars, InboxInv
<1>5. ASSUME NEW w \in Workers,
             WorkerTake(w) \/ WorkerReadNothing(w) \/ WorkerReadEnd(w) \/ WorkerReadInput(w)
             \/ WorkerPut(w) \/ WorkerLength(w)
      PROVE  InboxInv'
  BY <1>5 DEF WorkerTake, WorkerReadNothing, WorkerReadEnd, WorkerReadInput, WorkerPut, WorkerLength,
     kernelVars, InboxInv
<1>. QED
  BY <1>1, <1>2, <1>3, <1>4, <1>5 DEF Next, Peer, WorkerStep, WorkerRuns

\* Every step keeps what a worker has read consecutive requests.
LEMMA ReadKept == TypeOK /\ InboxInv /\ ReadInv /\ Next => ReadInv'
<1> SUFFICES ASSUME TypeOK, InboxInv, ReadInv, Next, NEW w \in Workers PROVE ReadOf(w)'
  BY DEF ReadInv
<1> USE ThreadFacts
<1>0. /\ sends \in Nat /\ Len(inbox) \in Nat /\ DOMAIN pc = Threads
      /\ sends' \in Nat /\ sends <= sends'
      /\ ~dead /\ ReadOf(w)
  <2>1. sends \in Nat /\ Len(inbox) \in Nat /\ DOMAIN pc = Threads
    BY SocketAssumption, LenProperties DEF TypeOK
  <2>2. sends' \in {sends, sends + 1}
    BY LoopFrame, AppFrame, WorkerFrame
       DEF Next, Peer, PeerSends, PeerCloses, PeerResets, kernelVars
  <2>. QED
    BY <2>1, <2>2 DEF Next, ReadInv
<1>1. ASSUME pc'[w] = pc[w], temp'[w] = temp[w], data'[w] = data[w] PROVE ReadOf(w)'
  <2>1. ASSUME Requests(data[w], temp[w]) PROVE Requests(data[w], temp[w])'
    <3>1. data[w][1] \in 1 .. sends => data[w][1] \in 1 .. sends'
      BY <1>0
    <3>. QED
      BY ONLY <1>1, <2>1, <3>1 DEF Requests
  <2>2. temp[w] = Len(data[w]) => temp'[w] = Len(data'[w])
    BY ONLY <1>1
  <2>. QED
    BY ONLY <1>0, <1>1, <2>1, <2>2 DEF ReadOf
<1>2. CASE Peer
  BY <1>1, <1>2, SMTT(120) DEF Peer, PeerSends, PeerCloses, PeerResets, threadVars
<1>3. CASE LoopStep \/ AppStep
  BY <1>1, <1>3, LoopFrame, AppFrame DEF Others
<1>4. ASSUME NEW v \in Workers, v /= w, WorkerStep(v) PROVE ReadOf(w)'
  BY <1>1, <1>4, WorkerFrame, Zenon DEF Others
<1>5. CASE WorkerRead(w)
  <2>1. PICK n \in 1 .. Len(inbox) :
          /\ Len(data'[w]) = n
          /\ \A i \in 1 .. n : data'[w][i] = inbox[i]
          /\ temp'[w] = n
    BY <1>5, ReadFacts
  <2>2. \A i \in 1 .. n : data'[w][i] = sends - Len(inbox) + i
    BY <1>0, <2>1 DEF InboxInv
  <2>3. data'[w][1] \in 1 .. sends /\ \A i \in 2 .. n : data'[w][i] = data'[w][i - 1] + 1
    <3>1. PICK k \in Nat : k = Len(inbox) /\ k <= sends /\ n \in 1 .. k
      BY <1>0 DEF InboxInv
    <3>2. \A i \in 1 .. n : data'[w][i] = sends - k + i
      BY <2>2, <3>1
    <3>3. data'[w][1] = sends - k + 1
      BY <3>1, <3>2
    <3>4. ASSUME NEW i \in 2 .. n PROVE data'[w][i] = data'[w][i - 1] + 1
      <4>1. i \in 1 .. n /\ i - 1 \in 1 .. n
        BY <3>1
      <4>2. data'[w][i] = sends - k + i /\ data'[w][i - 1] = sends - k + (i - 1)
        BY <3>2, <4>1
      <4>. QED
        BY <1>0, <3>1, <4>2
    <3>. QED
      BY <1>0, <3>1, <3>3, <3>4
  <2>4. pc'[w] = "lock" /\ sends' = sends
    BY <1>0, <1>5 DEF WorkerRead, Goto
  <2>. QED
    BY <1>0, <2>1, <2>3, <2>4, SMTT(60) DEF ReadOf, Requests
<1>6. CASE WorkerReadNothing(w)
  BY <1>0, <1>6 DEF WorkerReadNothing, Goto, Load, TypeOK, ReadOf
<1>7. CASE WorkerTake(w) \/ WorkerReadEnd(w) \/ WorkerLength(w)
  BY <1>0, <1>7 DEF WorkerTake, WorkerReadEnd, WorkerLength, Goto, ReadOf
<1>9. CASE WorkerReadInput(w)
  <2>1. CASE pc' = [pc EXCEPT ![w] = "idle"]
    BY <1>0, <2>1 DEF ReadOf
  <2>2. CASE /\ pc' = [pc EXCEPT ![w] = "lock"]
             /\ temp' = [temp EXCEPT ![w] = 1] /\ data' = [data EXCEPT ![w] = <<Input>>]
    <3>1. pc'[w] = "lock" /\ temp'[w] = 1 /\ data'[w] = <<Input>>
      BY <1>0, <2>2 DEF TypeOK
    <3>2. Len(<<Input>>) = 1 /\ <<Input>>[1] = Input
      OBVIOUS
    <3>. QED
      BY <3>1, <3>2 DEF ReadOf, Requests
  <2>. QED
    BY <1>9, <2>1, <2>2 DEF WorkerReadInput, Goto, Load, Copy
<1>8. CASE WorkerPut(w)
  <2>1. /\ pc[w] = "lock" /\ pc'[w] = "length" /\ temp' = temp /\ data' = data
        /\ sends' = sends /\ dead' = (temp[w] = -1)
    BY <1>0, <1>8 DEF WorkerPut, Goto, kernelVars
  <2>. QED
    BY <1>0, <2>1, Zenon DEF ReadOf, Requests
<1>. QED
  BY <1>2, <1>3, <1>4, <1>5, <1>6, <1>7, <1>8, <1>9 DEF Next, WorkerStep, WorkerRuns

\* Every step keeps m_recv_buf whole outside put_buf().
LEMMA RecvKept == TypeOK /\ LockInv /\ ReadInv /\ RecvInv /\ Next => RecvInv'
<1> SUFFICES ASSUME TypeOK, LockInv, ReadInv, RecvInv, Next PROVE RecvInv'
  OBVIOUS
<1> USE ThreadFacts
<1>0. /\ sends \in Nat /\ sends' \in Nat /\ sends <= sends' /\ ~dead
      /\ DOMAIN pc = Threads /\ m_recv_buf \in Buffer /\ data \in [Threads -> Seq(Byte)]
  <2>1. sends' \in {sends, sends + 1}
    BY LoopFrame, AppFrame, WorkerFrame
       DEF Next, Peer, PeerSends, PeerCloses, PeerResets, kernelVars
  <2>. QED
    BY <2>1, SocketAssumption DEF TypeOK, Next
<1>1. ASSUME m_recv_buf' = m_recv_buf, Whole PROVE Whole'
  BY <1>0, <1>1, SMTT(30) DEF Whole, Requests
<1>2. ASSUME m_recv_buf' = m_recv_buf, m_lock' \notin Workers => m_lock \notin Workers,
             \A w \in Workers : pc'[w] = pc[w] /\ data'[w] = data[w]
      PROVE  RecvInv'
  <2>1. ASSUME NEW w \in Workers PROVE PutOf(w)'
    BY <1>2, Zenon DEF RecvInv, PutOf
  <2>2. m_lock' \notin Workers => Whole'
    BY <1>1, <1>2, Zenon DEF RecvInv
  <2>. QED
    BY <2>1, <2>2, Zenon DEF RecvInv
<1>3. CASE Peer
  BY <1>2, <1>3 DEF Peer, PeerSends, PeerCloses, PeerResets, socketVars, threadVars
<1>4. CASE LoopResetClean
  <2>1. Whole'
    BY <1>4 DEF LoopResetClean, Clean, Whole
  <2>2. \A w \in Workers : pc'[w] /= "length"
    BY <1>0, <1>4, SMTT(30) DEF LoopResetClean, Goto, LockInv
  <2>. QED
    BY <2>1, <2>2 DEF RecvInv, PutOf
<1>5. CASE LoopStep /\ ~LoopResetClean
  <2>1. m_recv_buf' = m_recv_buf /\ (m_lock' \notin Workers => m_lock \notin Workers)
    BY <1>5 DEF LoopStep, LoopEpollIn, LoopGetLength, LoopGetCopy, LoopGetReturn, LoopCountLoad,
       LoopCountStore, LoopPush, LoopResetFd, LoopResetLock, LoopClose, Lock, socketVars
  <2>2. Others(Loop)
    BY <1>5, LoopFrame, Zenon
  <2>3. \A w \in Workers : pc'[w] = pc[w] /\ data'[w] = data[w]
    BY <2>2 DEF Others
  <2>. QED
    BY <1>2, <2>1, <2>3, Zenon
<1>6. ASSUME NEW w \in Workers, WorkerPut(w) PROVE RecvInv'
  <2>1. /\ m_lock = Free /\ m_lock' = w /\ data' = data
        /\ m_recv_buf' = [m_recv_buf EXCEPT !.buf = Overwrite(@, data[w])]
        /\ \A v \in Workers : v /= w => pc'[v] = pc[v]
    BY <1>0, <1>6 DEF WorkerPut, Lock, Goto
  <2>2. data[w] \in Seq(Byte) /\ m_recv_buf.buf \in Seq(Byte)
    BY <1>0 DEF Buffer
  <2>3. m_recv_buf'.buf = Overwrite(m_recv_buf.buf, data[w])
    BY <1>0, <2>1, <2>2, OverwriteFacts, BufferFacts
  <2>4. PutOf(w)'
    BY <2>1, <2>2, <2>3, OverwriteFacts DEF PutOf
  <2>5. ASSUME NEW v \in Workers, v /= w PROVE pc'[v] /= "length"
    BY <2>1, <2>5 DEF LockInv
  <2>. QED
    BY <2>1, <2>4, <2>5 DEF RecvInv, PutOf
<1>7. ASSUME NEW w \in Workers, WorkerLength(w) PROVE RecvInv'
  <2>1. /\ pc[w] = "length" /\ pc'[w] = "idle" /\ sends' = sends
        /\ m_recv_buf' = [m_recv_buf EXCEPT !.length = temp[w]]
        /\ \A v \in Workers : v /= w => pc'[v] = pc[v]
    BY <1>0, <1>7 DEF WorkerLength, Goto, kernelVars
  <2>2. /\ temp[w] = Len(data[w]) /\ Requests(data[w], temp[w])
        /\ Len(data[w]) \in Nat /\ Len(m_recv_buf.buf) \in Nat
    <3>1. temp[w] = Len(data[w]) /\ Requests(data[w], temp[w])
      BY <1>0, <2>1 DEF ReadInv, ReadOf
    <3>2. data[w] \in Seq(Byte) /\ m_recv_buf.buf \in Seq(Byte)
      BY <1>0 DEF Buffer
    <3>. QED
      BY <3>1, <3>2, LenProperties
  <2>3. m_recv_buf'.buf = m_recv_buf.buf /\ m_recv_buf'.length = temp[w]
    BY <1>0, <2>1, <2>2, BufferFacts
  <2>4. Requests(m_recv_buf.buf, temp[w])
    <3>1. /\ Len(data[w]) <= Len(m_recv_buf.buf)
          /\ \A i \in 1 .. Len(data[w]) : m_recv_buf.buf[i] = data[w][i]
      BY <2>1 DEF RecvInv, PutOf
    <3>2. /\ temp[w] \in 1 .. Len(m_recv_buf.buf)
          /\ m_recv_buf.buf[1] \in 1 .. sends \/ (m_recv_buf.buf[1] = Input /\ temp[w] = 1)
      BY <2>2, <3>1, SMTT(30) DEF Requests
    <3>3. ASSUME NEW i \in 2 .. temp[w] PROVE m_recv_buf.buf[i] = m_recv_buf.buf[i - 1] + 1
      <4>1. i \in 1 .. Len(data[w]) /\ i - 1 \in 1 .. Len(data[w])
        BY <2>2
      <4>. QED
        BY <2>2, <3>1, <4>1 DEF Requests
    <3>. QED
      BY <3>2, <3>3 DEF Requests
  <2>5. Whole'
    BY <2>1, <2>3, <2>4 DEF Whole, Requests
  <2>6. ASSUME NEW v \in Workers PROVE pc'[v] /= "length"
    BY <2>1 DEF LockInv
  <2>. QED
    BY <2>5, <2>6 DEF RecvInv, PutOf
<1>8. ASSUME NEW w \in Workers,
             WorkerTake(w) \/ WorkerRead(w) \/ WorkerReadNothing(w) \/ WorkerReadEnd(w) \/ WorkerReadInput(w)
      PROVE  RecvInv'
  <2>1. /\ m_recv_buf' = m_recv_buf /\ m_lock' = m_lock /\ pc'[w] /= "length"
    BY <1>0, <1>8 DEF WorkerTake, WorkerRead, WorkerReadNothing, WorkerReadEnd, WorkerReadInput, Goto, socketVars
  <2>2. Others(w)
    BY <1>8, WorkerFrame DEF WorkerStep, WorkerRuns
  <2>. QED
    BY <1>1, <2>1, <2>2 DEF RecvInv, PutOf, Others
<1>9. CASE AppStep
  <2>1. m_lock' \notin Workers => m_lock \notin Workers
    BY <1>9 DEF AppStep, AppPull, AppPullClose, AppReplyLength, AppSendLock, AppSendAdd,
       AppSendAdded, AppSendCounted, AppSendLeft, AppSendGet, AppWriteNothing, AppWrite,
       AppWriteBlocked, AppBlocked, AppWriteReset, Written, Lock, Goto, socketVars, LockInv,
       AppLocked
  <2>. QED
    BY <1>2, <1>9, <2>1, AppFrame, SMTT(30) DEF Others
<1>. QED
  BY <1>3, <1>4, <1>5, <1>6, <1>7, <1>8, <1>9 DEF Next, WorkerStep, WorkerRuns

-------------------------------------------------------------------------------
(* The reply on its way to the connection. *)

\* Every step keeps the reply in m_send_buf while the connection is up.
LEMMA SendKept == TypeOK /\ SendInv /\ Next => SendInv'
<1> SUFFICES ASSUME TypeOK, SendInv, Next, m_socket' = 1
             PROVE  NotClosing' /\ ReplyKept'
  BY DEF SendInv
<1> USE ThreadFacts
<1>0. /\ NotClosing /\ ReplyKept
      /\ DOMAIN pc = Threads /\ m_send_buf \in Buffer /\ data \in [Threads -> Seq(Byte)]
      /\ m_undo_tasks \in Seq([msg : Seq(Byte), close : BOOLEAN]) /\ reply \in Seq(Byte)
  <2>1. m_socket = 1
    <3>1. ASSUME LoopStep PROVE m_socket' \in {m_socket, 0}
      BY <3>1 DEF LoopStep, LoopEpollIn, LoopGetLength, LoopGetCopy, LoopGetReturn,
         LoopCountLoad, LoopCountStore, LoopPush, LoopResetFd, LoopResetLock, LoopResetClean,
         LoopClose, socketVars
    <3>2. ASSUME Peer PROVE m_socket' = m_socket
      BY <3>2 DEF Peer, PeerSends, PeerCloses, PeerResets, socketVars
    <3>. QED
      BY <3>1, <3>2, AppFrame, WorkerFrame, SMTT(30) DEF Next
  <2>. QED
    BY <2>1 DEF TypeOK, SendInv
<1>1. ASSUME UNCHANGED <<m_send_buf, reply>>, pc'[App] = pc[App], data'[App] = data[App]
      PROVE  ReplyKept'
  BY <1>0, <1>1 DEF ReplyKept
<1>2. ASSUME UNCHANGED m_undo_tasks, pc'[Loop] \notin {"reset", "clean", "close"}
      PROVE  NotClosing'
  BY <1>0, <1>2 DEF NotClosing
<1>3. CASE Peer
  <2>1. UNCHANGED <<socketVars, m_undo_tasks, threadVars, reply>>
    BY <1>3 DEF Peer, PeerSends, PeerCloses, PeerResets, queueVars
  <2>2. UNCHANGED <<m_send_buf, m_undo_tasks, pc, data, reply>>
    BY <2>1 DEF socketVars, threadVars
  <2>. QED
    BY <1>0, <1>1, <1>2, <2>2 DEF NotClosing
<1>4. ASSUME NEW w \in Workers, WorkerStep(w) PROVE NotClosing' /\ ReplyKept'
  BY <1>0, <1>1, <1>2, <1>4, WorkerFrame DEF Others, NotClosing
<1>5. CASE LoopStep
  <2>1. ~LoopResetFd /\ ~LoopResetLock /\ ~LoopResetClean /\ ~LoopClose
    BY <1>0, SMTT(30) DEF LoopResetFd, LoopResetLock, LoopResetClean, LoopClose, Goto, NotClosing
  <2>2. m_send_buf' = m_send_buf /\ pc'[Loop] \notin {"reset", "clean", "close"}
    <3>1. CASE LoopEpollIn \/ LoopGetLength
      BY <1>0, <3>1 DEF LoopEpollIn, LoopGetLength, socketVars, Goto
    <3>2. CASE LoopGetCopy \/ LoopGetReturn
      BY <1>0, <3>2 DEF LoopGetCopy, LoopGetReturn, socketVars, Goto
    <3>3. CASE LoopCountLoad \/ LoopCountStore
      BY <1>0, <3>3 DEF LoopCountLoad, LoopCountStore, socketVars, Goto
    <3>4. CASE LoopPush
      BY <1>0, <3>4 DEF LoopPush, socketVars, Goto
    <3>. QED
      BY <1>5, <2>1, <3>1, <3>2, <3>3, <3>4, Zenon DEF LoopStep
  <2>3. ReplyKept'
    BY <1>1, <1>5, <2>2, LoopFrame DEF Others
  <2>4. CASE LoopPush
    <3>1. [msg |-> data[Loop], close |-> FALSE] \in [msg : Seq(Byte), close : BOOLEAN]
      BY <1>0, SMTT(30)
    <3>2. /\ Len(m_undo_tasks') = Len(m_undo_tasks) + 1
          /\ \A i \in 1 .. Len(m_undo_tasks) : m_undo_tasks'[i] = m_undo_tasks[i]
          /\ m_undo_tasks'[Len(m_undo_tasks) + 1] = [msg |-> data[Loop], close |-> FALSE]
          /\ Len(m_undo_tasks) \in Nat
      <4> DEFINE x == [msg |-> data[Loop], close |-> FALSE]
                 S == [msg : Seq(Byte), close : BOOLEAN]
      <4>1. m_undo_tasks' = Append(m_undo_tasks, x) /\ m_undo_tasks \in Seq(S) /\ x \in S
        BY <1>0, <2>4, <3>1 DEF LoopPush
      <4> HIDE DEF x, S
      <4>2. /\ Len(m_undo_tasks') = Len(m_undo_tasks) + 1
            /\ \A i \in 1 .. Len(m_undo_tasks) : m_undo_tasks'[i] = m_undo_tasks[i]
            /\ m_undo_tasks'[Len(m_undo_tasks) + 1] = x
            /\ Len(m_undo_tasks) \in Nat
        BY ONLY <4>1, AppendFacts
      <4>. QED
        BY <4>2 DEF x
    <3>3. ASSUME NEW i \in 1 .. Len(m_undo_tasks') PROVE ~m_undo_tasks'[i].close
      <4>1. CASE i = Len(m_undo_tasks) + 1
        BY <3>2, <4>1, SMTT(60)
      <4>2. CASE i /= Len(m_undo_tasks) + 1
        <5>1. i \in 1 .. Len(m_undo_tasks)
          BY <3>2, <4>2
        <5>. QED
          BY <1>0, <3>2, <5>1, Zenon DEF NotClosing
      <4>. QED
        BY <4>1, <4>2, SMTT(30)
    <3>. QED
      BY <2>2, <2>3, <3>3, SMTT(30) DEF NotClosing
  <2>5. CASE ~LoopPush
    <3>1. UNCHANGED m_undo_tasks
      BY <1>5, <2>1, <2>5, Zenon DEF LoopStep, LoopEpollIn, LoopGetLength, LoopGetCopy, LoopGetReturn,
         LoopCountLoad, LoopCountStore, queueVars
    <3>. QED
      BY <1>2, <2>2, <2>3, <3>1
  <2>. QED
    BY <2>4, <2>5
<1>6. CASE AppPull
  <2>1. /\ m_undo_tasks /= <<>> /\ m_undo_tasks' = Tail(m_undo_tasks)
        /\ reply' = (IF Echo THEN Head(m_undo_tasks).msg ELSE Hello)
        /\ m_send_buf' = [m_send_buf EXCEPT !.buf = Overwrite(@, reply')]
        /\ pc'[App] = "length" /\ pc'[Loop] = pc[Loop]
    BY <1>0, <1>6 DEF AppPull, Goto
  <2>2. reply' \in Seq(Byte) /\ m_send_buf.buf \in Seq(Byte)
    <3>1. Head(m_undo_tasks) \in [msg : Seq(Byte), close : BOOLEAN]
      BY <1>0, <2>1, SeqFacts, Zenon
    <3>. QED
      BY <1>0, <2>1, <3>1, ByteFacts DEF Buffer
  <2>3. m_send_buf'.buf = Overwrite(m_send_buf.buf, reply')
    BY <1>0, <2>1, <2>2, OverwriteFacts, BufferFacts
  <2>4. ReplyKept'
    BY <2>1, <2>2, <2>3, OverwriteFacts DEF ReplyKept, AppLocked
  <2>5. \A i \in 1 .. Len(m_undo_tasks') : ~m_undo_tasks'[i].close
    <3>1. /\ Len(m_undo_tasks) \in Nat /\ Len(m_undo_tasks') = Len(m_undo_tasks) - 1
          /\ \A i \in 1 .. Len(m_undo_tasks) - 1 : m_undo_tasks'[i] = m_undo_tasks[i + 1]
      BY <1>0, <2>1, SeqFacts
    <3>2. ASSUME NEW i \in 1 .. Len(m_undo_tasks') PROVE ~m_undo_tasks'[i].close
      <4>1. i \in 1 .. Len(m_undo_tasks) - 1 /\ i + 1 \in 1 .. Len(m_undo_tasks)
        BY <3>1
      <4>. QED
        BY <1>0, <3>1, <4>1, Zenon DEF NotClosing
    <3>. QED
      BY <3>2
  <2>. QED
    BY <1>0, <2>1, <2>4, <2>5 DEF NotClosing
<1>7. CASE AppPullClose
  <2>1. Head(m_undo_tasks) = m_undo_tasks[1] /\ 1 \in 1 .. Len(m_undo_tasks)
    BY <1>0, <1>7, SeqFacts DEF AppPullClose
  <2>. QED
    BY <1>0, <1>7, <2>1 DEF AppPullClose, NotClosing
<1>8. CASE AppReplyLength
  <2>1. /\ pc[App] = "length" /\ pc'[App] = "send" /\ pc'[Loop] = pc[Loop]
        /\ m_send_buf' = [m_send_buf EXCEPT !.length = Len(reply)]
        /\ UNCHANGED <<m_undo_tasks, reply>>
    BY <1>0, <1>8 DEF AppReplyLength, Goto, queueVars
  <2>2. m_send_buf'.buf = m_send_buf.buf /\ m_send_buf'.length = Len(reply)
    BY <1>0, <2>1, BufferFacts, LenProperties
  <2>. QED
    BY <1>0, <1>2, <2>1, <2>2 DEF ReplyKept, NotClosing
<1>9. CASE AppSendLock \/ AppSendAdd \/ AppSendAdded \/ AppSendCounted \/ AppSendLeft
  <2>1. /\ UNCHANGED <<m_send_buf, m_undo_tasks, reply>>
        /\ pc[App] \in {"send"} \cup AppLocked /\ pc'[App] \in AppLocked
        /\ pc'[Loop] = pc[Loop]
    BY <1>0, <1>9 DEF AppSendLock, AppSendAdd, AppSendAdded, AppSendCounted, AppSendLeft,
       Goto, AppLocked, socketVars, queueVars
  <2>2. pc'[App] /= "write" /\ pc'[App] \in {"send"} \cup AppLocked
    BY <2>1 DEF AppLocked
  <2>. QED
    BY <1>0, <1>2, <2>1, <2>2, ZenonT(30) DEF ReplyKept, NotClosing
<1>10. CASE AppSendGet
  <2>1. /\ UNCHANGED <<m_undo_tasks, reply>> /\ data'[App] = Get(m_send_buf)
        /\ pc[App] = "get" /\ pc'[App] = "write" /\ pc'[Loop] = pc[Loop]
    BY <1>0, <1>10 DEF AppSendGet, Copy, Goto, queueVars
  <2>2. /\ m_send_buf.buf \in Seq(Byte) /\ m_send_buf.length = Len(reply)
        /\ Len(reply) \in Nat /\ Len(reply) <= Len(m_send_buf.buf)
        /\ \A i \in 1 .. Len(reply) : m_send_buf.buf[i] = reply[i]
    BY <1>0, <2>1, LenProperties, Zenon DEF ReplyKept, AppLocked, Buffer
  <2>3. /\ Get(m_send_buf) \in Seq(Byte) /\ Len(Get(m_send_buf)) = Len(reply)
        /\ \A i \in 1 .. Len(reply) : Get(m_send_buf)[i] = reply[i]
    <3>1. /\ Get(m_send_buf) \in Seq(Byte) /\ Len(Get(m_send_buf)) = Len(reply)
          /\ \A i \in 1 .. Len(reply) :
                Get(m_send_buf)[i] = IF i <= Len(m_send_buf.buf) THEN m_send_buf.buf[i] ELSE 0
      <4>1. Get(m_send_buf) = Bytes(m_send_buf.buf, Len(reply))
        BY <2>2 DEF Get
      <4>2. /\ Bytes(m_send_buf.buf, Len(reply)) \in Seq(Byte)
            /\ Len(Bytes(m_send_buf.buf, Len(reply))) = Len(reply)
            /\ \A i \in 1 .. Len(reply) :
                  Bytes(m_send_buf.buf, Len(reply))[i]
                    = IF i <= Len(m_send_buf.buf) THEN m_send_buf.buf[i] ELSE 0
        BY ONLY <2>2, BytesFacts, Zenon
      <4>. QED
        BY ONLY <4>1, <4>2, ZenonT(30)
    <3>2. \A i \in 1 .. Len(reply) : i <= Len(m_send_buf.buf)
      BY <2>2, LenProperties
    <3>. QED
      BY <2>2, <3>1, <3>2, Zenon
  <2>4. Get(m_send_buf) = reply
    BY <1>0, <2>3, SeqEqual, SMTT(30)
  <2>. QED
    BY <1>0, <1>2, <2>1, <2>4, Zenon DEF ReplyKept, NotClosing, AppLocked
<1>11. CASE AppWriteNothing \/ AppWrite \/ AppWriteBlocked \/ AppWriteReset \/ AppBlocked
  <2>1. UNCHANGED m_undo_tasks /\ pc'[App] \in {"idle", "blocked"} /\ pc'[Loop] = pc[Loop]
    <3>1. CASE AppWriteNothing \/ AppWrite
      BY <1>0, <3>1 DEF AppWriteNothing, AppWrite, Written, Goto, queueVars
    <3>2. CASE AppWriteBlocked \/ AppBlocked
      BY <1>0, <3>2 DEF AppWriteBlocked, AppBlocked, Written, Goto, queueVars
    <3>3. CASE AppWriteReset
      BY <1>0, <3>3 DEF AppWriteReset, Written, Goto, queueVars
    <3>. QED
      BY <1>11, <3>1, <3>2, <3>3, Zenon
  <2>2. NotClosing'
    BY <1>0, <1>2, <2>1 DEF NotClosing
  <2>3. ReplyKept'
    BY <2>1 DEF ReplyKept, AppLocked
  <2>. QED
    BY <2>2, <2>3, Zenon
<1>. QED
  BY <1>3, <1>4, <1>5, <1>6, <1>7, <1>8, <1>9, <1>10, <1>11 DEF Next, AppStep

-------------------------------------------------------------------------------
(* One read() per edge. *)

\* Every step keeps an edge, a job or a reader for the bytes in the inbox.
LEMMA StrandedKept ==
    TypeOK /\ InboxInv /\ SendInv /\ NoStrandedBytes /\ Next => NoStrandedBytes'
<1> SUFFICES ASSUME TypeOK, InboxInv, SendInv, NoStrandedBytes, Next, ReadMax >= MaxSends
             PROVE  NoStrandedBytes'
  BY DEF NoStrandedBytes
<1> USE ThreadFacts
<1>0. /\ jobs \in Nat /\ DOMAIN pc = Threads /\ m_socket \in {0, 1}
      /\ \/ inbox = <<>> \/ edge \/ jobs > 0 \/ m_socket = 0
         \/ pc[Loop] /= "idle" \/ (\E w \in Workers : pc[w] = "read") \/ refused
  BY DEF TypeOK, NoStrandedBytes
<1>1. CASE Peer
  BY <1>0, <1>1 DEF Peer, PeerSends, PeerCloses, PeerResets, socketVars, queueVars, threadVars,
     NoStrandedBytes
<1>2. CASE LoopStep
  <2>1. CASE LoopPush \/ LoopEpollIn \/ LoopResetFd
    <3>1. CASE LoopPush
      <4>1. UNCHANGED <<inbox, m_socket>>
        BY <3>1 DEF LoopPush, kernelVars, socketVars
      <4>2. CASE jobs' = jobs + 1
        <5>1. jobs' > 0
          BY ONLY <1>0, <4>2
        <5>. QED
          BY <5>1, Zenon DEF NoStrandedBytes
      <4>3. CASE refused' = (inbox /= <<>>)
        BY <4>1, <4>3, Zenon DEF NoStrandedBytes
      <4>. QED
        BY <3>1, <4>2, <4>3, Zenon DEF LoopPush
    <3>2. CASE LoopEpollIn
      BY <1>0, <3>2 DEF LoopEpollIn, Goto, NoStrandedBytes
    <3>3. CASE LoopResetFd
      BY <1>0, <3>3 DEF LoopResetFd, Goto, NoStrandedBytes
    <3>. QED
      BY <2>1, <3>1, <3>2, <3>3, Zenon
  <2>2. CASE LoopClose
    <3>1. m_socket = 0 /\ m_socket' = m_socket
      BY <1>0, <2>2 DEF LoopClose, Goto, SendInv, NotClosing, socketVars
    <3>. QED
      BY <3>1 DEF NoStrandedBytes
  <2>3. CASE LoopGetLength \/ LoopGetCopy \/ LoopGetReturn \/ LoopCountLoad \/ LoopCountStore
             \/ LoopResetLock \/ LoopResetClean
    BY <1>0, <2>3 DEF LoopGetLength, LoopGetCopy, LoopGetReturn, LoopCountLoad, LoopCountStore,
       LoopResetLock, LoopResetClean, Goto, NoStrandedBytes
  <2>. QED
    BY <1>2, <2>1, <2>2, <2>3 DEF LoopStep
<1>3. ASSUME NEW w \in Workers, WorkerTake(w) PROVE NoStrandedBytes'
  BY <1>0, <1>3 DEF WorkerTake, Goto, NoStrandedBytes
<1>4. ASSUME NEW w \in Workers, WorkerRead(w) PROVE NoStrandedBytes'
  <2>1. PICK n \in 1 .. Len(inbox) :
          /\ n = Len(inbox) \/ n = ReadMax
          /\ inbox' \in Seq(1 .. MaxSends) /\ Len(inbox') = Len(inbox) - n
    BY <1>4, ReadFacts, Zenon
  <2>2. Len(inbox) \in Nat /\ Len(inbox) <= MaxSends
    BY SocketAssumption, LenProperties DEF TypeOK, InboxInv
  <2>3. Len(inbox') = 0
    BY <2>1, <2>2, SocketAssumption
  <2>4. inbox' = <<>>
    BY <2>1, <2>3, EmptySeq, SMTT(30)
  <2>. QED
    BY <2>4 DEF NoStrandedBytes
<1>5. ASSUME NEW w \in Workers, WorkerReadNothing(w) \/ WorkerReadEnd(w) \/ WorkerReadInput(w)
      PROVE  NoStrandedBytes'
  BY <1>5 DEF WorkerReadNothing, WorkerReadEnd, WorkerReadInput, kernelVars, socketVars, NoStrandedBytes
<1>6. ASSUME NEW w \in Workers, WorkerPut(w) \/ WorkerLength(w) PROVE NoStrandedBytes'
  <2>1. /\ UNCHANGED <<inbox, edge, jobs, refused, m_socket>> /\ pc'[Loop] = pc[Loop]
        /\ \A v \in Workers : pc[v] = "read" => pc'[v] = "read"
    BY <1>0, <1>6 DEF WorkerPut, WorkerLength, Goto, kernelVars, queueVars
  <2>. QED
    BY <1>0, <2>1 DEF NoStrandedBytes
<1>7. CASE AppStep
  BY <1>0, <1>7, AppFrame DEF kernelVars, Others, NoStrandedBytes
<1>. QED
  BY <1>1, <1>2, <1>3, <1>4, <1>5, <1>6, <1>7, SMTT(30) DEF Next, WorkerStep, WorkerRuns

-------------------------------------------------------------------------------
(* The theorems. *)

\* Every step, and stuttering, keeps the invariant.
LEMMA SocketStep == IInv /\ [Next]_vars => IInv'
<1> SUFFICES ASSUME IInv, [Next]_vars PROVE IInv'
  OBVIOUS
<1>1. CASE Next
  <2>1. TypeOK'
    BY <1>1, PeerTypes, LoopTypes, WorkerTypes, AppTypes DEF IInv, Next
  <2>2. LockInv' /\ CountInv' /\ InboxInv'
    BY <1>1, LockKept, CountKept, InboxKept DEF IInv
  <2>3. ReadInv' /\ RecvInv' /\ SendInv' /\ NoStrandedBytes'
    BY <1>1, ReadKept, RecvKept, SendKept, StrandedKept DEF IInv
  <2>. QED
    BY <2>1, <2>2, <2>3 DEF IInv
<1>2. CASE UNCHANGED vars
  <2>1. UNCHANGED <<kernelVars, socketVars, queueVars, threadVars, dead, reply>>
    BY <1>2 DEF vars
  <2>2. TypeOK' /\ LockInv' /\ CountInv' /\ InboxInv'
    <3>1. TypeOK'
      BY <2>1, Zenon DEF IInv, TypeOK, kernelVars, socketVars, queueVars, threadVars
    <3>2. LockInv' /\ CountInv'
      BY <2>1, Zenon DEF IInv, LockInv, CountInv, kernelVars, socketVars, queueVars, threadVars
    <3>3. InboxInv'
      BY <2>1, Zenon DEF IInv, InboxInv, kernelVars, socketVars, queueVars, threadVars
    <3>. QED
      BY <3>1, <3>2, <3>3, Zenon
  <2>3. ReadInv' /\ RecvInv' /\ SendInv' /\ NoStrandedBytes'
    BY <2>1, Zenon DEF IInv, ReadInv, ReadOf, RecvInv, Whole, PutOf, Requests, SendInv, NotClosing,
       ReplyKept, NoStrandedBytes, kernelVars, socketVars, queueVars, threadVars
  <2>. QED
    BY <2>2, <2>3 DEF IInv
<1>. QED
  BY <1>1, <1>2

\* The invariant of the socket and its threads, whatever their number: who is
\* where in recv_buf(), reset() and send_buf() agrees with who holds m_lock, and
\* the bytes on their way are requests in order, or the reply.
THEOREM SocketInvariant == Spec => []IInv
  BY SocketInit, SocketStep, PTL DEF Spec

\* The members of TcpSocket and Buffer keep the types they are declared with: in
\* particular m_reference_count never becomes negative, although get_send_buf_len_addr()
\* and send_buf() change it without a common lock, and m_length is never -1.
THEOREM SocketTypeCorrect == Spec => []TypeOK
<1>1. IInv => TypeOK
  BY DEF IInv
<1>. QED
  BY <1>1, SocketInvariant, PTL

\* However many workers run recv_buf() of one socket while the loop resets it,
\* m_recv_buf holds the bytes of one read(), of the connection or of standard input,
\* whenever m_lock is free.
THEOREM ReceivesWhole == Spec => []RecvBufWhole
<1>1. IInv => RecvBufWhole
  <2> SUFFICES ASSUME IInv, m_lock = Free PROVE RecvBufWhole
    BY DEF RecvBufWhole
  <2> DEFINE b == Get(m_recv_buf)
  <2>1. Whole
    BY ThreadFacts DEF IInv, RecvInv
  <2>2. m_recv_buf.buf \in Seq(Byte) /\ m_recv_buf.length \in Nat
    BY DEF IInv, TypeOK, Buffer
  <2>3. /\ b \in Seq(Byte) /\ Len(b) = m_recv_buf.length
        /\ \A i \in 1 .. m_recv_buf.length :
              b[i] = IF i <= Len(m_recv_buf.buf) THEN m_recv_buf.buf[i] ELSE 0
    BY <2>2, BytesFacts, Zenon DEF Get
  <2>4. CASE m_recv_buf = Constructed
    <3>1. Len(<<One>>) = 1 /\ <<One>> \in Seq(Byte) /\ <<One>>[1] = One
      BY ByteFacts
    <3>2. Len(b) = 1 /\ b[1] = One
      BY <2>3, <2>4, <3>1 DEF Constructed
    <3>3. b = <<One>>
      BY <2>3, <3>1, <3>2, SeqEqual
    <3>. QED
      BY <3>3 DEF RecvBufWhole
  <2>5. CASE m_recv_buf.length = 0
    <3>1. b = <<>>
      BY <2>3, <2>5, EmptySeq
    <3>. QED
      BY <3>1 DEF RecvBufWhole
  <2>6. CASE Requests(m_recv_buf.buf, m_recv_buf.length)
    <3>1. /\ Len(b) \in 1 .. Len(m_recv_buf.buf) /\ Len(m_recv_buf.buf) \in Nat
          /\ \A i \in 1 .. Len(b) : b[i] = m_recv_buf.buf[i]
      <4>1. m_recv_buf.length \in 1 .. Len(m_recv_buf.buf) /\ Len(m_recv_buf.buf) \in Nat
        BY <2>2, <2>6, LenProperties DEF Requests
      <4>. QED
        BY <2>3, <4>1
    <3>2. b[1] \in 1 .. sends \/ (b[1] = Input /\ Len(b) = 1)
      <4>1. 1 \in 1 .. Len(b)
        BY ONLY <3>1
      <4>2. b[1] = m_recv_buf.buf[1]
        BY <3>1, <4>1, Zenon
      <4>. QED
        BY <2>3, <2>6, <4>2, Zenon DEF Requests
    <3>4. ASSUME b[1] = Input, Len(b) = 1 PROVE b = <<Input>>
      <4>1. Len(<<Input>>) = 1 /\ <<Input>> \in Seq(Byte) /\ <<Input>>[1] = Input
        BY ByteFacts
      <4>. QED
        BY <2>3, <3>4, <4>1, SeqEqual
    <3>3. ASSUME NEW i \in 2 .. Len(b) PROVE b[i] = b[i - 1] + 1
      <4>1. i \in 1 .. Len(b) /\ i - 1 \in 1 .. Len(b)
        BY <3>1
      <4>2. m_recv_buf.buf[i] = m_recv_buf.buf[i - 1] + 1
        BY <2>3, <2>6 DEF Requests
      <4>. QED
        BY <3>1, <4>1, <4>2
    <3>. QED
      BY <3>2, <3>3, <3>4 DEF RecvBufWhole
  <2>. QED
    BY <2>1, <2>4, <2>5, <2>6 DEF Whole
<1>. QED
  BY <1>1, SocketInvariant, PTL

\* What send_buf() gives write() while the connection is up begins with the reply of
\* the application, with zeros behind it: neither a worker nor reset() can put other
\* bytes into the copy.
THEOREM RepliesIntact == Spec => []ReplyIntact
<1>1. IInv => ReplyIntact
  <2> SUFFICES ASSUME IInv, NEW i \in 1 .. Len(Sending)
               PROVE  Sending[i] = IF i <= Len(reply) THEN reply[i] ELSE 0
    BY DEF ReplyIntact
  <2>1. CASE pc[App] = "write" /\ data[App] /= <<>> /\ m_socket = 1
    <3>1. Sending = Bytes(reply, temp[App]) /\ temp[App] \in Nat /\ reply \in Seq(Byte)
      BY <2>1 DEF Sending, IInv, TypeOK, CountInv, SendInv, ReplyKept
    <3>. QED
      BY <3>1, BytesFacts, ZenonT(30)
  <2>2. CASE ~(pc[App] = "write" /\ data[App] /= <<>> /\ m_socket = 1)
    <3>1. Len(Sending) = 0
      BY <2>2, EmptySeq DEF Sending
    <3>. QED
      BY <3>1, SMTT(30)
  <2>. QED
    BY <2>1, <2>2
<1>. QED
  BY <1>1, SocketInvariant, PTL

\* One read() per edge leaves no byte behind, if a read() can take all there are and
\* the pool's list had room for the job that append() was to put there.
THEOREM NothingStranded == Spec => []NoStrandedBytes
<1>1. IInv => NoStrandedBytes
  BY DEF IInv
<1>. QED
  BY <1>1, SocketInvariant, PTL

===============================================================================
