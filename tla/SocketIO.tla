------------------------------ MODULE SocketIO -------------------------------
(***************************************************************************)
(* readn(), writen(), recv_peek() and readline() on one stream socket.  The *)
(* peer's bytes arrive piecemeal, any call may be interrupted by a signal,  *)
(* moves as many bytes as it likes, or fails; the peer may close.           *)
(***************************************************************************)
EXTENDS Integers, Sequences

CONSTANTS Streams,      \* what the peer may send, sequences of bytes
          Newline,      \* the byte that ends a line
          Counts,       \* counts passed to readn() and writen()
          MaxLines,     \* values of maxline
          MaxSignals,   \* bound on interrupted calls
          Faults        \* a call may fail with another errno

VARIABLES stream,   \* all the peer sends before it closes
          coming,   \* bytes not arrived yet
          kernel,   \* bytes in the socket's receive buffer
          sent,     \* bytes write() took, as positions of the caller's buffer
          pc,       \* "idle", "readn", "writen", "peek", "scan" or "done"
          count,    \* what the caller asked for: count or maxline
          buf,      \* the caller's buffer: what was stored, from its start
          io,       \* of readn() and writen(): [count, left, from, then]
          line,     \* of readline(): [from, left, nread, i]
          ret,      \* the value returned
          errno, signals
vars == <<stream, coming, kernel, sent, pc, count, buf, io, line, ret, errno, signals>>
calls == <<errno, signals>>
net == <<stream, coming>>

NoIO == [count |-> 0, left |-> 0, from |-> 0, then |-> "done"]
NoLine == [from |-> 0, left |-> 0, nread |-> 0, i |-> 0]
Init ==
    /\ stream \in Streams /\ coming = stream /\ kernel = <<>> /\ sent = <<>>
    /\ pc = "idle" /\ count = 0 /\ buf = <<>> /\ io = NoIO /\ line = NoLine /\ ret = 0 /\ errno = "none" /\ signals = 0

\* The next byte reaches the socket; after the last one comes the end of the stream.
Arrive ==
    /\ coming # <<>>
    /\ coming' = Tail(coming) /\ kernel' = Append(kernel, Head(coming))
    /\ UNCHANGED <<stream, sent, pc, count, buf, io, line, ret, calls>>

\* Bytes bs are stored at buf[from ..].
Store(from, bs) == SubSeq(buf, 1, from) \o bs \o SubSeq(buf, from + Len(bs) + 1, Len(buf))

Errno == 1      \* the value of errno, which says nothing of bytes
Return(r) == pc' = "done" /\ ret' = r

\* Mutant: an interrupted call is a failed one.
GiveUp == Return(-1)

Retry == UNCHANGED <<pc, ret>>

InCall == (pc \in {"readn", "writen"} /\ io.left > 0) \/ pc = "peek"
Interrupted ==
    /\ InCall /\ signals < MaxSignals /\ signals' = signals + 1 /\ errno' = "EINTR"
    /\ Retry
    /\ UNCHANGED <<net, kernel, sent, count, buf, io, line>>

\* Another error ends the call, and readline(), which returns what readn() or
\* recv_peek() returned, or errno when it was reading the bytes it had peeked at.
Failed ==
    /\ InCall /\ Faults /\ errno' = "other"
    /\ Return(IF pc = "readn" /\ io.then = "peek" THEN Errno ELSE -1)
    /\ UNCHANGED <<net, kernel, sent, count, buf, io, line, signals>>

-----------------------------------------------------------------------------
CallReadn(n) ==
    /\ pc = "idle" /\ count' = n /\ pc' = "readn"
    /\ io' = [count |-> n, left |-> n, from |-> 0, then |-> "done"]
    /\ UNCHANGED <<net, kernel, sent, buf, line, ret, calls>>

\* Mutant: read() is called again at the end of the stream.
NoEnd == FALSE

EndOfStream == kernel = <<>> /\ coming = <<>>

\* Mutant: the next part is stored at the start again.
AtStart == 0

Offset == io.from + io.count - io.left

\* What readn() does with its result; "scan" and "peek" are calls of readline().
ReadnDone(r) ==
    CASE io.then = "done" -> Return(r) /\ line' = line
      [] io.then = "scan" -> (IF r # io.count THEN Return(r) /\ line' = line
                              ELSE pc' = "scan" /\ ret' = ret /\ line' = [line EXCEPT !.i = @ + 1])
      [] io.then = "peek" -> (IF r # io.count THEN Return(Errno) /\ line' = line
                              ELSE pc' = "peek" /\ ret' = ret /\ line' = [line EXCEPT !.from = @ + line.nread])

\* One turn of readn()'s loop.
Read ==
    /\ pc = "readn"
    /\ \/ io.left = 0 /\ ReadnDone(io.count) /\ UNCHANGED <<kernel, sent, buf, io, calls>>
       \/ /\ io.left > 0 /\ kernel # <<>>
          /\ \E n \in 1 .. Len(kernel) :
                /\ n <= io.left
                /\ buf' = Store(Offset, SubSeq(kernel, 1, n))
                /\ kernel' = SubSeq(kernel, n + 1, Len(kernel))
                /\ io' = [io EXCEPT !.left = @ - n]
          /\ UNCHANGED <<sent, pc, line, ret, calls>>
       \/ io.left > 0 /\ EndOfStream /\ ReadnDone(io.count - io.left)
          /\ UNCHANGED <<kernel, sent, buf, io, calls>>
    /\ UNCHANGED <<net, count>>

CallWriten(n) ==
    /\ pc = "idle" /\ count' = n /\ pc' = "writen"
    /\ io' = [count |-> n, left |-> n, from |-> 0, then |-> "done"]
    /\ UNCHANGED <<net, kernel, sent, buf, line, ret, calls>>

\* One turn of writen()'s loop; write() may take nothing.
Write ==
    /\ pc = "writen"
    /\ \/ io.left = 0 /\ Return(io.count) /\ UNCHANGED <<kernel, sent, buf, io, line, calls>>
       \/ /\ io.left > 0
          /\ \E n \in 0 .. io.left :
                /\ sent' = sent \o [k \in 1 .. n |-> Offset + k]
                /\ io' = [io EXCEPT !.left = @ - n]
          /\ UNCHANGED <<kernel, pc, buf, line, ret, calls>>
    /\ UNCHANGED <<net, count>>

-----------------------------------------------------------------------------
CallReadline(n) ==
    /\ pc = "idle" /\ count' = n /\ pc' = "peek"
    /\ line' = [NoLine EXCEPT !.left = n] /\ io' = NoIO
    /\ UNCHANGED <<net, kernel, sent, buf, ret, calls>>

\* recv_peek(), its result tested: bytes are copied and stay in the socket.
Peek ==
    /\ pc = "peek"
    /\ \/ /\ line.left > 0 /\ kernel # <<>>
          /\ \E n \in 1 .. Len(kernel) :
                /\ n <= line.left
                /\ buf' = Store(line.from, SubSeq(kernel, 1, n))
                /\ line' = [line EXCEPT !.nread = n, !.i = 0]
          /\ pc' = "scan" /\ UNCHANGED <<kernel, sent, io, ret, calls>>
       \/ (line.left = 0 \/ EndOfStream) /\ Return(0)
          /\ UNCHANGED <<kernel, sent, buf, io, line, calls>>
    /\ UNCHANGED <<net, count>>

LeftAfter == line.left - line.nread

\* The loop over the bytes peeked at.  A newline is read with all before it, and
\* the loop goes on; after it the bytes peeked at are read.
NewlineAt == {i \in line.i .. line.nread - 1 : buf[line.from + i + 1] = Newline}
FirstNewline == CHOOSE i \in NewlineAt : \A j \in NewlineAt : i <= j
Scan ==
    /\ pc = "scan" /\ pc' = "readn"
    /\ IF NewlineAt # {}
       THEN /\ line' = [line EXCEPT !.i = FirstNewline]
            /\ io' = [count |-> line'.i + 1, left |-> line'.i + 1, from |-> line.from, then |-> "scan"]
       ELSE /\ io' = [count |-> line.nread, left |-> line.nread, from |-> line.from, then |-> "peek"]
            /\ line' = [line EXCEPT !.left = LeftAfter]
    /\ UNCHANGED <<net, kernel, sent, count, buf, ret, calls>>

Calls ==
    \/ \E n \in Counts : CallReadn(n) \/ CallWriten(n)
    \/ \E n \in MaxLines : CallReadline(n)
Next == Arrive \/ Calls \/ Interrupted \/ Failed \/ Read \/ Write \/ Peek \/ Scan
Spec == Init /\ [][Next]_vars

-----------------------------------------------------------------------------
\* readn() hands the caller the next bytes of the stream, each once and in order,
\* and takes from the socket only those; it returns fewer than count only at the end
\* of the stream, and -1 only for an error that is no interruption.
ReadnExact ==
    (line = NoLine /\ sent = <<>>) =>
      /\ buf \o kernel \o coming = stream
      /\ (pc = "done" /\ io.count - io.left # count /\ ret >= 0) => kernel \o coming = <<>>
      /\ (pc = "done" /\ ret >= 0 /\ buf # <<>>) => ret = Len(buf)
      /\ (pc = "done" /\ ret = -1) => errno = "other"

\* writen() sends a prefix of the buffer, no byte twice, and all of it when it
\* returns count.
WritenExact ==
    /\ sent = [k \in 1 .. Len(sent) |-> k]
    /\ (sent # <<>> /\ pc = "done" /\ ret = count) => Len(sent) = count

\* readline() stores nothing behind the maxline bytes of the caller's buffer,
\* neither by the peek nor by the reads that follow it.
InsideBuffer == Len(buf) <= count

\* What recv_peek() has copied is still in the socket when readline() looks at it.
PeekLeaves ==
    (pc = "scan" /\ line.i = 0) =>
      SubSeq(buf, line.from + 1, line.from + line.nread) = SubSeq(kernel, 1, line.nread)

\* A call must return: the peer's bytes or its end arrive, and each turn of a loop
\* moves a byte, in the end, is one of finitely many interruptions, or ends the loop.
Called == pc # "idle"
Returned == pc = "done"
===============================================================================
