---------------------------- MODULE SocketTimeout ----------------------------
(***************************************************************************)
(* read_timeout(), write_timeout(), accept_timeout() and connect_timeout():  *)
(* select() waits for the descriptor, is interrupted, fails, or times out.  *)
(* One thread accepts from a listening descriptor.                          *)
(***************************************************************************)
EXTENDS Integers

CONSTANTS Waits,        \* values of wait_seconds
          MaxSignals,   \* bound on interruptions
          MaxClock,     \* bound on the time spent in a call
          Faults        \* system calls may fail

VARIABLES op,       \* "read", "write", "accept" or "connect"
          wait,     \* wait_seconds
          pc,       \* "idle", "connect", "select", "accept", "getsockopt" or "done"
          left,     \* the timeval: Linux leaves in it the time that remains
          fd,       \* the descriptor: "quiet", "ready", or "error" pending on it
          nonblock, \* O_NONBLOCK is set
          ret, errno,
          clock,    \* time since the call began
          signals
vars == <<op, wait, pc, left, fd, nonblock, ret, errno, clock, signals>>
world == <<op, wait, fd, clock, signals>>

Init ==
    /\ op \in {"read", "write", "accept", "connect"} /\ wait \in Waits
    /\ pc = "idle" /\ left = 0 /\ fd \in {"quiet", "ready"} /\ (op = "connect" => fd = "quiet")
    /\ nonblock = FALSE /\ ret = 0 /\ errno = "none" /\ clock = 0 /\ signals = 0

\* connect_timeout() does so before it returns, but not where it returns at once.
SetBlocking(r) == IF op = "connect" /\ wait > 0 THEN FALSE ELSE nonblock

Return(r, e) == pc' = "done" /\ ret' = r /\ errno' = e /\ nonblock' = SetBlocking(r)
ReturnAtOnce(e) == pc' = "done" /\ ret' = -1 /\ errno' = e /\ nonblock' = nonblock
Goto(label) == pc' = label /\ UNCHANGED <<ret, errno, nonblock>>

Call ==
    /\ pc = "idle" /\ left' = wait
    /\ \/ op = "connect" /\ pc' = "connect" /\ nonblock' = (wait > 0) /\ UNCHANGED <<ret, errno>>
       \/ op # "connect" /\ wait > 0 /\ Goto("select")
       \/ op = "accept" /\ wait = 0 /\ Goto("accept")
       \/ op \in {"read", "write"} /\ wait = 0 /\ Return(0, errno)
    /\ UNCHANGED world

\* connect(): at once, in progress when the descriptor does not block, or failed.
Connect ==
    /\ pc = "connect"
    /\ \/ fd = "ready" /\ Return(0, errno)
       \/ fd = "error" /\ Return(-1, "refused")
       \/ nonblock /\ fd = "quiet" /\ Goto("select")
       \/ Faults /\ Return(-1, "other")
    /\ UNCHANGED <<world, left>>

\* Mutant: the timeval is set up in the loop.
WholeWait == wait

TimeLeft == left

TimedOut == left = 0

\* select() and what follows it.
Ready ==
    \/ op \in {"read", "write"} /\ Return(0, errno)
    \/ op = "accept" /\ Goto("accept")
    \/ op = "connect" /\ Goto("getsockopt")
Select ==
    /\ pc = "select"
    /\ \/ fd # "quiet" /\ Ready
       \/ fd = "quiet" /\ TimedOut /\ Return(-1, "ETIMEDOUT")
    /\ UNCHANGED <<world, left>>
Interrupted ==
    /\ pc = "select" /\ signals < MaxSignals /\ signals' = signals + 1
    /\ left' = TimeLeft
    /\ UNCHANGED <<op, wait, pc, fd, nonblock, ret, errno, clock>>
SelectFails ==
    /\ pc = "select" /\ Faults
    /\ \/ op \in {"read", "write"} /\ Return(-1, "other")
       \/ op \in {"accept", "connect"} /\ ReturnAtOnce("other")
    /\ UNCHANGED <<world, left>>

\* Mutant: a writable socket is a connected one.
NoError == FALSE

SocketError == fd = "error"

Getsockopt ==
    /\ pc = "getsockopt"
    /\ \/ ~SocketError /\ Return(0, errno)
       \/ SocketError /\ Return(-1, "refused")
       \/ Faults /\ ReturnAtOnce("other")
    /\ UNCHANGED <<world, left>>

\* accept(): blocks while no connection waits.
Accept ==
    /\ pc = "accept" /\ fd # "quiet"
    /\ \/ fd' = "quiet" /\ Return(1, errno)
       \/ fd' = fd /\ Faults /\ Return(-1, "other")
    /\ UNCHANGED <<op, wait, left, clock, signals>>

\* The world: something happens on the descriptor, time passes.
Event ==
    /\ fd = "quiet" /\ pc \notin {"idle", "done"}
    /\ fd' \in IF op = "connect" THEN {"ready", "error"} ELSE {"ready"}
    /\ UNCHANGED <<op, wait, pc, left, nonblock, ret, errno, clock, signals>>
Blocked == (pc = "select" /\ left > 0) \/ pc = "accept" \/ (pc = "connect" /\ ~nonblock)
Tick ==
    /\ fd = "quiet" /\ Blocked /\ clock < MaxClock /\ clock' = clock + 1
    /\ left' = IF pc = "select" THEN left - 1 ELSE left
    /\ UNCHANGED <<op, wait, pc, fd, nonblock, ret, errno, signals>>

Next == Call \/ Connect \/ Select \/ Interrupted \/ SelectFails \/ Getsockopt \/ Accept \/ Event \/ Tick
Spec == Init /\ [][Next]_vars

-----------------------------------------------------------------------------
\* A call with a timeout takes no longer than that, however many signals interrupt
\* its select(): the loop goes on with the time that remains.
WaitBounded == wait > 0 => clock <= wait

\* connect_timeout() returns 0 only for a connection that is established: a socket
\* that is writable because the connection failed is not one.
ConnectTruthful == (op = "connect" /\ pc = "done" /\ ret = 0) => fd = "ready"

\* A descriptor that connect_timeout() made non-blocking blocks again when the call
\* has connected, was refused or timed out; only the returns after a failed select()
\* or getsockopt() leave it non-blocking.
BlocksAgain == (pc = "done" /\ errno \in {"none", "ETIMEDOUT", "refused"}) => ~nonblock

\* The three of them.
TimeoutsRight == WaitBounded /\ ConnectTruthful /\ BlocksAgain

\* A call with a timeout must return, whether or not anything happens on the descriptor.
Called == pc = "select"
Returned == pc = "done"
===============================================================================
