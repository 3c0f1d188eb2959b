------------------------------ MODULE TcpThreads -----------------------------
(***************************************************************************)
(* TcpTaskPool with the workers' reads and the application's writes in      *)
(* steps: a thread takes a job or a message, loads the task's m_socket, and *)
(* enters the system call with what it loaded.  In between the loop thread   *)
(* may close that descriptor and accept() may return its number again.       *)
(***************************************************************************)
EXTENDS TcpTaskPool

CONSTANTS Workers, App

VARIABLE call       \* of each thread: [at, task, conn, fd], fd being what it loaded
allVars == <<vars, call>>

NoCall == [at |-> "idle", task |-> 0, conn |-> None, fd |-> 0]
Taken(m) == [at |-> "taken", task |-> m.task, conn |-> m.conn, fd |-> 0]
ThreadsInit == Init /\ call = [t \in Workers \cup {App} |-> NoCall]

TakeJob(w) ==
    /\ call[w].at = "idle" /\ jobs /= <<>>
    /\ jobs' = Tail(jobs) /\ call' = [call EXCEPT ![w] = Taken(Head(jobs))]
    /\ UNCHANGED <<kernelVars, events, poolVars, m_undo_tasks, dead, histVars>>

\* The reply to a close event is written where its TcpSocket was.
TakeMessage ==
    /\ call[App].at = "idle" /\ m_undo_tasks /= <<>>
    /\ m_undo_tasks' = Tail(m_undo_tasks) /\ call' = [call EXCEPT ![App] = Taken(Head(m_undo_tasks))]
    /\ dead' \in IF Head(m_undo_tasks).close THEN BOOLEAN ELSE {FALSE}
    /\ UNCHANGED <<kernelVars, events, poolVars, jobs, histVars>>

LoadSocket(t) ==
    /\ call[t].at = "taken"
    /\ call' = [call EXCEPT ![t].at = "loaded", ![t].fd = m_socket[call[t].task]]
    /\ UNCHANGED vars

Closed(f) == f /= 0 /\ fdConn[f] = None

\* read(): as WorkerReads; on a descriptor that was closed it fails with EBADF, and
\* recv_buf()'s loop reads again, from what m_socket is then.
ReadSocket(w) ==
    LET f == call[w].fd IN
    /\ call[w].at = "loaded"
    /\ call' = [call EXCEPT ![w] = IF Closed(f) THEN [call[w] EXCEPT !.at = "taken"] ELSE NoCall]
    /\ IF f = 0 \/ Closed(f)
         THEN UNCHANGED <<readable, dead>>
         ELSE /\ readable' \in {readable, [readable EXCEPT ![fdConn[f]] = FALSE]}
              /\ dead' = (~readable[fdConn[f]] /\ ~reset[fdConn[f]])
    /\ UNCHANGED <<peer, reset, fdConn, backlog, ready, events, poolVars, queueVars, histVars>>

\* write(): as in Answer.
WriteSocket ==
    LET f == call[App].fd IN
    /\ call[App].at = "loaded"
    /\ call' = [call EXCEPT ![App] = NoCall]
    /\ dead' \in IF f = 0 \/ Closed(f) \/ ~reset[fdConn[f]] THEN {FALSE} ELSE BOOLEAN
    /\ UNCHANGED <<kernelVars, events, poolVars, queueVars, histVars>>

ThreadsNext ==
    /\ ~dead
    /\ \/ (LoopStep \/ Environment) /\ UNCHANGED call
       \/ \E w \in Workers : TakeJob(w) \/ LoadSocket(w) \/ ReadSocket(w)
       \/ TakeMessage \/ LoadSocket(App) \/ WriteSocket
ThreadsSpec == ThreadsInit /\ [][ThreadsNext]_allVars

-----------------------------------------------------------------------------
\* A system call reaches the connection its job or message was made for as long as
\* that connection is open, although the descriptor was loaded any time before: a
\* number that is loaded is given to another connection only after its own has been
\* closed.  (A call for a connection that was closed may reach the next one.)
CallsAimRight ==
    ~overrun => \A t \in Workers \cup {App} :
        (call[t].at = "loaded" /\ peer[call[t].conn] = "open") =>
            /\ call[t].fd \in Open
            /\ fdConn[call[t].fd] = call[t].conn
===============================================================================
