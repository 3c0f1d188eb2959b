------------------------------ MODULE MCServer -------------------------------
(***************************************************************************)
(* The server's threads under fair scheduling: ThreadPool and instances of  *)
(* TcpTaskPool and TcpSocket, in one run.  They have no variable in common, *)
(* so a behaviour here is one of one part and the others stay as they       *)
(* begin; p1, p2, ... are the variables that TcpTaskPool declares and s1,   *)
(* s2, ... those of TcpSocket.  No symmetry: liveness.                      *)
(*                                                                          *)
(* "queue": two workers and two callers are enough for every race between   *)
(*   two append()s, two run()s and one of each; MaxRequests = 1 with four   *)
(*   appends fills the list past its limit and empties it again.            *)
(* "pool": two descriptors for three connections, so that accept() also     *)
(*   fails for want of one.                                                 *)
(* "socket": a worker, one request, a FIN and a RST; standard input ends or *)
(*   gives bytes, or does neither.                                          *)
(***************************************************************************)
EXTENDS ThreadPool

VARIABLES part,
          p1, p2, p3, p4, p5, p6, p7, p8, p9, p10, p11, p12, p13, p14, p15,
          p16, p17,
          s1, s2, s3, s4, s5, s6, s7, s8, s9, s10, s11, s12, s13, s14, s15,
          s16, s17, s18, s19

poolVars ==
    <<p1, p2, p3, p4, p5, p6, p7, p8, p9, p10, p11, p12, p13, p14, p15, p16,
      p17>>
socketVars ==
    <<s1, s2, s3, s4, s5, s6, s7, s8, s9, s10, s11, s12, s13, s14, s15, s16,
      s17, s18, s19>>

Pool ==
    INSTANCE TcpTaskPool
    WITH Conns <- {"c1", "c2", "c3"}, None <- "none", ListenFd <- 1,
         FirstFd <- 2, MaxFd <- 3, MAX_TASK <- 3, MAX_EVENTS <- 4,
         MaxRequests <- 1, MaxArrivals <- 1,
         peer <- p1, readable <- p2, reset <- p3, fdConn <- p4, backlog <- p5,
         ready <- p6, events <- p7, m_free_tasks <- p8, m_ready_list <- p9,
         m_socket <- p10, m_undo_tasks <- p11, jobs <- p12, dead <- p13,
         arrivals <- p14, overrun <- p15, exhausted <- p16, missed <- p17

Socket ==
    INSTANCE TcpSocket
    WITH Workers <- {"worker"}, Loop <- "loop", App <- "app", Free <- "free",
         Echo <- TRUE, Stdin <- {"end", "bytes"}, ReadMax <- 1, MaxSends <- 1,
         inbox <- s1, sends <- s2, peer <- s3, edge <- s4, m_socket <- s5,
         m_send_pos <- s6, m_reference_count <- s7, m_lock <- s8,
         m_send_buf <- s9, m_recv_buf <- s10, m_undo_tasks <- s11,
         jobs <- s12, refused <- s13, pc <- s14, temp <- s15, count <- s16,
         data <- s17, dead <- s18, reply <- s19

ServerInit ==
    /\ part \in {"queue", "pool", "socket"}
    /\ Init
    /\ Pool!Init
    /\ Socket!Init

ServerNext ==
    /\ UNCHANGED part
    /\ \/ part = "queue" /\ Next /\ UNCHANGED <<poolVars, socketVars>>
       \/ part = "pool" /\ Pool!Next /\ UNCHANGED <<vars, socketVars>>
       \/ part = "socket" /\ Socket!Next /\ UNCHANGED <<vars, poolVars>>

\* The fairness of the three specifications, each in its part.
QueueFairness ==
    /\ \A w \in Workers : WF_vars(part = "queue" /\ WorkerStep(w))
    /\ \A c \in Callers : WF_vars(part = "queue" /\ FinishAppend(c))

PoolFairness == WF_poolVars(part = "pool" /\ ~p13 /\ Pool!LoopStep)

SocketFairness ==
    /\ WF_socketVars(part = "socket" /\ ~s18 /\ Socket!LoopStep)
    /\ WF_socketVars(part = "socket" /\ ~s18 /\ Socket!AppStep)
    /\ WF_socketVars(part = "socket" /\ ~s18 /\ Socket!WorkerRuns("worker"))

ServerSpec ==
    /\ ServerInit
    /\ [][ServerNext]_<<part, vars, poolVars, socketVars>>
    /\ QueueFairness
    /\ PoolFairness
    /\ SocketFairness

\* run() closes a connection that the peer has reset, and with it frees its
\* task.  (Connections are interchangeable, so one stands for all, here and below.)
ResetIsClosed == Pool!ClosedWhenReset("c1")

\* add_connect() takes every connection out of the backlog unless an edge was
\* lost.
AcceptedUnlessMissed == Pool!LeavesBacklog("c1")

\* Whatever the others hold or store, recv_buf() and send_buf() return, but for
\* a recv_buf() that reads standard input because the loop has closed the
\* connection: it holds no lock, and the others return all the same.
CallsReturn == Socket!CallsReturn
===============================================================================
