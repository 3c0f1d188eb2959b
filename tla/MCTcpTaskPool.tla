---------------------------- MODULE MCTcpTaskPool ----------------------------
(***************************************************************************)
(* TcpTaskPool for TLC, in two instances that share a run.  Descriptor 1    *)
(* listens; accept() returns 2, 3, ...                                      *)
(*                                                                          *)
(* "pool": descriptors 2 and 3 are indices of m_ready_list and 4 is one     *)
(*   past its end; batches hold at most two events, the thread pool refuses *)
(*   a third job, and three segments arrive, so that tasks are reused while *)
(*   jobs and messages for them wait.                                       *)
(* "small pool": four connections for three tasks, so that the pool runs    *)
(*   out, and descriptors from 3 on overrun m_ready_list.                   *)
(***************************************************************************)
EXTENDS TcpTaskPool, TLC

CONSTANT Extra   \* the fourth connection of the small pool

VARIABLES part,   \* the instance this behaviour is of
          v1, v2, v3, v4, v5, v6, v7, v8, v9, v10, v11, v12, v13, v14, v15,
          v16, v17

smallVars == <<v1, v2, v3, v4, v5, v6, v7, v8, v9, v10, v11, v12, v13, v14,
               v15, v16, v17>>

Small ==
    INSTANCE TcpTaskPool
    WITH Conns <- Conns \cup {Extra}, MaxFd <- 5, MAX_TASK <- 3,
         MAX_EVENTS <- 1, MaxArrivals <- 1,
         peer <- v1, readable <- v2, reset <- v3, fdConn <- v4, backlog <- v5,
         ready <- v6, events <- v7, m_free_tasks <- v8, m_ready_list <- v9,
         m_socket <- v10, m_undo_tasks <- v11, jobs <- v12, dead <- v13,
         arrivals <- v14, overrun <- v15, exhausted <- v16, missed <- v17

Symmetry == Permutations(Conns)

PoolInit == part \in {"pool", "small pool"} /\ Init /\ Small!Init

PoolNext ==
    /\ UNCHANGED part
    /\ \/ part = "pool" /\ Next /\ UNCHANGED smallVars
       \/ part = "small pool" /\ Small!Next /\ UNCHANGED vars

PoolSpec == PoolInit /\ [][PoolNext]_<<part, vars, smallVars>>

\* OverrunComesFirst of both instances: add_connect() finds no free task, and
\* recv_msg() and close_connect() index m_tcp_tasks out of bounds, only after
\* m_ready_list was written past its end.
ExhaustedAfterOverrun == OverrunComesFirst /\ Small!OverrunComesFirst
===============================================================================
