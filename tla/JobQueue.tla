------------------------------- MODULE JobQueue -------------------------------
(***************************************************************************)
(* What ThreadPool< T > promises to the code that calls append(): accepted  *)
(* requests wait in one bounded FIFO queue, each is taken by exactly one    *)
(* idle worker, and every accepted request is taken in the end.  Locks,     *)
(* semaphores and the steps of append() and run() are not visible here.     *)
(***************************************************************************)
EXTENDS Naturals, Sequences

CONSTANTS Workers,      \* the threads of the pool
          Requests,     \* what may be appended, NULL included
          NULL,         \* the null request: taken, but there is nothing to run
          MaxRequests   \* m_max_requests

VARIABLES pending,      \* accepted requests nobody has taken yet
          running       \* the request each worker is running, NULL when idle

jobVars == <<pending, running>>

Init ==
    /\ pending = <<>>
    /\ running = [w \in Workers |-> NULL]

Submit(r) ==
    /\ Len(pending) <= MaxRequests
    /\ pending' = Append(pending, r)
    /\ UNCHANGED running

Start(w) ==
    /\ running[w] = NULL
    /\ pending /= <<>>
    /\ running' = [running EXCEPT ![w] = Head(pending)]
    /\ pending' = Tail(pending)

Finish(w) ==
    /\ running[w] /= NULL
    /\ running' = [running EXCEPT ![w] = NULL]
    /\ UNCHANGED pending

Next ==
    \/ \E r \in Requests : Submit(r)
    \/ \E w \in Workers : Start(w) \/ Finish(w)

SafeSpec == Init /\ [][Next]_jobVars

Spec ==
    /\ SafeSpec
    /\ WF_jobVars(\E w \in Workers : Start(w))
    /\ \A w \in Workers : WF_jobVars(Finish(w))

===============================================================================
