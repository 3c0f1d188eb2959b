------------------------------ MODULE ThreadPool ------------------------------
(***************************************************************************)
(* ThreadPool< T > of base/thread_pool.h: a std::list of requests guarded   *)
(* by m_queuelocker, a semaphore m_queuestat that counts what was pushed,   *)
(* and m_thread_number workers in run().  Callers are the threads that call *)
(* append().  A thread's critical section is split wherever the code reads  *)
(* the list and changes it later, so the mutex has something to protect.    *)
(*                                                                          *)
(* The pool is static and is never destroyed in this program: m_stop stays  *)
(* false, and ~ThreadPool() is not modelled.                                *)
(***************************************************************************)
EXTENDS Integers, Sequences, FiniteSets

CONSTANTS Workers,        \* the threads the constructor creates
          Callers,        \* the threads that call append()
          Requests,       \* the T* values, NULL included
          NULL,           \* a null T*
          Nobody,         \* the owner of a free mutex
          MaxRequests,    \* m_max_requests
          MaxAppends,     \* bound: calls of append()
          MaxInterrupts   \* bound: sem_wait() calls a signal interrupts

ASSUME ThreadsAssumption ==
    /\ IsFiniteSet(Workers) /\ Workers /= {}
    /\ IsFiniteSet(Callers)
    /\ Workers \cap Callers = {}
    /\ Nobody \notin Workers \cup Callers

ASSUME RequestsAssumption == NULL \in Requests

\* The constructor throws unless max_requests > 0.
ASSUME BoundsAssumption ==
    /\ MaxRequests \in Nat \ {0}
    /\ MaxAppends \in Nat
    /\ MaxInterrupts \in Nat

VARIABLES m_workqueue,    \* the list, front first
          m_queuelocker,  \* the thread that holds the mutex, or Nobody
          m_queuestat,    \* the semaphore's value
          pc,             \* where each thread is
          request,        \* append()'s argument, run()'s local variable
          calls,          \* history: calls of append() so far
          interrupts,     \* history: interrupted waits so far
          accepted,       \* history: the requests append() pushed, in order
          taken,          \* history: the requests workers popped, in order
          surplus         \* history: interrupted waits that no worker has
                          \* paid for yet by finding the list empty

syncVars == <<m_workqueue, m_queuelocker, m_queuestat, pc, request>>
histVars == <<calls, interrupts, accepted, taken, surplus>>
vars == <<syncVars, histVars>>

Threads == Workers \cup Callers

CallerLabels == {"idle", "size", "post", "unlock"}
WorkerLabels == {"wait", "lock", "front", "pop", "done", "process"}

Init ==
    /\ m_workqueue = <<>>
    /\ m_queuelocker = Nobody
    /\ m_queuestat = 0
    /\ pc = [t \in Threads |-> IF t \in Workers THEN "wait" ELSE "idle"]
    /\ request = [t \in Threads |-> NULL]
    /\ calls = 0
    /\ interrupts = 0
    /\ accepted = <<>>
    /\ taken = <<>>
    /\ surplus = 0

Goto(t, from, to) ==
    /\ pc[t] = from
    /\ pc' = [pc EXCEPT ![t] = to]

Lock(t) ==
    /\ m_queuelocker = Nobody
    /\ m_queuelocker' = t

Unlock(t) == m_queuelocker' = Nobody

-------------------------------------------------------------------------------
(* bool append( T* request ) *)

AppendLock(c, r) ==
    /\ Goto(c, "idle", "size")
    /\ calls < MaxAppends
    /\ Lock(c)
    /\ request' = [request EXCEPT ![c] = r]
    /\ calls' = calls + 1
    /\ UNCHANGED <<m_workqueue, m_queuestat, interrupts, accepted, taken, surplus>>

\* Mutant: a refused request posts the semaphore all the same.
AppendRefuseButPost(c) ==
    /\ Goto(c, "size", "idle")
    /\ Len(m_workqueue) > MaxRequests
    /\ Unlock(c)
    /\ m_queuestat' = m_queuestat + 1
    /\ UNCHANGED <<m_workqueue, request, histVars>>

\* The queue is over its limit: unlock and return false.
AppendRefuse(c) ==
    /\ Goto(c, "size", "idle")
    /\ Len(m_workqueue) > MaxRequests
    /\ Unlock(c)
    /\ UNCHANGED <<m_workqueue, m_queuestat, request, histVars>>

\* Mutant: the size check is dropped.
AppendPushUnchecked(c) ==
    /\ Goto(c, "size", "post")
    /\ m_workqueue' = Append(m_workqueue, request[c])
    /\ accepted' = Append(accepted, request[c])
    /\ UNCHANGED <<m_queuelocker, m_queuestat, request,
                   calls, interrupts, taken, surplus>>

\* Mutant: push_front() for push_back().
AppendPushFront(c) ==
    /\ Goto(c, "size", "post")
    /\ ~(Len(m_workqueue) > MaxRequests)
    /\ m_workqueue' = <<request[c]>> \o m_workqueue
    /\ accepted' = Append(accepted, request[c])
    /\ UNCHANGED <<m_queuelocker, m_queuestat, request,
                   calls, interrupts, taken, surplus>>

AppendPush(c) ==
    /\ Goto(c, "size", "post")
    /\ ~(Len(m_workqueue) > MaxRequests)
    /\ m_workqueue' = Append(m_workqueue, request[c])
    /\ accepted' = Append(accepted, request[c])
    /\ UNCHANGED <<m_queuelocker, m_queuestat, request,
                   calls, interrupts, taken, surplus>>

\* Mutant: post() only when the list was empty before the push.
AppendPostIfFirst(c) ==
    /\ Goto(c, "post", "unlock")
    /\ m_queuestat' = IF Len(m_workqueue) = 1 THEN m_queuestat + 1 ELSE m_queuestat
    /\ UNCHANGED <<m_workqueue, m_queuelocker, request, histVars>>

AppendPost(c) ==
    /\ Goto(c, "post", "unlock")
    /\ m_queuestat' = m_queuestat + 1
    /\ UNCHANGED <<m_workqueue, m_queuelocker, request, histVars>>

AppendUnlock(c) ==
    /\ Goto(c, "unlock", "idle")
    /\ Unlock(c)
    /\ UNCHANGED <<m_workqueue, m_queuestat, request, histVars>>

-------------------------------------------------------------------------------
(* void run() *)

\* Mutant: wait() does not block at zero.
SemWaitNonBlocking(w) ==
    /\ Goto(w, "wait", "lock")
    /\ m_queuestat' = m_queuestat - 1
    /\ UNCHANGED <<m_workqueue, m_queuelocker, request, histVars>>

\* m_queuestat.wait() takes a token.
SemWait(w) ==
    /\ Goto(w, "wait", "lock")
    /\ m_queuestat > 0
    /\ m_queuestat' = m_queuestat - 1
    /\ UNCHANGED <<m_workqueue, m_queuelocker, request, histVars>>

\* sem_wait() fails with EINTR; run() ignores the result and goes on without
\* a token.
SemWaitInterrupted(w) ==
    /\ Goto(w, "wait", "lock")
    /\ interrupts < MaxInterrupts
    /\ interrupts' = interrupts + 1
    /\ surplus' = surplus + 1
    /\ UNCHANGED <<m_workqueue, m_queuelocker, m_queuestat, request,
                   calls, accepted, taken>>

WorkerLock(w) ==
    /\ Goto(w, "lock", "front")
    /\ Lock(w)
    /\ UNCHANGED <<m_workqueue, m_queuestat, request, histVars>>

\* m_workqueue.empty(): unlock and wait again.
WorkerEmpty(w) ==
    /\ Goto(w, "front", "wait")
    /\ m_workqueue = <<>>
    /\ Unlock(w)
    /\ surplus' = surplus - 1
    /\ UNCHANGED <<m_workqueue, m_queuestat, request,
                   calls, interrupts, accepted, taken>>

WorkerFront(w) ==
    /\ Goto(w, "front", "pop")
    /\ m_workqueue /= <<>>
    /\ request' = [request EXCEPT ![w] = Head(m_workqueue)]
    /\ UNCHANGED <<m_workqueue, m_queuelocker, m_queuestat, histVars>>

WorkerPop(w) ==
    /\ Goto(w, "pop", "done")
    /\ m_workqueue' = Tail(m_workqueue)
    /\ taken' = Append(taken, request[w])
    /\ UNCHANGED <<m_queuelocker, m_queuestat, request,
                   calls, interrupts, accepted, surplus>>

\* Mutant: the null request is skipped before the unlock.
WorkerUnlockAfterTest(w) ==
    /\ Goto(w, "done", IF request[w] = NULL THEN "wait" ELSE "process")
    /\ IF request[w] = NULL THEN UNCHANGED m_queuelocker ELSE Unlock(w)
    /\ UNCHANGED <<m_workqueue, m_queuestat, request, histVars>>

\* Unlock; a null request is skipped.
WorkerUnlock(w) ==
    /\ Goto(w, "done", IF request[w] = NULL THEN "wait" ELSE "process")
    /\ Unlock(w)
    /\ UNCHANGED <<m_workqueue, m_queuestat, request, histVars>>

\* request->process( request->get_wr_flag() ) returns.
WorkerProcess(w) ==
    /\ Goto(w, "process", "wait")
    /\ UNCHANGED <<m_workqueue, m_queuelocker, m_queuestat, request, histVars>>

-------------------------------------------------------------------------------

CallerStep(c) ==
    \/ \E r \in Requests : AppendLock(c, r)
    \/ AppendRefuse(c)
    \/ AppendPush(c)
    \/ AppendPost(c)
    \/ AppendUnlock(c)

WorkerStep(w) ==
    \/ SemWait(w)
    \/ WorkerLock(w)
    \/ WorkerEmpty(w)
    \/ WorkerFront(w)
    \/ WorkerPop(w)
    \/ WorkerUnlock(w)
    \/ WorkerProcess(w)

Next ==
    \/ \E c \in Callers : CallerStep(c)
    \/ \E w \in Workers : WorkerStep(w) \/ SemWaitInterrupted(w)

Spec == Init /\ [][Next]_vars

(***************************************************************************)
(* A thread that can run does run, and process() returns.  Nobody has to    *)
(* call append(); a caller that has locked the queue finishes the call.     *)
(***************************************************************************)
FinishAppend(c) ==
    AppendRefuse(c) \/ AppendPush(c) \/ AppendPost(c) \/ AppendUnlock(c)

Fairness ==
    /\ \A w \in Workers : WF_vars(WorkerStep(w))
    /\ \A c \in Callers : WF_vars(FinishAppend(c))

FairSpec == Spec /\ Fairness

-------------------------------------------------------------------------------
(* Properties *)

\* Every variable of the pool has the type its declaration in thread_pool.h
\* gives it; the semaphore never goes below zero.
TypeOK ==
    /\ m_workqueue \in Seq(Requests)
    /\ m_queuelocker \in Threads \cup {Nobody}
    /\ m_queuestat \in Nat
    /\ pc \in [Threads -> CallerLabels \cup WorkerLabels]
    /\ \A w \in Workers : pc[w] \in WorkerLabels
    /\ \A c \in Callers : pc[c] \in CallerLabels
    /\ request \in [Threads -> Requests]
    /\ calls \in Nat
    /\ interrupts \in Nat
    /\ accepted \in Seq(Requests)
    /\ taken \in Seq(Requests)
    /\ surplus \in Int

\* Workers that are past wait() and have not popped yet.
Woken == {w \in Workers : pc[w] \in {"lock", "front", "pop"}}

\* Callers that have pushed a request and not posted the semaphore yet.
Posting == {c \in Callers : pc[c] = "post"}

\* No wakeup is lost and none is invented: tokens in the semaphore, tokens in
\* the hands of workers on their way to the list, and posts that are still to
\* come add up to the requests in the list plus the interrupted waits that
\* are not settled yet.  (append() posts once per push; run() pops once per
\* wait.)
TokenBalance ==
    m_queuestat + Cardinality(Woken) + Cardinality(Posting)
        = Len(m_workqueue) + surplus

\* run() finds the list empty after wait() only when some wait() was
\* interrupted: without signals its m_workqueue.empty() branch is dead code.
EmptyOnlyAfterInterrupt ==
    \A w \in Workers : pc[w] = "front" /\ m_workqueue = <<>> => surplus > 0

\* append() compares size() > m_max_requests before it pushes, so the list
\* may hold one request more than m_max_requests and never two more, however
\* many callers race.
QueueBounded == Len(m_workqueue) <= MaxRequests + 1

\* Every request append() accepted is in the list or was popped by exactly one
\* worker, and requests are popped in the order in which they were accepted.
ExactlyOnceInOrder == accepted = taken \o m_workqueue

\* The pool implements JobQueue: a request leaves the queue when pop_front()
\* returns, and runs on that worker until process() returns.
RunningOn(w) == IF pc[w] \in {"done", "process"} THEN request[w] ELSE NULL

Jobs == INSTANCE JobQueue WITH
            pending <- m_workqueue,
            running <- [w \in Workers |-> RunningOn(w)]

\* The pool, with its threads scheduled fairly, refines the abstract job
\* queue: append() and run() show no other behaviour to their callers, and no
\* accepted request waits for ever.
ImplementsJobQueue == Jobs!Spec

===============================================================================
