------------------------------ MODULE QueueProofs -----------------------------
(***************************************************************************)
(* Theorems about the two queues between threads.  ThreadPool: safety for   *)
(* any finite sets of workers and callers and any limit, proved from one    *)
(* inductive invariant, IInv.  UndoList: the list of received messages,     *)
(* link by link, for any number of threads and messages; MCConcurrent       *)
(* checks it on a small instance.                                           *)
(***************************************************************************)
EXTENDS ThreadPool, FiniteSetTheorems, SequenceTheorems, TLAPS

\* A thread holds m_queuelocker exactly while it is between its lock() and
\* its unlock().
MutexInv ==
    /\ \A c \in Callers :
          m_queuelocker = c <=> pc[c] \in {"size", "post", "unlock"}
    /\ \A w \in Workers :
          m_queuelocker = w <=> pc[w] \in {"front", "pop", "done"}

\* Between front() and pop_front() the front of the list is still the request
\* that the worker has read.
FrontInv ==
    \A w \in Workers :
        pc[w] = "pop" => m_workqueue /= <<>> /\ request[w] = Head(m_workqueue)

IInv ==
    /\ TypeOK
    /\ MutexInv
    /\ FrontInv
    /\ TokenBalance
    /\ QueueBounded
    /\ ExactlyOnceInOrder

-------------------------------------------------------------------------------
(* Lemmas on the histories. *)

\* Accepting a request at the back of the list keeps accepted = taken \o list.
LEMMA PushExtends ==
    \A a, q \in Seq(Requests), r \in Requests :
        Append(a \o q, r) = a \o Append(q, r)
<1> SUFFICES ASSUME NEW a \in Seq(Requests), NEW q \in Seq(Requests),
                    NEW r \in Requests
             PROVE  Append(a \o q, r) = a \o Append(q, r)
  BY Zenon
<1>1. /\ Append(a \o q, r) = (a \o q) \o <<r>>
      /\ Append(q, r) = q \o <<r>>
  BY ConcatProperties, AppendIsConcat
<1>2. <<r>> \in Seq(Requests)
  OBVIOUS
<1>. QED
  BY <1>1, <1>2, ConcatAssociative

\* Moving the front of the list to the end of taken keeps the concatenation.
LEMMA PopMoves ==
    ASSUME NEW S, NEW a \in Seq(S), NEW q \in Seq(S), q /= <<>>
    PROVE  Append(a, Head(q)) \o Tail(q) = a \o q
<1>1. /\ Head(q) \in S
      /\ Tail(q) \in Seq(S)
      /\ <<Head(q)>> \in Seq(S)
  BY HeadTailProperties
<1>2. Append(a, Head(q)) = a \o <<Head(q)>>
  BY <1>1, AppendIsConcat
<1>3. <<Head(q)>> \o Tail(q) = q
  <2>1. /\ <<Head(q)>> \o Tail(q) \in Seq(S)
        /\ Len(<<Head(q)>> \o Tail(q)) = Len(q)
    BY <1>1, ConcatProperties, HeadTailProperties, LenProperties
  <2>2. \A i \in 1 .. Len(q) : (<<Head(q)>> \o Tail(q))[i] = q[i]
    BY <1>1, ConcatProperties, HeadTailProperties, LenProperties
  <2>. QED
    BY <2>1, <2>2, SeqEqual
<1>. QED
  BY <1>1, <1>2, <1>3, ConcatAssociative

-------------------------------------------------------------------------------
(* The synchronisation skeleton: types, the mutex, and what front() read. *)

Skeleton == TypeOK /\ MutexInv /\ FrontInv

\* The pool starts with its locks free and its list empty.
LEMMA SkeletonInit == Init => Skeleton
BY ThreadsAssumption, RequestsAssumption
DEF Init, Skeleton, TypeOK, MutexInv, FrontInv, Threads,
    CallerLabels, WorkerLabels

\* A caller of append() keeps the locks and the types.
LEMMA SkeletonCaller ==
    ASSUME Skeleton, NEW c \in Callers, CallerStep(c)
    PROVE  Skeleton'
<1> USE ThreadsAssumption DEF Skeleton, Threads, Goto, histVars
<1>1. ASSUME NEW r \in Requests, AppendLock(c, r) PROVE Skeleton'
  <2>1. TypeOK'
    BY <1>1 DEF AppendLock, Lock, TypeOK, CallerLabels, WorkerLabels, BoundsAssumption
  <2>2. MutexInv' /\ FrontInv'
    BY <1>1 DEF AppendLock, Lock, TypeOK, MutexInv, FrontInv
  <2>. QED BY <2>1, <2>2
<1>2. CASE AppendRefuse(c)
  BY <1>2 DEF AppendRefuse, Unlock, TypeOK, MutexInv, FrontInv,
              CallerLabels, WorkerLabels
<1>3. CASE AppendPush(c)
  <2>1. TypeOK'
    BY <1>3, AppendProperties DEF AppendPush, TypeOK, CallerLabels, WorkerLabels
  <2>2. MutexInv' /\ FrontInv'
    BY <1>3 DEF AppendPush, TypeOK, MutexInv, FrontInv
  <2>. QED BY <2>1, <2>2
<1>4. CASE AppendPost(c)
  BY <1>4 DEF AppendPost, TypeOK, MutexInv, FrontInv, CallerLabels, WorkerLabels
<1>5. CASE AppendUnlock(c)
  BY <1>5 DEF AppendUnlock, Unlock, TypeOK, MutexInv, FrontInv,
              CallerLabels, WorkerLabels
<1>. QED
  BY <1>1, <1>2, <1>3, <1>4, <1>5 DEF CallerStep

\* So does a worker, interrupted or not.
LEMMA SkeletonWorker ==
    ASSUME Skeleton, NEW w \in Workers, WorkerStep(w) \/ SemWaitInterrupted(w)
    PROVE  Skeleton'
<1> USE ThreadsAssumption DEF Skeleton, Threads, Goto, histVars
<1>1. CASE SemWait(w)
  BY <1>1 DEF SemWait, TypeOK, MutexInv, FrontInv, CallerLabels, WorkerLabels
<1>2. CASE SemWaitInterrupted(w)
  BY <1>2 DEF SemWaitInterrupted, TypeOK, MutexInv, FrontInv,
              CallerLabels, WorkerLabels
<1>3. CASE WorkerLock(w)
  BY <1>3 DEF WorkerLock, Lock, TypeOK, MutexInv, FrontInv,
              CallerLabels, WorkerLabels
<1>4. CASE WorkerEmpty(w)
  BY <1>4 DEF WorkerEmpty, Unlock, TypeOK, MutexInv, FrontInv,
              CallerLabels, WorkerLabels
<1>5. CASE WorkerFront(w)
  <2>1. Head(m_workqueue) \in Requests
    BY <1>5, HeadTailProperties DEF WorkerFront, TypeOK
  <2>. QED
    BY <1>5, <2>1 DEF WorkerFront, TypeOK, MutexInv, FrontInv,
                      CallerLabels, WorkerLabels
<1>6. CASE WorkerPop(w)
  <2>1. TypeOK'
    BY <1>6, HeadTailProperties, AppendProperties
    DEF WorkerPop, TypeOK, FrontInv, CallerLabels, WorkerLabels
  <2>2. MutexInv' /\ FrontInv'
    BY <1>6 DEF WorkerPop, TypeOK, MutexInv, FrontInv
  <2>. QED BY <2>1, <2>2
<1>7. CASE WorkerUnlock(w)
  BY <1>7 DEF WorkerUnlock, Unlock, TypeOK, MutexInv, FrontInv,
              CallerLabels, WorkerLabels
<1>8. CASE WorkerProcess(w)
  BY <1>8 DEF WorkerProcess, TypeOK, MutexInv, FrontInv,
              CallerLabels, WorkerLabels
<1>. QED
  BY <1>1, <1>2, <1>3, <1>4, <1>5, <1>6, <1>7, <1>8 DEF WorkerStep

-------------------------------------------------------------------------------
(* Counting tokens.  Woken and Posting change by at most the thread that     *)
(* takes the step.                                                           *)

\* The threads between a list operation and its semaphore call are finitely many.
LEMMA CountsAreNat ==
    /\ IsFiniteSet(Woken) /\ Cardinality(Woken) \in Nat
    /\ IsFiniteSet(Posting) /\ Cardinality(Posting) \in Nat
<1>1. Woken \subseteq Workers /\ Posting \subseteq Callers
  BY DEF Woken, Posting
<1>. QED
  BY <1>1, ThreadsAssumption, FS_Subset, FS_CardinalityType

\* The terms of TokenBalance are integers.
LEMMA TokensAreInt ==
    ASSUME TypeOK
    PROVE  /\ m_queuestat \in Int /\ surplus \in Int /\ Len(m_workqueue) \in Int
           /\ Cardinality(Woken) \in Int /\ Cardinality(Posting) \in Int
BY CountsAreNat, LenProperties DEF TypeOK

\* No tokens, no requests.
LEMMA TokenInit == Init => TokenBalance
<1> SUFFICES ASSUME Init PROVE TokenBalance
  OBVIOUS
<1>1. Woken = {} /\ Posting = {}
  BY ThreadsAssumption DEF Init, Woken, Posting, Threads
<1>2. Cardinality(Woken) = 0 /\ Cardinality(Posting) = 0
  BY <1>1, FS_EmptySet
<1>. QED
  BY <1>2 DEF Init, TokenBalance

\* append() puts a request and owes a token until it posts.
LEMMA TokenCaller ==
    ASSUME Skeleton, TokenBalance, NEW c \in Callers, CallerStep(c)
    PROVE  TokenBalance'
<1> USE ThreadsAssumption, CountsAreNat DEF Skeleton, TypeOK, Threads, Goto, histVars
<1>0. Woken' = Woken
  BY DEF CallerStep, AppendLock, AppendRefuse, AppendPush, AppendPost,
         AppendUnlock, Woken
<1>1. ASSUME NEW r \in Requests, AppendLock(c, r) PROVE TokenBalance'
  <2>1. Posting' = Posting
    BY <1>1 DEF AppendLock, Posting
  <2>. QED
    BY <1>0, <1>1, <2>1 DEF AppendLock, TokenBalance
<1>2. CASE AppendRefuse(c) \/ AppendUnlock(c)
  <2>1. Posting' = Posting
    BY <1>2 DEF AppendRefuse, AppendUnlock, Posting
  <2>. QED
    BY <1>0, <1>2, <2>1 DEF AppendRefuse, AppendUnlock, TokenBalance
<1>3. CASE AppendPush(c)
  <2>1. Posting' = Posting \cup {c} /\ c \notin Posting
    BY <1>3 DEF AppendPush, Posting
  <2>2. Cardinality(Posting') = Cardinality(Posting) + 1
    BY <2>1, FS_AddElement, Zenon
  <2>3. Len(m_workqueue') = Len(m_workqueue) + 1
    BY <1>3, AppendProperties DEF AppendPush
  <2>4. surplus' = surplus /\ m_queuestat' = m_queuestat
    BY <1>3 DEF AppendPush
  <2>. QED
    BY <1>0, <2>2, <2>3, <2>4, LenProperties DEF TokenBalance
<1>4. CASE AppendPost(c)
  <2>1. Posting' = Posting \ {c} /\ c \in Posting
    BY <1>4 DEF AppendPost, Posting
  <2>2. Cardinality(Posting') = Cardinality(Posting) - 1
    BY <2>1, FS_RemoveElement, Zenon
  <2>. QED
    BY <1>0, <1>4, <2>2 DEF AppendPost, TokenBalance
<1>. QED
  BY <1>1, <1>2, <1>3, <1>4 DEF CallerStep

\* A worker takes a token and owes a request until it pops.
LEMMA TokenWorker ==
    ASSUME Skeleton, TokenBalance, NEW w \in Workers,
           WorkerStep(w) \/ SemWaitInterrupted(w)
    PROVE  TokenBalance'
<1>a. /\ w \in Threads
      /\ pc \in [Threads -> CallerLabels \cup WorkerLabels]
      /\ Workers \cap Callers = {}
  BY ThreadsAssumption DEF Skeleton, TypeOK, Threads
<1>b. /\ m_queuestat \in Int /\ surplus \in Int /\ Len(m_workqueue) \in Int
      /\ Cardinality(Woken) \in Int /\ Cardinality(Posting) \in Int
  BY TokensAreInt DEF Skeleton
<1>0. Posting' = Posting
  BY <1>a DEF WorkerStep, SemWait, SemWaitInterrupted, WorkerLock, WorkerEmpty,
              WorkerFront, WorkerPop, WorkerUnlock, WorkerProcess, Posting,
              Goto, Threads
<1>1. CASE SemWait(w) \/ SemWaitInterrupted(w)
  <2>1. Woken' = Woken \cup {w} /\ w \notin Woken
    BY <1>1, <1>a DEF SemWait, SemWaitInterrupted, Woken, Goto, Threads
  <2>2. Cardinality(Woken') = Cardinality(Woken) + 1
    BY <2>1, CountsAreNat, FS_AddElement, Zenon
  <2>3. m_workqueue' = m_workqueue
    BY <1>1 DEF SemWait, SemWaitInterrupted
  <2>4. \/ m_queuestat' = m_queuestat - 1 /\ surplus' = surplus
        \/ m_queuestat' = m_queuestat /\ surplus' = surplus + 1
    BY <1>1 DEF SemWait, SemWaitInterrupted, histVars
  <2>. QED
    BY <1>0, <1>b, <2>2, <2>3, <2>4 DEF TokenBalance
<1>2. CASE WorkerLock(w) \/ WorkerFront(w) \/ WorkerUnlock(w) \/ WorkerProcess(w)
  <2>1. Woken' = Woken
    BY <1>2, <1>a DEF WorkerLock, WorkerFront, WorkerUnlock, WorkerProcess,
                      Woken, Goto, Threads
  <2>. QED
    BY <1>0, <1>2, <2>1
    DEF WorkerLock, WorkerFront, WorkerUnlock, WorkerProcess, histVars,
        TokenBalance
<1>3. CASE WorkerEmpty(w) \/ WorkerPop(w)
  <2>1. Woken' = Woken \ {w} /\ w \in Woken
    BY <1>3, <1>a DEF WorkerEmpty, WorkerPop, Woken, Goto, Threads
  <2>2. Cardinality(Woken') = Cardinality(Woken) - 1
    BY <2>1, CountsAreNat, FS_RemoveElement, Zenon
  <2>3. m_queuestat' = m_queuestat
    BY <1>3 DEF WorkerEmpty, WorkerPop
  <2>4. CASE WorkerEmpty(w)
    <3>1. m_workqueue' = m_workqueue /\ surplus' = surplus - 1
      BY <2>4 DEF WorkerEmpty
    <3>. QED
      BY <1>0, <1>b, <2>2, <2>3, <3>1 DEF TokenBalance
  <2>5. CASE WorkerPop(w)
    <3>1. m_workqueue \in Seq(Requests) /\ m_workqueue /= <<>>
      BY <2>5 DEF WorkerPop, Goto, Skeleton, TypeOK, FrontInv
    <3>2. Len(m_workqueue') = Len(m_workqueue) - 1 /\ surplus' = surplus
      BY <2>5, <3>1, HeadTailProperties DEF WorkerPop
    <3>. QED
      BY <1>0, <1>b, <2>2, <2>3, <3>2 DEF TokenBalance
  <2>. QED
    BY <1>3, <2>4, <2>5
<1>. QED
  BY <1>1, <1>2, <1>3 DEF WorkerStep

-------------------------------------------------------------------------------
(* The list: its bound and its history. *)

\* A step keeps the list bounded, and the requests taken once and in order.
LEMMA ListStep ==
    ASSUME IInv, [Next]_vars
    PROVE  QueueBounded' /\ ExactlyOnceInOrder'
<1>a. /\ m_workqueue \in Seq(Requests) /\ taken \in Seq(Requests)
      /\ Len(m_workqueue) \in Nat /\ MaxRequests \in Nat
  BY BoundsAssumption, LenProperties DEF IInv, TypeOK
<1>b. Len(m_workqueue) <= MaxRequests + 1 /\ accepted = taken \o m_workqueue
  BY DEF IInv, QueueBounded, ExactlyOnceInOrder
<1>1. ASSUME NEW c \in Callers, AppendPush(c)
      PROVE  QueueBounded' /\ ExactlyOnceInOrder'
  <2>1. request[c] \in Requests
    BY DEF IInv, TypeOK, Threads
  <2>2. Len(m_workqueue') = Len(m_workqueue) + 1
    BY <1>1, <1>a, <2>1, AppendProperties DEF AppendPush
  <2>3. Len(m_workqueue) <= MaxRequests
    BY <1>1, <1>a DEF AppendPush
  <2>4. accepted' = taken \o m_workqueue'
    <3>1. Append(taken \o m_workqueue, request[c])
            = taken \o Append(m_workqueue, request[c])
      BY <1>a, <2>1, PushExtends, Zenon
    <3>. QED
      BY <1>1, <1>b, <3>1 DEF AppendPush
  <2>5. taken' = taken
    BY <1>1 DEF AppendPush
  <2>. QED
    BY <1>a, <2>2, <2>3, <2>4, <2>5 DEF QueueBounded, ExactlyOnceInOrder
<1>2. ASSUME NEW w \in Workers, WorkerPop(w)
      PROVE  QueueBounded' /\ ExactlyOnceInOrder'
  <2>1. m_workqueue /= <<>> /\ request[w] = Head(m_workqueue)
    BY <1>2 DEF WorkerPop, Goto, IInv, FrontInv
  <2>2. Len(m_workqueue') = Len(m_workqueue) - 1
    BY <1>2, <1>a, <2>1, HeadTailProperties DEF WorkerPop
  <2>3. taken' \o m_workqueue' = taken \o m_workqueue /\ accepted' = accepted
    BY <1>2, <1>a, <2>1, PopMoves DEF WorkerPop
  <2>. QED
    BY <1>a, <1>b, <2>2, <2>3 DEF QueueBounded, ExactlyOnceInOrder
<1>3. CASE UNCHANGED <<m_workqueue, accepted, taken>>
  BY <1>3, <1>b DEF QueueBounded, ExactlyOnceInOrder
<1>. QED
  BY <1>1, <1>2, <1>3
  DEF Next, CallerStep, WorkerStep, AppendLock, AppendRefuse, AppendPost,
      AppendUnlock, SemWait, SemWaitInterrupted, WorkerLock, WorkerEmpty,
      WorkerFront, WorkerUnlock, WorkerProcess, vars, syncVars, histVars

\* The pool starts in the invariant.
LEMMA IInvInit == Init => IInv
<1> SUFFICES ASSUME Init PROVE IInv
  OBVIOUS
<1>1. Skeleton /\ TokenBalance
  BY SkeletonInit, TokenInit
<1>2. m_workqueue = <<>> /\ taken = <<>> /\ accepted = <<>>
  BY DEF Init
<1>3. QueueBounded /\ ExactlyOnceInOrder
  BY <1>2, BoundsAssumption, ConcatEmptySeq, EmptySeq
  DEF QueueBounded, ExactlyOnceInOrder
<1>. QED
  BY <1>1, <1>3 DEF Skeleton, IInv

\* Every step, and stuttering, keeps the invariant.
LEMMA IInvStep == IInv /\ [Next]_vars => IInv'
<1> SUFFICES ASSUME IInv, [Next]_vars PROVE IInv'
  OBVIOUS
<1>1. Skeleton /\ TokenBalance
  BY DEF IInv, Skeleton
<1>2. Skeleton' /\ TokenBalance'
  <2>1. ASSUME NEW c \in Callers, CallerStep(c) PROVE Skeleton' /\ TokenBalance'
    BY <1>1, <2>1, SkeletonCaller, TokenCaller
  <2>2. ASSUME NEW w \in Workers, WorkerStep(w) \/ SemWaitInterrupted(w)
        PROVE  Skeleton' /\ TokenBalance'
    BY <1>1, <2>2, SkeletonWorker, TokenWorker
  <2>3. CASE UNCHANGED vars
    BY <1>1, <2>3 DEF vars, syncVars, histVars, Skeleton, TypeOK, MutexInv,
                      FrontInv, TokenBalance, Woken, Posting
  <2>. QED
    BY <2>1, <2>2, <2>3 DEF Next
<1>. QED
  BY <1>2, ListStep DEF IInv, Skeleton

\* The balance of the tokens leaves no other way to find the list empty.
LEMMA EmptyNeedsSurplus == IInv => EmptyOnlyAfterInterrupt
<1> SUFFICES ASSUME IInv, NEW w \in Workers,
                    pc[w] = "front", m_workqueue = <<>>
             PROVE  surplus > 0
  BY DEF EmptyOnlyAfterInterrupt
<1>1. w \in Woken
  BY DEF Woken
<1>2. Cardinality(Woken) /= 0 /\ Cardinality(Woken) \in Nat
  BY <1>1, CountsAreNat, FS_EmptySet
<1>3. m_queuestat \in Nat /\ surplus \in Int /\ Len(m_workqueue) = 0
  BY EmptySeq DEF IInv, TypeOK
<1>. QED
  BY <1>2, <1>3, CountsAreNat DEF IInv, TokenBalance

-------------------------------------------------------------------------------
(* The theorems. *)

\* IInv holds in every reachable state of the pool.
THEOREM Inductive == Spec => []IInv
BY IInvInit, IInvStep, PTL DEF Spec

\* append() and run() keep every variable of the pool in its type; in
\* particular the semaphore is never below zero.
THEOREM TypeCorrect == Spec => []TypeOK
<1>1. IInv => TypeOK
  BY DEF IInv
<1>. QED
  BY <1>1, Inductive, PTL

\* No interleaving of append() and run() loses or invents a wakeup.
THEOREM NoLostWakeup == Spec => []TokenBalance
<1>1. IInv => TokenBalance
  BY DEF IInv
<1>. QED
  BY <1>1, Inductive, PTL

\* run()'s m_workqueue.empty() branch needs an interrupted sem_wait().
THEOREM EmptyBranchDead == Spec => []EmptyOnlyAfterInterrupt
BY EmptyNeedsSurplus, Inductive, PTL

\* append() never lets the list grow past m_max_requests + 1.
THEOREM Bounded == Spec => []QueueBounded
<1>1. IInv => QueueBounded
  BY DEF IInv
<1>. QED
  BY <1>1, Inductive, PTL

\* What workers popped, followed by what is in the list, is what append()
\* accepted.
THEOREM FifoExactlyOnce == Spec => []ExactlyOnceInOrder
<1>1. IInv => ExactlyOnceInOrder
  BY DEF IInv
<1>. QED
  BY <1>1, Inductive, PTL

-------------------------------------------------------------------------------
(* Refinement: the steps that callers of the pool can see are push_back() in *)
(* append(), pop_front() in run() and the return of process().               *)

RunningFn == [w \in Workers |-> RunningOn(w)]

\* Steps that leave the list alone and move nobody across pop_front() or the
\* return of process() are invisible.
LEMMA SilentStep ==
    ASSUME m_workqueue' = m_workqueue,
           \A w \in Workers : RunningOn(w)' = RunningOn(w)
    PROVE  UNCHANGED Jobs!jobVars
<1>1. RunningFn' = RunningFn
  BY DEF RunningFn
<1>. QED
  BY <1>1 DEF Jobs!jobVars, RunningFn

\* Every step is one of the abstract queue, or leaves it alone.
LEMMA RefineStep ==
    ASSUME IInv, Next
    PROVE  Jobs!Next \/ UNCHANGED Jobs!jobVars
<1>a. /\ pc \in [Threads -> CallerLabels \cup WorkerLabels]
      /\ request \in [Threads -> Requests]
      /\ Workers \subseteq Threads /\ Callers \subseteq Threads
      /\ Workers \cap Callers = {}
      /\ Len(m_workqueue) \in Nat /\ MaxRequests \in Nat
  BY ThreadsAssumption, BoundsAssumption, LenProperties
  DEF IInv, TypeOK, Threads
<1>1. ASSUME NEW c \in Callers, CallerStep(c)
      PROVE  Jobs!Next \/ UNCHANGED Jobs!jobVars
  <2>1. \A w \in Workers : RunningOn(w)' = RunningOn(w)
    BY <1>1, <1>a DEF CallerStep, AppendLock, AppendRefuse, AppendPush,
                      AppendPost, AppendUnlock, Goto, RunningOn
  <2>2. CASE AppendPush(c)
    <3>1. [w \in Workers |-> RunningOn(w)'] = [w \in Workers |-> RunningOn(w)]
      BY <2>1
    <3>2. request[c] \in Requests /\ Len(m_workqueue) <= MaxRequests
      BY <1>a, <2>2 DEF AppendPush
    <3>3. Jobs!Submit(request[c])
      BY <2>2, <3>1, <3>2 DEF AppendPush, Jobs!Submit
    <3>. QED
      BY <3>2, <3>3 DEF Jobs!Next
  <2>3. CASE ~AppendPush(c)
    <3>1. m_workqueue' = m_workqueue
      BY <1>1, <2>3 DEF CallerStep, AppendLock, AppendRefuse, AppendPost,
                        AppendUnlock
    <3>. QED
      BY <2>1, <3>1, SilentStep
  <2>. QED
    BY <2>2, <2>3
<1>2. ASSUME NEW w \in Workers, WorkerPop(w) PROVE Jobs!Start(w)
  <2>1. m_workqueue /= <<>> /\ request[w] = Head(m_workqueue)
    BY <1>2 DEF WorkerPop, Goto, IInv, FrontInv
  <2>2. RunningOn(w) = NULL /\ RunningOn(w)' = request[w]
    BY <1>2, <1>a DEF WorkerPop, Goto, RunningOn
  <2>3. \A v \in Workers \ {w} : RunningOn(v)' = RunningOn(v)
    BY <1>2, <1>a DEF WorkerPop, Goto, RunningOn
  <2>4. [v \in Workers |-> RunningOn(v)']
          = [[v \in Workers |-> RunningOn(v)] EXCEPT ![w] = Head(m_workqueue)]
    BY <2>1, <2>2, <2>3, Zenon
  <2>. QED
    BY <1>2, <2>1, <2>2, <2>4 DEF WorkerPop, Jobs!Start
<1>3. ASSUME NEW w \in Workers, WorkerProcess(w)
      PROVE  Jobs!Finish(w) \/ UNCHANGED Jobs!jobVars
  <2>1. RunningOn(w) = request[w] /\ RunningOn(w)' = NULL
    BY <1>3, <1>a DEF WorkerProcess, Goto, RunningOn
  <2>2. \A v \in Workers \ {w} : RunningOn(v)' = RunningOn(v)
    BY <1>3, <1>a DEF WorkerProcess, Goto, RunningOn
  <2>3. [v \in Workers |-> RunningOn(v)']
          = [[v \in Workers |-> RunningOn(v)] EXCEPT ![w] = NULL]
    BY <2>1, <2>2, Zenon
  <2>4. m_workqueue' = m_workqueue
    BY <1>3 DEF WorkerProcess
  <2>5. CASE request[w] = NULL
    BY <2>1, <2>2, <2>4, <2>5, SilentStep
  <2>6. CASE request[w] /= NULL
    BY <2>1, <2>3, <2>4, <2>6 DEF Jobs!Finish
  <2>. QED
    BY <2>5, <2>6
<1>4. ASSUME NEW w \in Workers, WorkerStep(w) \/ SemWaitInterrupted(w),
             ~WorkerPop(w), ~WorkerProcess(w)
      PROVE  UNCHANGED Jobs!jobVars
  <2>1. m_workqueue' = m_workqueue
    BY <1>4 DEF WorkerStep, SemWait, SemWaitInterrupted, WorkerLock,
                WorkerEmpty, WorkerFront, WorkerUnlock
  <2>2. \A v \in Workers : RunningOn(v)' = RunningOn(v)
    BY <1>4, <1>a DEF WorkerStep, SemWait, SemWaitInterrupted, WorkerLock,
                      WorkerEmpty, WorkerFront, WorkerUnlock, Goto, RunningOn
  <2>. QED
    BY <2>1, <2>2, SilentStep
<1>. QED
  BY <1>1, <1>2, <1>3, <1>4 DEF Next, WorkerStep, Jobs!Next

\* Every behaviour of append() and run() is, step by step, a behaviour of the
\* abstract job queue.
THEOREM RefinesJobQueue == Spec => Jobs!SafeSpec
<1>1. Init => Jobs!Init
  BY ThreadsAssumption DEF Init, Jobs!Init, RunningOn, Threads
<1>2. IInv /\ [Next]_vars => [Jobs!Next]_(Jobs!jobVars)
  <2> SUFFICES ASSUME IInv, [Next]_vars
               PROVE  Jobs!Next \/ UNCHANGED Jobs!jobVars
    OBVIOUS
  <2>1. CASE Next
    BY <2>1, RefineStep
  <2>2. CASE UNCHANGED vars
    <3>1. m_workqueue' = m_workqueue
      BY <2>2 DEF vars, syncVars
    <3>2. \A w \in Workers : RunningOn(w)' = RunningOn(w)
      BY <2>2 DEF vars, syncVars, RunningOn
    <3>. QED
      BY <3>1, <3>2, SilentStep
  <2>. QED
    BY <2>1, <2>2
<1>. QED
  BY <1>1, <1>2, Inductive, PTL DEF Spec, Jobs!SafeSpec

-------------------------------------------------------------------------------
(* UndoList *)

CONSTANTS Apps, MaxMessages
VARIABLES next, prev, last, push, undoPc, undoNode, m_undo_lock, undoTaken, brushed

Undo == INSTANCE UndoList WITH pc <- undoPc, node <- undoNode, taken <- undoTaken

UndoSetting == Nobody \notin Apps /\ MaxMessages \in Nat

UndoTypes ==
    /\ next \in [Undo!Nodes -> Undo!Nodes] /\ prev \in [Undo!Nodes -> Undo!Nodes]
    /\ last \in Nat /\ last <= MaxMessages /\ push \in {"idle", "next", "prev"}
    /\ undoPc \in [Apps -> {"idle", "test", "copy", "next", "prev", "unlock"}]
    /\ undoNode \in [Apps -> Undo!Nodes] /\ undoTaken \in Seq(Nat)
    /\ m_undo_lock \in Apps \cup {Nobody}

\* The thread inside get_undo_task() holds m_undo_lock.
OneTaker == \A a \in Apps : undoPc[a] /= "idle" <=> m_undo_lock = a

\* How far get_undo_task() is, and how many nodes pop_front() has taken off the
\* backward and off the forward chain.
Phase == IF m_undo_lock = Nobody THEN "idle" ELSE undoPc[m_undo_lock]
Behind == IF Phase \in {"next", "prev"} THEN Len(undoTaken) - 1 ELSE Len(undoTaken)
Ahead == IF Phase = "next" THEN Len(undoTaken) - 1 ELSE Len(undoTaken)

\* The last nodes push_back() has put on the forward and on the backward chain.
LastNext == IF push = "next" THEN last - 1 ELSE last
LastPrev == IF push = "idle" THEN last ELSE last - 1

\* The nodes after b are linked in the order of their numbers; the list's own node
\* leads forward to the one after a and back to lp.
Linked(nx, pv, b, a, ln, lp, lst) ==
    /\ \A n \in Nat : b < n /\ n <= lst => /\ pv[n] = IF n = b + 1 THEN 0 ELSE n - 1
                                           /\ nx[n] = IF n < ln THEN n + 1 ELSE 0
    /\ pv[0] = IF b < lp THEN lp ELSE 0
    /\ nx[0] = IF a < ln THEN a + 1 ELSE 0

Below(lst, D) == \A n \in Nat : n <= lst => n \in D

Chains == Linked(next, prev, Behind, Ahead, LastNext, LastPrev, last)

Numbered ==
    /\ \A i \in 1 .. Len(undoTaken) : undoTaken[i] = i
    /\ Behind \in Nat /\ Behind <= last
    /\ push /= "idle" => Behind < last
    /\ Phase \in {"copy", "next", "prev"} =>
         undoNode[m_undo_lock] = Behind + 1 /\ Behind < LastNext

\* The append does not touch the node being taken.
Apart == Phase \in {"copy", "next", "prev"} /\ push /= "idle" =>
           undoNode[m_undo_lock] \notin {last, prev[last]} \ {0}

UndoInv ==
    /\ UndoTypes /\ OneTaker
    /\ brushed \/ (Chains /\ Numbered /\ Apart)

-------------------------------------------------------------------------------
\* What each write to a link does to the chains.
LEMMA PutLink ==
    ASSUME NEW D, NEW f \in [D -> D], NEW k \in D, NEW m \in D, NEW g, g = [f EXCEPT ![k] = m]
    PROVE  g[k] = m /\ \A n \in D : n /= k => g[n] = f[n]
BY Zenon

\* push: the new node points at the head and at the last node.
LEMMA HookLinks ==
    ASSUME NEW D, NEW nx \in [D -> D], NEW pv \in [D -> D], NEW lst \in Nat, Below(lst + 1, D),
           NEW b \in Nat, NEW a \in Nat, b <= lst, Linked(nx, pv, b, a, lst, lst, lst),
           NEW v, v = [nx EXCEPT ![lst + 1] = 0], NEW w, w = [pv EXCEPT ![lst + 1] = pv[0]]
    PROVE  Linked(v, w, b, a, lst, lst, lst + 1)
<1>1. 0 \in D /\ lst + 1 \in D /\ lst + 1 /= 0
  BY DEF Below
<1>2. /\ v[lst + 1] = 0 /\ \A n \in D : n /= lst + 1 => v[n] = nx[n]
      /\ w[lst + 1] = pv[0] /\ \A n \in D : n /= lst + 1 => w[n] = pv[n]
  BY <1>1, PutLink, Zenon
<1>3. pv[0] = IF b < lst THEN lst ELSE 0
  BY Zenon DEF Linked
<1>4. ASSUME NEW n \in Nat, b < n, n <= lst + 1
      PROVE  /\ w[n] = IF n = b + 1 THEN 0 ELSE n - 1
             /\ v[n] = IF n < lst THEN n + 1 ELSE 0
  <2>1. CASE n = lst + 1
    BY ONLY <1>2, <1>3, <2>1, lst \in Nat, b \in Nat, b <= lst
  <2>2. CASE n /= lst + 1
    <3>1. n <= lst /\ n \in D
      BY <1>4, <2>2 DEF Below
    <3>. QED
      BY <1>2, <1>4, <2>2, <3>1, Zenon DEF Linked
  <2>. QED
    BY <2>1, <2>2
<1>5. w[0] = pv[0] /\ v[0] = nx[0]
  BY <1>1, <1>2, Zenon
<1>. QED
  BY <1>4, <1>5, Zenon DEF Linked

\* push: the last node points at the new one.
LEMMA NextLinks ==
    ASSUME NEW D, NEW nx \in [D -> D], NEW pv \in [D -> D], NEW lst \in Nat, Below(lst, D),
           NEW b \in Nat, NEW a \in Nat, b < lst, a = b \/ (a = b + 1 /\ a /= lst /\ a /= pv[lst]),
           Linked(nx, pv, b, a, lst - 1, lst - 1, lst),
           NEW v, v = [nx EXCEPT ![pv[lst]] = lst]
    PROVE  Linked(v, pv, b, a, lst, lst - 1, lst)
<1>1. 0 \in D /\ lst \in D /\ lst <= lst
  BY DEF Below
<1>2. /\ v[pv[lst]] = lst
      /\ \A n \in D : n /= pv[lst] => v[n] = nx[n]
  BY <1>1, PutLink, Zenon
<1>3. /\ pv[lst] = IF lst = b + 1 THEN 0 ELSE lst - 1
      /\ nx[0] = IF a < lst - 1 THEN a + 1 ELSE 0
  BY <1>1, Zenon DEF Linked
<1>4. ASSUME NEW n \in Nat, b < n, n <= lst
      PROVE  v[n] = IF n < lst THEN n + 1 ELSE 0
  <2>1. n \in D /\ nx[n] = IF n < lst - 1 THEN n + 1 ELSE 0
    BY <1>4, Zenon DEF Linked, Below
  <2>2. CASE n = pv[lst]
    <3>1. n = lst - 1
      BY ONLY <1>3, <1>4, <2>2, lst \in Nat, b \in Nat, n \in Nat
    <3>. QED
      BY ONLY <1>2, <2>2, <3>1, lst \in Nat
  <2>3. CASE n /= pv[lst]
    <3>1. v[n] = nx[n]
      BY <1>2, <2>1, <2>3, Zenon
    <3>2. n < lst => n < lst - 1
      BY ONLY <1>3, <1>4, <2>3, lst \in Nat, b \in Nat, n \in Nat
    <3>. QED
      BY ONLY <2>1, <3>1, <3>2, lst \in Nat, n \in Nat
  <2>. QED
    BY <2>2, <2>3
<1>5. v[0] = IF a < lst THEN a + 1 ELSE 0
  <2>1. CASE lst = b + 1
    <3>1. a = b
      BY <2>1
    <3>. QED
      BY ONLY <1>2, <1>3, <2>1, <3>1, b \in Nat
  <2>2. CASE lst /= b + 1
    <3>1. pv[lst] = lst - 1
      BY <1>3, <2>2, Zenon
    <3>2. pv[lst] /= 0 /\ a < lst - 1
      BY <2>2, <3>1
    <3>3. v[0] = nx[0]
      BY <1>1, <1>2, <3>2, Zenon
    <3>. QED
      BY ONLY <1>3, <3>2, <3>3, lst \in Nat, a \in Nat
  <2>. QED
    BY <2>1, <2>2
<1>. QED
  BY <1>4, <1>5, Zenon DEF Linked

\* push: the head points back at the new node.
LEMMA PrevLinks ==
    ASSUME NEW D, NEW nx \in [D -> D], NEW pv \in [D -> D], NEW lst \in Nat, Below(lst, D),
           NEW b \in Nat, NEW a \in Nat, b < lst, Linked(nx, pv, b, a, lst, lst - 1, lst),
           NEW w, w = [pv EXCEPT ![0] = lst]
    PROVE  Linked(nx, w, b, a, lst, lst, lst)
<1>1. 0 \in D /\ lst \in D /\ \A n \in Nat : b < n /\ n <= lst => n \in D /\ n /= 0
  BY DEF Below
<1>2. w[0] = lst /\ \A n \in D : n /= 0 => w[n] = pv[n]
  BY <1>1, PutLink, Zenon
<1>3. w[0] = IF b < lst THEN lst ELSE 0
  BY <1>2
<1>. QED
  BY <1>1, <1>2, <1>3, Zenon DEF Linked

\* pop: the node before the first one points past it.
LEMMA PopNextLinks ==
    ASSUME NEW D, NEW nx \in [D -> D], NEW pv \in [D -> D], NEW lst \in Nat, Below(lst, D),
           NEW b \in Nat, NEW ln \in Int, NEW lp \in Int,
           b < ln, ln <= lst, Linked(nx, pv, b, b, ln, lp, lst),
           NEW v, v = [nx EXCEPT ![pv[b + 1]] = nx[b + 1]]
    PROVE  Linked(v, pv, b, b + 1, ln, lp, lst)
<1>1. /\ 0 \in D /\ b + 1 \in Nat /\ b < b + 1 /\ b + 1 <= lst /\ b + 1 \in D
      /\ \A n \in Nat : b < n /\ n <= lst => n \in D /\ n /= 0
  BY DEF Below
<1>2. pv[b + 1] = 0 /\ nx[b + 1] = IF b + 1 < ln THEN b + 1 + 1 ELSE 0
  BY <1>1, Zenon DEF Linked
<1>3. v[0] = nx[b + 1] /\ \A n \in D : n /= 0 => v[n] = nx[n]
  BY <1>1, <1>2, PutLink, Zenon
<1>. QED
  BY <1>1, <1>2, <1>3, Zenon DEF Linked

\* pop: the node after it points back past it.
LEMMA PopPrevLinks ==
    ASSUME NEW D, NEW nx \in [D -> D], NEW pv \in [D -> D], NEW lst \in Nat, Below(lst, D),
           NEW b \in Nat, NEW ln \in Int, NEW lp \in Int, b < ln, ln <= lst,
           b + 1 < ln <=> b + 1 < lp, b + 1 < ln <=> b + 1 < lst,
           Linked(nx, pv, b, b + 1, ln, lp, lst),
           NEW w, w = [pv EXCEPT ![nx[b + 1]] = pv[b + 1]]
    PROVE  Linked(nx, w, b + 1, b + 1, ln, lp, lst)
<1>1. /\ 0 \in D /\ b + 1 \in Nat /\ b < b + 1 /\ b + 1 <= lst /\ b + 1 \in D
      /\ \A n \in Nat : b + 1 < n /\ n <= lst => b < n /\ n /= b + 1 /\ n \in D
  BY DEF Below
<1>2. /\ pv[b + 1] = 0 /\ nx[b + 1] = IF b + 1 < ln THEN b + 1 + 1 ELSE 0
      /\ pv[0] = IF b < lp THEN lp ELSE 0
  BY <1>1, Zenon DEF Linked
<1>3. w[nx[b + 1]] = 0 /\ \A n \in D : n /= nx[b + 1] => w[n] = pv[n]
  BY <1>1, <1>2, PutLink, Zenon
<1>4. ASSUME NEW n \in Nat, b + 1 < n, n <= lst
      PROVE  w[n] = IF n = b + 1 + 1 THEN 0 ELSE n - 1
  <2>1. b + 1 < ln
    BY <1>4
  <2>2. nx[b + 1] = b + 1 + 1
    BY <1>2, <2>1, Zenon
  <2>3. n \in D /\ pv[n] = n - 1
    BY <1>1, <1>4, Zenon DEF Linked
  <2>. QED
    BY <1>3, <2>2, <2>3, Zenon
<1>5. w[0] = IF b + 1 < lp THEN lp ELSE 0
  <2>1. CASE b + 1 < ln
    <3>1. b + 1 + 1 /= 0 /\ b < lp
      BY <2>1
    <3>2. w[0] = pv[0]
      BY <1>1, <1>2, <1>3, <2>1, <3>1, Zenon
    <3>. QED
      BY <1>2, <2>1, <3>1, <3>2, Zenon
  <2>2. CASE ~(b + 1 < ln)
    BY <1>2, <1>3, <2>2, Zenon
  <2>. QED
    BY <2>1, <2>2
<1>. QED
  BY <1>1, <1>4, <1>5, Zenon DEF Linked

-------------------------------------------------------------------------------
\* The nodes are the numbers up to MaxMessages.
LEMMA UndoNodes ==
    ASSUME UndoSetting
    PROVE  Below(MaxMessages, Undo!Nodes) /\ \A n \in Undo!Nodes : n \in Nat
BY DEF UndoSetting, Below, Undo!Nodes

\* The list starts empty, its lock free.
LEMMA UndoInit ==
    ASSUME UndoSetting, Undo!Init
    PROVE  UndoInv
<1>1. 0 \in Undo!Nodes
  BY UndoNodes DEF UndoSetting, Below
<1>2. UndoTypes /\ OneTaker
  BY <1>1 DEF UndoSetting, Undo!Init, UndoTypes, OneTaker
<1>3. last = 0 /\ push = "idle" /\ undoTaken = <<>> /\ Phase = "idle" /\ next[0] = 0 /\ prev[0] = 0
  BY <1>1 DEF Undo!Init, Phase
<1>4. Behind = 0 /\ Ahead = 0 /\ LastNext = 0 /\ LastPrev = 0
  BY <1>3 DEF Behind, Ahead, LastNext, LastPrev
<1>5. Chains
  BY ONLY <1>3, <1>4 DEF Chains, Linked
<1>6. Numbered /\ Apart
  BY <1>3, <1>4 DEF Numbered, Apart
<1>. QED
  BY <1>2, <1>5, <1>6, Zenon DEF UndoInv

\* The lock keeps get_undo_task() to one thread at a time.
LEMMA TakerHolds ==
    ASSUME UndoSetting, UndoTypes, OneTaker, NEW a \in Apps, undoPc[a] /= "idle"
    PROVE  m_undo_lock = a /\ Phase = undoPc[a]
BY DEF UndoSetting, OneTaker, Phase

\* The holder of m_undo_lock goes on, and nobody else does.
LEMMA TakerGoes ==
    ASSUME UndoSetting, UndoTypes, OneTaker, NEW a \in Apps, undoPc[a] /= "idle",
           NEW l \in {"test", "copy", "next", "prev", "unlock"}, Undo!Goto(a, l),
           UNCHANGED m_undo_lock
    PROVE  OneTaker' /\ Phase' = l
<1>1. m_undo_lock = a /\ undoPc'[a] = l /\ \A c \in Apps : c /= a => undoPc'[c] = undoPc[c]
  BY TakerHolds DEF UndoTypes, Undo!Goto
<1>2. l /= "idle" /\ a /= Nobody
  BY DEF UndoSetting
<1>3. Phase' = l
  BY <1>1, <1>2 DEF Phase
<1>4. OneTaker'
  BY <1>1, <1>2, Zenon DEF OneTaker
<1>. QED
  BY <1>3, <1>4

\* Every step keeps the types and that one application thread pops at a time.
LEMMA UndoTypesKept ==
    ASSUME UndoSetting, UndoTypes, OneTaker, Undo!Step
    PROVE  UndoTypes' /\ OneTaker'
<1>0. 0 \in Undo!Nodes /\ last \in Undo!Nodes
  BY UndoNodes DEF UndoSetting, UndoTypes, Below
<1>1. CASE Undo!PushHook
  <2>1. last' \in Nat /\ last' <= MaxMessages /\ last' \in Undo!Nodes /\ push' = "next"
    BY <1>1, UndoNodes DEF Undo!PushHook, UndoSetting, UndoTypes, Below
  <2>2. next' \in [Undo!Nodes -> Undo!Nodes] /\ prev' \in [Undo!Nodes -> Undo!Nodes]
    BY <1>0, <1>1, <2>1, Zenon DEF Undo!PushHook, UndoTypes
  <2>. QED
    BY <1>1, <2>1, <2>2 DEF Undo!PushHook, UndoTypes, OneTaker
<1>2. CASE Undo!PushNext
  <2>1. next' \in [Undo!Nodes -> Undo!Nodes]
    BY <1>0, <1>2, Zenon DEF Undo!PushNext, UndoTypes
  <2>. QED
    BY <1>2, <2>1 DEF Undo!PushNext, UndoTypes, OneTaker
<1>3. CASE Undo!PushPrev
  <2>1. prev' \in [Undo!Nodes -> Undo!Nodes]
    BY <1>0, <1>3, Zenon DEF Undo!PushPrev, UndoTypes
  <2>. QED
    BY <1>3, <2>1 DEF Undo!PushPrev, UndoTypes, OneTaker
<1>4. ASSUME NEW a \in Apps, Undo!Lock(a) PROVE UndoTypes' /\ OneTaker'
  <2>1. /\ UndoTypes' /\ m_undo_lock = Nobody /\ m_undo_lock' = a /\ undoPc'[a] = "test"
        /\ \A c \in Apps : c /= a => undoPc'[c] = undoPc[c]
    BY <1>4 DEF Undo!Lock, Undo!TakeLock, Undo!Goto, UndoTypes
  <2>2. OneTaker'
    BY <2>1 DEF OneTaker, UndoSetting
  <2>. QED
    BY <2>1, <2>2
<1>5. ASSUME NEW a \in Apps, Undo!Test(a) PROVE UndoTypes' /\ OneTaker'
  <2>1. PICK l \in {"copy", "unlock"} : Undo!Goto(a, l)
    BY <1>5, Zenon DEF Undo!Test
  <2>2. undoNode' \in [Apps -> Undo!Nodes]
    BY <1>0, <1>5, Zenon DEF Undo!Test, UndoTypes
  <2>3. OneTaker'
    BY <1>5, <2>1, TakerGoes DEF Undo!Test
  <2>. QED
    BY <1>5, <2>1, <2>2, <2>3, Zenon DEF Undo!Test, Undo!Goto, UndoTypes
<1>6. ASSUME NEW a \in Apps, Undo!Copy(a) PROVE UndoTypes' /\ OneTaker'
  <2>1. undoNode[a] \in Nat
    BY UndoNodes, Zenon DEF UndoTypes
  <2>2. OneTaker'
    BY <1>6, TakerGoes DEF Undo!Copy
  <2>. QED
    BY <1>6, <2>1, <2>2 DEF Undo!Copy, Undo!Goto, UndoTypes
<1>7. ASSUME NEW a \in Apps, Undo!PopNext(a) PROVE UndoTypes' /\ OneTaker'
  <2>1. next' \in [Undo!Nodes -> Undo!Nodes]
    BY <1>7, Zenon DEF Undo!PopNext, UndoTypes
  <2>2. OneTaker'
    BY <1>7, TakerGoes DEF Undo!PopNext
  <2>. QED
    BY <1>7, <2>1, <2>2 DEF Undo!PopNext, Undo!Goto, UndoTypes
<1>8. ASSUME NEW a \in Apps, Undo!PopPrev(a) PROVE UndoTypes' /\ OneTaker'
  <2>1. prev' \in [Undo!Nodes -> Undo!Nodes]
    BY <1>8, Zenon DEF Undo!PopPrev, UndoTypes
  <2>2. OneTaker'
    BY <1>8, TakerGoes DEF Undo!PopPrev
  <2>. QED
    BY <1>8, <2>1, <2>2 DEF Undo!PopPrev, Undo!Goto, UndoTypes
<1>9. ASSUME NEW a \in Apps, Undo!Unlock(a) PROVE UndoTypes' /\ OneTaker'
  <2>1. /\ UndoTypes' /\ m_undo_lock = a /\ m_undo_lock' = Nobody /\ undoPc'[a] = "idle"
        /\ \A c \in Apps : c /= a => undoPc'[c] = undoPc[c]
    BY <1>9, TakerHolds DEF Undo!Unlock, Undo!Goto, UndoTypes
  <2>2. OneTaker'
    BY <2>1 DEF OneTaker, UndoSetting
  <2>. QED
    BY <2>1, <2>2
<1>. QED
  BY <1>1, <1>2, <1>3, <1>4, <1>5, <1>6, <1>7, <1>8, <1>9, Zenon DEF Undo!Step

\* A step after which nothing was brushed leaves the append and the taking apart.
LEMMA NoMeeting ==
    ASSUME UndoSetting, UndoTypes', OneTaker', Undo!NoteBrush, ~brushed'
    PROVE  Apart' /\ ~brushed
<1>1. ~brushed /\ (Undo!Linking' \cap Undo!Taking') \ {0} = {}
  BY Zenon DEF Undo!NoteBrush
<1>2. ASSUME Phase' \in {"copy", "next", "prev"}, push' /= "idle",
             undoNode'[m_undo_lock'] \in {last', prev'[last']} \ {0}
      PROVE  FALSE
  <2>1. m_undo_lock' \in Apps /\ undoPc'[m_undo_lock'] \in {"copy", "next", "prev"}
    BY <1>2 DEF Phase, UndoTypes
  <2>2. undoNode'[m_undo_lock'] \in Undo!Taking'
    BY <2>1, Zenon DEF Undo!Taking
  <2>3. undoNode'[m_undo_lock'] \in Undo!Linking'
    BY <1>2, Zenon DEF Undo!Linking
  <2>. QED
    BY <1>1, <1>2, <2>2, <2>3, Zenon
<1>. QED
  BY <1>1, <1>2, Zenon DEF Apart

\* Between its two writes pop_front() is one node further on the forward chain.
LEMMA AheadOf ==
    ASSUME UndoTypes
    PROVE  /\ Len(undoTaken) \in Nat /\ Behind \in Int
           /\ Ahead = IF Phase = "prev" THEN Behind + 1 ELSE Behind
BY DEF UndoTypes, Ahead, Behind

\* The loop thread's stores keep the chains linked and the messages numbered.
LEMMA PushKeeps ==
    ASSUME UndoSetting, UndoTypes, UndoTypes', Chains, Numbered, Apart,
           Undo!PushHook \/ Undo!PushNext \/ Undo!PushPrev
    PROVE  Chains' /\ Numbered'
<1>0. /\ UNCHANGED <<undoPc, undoNode, m_undo_lock, undoTaken>>
      /\ Phase' = Phase /\ Behind' = Behind /\ Ahead' = Ahead
  BY DEF Undo!PushHook, Undo!PushNext, Undo!PushPrev, Phase, Behind, Ahead
<1>1. PICK b : b = Behind
  OBVIOUS
<1>2. PICK a : a = Ahead
  OBVIOUS
<1>3. PICK D : D = Undo!Nodes
  OBVIOUS
<1>4. PICK nx : nx = next
  OBVIOUS
<1>5. PICK pv : pv = prev
  OBVIOUS
<1>6. PICK lst : lst = last
  OBVIOUS
<1>7. /\ b \in Nat /\ a \in Nat /\ nx \in [D -> D] /\ pv \in [D -> D]
      /\ lst \in Nat /\ lst <= MaxMessages /\ b <= lst
  <2>1. Ahead \in Nat /\ Behind \in Nat
    BY AheadOf DEF Numbered
  <2>. QED
    BY <1>1, <1>2, <1>3, <1>4, <1>5, <1>6, <2>1 DEF UndoTypes, Numbered
<1>8. Below(lst, D)
  BY <1>3, <1>7, UndoNodes DEF Below, UndoSetting
<1>9. Linked(nx, pv, b, a, LastNext, LastPrev, lst)
  BY <1>1, <1>2, <1>4, <1>5, <1>6, Zenon DEF Chains
<1>10. CASE Undo!PushHook
  <2>1. /\ push = "idle" /\ push' = "next" /\ last' = lst + 1
        /\ next' = [nx EXCEPT ![lst + 1] = 0] /\ prev' = [pv EXCEPT ![lst + 1] = pv[0]]
    BY <1>4, <1>5, <1>6, <1>10, Zenon DEF Undo!PushHook
  <2>2. LastNext = lst /\ LastPrev = lst /\ LastNext' = lst /\ LastPrev' = lst
    BY <1>6, <1>7, <2>1 DEF LastNext, LastPrev
  <2>3. Below(lst + 1, D)
    BY <1>3, <1>7, <2>1, UndoNodes DEF Below, UndoSetting, UndoTypes
  <2>4. Linked(next', prev', b, a, lst, lst, lst + 1)
    <3>1. PICK v : v = next'
      OBVIOUS
    <3>2. PICK w : w = prev'
      OBVIOUS
    <3>3. Linked(v, w, b, a, lst, lst, lst + 1)
      BY <1>7, <1>9, <2>1, <2>2, <2>3, <3>1, <3>2, HookLinks, Zenon
    <3>. QED
      BY <3>1, <3>2, <3>3, Zenon
  <2>5. Chains'
    BY <1>0, <1>1, <1>2, <2>1, <2>2, <2>4, Zenon DEF Chains
  <2>6. Numbered'
    BY <1>0, <1>1, <1>6, <1>7, <2>1, <2>2 DEF Numbered
  <2>. QED
    BY <2>5, <2>6
<1>11. CASE Undo!PushNext
  <2>1. /\ push = "next" /\ push' = "prev" /\ last' = lst
        /\ next' = [nx EXCEPT ![pv[lst]] = lst] /\ prev' = pv
    BY <1>4, <1>5, <1>6, <1>11, Zenon DEF Undo!PushNext
  <2>2. LastNext = lst - 1 /\ LastPrev = lst - 1 /\ LastNext' = lst /\ LastPrev' = lst - 1
    BY <1>6, <1>7, <2>1 DEF LastNext, LastPrev
  <2>3. b < lst /\ (a = b \/ (a = b + 1 /\ a /= lst /\ a /= pv[lst]))
    <3>1. b < lst
      BY <1>1, <1>6, <2>1 DEF Numbered
    <3>2. CASE Phase = "prev"
      <4>1. a = b + 1 /\ undoNode[m_undo_lock] = a
        BY <1>1, <1>2, <3>2, AheadOf DEF Numbered
      <4>2. a /= 0
        BY <1>7, <4>1
      <4>. QED
        BY <1>5, <1>6, <2>1, <3>1, <3>2, <4>1, <4>2 DEF Apart
    <3>3. CASE Phase /= "prev"
      BY <1>1, <1>2, <3>1, <3>3, AheadOf, Zenon
    <3>. QED
      BY <3>2, <3>3
  <2>4. Linked(next', pv, b, a, lst, lst - 1, lst)
    <3>1. PICK v : v = next'
      OBVIOUS
    <3>2. Linked(v, pv, b, a, lst, lst - 1, lst)
      BY <1>7, <1>8, <1>9, <2>1, <2>2, <2>3, <3>1, NextLinks, Zenon
    <3>. QED
      BY <3>1, <3>2, Zenon
  <2>5. Chains'
    BY <1>0, <1>1, <1>2, <2>1, <2>2, <2>4, Zenon DEF Chains
  <2>6. Numbered'
    BY <1>0, <1>1, <1>6, <1>7, <2>1, <2>2, <2>3 DEF Numbered
  <2>. QED
    BY <2>5, <2>6
<1>12. CASE Undo!PushPrev
  <2>1. /\ push = "prev" /\ push' = "idle" /\ last' = lst
        /\ next' = nx /\ prev' = [pv EXCEPT ![0] = lst]
    BY <1>4, <1>5, <1>6, <1>12, Zenon DEF Undo!PushPrev
  <2>2. LastNext = lst /\ LastPrev = lst - 1 /\ LastNext' = lst /\ LastPrev' = lst
    BY <1>6, <1>7, <2>1 DEF LastNext, LastPrev
  <2>3. b < lst
    BY <1>1, <1>6, <2>1 DEF Numbered
  <2>4. Linked(nx, prev', b, a, lst, lst, lst)
    <3>1. PICK w : w = prev'
      OBVIOUS
    <3>2. Linked(nx, w, b, a, lst, lst, lst)
      BY <1>7, <1>8, <1>9, <2>1, <2>2, <2>3, <3>1, PrevLinks, Zenon
    <3>. QED
      BY <3>1, <3>2, Zenon
  <2>5. Chains'
    BY <1>0, <1>1, <1>2, <2>1, <2>2, <2>4, Zenon DEF Chains
  <2>6. Numbered'
    BY <1>0, <1>1, <1>6, <1>7, <2>1, <2>2 DEF Numbered
  <2>. QED
    BY <2>5, <2>6
<1>. QED
  BY <1>10, <1>11, <1>12

\* So do the stores of the thread that pops.
LEMMA TakeKeeps ==
    ASSUME UndoSetting, UndoTypes, UndoTypes', OneTaker, Chains, Numbered, Apart, NEW t \in Apps,
           \/ Undo!Lock(t) \/ Undo!Test(t) \/ Undo!Copy(t)
           \/ Undo!PopNext(t) \/ Undo!PopPrev(t) \/ Undo!Unlock(t)
    PROVE  Chains' /\ Numbered'
<1>0. UNCHANGED <<last, push, LastNext, LastPrev>>
  BY DEF Undo!Lock, Undo!Test, Undo!Copy, Undo!PopNext, Undo!PopPrev, Undo!Unlock, LastNext, LastPrev
<1>1. ASSUME UNCHANGED <<next, prev, undoTaken, undoNode>>, Phase \in {"idle", "test", "unlock"},
             Phase' \in {"idle", "test", "unlock"}
      PROVE  Chains' /\ Numbered'
  <2>1. Behind' = Behind /\ Ahead' = Ahead
    BY <1>1 DEF Behind, Ahead
  <2>2. Chains'
    BY <1>0, <1>1, <2>1, Zenon DEF Chains
  <2>3. Numbered'
    BY <1>0, <1>1, <2>1 DEF Numbered
  <2>. QED
    BY <2>2, <2>3
<1>2. CASE Undo!Lock(t)
  <2>1. Phase = "idle" /\ Phase' = "test"
    BY <1>2 DEF Undo!Lock, Undo!TakeLock, Undo!Goto, Phase, UndoSetting, UndoTypes
  <2>. QED
    BY <1>1, <1>2, <2>1 DEF Undo!Lock
<1>3. CASE Undo!Unlock(t)
  <2>1. Phase = "unlock" /\ m_undo_lock = t
    BY <1>3, TakerHolds DEF Undo!Unlock
  <2>2. Phase' = "idle"
    BY <1>3, <2>1, Zenon DEF Undo!Unlock, Phase
  <2>. QED
    BY <1>1, <1>3, <2>1, <2>2 DEF Undo!Unlock
<1>4. CASE Undo!Test(t)
  <2>1. Phase = "test" /\ m_undo_lock = t /\ UNCHANGED <<next, prev, undoTaken, m_undo_lock>>
    BY <1>4, TakerHolds DEF Undo!Test
  <2>2. CASE next[0] = 0
    <3>1. Phase' = "unlock"
      BY <1>4, <2>2, TakerGoes DEF Undo!Test
    <3>. QED
      BY <1>1, <1>4, <2>1, <2>2, <3>1 DEF Undo!Test
  <2>3. CASE next[0] /= 0
    <3>1. Phase' = "copy"
      BY <1>4, <2>3, TakerGoes DEF Undo!Test
    <3>2. undoNode'[m_undo_lock'] = next[0]
      BY <1>4, <2>1, <2>3 DEF Undo!Test, UndoTypes
    <3>3. Behind' = Behind /\ Ahead' = Ahead /\ Ahead = Behind
      BY <2>1, <3>1, AheadOf DEF Behind, Ahead
    <3>4. Chains'
      BY <1>0, <2>1, <3>3, Zenon DEF Chains
    <3>5. next[0] = Behind + 1 /\ Behind < LastNext
      BY <2>3, <3>3, Zenon DEF Chains, Linked
    <3>6. Numbered'
      BY <1>0, <2>1, <3>2, <3>3, <3>5, Zenon DEF Numbered
    <3>. QED
      BY <3>4, <3>6
  <2>. QED
    BY <2>2, <2>3
<1>5. CASE Undo!Copy(t)
  <2>1. Phase = "copy" /\ m_undo_lock = t /\ UNCHANGED <<next, prev, undoNode, m_undo_lock>>
    BY <1>5, TakerHolds DEF Undo!Copy
  <2>2. Phase' = "next" /\ undoTaken' = Append(undoTaken, undoNode[t])
    BY <1>5, TakerGoes DEF Undo!Copy
  <2>3. undoNode[t] = Behind + 1 /\ Behind = Len(undoTaken) /\ Behind < LastNext /\ Len(undoTaken) \in Nat
    BY <2>1, AheadOf DEF Numbered, Behind
  <2>4. /\ Len(undoTaken') = Len(undoTaken) + 1 /\ undoTaken'[Len(undoTaken) + 1] = Len(undoTaken) + 1
        /\ \A i \in 1 .. Len(undoTaken) : undoTaken'[i] = undoTaken[i]
    <3>1. PICK n \in Nat : n = undoNode[t]
      BY <2>3
    <3>. QED
      BY <2>2, <2>3, <3>1 DEF UndoTypes
  <2>5. Behind' = Behind /\ Ahead' = Ahead
    BY <2>1, <2>2, <2>3, <2>4 DEF Behind, Ahead
  <2>6. Chains'
    BY <1>0, <2>1, <2>5, Zenon DEF Chains
  <2>7. \A i \in 1 .. Len(undoTaken') : undoTaken'[i] = i
    BY <2>3, <2>4 DEF Numbered
  <2>8. Numbered'
    BY <1>0, <2>1, <2>2, <2>3, <2>5, <2>7 DEF Numbered
  <2>. QED
    BY <2>6, <2>8
<1>6. CASE Undo!PopNext(t) \/ Undo!PopPrev(t)
  <2>1. /\ m_undo_lock = t /\ Phase = undoPc[t] /\ Phase \in {"next", "prev"}
        /\ UNCHANGED <<undoNode, m_undo_lock, undoTaken>>
    BY <1>6, TakerHolds DEF Undo!PopNext, Undo!PopPrev
  <2>2. PICK b : b = Behind
    OBVIOUS
  <2>3. PICK D : D = Undo!Nodes
    OBVIOUS
  <2>4. PICK nx : nx = next
    OBVIOUS
  <2>5. PICK pv : pv = prev
    OBVIOUS
  <2>6. PICK lst : lst = last
    OBVIOUS
  <2>7. PICK ln : ln = LastNext
    OBVIOUS
  <2>8. PICK lp : lp = LastPrev
    OBVIOUS
  <2>9. /\ b \in Nat /\ nx \in [D -> D] /\ pv \in [D -> D] /\ lst \in Nat /\ lst <= MaxMessages
        /\ ln \in Int /\ lp \in Int /\ b < ln /\ ln <= lst
        /\ undoNode[t] = b + 1 /\ Len(undoTaken) = b + 1
    <3>1. ln \in Int /\ lp \in Int /\ ln <= lst
      BY <2>6, <2>7, <2>8 DEF UndoTypes, LastNext, LastPrev
    <3>2. Behind \in Nat /\ Len(undoTaken) = Behind + 1
      <4>1. Behind \in Nat
        BY Zenon DEF Numbered
      <4>2. Len(undoTaken) \in Nat
        BY AheadOf
      <4>3. Len(undoTaken) = Behind + 1
        BY <2>1, <4>2 DEF Behind
      <4>. QED
        BY <4>1, <4>3
    <3>3. undoNode[t] = Behind + 1 /\ Behind < LastNext
      BY <2>1 DEF Numbered
    <3>. QED
      BY <2>2, <2>3, <2>4, <2>5, <2>6, <2>7, <3>1, <3>2, <3>3 DEF UndoTypes
  <2>10. Below(lst, D)
    BY <2>3, <2>9, UndoNodes DEF Below, UndoSetting
  <2>11. Linked(nx, pv, b, Ahead, ln, lp, lst)
    BY <2>2, <2>4, <2>5, <2>6, <2>7, <2>8, Zenon DEF Chains
  <2>12. CASE Undo!PopNext(t)
    <3>1. /\ Phase = "next" /\ Phase' = "prev" /\ prev' = pv
          /\ next' = [nx EXCEPT ![pv[b + 1]] = nx[b + 1]]
      BY <2>1, <2>4, <2>5, <2>9, <2>12, TakerGoes, Zenon DEF Undo!PopNext
    <3>2. Ahead = b /\ Behind' = b /\ Ahead' = b + 1
      <4>1. Len(undoTaken) = b + 1 /\ undoTaken' = undoTaken /\ b \in Nat
        BY <2>1, <2>9, Zenon
      <4>2. Ahead = Len(undoTaken) - 1 /\ Behind' = Len(undoTaken) - 1 /\ Ahead' = Len(undoTaken)
        BY <3>1, <4>1 DEF Ahead, Behind
      <4>. QED
        BY <4>1, <4>2
    <3>3. Linked(next', pv, b, b + 1, ln, lp, lst)
      <4>1. PICK v : v = next'
        OBVIOUS
      <4>2. Linked(v, pv, b, b + 1, ln, lp, lst)
        BY <2>9, <2>10, <2>11, <3>1, <3>2, <4>1, PopNextLinks, Zenon
      <4>. QED
        BY <4>1, <4>2, Zenon
    <3>4. Chains'
      BY <1>0, <2>6, <2>7, <2>8, <3>1, <3>2, <3>3, Zenon DEF Chains
    <3>5. Numbered'
      BY <1>0, <2>1, <2>2, <2>7, <2>9, <3>1, <3>2 DEF Numbered
    <3>. QED
      BY <3>4, <3>5
  <2>13. CASE Undo!PopPrev(t)
    <3>1. /\ Phase = "prev" /\ Phase' = "unlock" /\ next' = nx
          /\ prev' = [pv EXCEPT ![nx[b + 1]] = pv[b + 1]]
      BY <2>1, <2>4, <2>5, <2>9, <2>13, TakerGoes, Zenon DEF Undo!PopPrev
    <3>2. Ahead = b + 1 /\ Behind' = b + 1 /\ Ahead' = b + 1
      BY <2>1, <2>9, <3>1 DEF Ahead, Behind
    <3>3. /\ push /= "idle" => b + 1 < lst
          /\ (b + 1 < ln <=> b + 1 < lp) /\ (b + 1 < ln <=> b + 1 < lst)
      <4>1. CASE push = "idle"
        BY <2>6, <2>7, <2>8, <4>1 DEF LastNext, LastPrev
      <4>2. CASE push /= "idle"
        <5>1. b + 1 \notin {lst, pv[lst]} \ {0}
          BY <2>1, <2>5, <2>6, <2>9, <4>2, Zenon DEF Apart
        <5>2. b + 1 /= lst /\ b < lst
          BY <2>9, <5>1
        <5>3. pv[lst] = lst - 1
          <6>1. lst /= b + 1 /\ lst <= lst
            BY <2>9, <5>2
          <6>. QED
            BY <2>9, <2>11, <5>2, <6>1, Zenon DEF Linked
        <5>4. b + 1 < lst - 1
          BY <2>9, <5>1, <5>2, <5>3
        <5>5. (ln = lst - 1 \/ ln = lst) /\ lp = lst - 1
          BY <2>6, <2>7, <2>8, <4>2 DEF LastNext, LastPrev
        <5>. QED
          BY <2>9, <5>4, <5>5
      <4>. QED
        BY <4>1, <4>2
    <3>4. Linked(nx, prev', b + 1, b + 1, ln, lp, lst)
      <4>1. PICK w : w = prev'
        OBVIOUS
      <4>2. Linked(nx, w, b + 1, b + 1, ln, lp, lst)
        BY <2>9, <2>10, <2>11, <3>1, <3>2, <3>3, <4>1, PopPrevLinks, Zenon
      <4>. QED
        BY <4>1, <4>2, Zenon
    <3>5. Chains'
      BY <1>0, <2>6, <2>7, <2>8, <3>1, <3>2, <3>4, Zenon DEF Chains
    <3>6. Numbered'
      <4>1. \A i \in 1 .. Len(undoTaken') : undoTaken'[i] = i
        BY <2>1, Zenon DEF Numbered
      <4>2. Behind' = b + 1 /\ b + 1 <= lst /\ last' = lst /\ push' = push /\ Phase' \notin {"copy", "next", "prev"}
        BY <1>0, <2>6, <2>9, <3>1, <3>2
      <4>3. push /= "idle" => b + 1 < lst
        BY <2>9, <3>3
      <4>. QED
        BY <2>9, <4>1, <4>2, <4>3 DEF Numbered
    <3>. QED
      BY <3>5, <3>6
  <2>. QED
    BY <1>6, <2>12, <2>13
<1>. QED
  BY <1>2, <1>3, <1>4, <1>5, <1>6

\* Every step, and stuttering, keeps the invariant of the list.
LEMMA UndoInductive ==
    ASSUME UndoSetting, UndoInv, [Undo!Next]_(Undo!vars)
    PROVE  UndoInv'
<1>1. CASE Undo!Next
  <2>1. UndoTypes /\ OneTaker /\ Undo!Step /\ Undo!NoteBrush
    BY <1>1, Zenon DEF UndoInv, Undo!Next
  <2>2. UndoTypes' /\ OneTaker'
    BY <2>1, UndoTypesKept
  <2>3. ASSUME ~brushed' PROVE Chains' /\ Numbered' /\ Apart'
    <3>1. ~brushed /\ Apart'
      BY <2>1, <2>2, <2>3, NoMeeting
    <3>2. Chains /\ Numbered /\ Apart
      BY <3>1, Zenon DEF UndoInv
    <3>3. CASE Undo!PushHook \/ Undo!PushNext \/ Undo!PushPrev
      BY <2>1, <2>2, <3>1, <3>2, <3>3, PushKeeps
    <3>4. ASSUME NEW t \in Apps,
                 \/ Undo!Lock(t) \/ Undo!Test(t) \/ Undo!Copy(t)
                 \/ Undo!PopNext(t) \/ Undo!PopPrev(t) \/ Undo!Unlock(t)
          PROVE  Chains' /\ Numbered'
      BY <2>1, <2>2, <3>2, <3>4, TakeKeeps
    <3>. QED
      BY <2>1, <3>1, <3>3, <3>4, Zenon DEF Undo!Step
  <2>. QED
    BY <2>2, <2>3, Zenon DEF UndoInv
<1>2. CASE UNCHANGED Undo!vars
  <2>1. UNCHANGED <<next, prev, last, push, undoPc, undoNode, m_undo_lock, undoTaken, brushed>>
    BY <1>2 DEF Undo!vars
  <2>2. UNCHANGED <<Phase, Behind, Ahead, LastNext, LastPrev>>
    BY <2>1 DEF Phase, Behind, Ahead, LastNext, LastPrev
  <2>. QED
    BY <2>1, <2>2, Zenon DEF UndoInv, UndoTypes, OneTaker, Chains, Numbered, Apart
<1>. QED
  BY <1>1, <1>2

\* For any number of threads and messages: as long as no append met the taking of a
\* node it links, get_undo_task() hands out the messages once and in order and a list
\* that looks empty is empty, although add_undo_task() appends without m_undo_lock.
THEOREM MessagesTakenInOrder ==
    ASSUME UndoSetting
    PROVE  Undo!Spec => []Undo!TakenInOrder
<1>1. Undo!Init => UndoInv
  BY UndoInit
<1>2. UndoInv /\ [Undo!Next]_(Undo!vars) => UndoInv'
  BY UndoInductive
<1>3. UndoInv => Undo!TakenInOrder
  <2> SUFFICES ASSUME UndoInv, ~brushed
               PROVE  /\ undoTaken = [i \in 1 .. Len(undoTaken) |-> i]
                      /\ (next[0] = 0 /\ push = "idle" /\ Undo!Taking = {}) => Len(undoTaken) = last
    BY Zenon DEF Undo!TakenInOrder
  <2>1. UndoTypes /\ Chains /\ Numbered
    BY Zenon DEF UndoInv
  <2>2. undoTaken = [i \in 1 .. Len(undoTaken) |-> i]
    BY <2>1 DEF UndoTypes, Numbered
  <2>3. ASSUME next[0] = 0, push = "idle", Undo!Taking = {} PROVE Len(undoTaken) = last
    <3>1. Phase \notin {"copy", "next", "prev"}
      BY <2>1, <2>3 DEF Phase, UndoTypes, Undo!Taking
    <3>2. Behind = Len(undoTaken) /\ Ahead = Len(undoTaken) /\ LastNext = last
      BY <2>3, <3>1 DEF Behind, Ahead, LastNext
    <3>3. ~(Len(undoTaken) < last)
      <4>1. next[0] = IF Len(undoTaken) < last THEN Len(undoTaken) + 1 ELSE 0
        BY <2>1, <3>2, Zenon DEF Chains, Linked
      <4>. QED
        BY <2>1, <2>3, <4>1, AheadOf
    <3>. QED
      BY <2>1, <3>2, <3>3, AheadOf DEF Numbered, UndoTypes
  <2>. QED
    BY <2>2, <2>3
<1>. QED
  BY <1>1, <1>2, <1>3, PTL DEF Undo!Spec
===============================================================================
