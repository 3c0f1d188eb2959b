------------------------------ MODULE EnvThread ------------------------------
(***************************************************************************)
(* PosixEnv::Schedule() and the background thread, BGThread().  Callers and *)
(* the thread share mu_ and bgsignal_; a call of pthread_cond_wait() may    *)
(* return without a signal.                                                 *)
(***************************************************************************)
EXTENDS Naturals, Sequences

CONSTANTS Callers, MaxItems     \* MaxItems: bound on the calls of Schedule() per caller

VARIABLES queue, started, bg,   \* queue_, started_bgthread_, what the background thread does
          item,                 \* the item it runs
          left,                 \* calls each caller still makes
          scheduled, ran        \* histories
vars == <<queue, started, bg, item, left, scheduled, ran>>

Init ==
    /\ queue = <<>> /\ started = FALSE /\ bg = "none" /\ item = <<>>
    /\ left = [c \in Callers |-> MaxItems] /\ scheduled = <<>> /\ ran = <<>>

\* Mutant: the signal is sent when the queue was not empty.
SignalWhenFull(q) == q # <<>>

SignalNeeded(q) == q = <<>>

PushBack(q, i) == Append(q, i)

\* Schedule(): the whole call holds mu_.  The thread is started once.
Schedule(c) ==
    /\ left[c] > 0
    /\ started' = TRUE
    /\ bg' = IF ~started THEN "lock" ELSE IF SignalNeeded(queue) /\ bg = "wait" THEN "lock" ELSE bg
    /\ queue' = PushBack(queue, <<c, left[c]>>)
    /\ scheduled' = Append(scheduled, <<c, left[c]>>)
    /\ left' = [left EXCEPT ![c] = @ - 1]
    /\ UNCHANGED <<item, ran>>

\* The thread has mu_: it takes the first item, or waits.
BGWait ==
    /\ bg = "lock" /\ queue = <<>>
    /\ bg' = "wait"
    /\ UNCHANGED <<queue, started, item, left, scheduled, ran>>

SpuriousWakeup ==
    /\ bg = "wait"
    /\ bg' = "lock"
    /\ UNCHANGED <<queue, started, item, left, scheduled, ran>>

BGTake ==
    /\ bg = "lock" /\ queue # <<>>
    /\ item' = Head(queue) /\ queue' = Tail(queue)
    /\ bg' = "run"
    /\ UNCHANGED <<started, left, scheduled, ran>>

\* while (true)
AfterItem(q) == "lock"

\* (*function)(arg), without mu_.
BGRun ==
    /\ bg = "run"
    /\ ran' = Append(ran, item) /\ item' = <<>>
    /\ bg' = AfterItem(queue)
    /\ UNCHANGED <<queue, started, left, scheduled>>

BGThread == BGWait \/ BGTake \/ BGRun
Next == (\E c \in Callers : Schedule(c)) \/ BGThread \/ SpuriousWakeup

Spec == Init /\ [][Next]_vars

-----------------------------------------------------------------------------
\* Items run once, in the order of the calls of Schedule(), and one is running
\* or queued or has run from its call on.
RunsInOrder ==
    scheduled = ran \o (IF bg = "run" THEN <<item>> ELSE <<>>) \o queue

\* The thread does not sleep on work: a signal is never missed although it is
\* only sent when the queue was empty.
NoSleepOnWork == bg = "wait" => queue = <<>>

\* The n-th item given to Schedule() must run.
Called(n) == Len(scheduled) >= n
Returned(n) == Len(ran) >= n
===============================================================================
