------------------------------- MODULE IpcSem --------------------------------
(***************************************************************************)
(* Processes that share System V semaphores through ipc_sem.c: each creates *)
(* the semaphore of its key, or opens it when it exists, and uses it as a    *)
(* lock.  A process may crash anywhere; semop() is not called with SEM_UNDO. *)
(***************************************************************************)
EXTENDS Integers

CONSTANTS Procs, Keys,
          KeyOf,        \* the key of each process
          MaxSems,      \* the system's limit on semaphores
          ENOSPC,       \* the number of the error for that limit
          MaxCrashes    \* bound on crashes

VARIABLES sems,     \* the kernel's semaphores: id -> [key, val]
          pc,       \* of each process: "start", "setval", "open", "ready", "critical", "failed" or "crashed"
          semid,    \* *semid_ptr of each process, -1 before
          crashes
vars == <<sems, pc, semid, crashes>>

Init ==
    /\ sems = [id \in {} |-> 0] /\ crashes = 0
    /\ pc = [p \in Procs |-> "start"] /\ semid = [p \in Procs |-> -1]

\* The ids that semget() may give, and those it has not given.
Ids == 0 .. MaxSems - 1
FreeIds == Ids \ DOMAIN sems

Named(k) == {id \in DOMAIN sems : sems[id].key = k}
Goto(p, label) == pc' = [pc EXCEPT ![p] = label]

\* Mutant: without IPC_EXCL, a semaphore that exists gets its value again.
SetAgain(p) == semid' = [semid EXCEPT ![p] = CHOOSE id \in Named(KeyOf[p]) : TRUE] /\ Goto(p, "setval")

\* create_sem() returns SEMERR_EEXIST, and the caller opens the semaphore.
IfExists(p) == semid' = semid /\ Goto(p, "open")

\* semget() can make no semaphore for the process.
AtLimit(p) == pc[p] = "start" /\ Named(KeyOf[p]) = {} /\ FreeIds = {}

\* create_sem() as far as semget(): any other error's number becomes the id.
CreateSem(p) ==
    /\ pc[p] = "start"
    /\ \/ Named(KeyOf[p]) # {} /\ IfExists(p) /\ sems' = sems
       \/ /\ AtLimit(p)
          /\ semid' = [semid EXCEPT ![p] = ENOSPC] /\ Goto(p, "setval") /\ sems' = sems
       \/ /\ Named(KeyOf[p]) = {}
          /\ \E id \in FreeIds :
                /\ sems' = [i \in DOMAIN sems \cup {id} |-> IF i = id THEN [key |-> KeyOf[p], val |-> 0] ELSE sems[i]]
                /\ semid' = [semid EXCEPT ![p] = id]
          /\ Goto(p, "setval")
    /\ UNCHANGED crashes

\* Mutant: the semaphore is created as if it were taken.
Taken == 0

Initially == 1

\* set_sem_val() at the end of create_sem().
SetSemVal(p) ==
    /\ pc[p] = "setval"
    /\ \/ semid[p] \in DOMAIN sems /\ sems' = [sems EXCEPT ![semid[p]].val = Initially] /\ Goto(p, "ready")
       \/ semid[p] \notin DOMAIN sems /\ sems' = sems /\ Goto(p, "failed")
    /\ UNCHANGED <<semid, crashes>>

OpenSem(p) ==
    /\ pc[p] = "open" /\ Named(KeyOf[p]) # {}
    /\ \E id \in Named(KeyOf[p]) : semid' = [semid EXCEPT ![p] = id]
    /\ Goto(p, "ready")
    /\ UNCHANGED <<sems, crashes>>

SemP(p) ==
    /\ pc[p] = "ready" /\ sems[semid[p]].val > 0
    /\ sems' = [sems EXCEPT ![semid[p]].val = @ - 1] /\ Goto(p, "critical")
    /\ UNCHANGED <<semid, crashes>>
SemV(p) ==
    /\ pc[p] = "critical"
    /\ sems' = [sems EXCEPT ![semid[p]].val = @ + 1] /\ Goto(p, "ready")
    /\ UNCHANGED <<semid, crashes>>

Crash(p) ==
    /\ crashes < MaxCrashes /\ pc[p] # "crashed" /\ crashes' = crashes + 1
    /\ Goto(p, "crashed") /\ UNCHANGED <<sems, semid>>
Restart(p) ==
    /\ pc[p] = "crashed" /\ Goto(p, "start")
    /\ UNCHANGED <<sems, semid, crashes>>

Next == \E p \in Procs : CreateSem(p) \/ SetSemVal(p) \/ OpenSem(p) \/ SemP(p) \/ SemV(p) \/ Crash(p) \/ Restart(p)
Spec == Init /\ [][Next]_vars

-----------------------------------------------------------------------------
\* At most one process holds the lock of a key, whoever created the semaphore, set
\* its value late, or crashed and started again: an existing semaphore's value is
\* never set again.
MutualExclusion == \A p, q \in Procs : (p # q /\ KeyOf[p] = KeyOf[q]) => {pc[p], pc[q]} # {"critical"}

\* A process that waits for the lock must get it while no process crashes; also one
\* that opened the semaphore before its creator had set the value.
Called(p) == pc[p] \in {"open", "ready"} /\ crashes = 0
Returned(p) == pc[p] = "critical" \/ crashes > 0
===============================================================================
