------------------------------- MODULE FileLock ------------------------------
(***************************************************************************)
(* PosixEnv::LockFile() and UnlockFile() of one lock file, by threads of    *)
(* several processes, and DestroyDB(), which deletes the file.  An inode is *)
(* a number; the name of the lock file leads to one of them, or to none (0).*)
(* fcntl() locks belong to a process and an inode, and the process loses    *)
(* its lock when it closes any descriptor of that inode.                    *)
(***************************************************************************)
EXTENDS Naturals

CONSTANTS Threads, Processes,
          ProcessOf,      \* the process of each thread
          Destroyers,     \* threads that call DestroyDB(); the others open the database
          MaxInodes, MaxExits   \* bounds: lock files made, processes that exit

VARIABLES pc, fd,      \* of each thread
          locked,      \* locked_files_ of each process: is the name in it?
          owner,       \* the process that has the fcntl() lock of each inode, as a set
          name,        \* the inode of the lock file, 0: there is no file
          inodes, exits
vars == <<pc, fd, locked, owner, name, inodes, exits>>

Init ==
    /\ pc = [t \in Threads |-> "idle"] /\ fd = [t \in Threads |-> 0]
    /\ locked = [p \in Processes |-> FALSE] /\ owner = [i \in 1 .. MaxInodes |-> {}]
    /\ name = 0 /\ inodes = 0 /\ exits = 0

\* close(): the process of t loses its lock on the inode.
Closed(o, t) == [o EXCEPT ![fd[t]] = @ \ {ProcessOf[t]}]

\* open(O_RDWR | O_CREAT)
Open(t) ==
    /\ pc[t] = "idle"
    /\ \/ name > 0 /\ fd' = [fd EXCEPT ![t] = name] /\ UNCHANGED <<name, inodes>>
       \/ /\ name = 0 /\ inodes < MaxInodes
          /\ inodes' = inodes + 1 /\ name' = inodes' /\ fd' = [fd EXCEPT ![t] = inodes']
    /\ pc' = [pc EXCEPT ![t] = "insert"]
    /\ UNCHANGED <<locked, owner, exits>>

\* PosixLockTable::Insert(): was the name not there?
Insert(p) == ~locked[p]

InsertName(t) ==
    /\ pc[t] = "insert"
    /\ \/ /\ Insert(ProcessOf[t])
          /\ locked' = [locked EXCEPT ![ProcessOf[t]] = TRUE]
          /\ pc' = [pc EXCEPT ![t] = "fcntl"]
          /\ UNCHANGED <<owner, fd>>
       \/ /\ ~Insert(ProcessOf[t])              \* "already held by process"
          /\ owner' = Closed(owner, t)
          /\ fd' = [fd EXCEPT ![t] = 0]
          /\ pc' = [pc EXCEPT ![t] = "idle"]
          /\ UNCHANGED locked
    /\ UNCHANGED <<name, inodes, exits>>

\* Mutant: the answer of fcntl() is not looked at.
LockIgnored(p, i) == TRUE

LockGranted(p, i) == owner[i] \subseteq {p}

LockRefused(p, i) == ~LockGranted(p, i)

\* LockOrUnlock() when fcntl() succeeds.
LockOrUnlock(i, p, lock) == [owner EXCEPT ![i] = IF lock THEN {p} ELSE @ \ {p}]

\* Mutant: the name stays in the table.
NameKept(p) == locked

\* PosixLockTable::Remove()
RemoveName(p) == [locked EXCEPT ![p] = FALSE]

\* fcntl(F_SETLK): the lock, or an error.
SetLock(t) ==
    /\ pc[t] = "fcntl"
    /\ LET p == ProcessOf[t] IN
       \/ /\ LockGranted(p, fd[t])
          /\ owner' = LockOrUnlock(fd[t], p, TRUE)
          /\ pc' = [pc EXCEPT ![t] = "held"]
          /\ UNCHANGED <<fd, locked>>
       \/ /\ LockRefused(p, fd[t])
          /\ owner' = Closed(owner, t)
          /\ fd' = [fd EXCEPT ![t] = 0]
          /\ locked' = RemoveName(p)
          /\ pc' = [pc EXCEPT ![t] = "idle"]
    /\ UNCHANGED <<name, inodes, exits>>

\* UnlockFile(): LockOrUnlock(fd, false), Remove(), close().
Unlock(t) ==
    /\ pc[t] = "held"
    /\ owner' = LockOrUnlock(fd[t], ProcessOf[t], FALSE)
    /\ pc' = [pc EXCEPT ![t] = "remove"]
    /\ UNCHANGED <<fd, locked, name, inodes, exits>>

Remove(t) ==
    /\ pc[t] = "remove"
    /\ locked' = RemoveName(ProcessOf[t])
    /\ pc' = [pc EXCEPT ![t] = "close"]
    /\ UNCHANGED <<fd, owner, name, inodes, exits>>

Close(t) ==
    /\ pc[t] = "close"
    /\ owner' = Closed(owner, t)
    /\ fd' = [fd EXCEPT ![t] = 0]
    /\ pc' = [pc EXCEPT ![t] = IF t \in Destroyers THEN "unlink" ELSE "idle"]
    /\ UNCHANGED <<locked, name, inodes, exits>>

\* DestroyDB(): DeleteFile() of the lock file, after UnlockFile().
Unlink(t) ==
    /\ pc[t] = "unlink"
    /\ name' = 0
    /\ pc' = [pc EXCEPT ![t] = "idle"]
    /\ UNCHANGED <<fd, locked, owner, inodes, exits>>

\* A process exits; another one takes its place.
Exit(p) ==
    /\ exits < MaxExits /\ \E t \in Threads : ProcessOf[t] = p /\ pc[t] # "idle"
    /\ exits' = exits + 1
    /\ pc' = [t \in Threads |-> IF ProcessOf[t] = p THEN "idle" ELSE pc[t]]
    /\ fd' = [t \in Threads |-> IF ProcessOf[t] = p THEN 0 ELSE fd[t]]
    /\ locked' = [locked EXCEPT ![p] = FALSE]
    /\ owner' = [i \in DOMAIN owner |-> owner[i] \ {p}]
    /\ UNCHANGED <<name, inodes>>

Step(t) == Open(t) \/ InsertName(t) \/ SetLock(t) \/ Unlock(t) \/ Remove(t) \/ Close(t) \/ Unlink(t)
Next == (\E t \in Threads : Step(t)) \/ (\E p \in Processes : Exit(p))

Spec == Init /\ [][Next]_vars

-----------------------------------------------------------------------------
Holders == {t \in Threads : pc[t] = "held"}

\* The database is open at most once: between the return of LockFile() and the
\* call of UnlockFile() no other thread, of this or another process, holds the lock.
OneHolder == \A t, u \in Holders : t = u

\* A thread that holds the lock has it from the system, so that the next
\* process will find it.
HolderHasSystemLock == \A t \in Holders : owner[fd[t]] = {ProcessOf[t]}

\* A process that ends, or whose LockFile() failed, leaves nothing behind: a
\* name in a lock table belongs to a thread that is still between LockFile() and
\* the end of UnlockFile().
TableIsExact ==
    \A p \in Processes :
      locked[p] <=> \E t \in Threads : ProcessOf[t] = p /\ pc[t] \in {"fcntl", "held", "remove"}

\* LockFile() must return, with the lock or without, whoever holds it ("this call
\* does not wait for existing locks to go away").
Called(t) == pc[t] = "fcntl"
Returned(t) == pc[t] # "fcntl"
===============================================================================
