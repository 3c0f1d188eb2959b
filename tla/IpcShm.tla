------------------------------- MODULE IpcShm --------------------------------
(***************************************************************************)
(* Processes that share memory through ipc_shm.c.  A key is made from the   *)
(* seed file once per process and kept in g_shm_key.  The seed file may be   *)
(* replaced, after which ftok() gives another key; segments may be deleted   *)
(* while they are mapped; shmget() and shmat() may fail.                    *)
(***************************************************************************)
EXTENDS Integers

CONSTANTS Procs,
          Seeds,        \* seed files
          MaxVersion,   \* bound on the replacements of a seed file
          MaxSegs,      \* bound on the segments made
          Faults        \* shmget() and shmat() may fail

VARIABLES version,  \* of each seed file: what ftok() depends on besides its name
          segs,     \* the kernel's segments: id -> [key, removed]
          key,      \* g_shm_key of each process, NoKey while g_shm_flag is 0
          asked,    \* of each process: the seed file of its last create_shm()
          hdl,      \* *shm_hdl_ptr of each process
          addr      \* *map_addr_ptr of each process: the segment it maps, 0 for none
vars == <<version, segs, key, asked, hdl, addr>>

NoKey == <<"none", 0>>
ftok(seed) == <<seed, version[seed]>>
Init ==
    /\ version = [s \in Seeds |-> 0] /\ segs = [i \in {} |-> 0]
    /\ key = [p \in Procs |-> NoKey] /\ asked = [p \in Procs |-> "none"]
    /\ hdl = [p \in Procs |-> -1] /\ addr = [p \in Procs |-> 0]

\* shmget() gives a new segment an identifier that is free.
Ids == 1 .. MaxSegs
FreeId == CHOOSE i \in Ids : i \notin DOMAIN segs

Live(k) == {i \in DOMAIN segs : segs[i].key = k /\ ~segs[i].removed}

\* A segment that was deleted exists until the last process unmaps it.
Kept == {i \in DOMAIN segs : ~segs[i].removed \/ \E p \in Procs : addr[p] = i}

\* Mutant: g_shm_flag is never set.
EachTime(p, seed) == ftok(seed)

KeyFor(p, seed) == IF key[p] = NoKey THEN ftok(seed) ELSE key[p]

CreateShm(p, seed) ==
    /\ key' = [key EXCEPT ![p] = KeyFor(p, seed)]
    /\ asked' = [asked EXCEPT ![p] = seed]
    /\ \/ Faults /\ hdl' = [hdl EXCEPT ![p] = -1] /\ segs' = segs
       \/ \E i \in Live(key'[p]) : hdl' = [hdl EXCEPT ![p] = i] /\ segs' = segs
       \/ /\ Live(key'[p]) = {} /\ DOMAIN segs # Ids
          /\ segs' = [j \in DOMAIN segs \cup {FreeId} |->
                        IF j = FreeId THEN [key |-> key'[p], removed |-> FALSE] ELSE segs[j]]
          /\ hdl' = [hdl EXCEPT ![p] = FreeId]
    /\ UNCHANGED <<version, addr>>
\* ftok() fails on a seed file that is gone; g_shm_flag stays 0.
CreateFails(p) ==
    /\ Faults /\ key[p] = NoKey
    /\ UNCHANGED <<version, segs, key, asked, hdl, addr>>

\* shmat() fails with (void*)-1, which map_shm() takes for an address.
MapShm(p) ==
    /\ asked[p] # "none" /\ addr[p] = 0
    /\ \/ hdl[p] \in Kept /\ addr' = [addr EXCEPT ![p] = hdl[p]]
       \/ (Faults \/ hdl[p] \notin Kept) /\ addr' = [addr EXCEPT ![p] = -1]
    /\ UNCHANGED <<version, segs, key, asked, hdl>>
UnmapShm(p) ==
    /\ addr[p] # 0 /\ addr' = [addr EXCEPT ![p] = 0]
    /\ UNCHANGED <<version, segs, key, asked, hdl>>
DelShm(p) ==
    /\ asked[p] # "none"
    /\ \/ hdl[p] \in Kept /\ segs' = [segs EXCEPT ![hdl[p]].removed = TRUE]
       \/ hdl[p] \notin Kept /\ segs' = segs
    /\ UNCHANGED <<version, key, asked, hdl, addr>>
Replace(seed) ==
    /\ version[seed] < MaxVersion /\ version' = [version EXCEPT ![seed] = @ + 1]
    /\ UNCHANGED <<segs, key, asked, hdl, addr>>

Next ==
    \/ \E p \in Procs, seed \in Seeds : CreateShm(p, seed)
    \/ \E p \in Procs : CreateFails(p) \/ MapShm(p) \/ UnmapShm(p) \/ DelShm(p)
    \/ \E seed \in Seeds : Replace(seed)
Spec == Init /\ [][Next]_vars

-----------------------------------------------------------------------------
\* A process that asks for the segment of its one seed file again gets the one it
\* has, unless that was deleted or shmget() failed, even when the seed file has been
\* replaced since: the key is the one in g_shm_key.
KeepsSegment ==
    \A p \in Procs : (hdl[p] # -1 /\ hdl'[p] \notin {hdl[p], -1}) => segs[hdl[p]].removed
===============================================================================
