----------------------------- MODULE HelperProofs -----------------------------
(***************************************************************************)
(* Theorems about the helpers around the socket: semaphores (IpcSem), the  *)
(* calls with a timeout (SocketTimeout), shared memory (IpcShm) and whole  *)
(* transfers (SocketIO), for any number of processes, seconds and bytes.   *)
(* MCConcurrent checks the same on small instances.                        *)
(***************************************************************************)
EXTENDS Integers, Sequences, SequenceTheorems, WellFoundedInduction, TLAPS

-------------------------------------------------------------------------------
(* IpcSem *)

CONSTANTS Procs, Keys, KeyOf, MaxSems, ENOSPC, MaxCrashes
VARIABLES sems, semPc, semid, semCrashes

Sem == INSTANCE IpcSem WITH pc <- semPc, crashes <- semCrashes

\* Every process has a key.
SemSetting == KeyOf \in [Procs -> Keys]

\* create_sem() takes the number of an error for an id and goes on: no process meets
\* the limit on semaphores, if that number is the id of one.
LimitHarmless == ENOSPC \in Sem!Ids => \A p \in Procs : ~Sem!AtLimit(p)

SemLabels == {"start", "setval", "open", "ready", "critical", "failed", "crashed"}

SemTypes ==
    /\ semPc \in [Procs -> SemLabels]
    /\ semid \in [Procs -> Sem!Ids \cup {-1, ENOSPC}]
    /\ DOMAIN sems \subseteq Sem!Ids
    /\ sems \in [DOMAIN sems -> [key : Keys, val : {0, 1}]]

\* A key has one semaphore, and a process that uses one uses that of its key.
OneSemaphore ==
    /\ \A i, j \in DOMAIN sems : sems[i].key = sems[j].key => i = j
    /\ \A p \in Procs :
          \/ semPc[p] \in {"ready", "critical"}
          \/ semPc[p] = "setval" /\ semid[p] \in Sem!Ids
          => semid[p] \in DOMAIN sems /\ sems[semid[p]].key = KeyOf[p]

\* The unit of a semaphore is in its value, with the process in the section, or
\* has not been put there yet by the process that created it; it may have been
\* lost in a crash.
OneUnit ==
    /\ \A p \in Procs :
          semPc[p] \in {"setval", "critical"} /\ semid[p] \in DOMAIN sems =>
              sems[semid[p]].val = 0
    /\ \A p, q \in Procs :
          /\ semPc[p] \in {"setval", "critical"} /\ semPc[q] \in {"setval", "critical"}
          /\ semid[p] = semid[q] /\ semid[p] \in DOMAIN sems
          => p = q

SemInv == SemTypes /\ OneSemaphore /\ OneUnit

\* What setting the value of semaphore i does.
LEMMA ValueFacts ==
    ASSUME SemTypes, NEW i \in DOMAIN sems, NEW v \in {0, 1},
           sems' = [sems EXCEPT ![i].val = v]
    PROVE  /\ DOMAIN sems' = DOMAIN sems
           /\ sems' \in [DOMAIN sems -> [key : Keys, val : {0, 1}]]
           /\ sems'[i].val = v
           /\ \A j \in DOMAIN sems : sems'[j].key = sems[j].key
           /\ \A j \in DOMAIN sems : j /= i => sems'[j].val = sems[j].val
BY DEF SemTypes

\* A process that moves without touching a semaphore.
LEMMA SemMoves ==
    ASSUME SemInv, NEW p \in Procs, NEW l \in SemLabels,
           NEW i \in Sem!Ids \cup {-1, ENOSPC},
           sems' = sems, semPc' = [semPc EXCEPT ![p] = l], semid' = [semid EXCEPT ![p] = i],
           l \in {"start", "open", "failed", "crashed"}
             \/ (l = "ready" /\ i \in DOMAIN sems /\ sems[i].key = KeyOf[p])
             \/ (l = "setval" /\ i \notin Sem!Ids)
    PROVE  SemInv'
<1>1. SemTypes'
  BY DEF SemInv, SemTypes
<1>2. /\ semPc'[p] = l /\ semid'[p] = i
      /\ \A q \in Procs : q /= p => semPc'[q] = semPc[q] /\ semid'[q] = semid[q]
  BY DEF SemInv, SemTypes
<1>3. OneSemaphore'
  BY <1>2 DEF SemInv, OneSemaphore
<1>. DOMAIN sems \subseteq Sem!Ids
  BY DEF SemInv, SemTypes
<1>4. OneUnit'
  BY <1>2 DEF SemInv, OneUnit
<1>. QED
  BY <1>1, <1>3, <1>4 DEF SemInv

\* CreateSem() finds the set of its key or makes one.
LEMMA SemCreate ==
    ASSUME SemSetting, LimitHarmless, SemInv, NEW p \in Procs, Sem!CreateSem(p)
    PROVE  SemInv'
<1>0. /\ semPc[p] = "start" /\ KeyOf[p] \in Keys
      /\ semid \in [Procs -> Sem!Ids \cup {-1, ENOSPC}]
  BY DEF Sem!CreateSem, SemSetting, SemInv, SemTypes
<1>1. CASE Sem!IfExists(p) /\ sems' = sems
  <2>1. semid' = [semid EXCEPT ![p] = semid[p]] /\ semPc' = [semPc EXCEPT ![p] = "open"]
    BY <1>0, <1>1 DEF Sem!IfExists, Sem!Goto
  <2>2. PICK i \in Sem!Ids \cup {-1, ENOSPC} : i = semid[p]
    BY <1>0
  <2>. QED
    BY <1>1, <2>1, <2>2, SemMoves, Zenon DEF SemLabels
<1>2. CASE /\ Sem!AtLimit(p)
           /\ semid' = [semid EXCEPT ![p] = ENOSPC] /\ Sem!Goto(p, "setval")
           /\ sems' = sems
  <2>1. ENOSPC \notin Sem!Ids
    BY <1>2 DEF LimitHarmless
  <2>. QED
    BY <1>2, <2>1, SemMoves, Zenon DEF SemLabels, Sem!Goto
<1>3. ASSUME NEW id \in Sem!FreeIds, Sem!Named(KeyOf[p]) = {},
             sems' = [i \in DOMAIN sems \cup {id} |->
                         IF i = id THEN [key |-> KeyOf[p], val |-> 0] ELSE sems[i]],
             semid' = [semid EXCEPT ![p] = id], Sem!Goto(p, "setval")
      PROVE  SemInv'
  <2>1. /\ id \in Sem!Ids /\ id \notin DOMAIN sems
        /\ \A i \in DOMAIN sems : sems[i].key /= KeyOf[p]
    BY <1>3 DEF Sem!FreeIds, Sem!Named
  <2>2. /\ DOMAIN sems' = DOMAIN sems \cup {id}
        /\ sems'[id] = [key |-> KeyOf[p], val |-> 0]
        /\ \A i \in DOMAIN sems : sems'[i] = sems[i]
    BY <1>3, <2>1
  <2>3. /\ semPc'[p] = "setval" /\ semid'[p] = id
        /\ \A q \in Procs : q /= p => semPc'[q] = semPc[q] /\ semid'[q] = semid[q]
    BY <1>3 DEF SemInv, SemTypes, Sem!Goto
  <2>4. SemTypes'
    <3>1. DOMAIN sems' \subseteq Sem!Ids /\ sems' \in [DOMAIN sems' -> [key : Keys, val : {0, 1}]]
      BY <1>0, <1>3, <2>1, <2>2 DEF SemInv, SemTypes
    <3>. QED
      BY <1>3, <2>1, <3>1 DEF SemInv, SemTypes, SemLabels, Sem!Goto, Sem!Ids
  <2>5. OneSemaphore'
    BY <2>1, <2>2, <2>3 DEF SemInv, OneSemaphore
  <2>6. OneUnit'
    <3>1. \A q \in Procs : semPc[q] \in {"setval", "critical"} => semid[q] /= id
      BY <2>1 DEF SemInv, OneSemaphore
    <3>. QED
      BY <2>1, <2>2, <2>3, <3>1 DEF SemInv, OneUnit
  <2>. QED
    BY <2>4, <2>5, <2>6 DEF SemInv
<1>. QED
  BY <1>1, <1>2, <1>3, Zenon DEF Sem!CreateSem

\* The value goes up when the unit comes back or is put there first, down when
\* a process takes it.
LEMMA SemValue ==
    ASSUME SemSetting, SemInv, NEW p \in Procs, NEW l \in {"ready", "critical"}, NEW v \in {0, 1},
           semid' = semid, semPc' = [semPc EXCEPT ![p] = l],
           semid[p] \in DOMAIN sems, sems[semid[p]].key = KeyOf[p],
           sems' = [sems EXCEPT ![semid[p]].val = v],
           \/ semPc[p] \in {"setval", "critical"} /\ l = "ready"
           \/ sems[semid[p]].val = 1 /\ v = 0
    PROVE  SemInv'
<1>0. SemTypes
  BY DEF SemInv
<1>1. /\ DOMAIN sems' = DOMAIN sems
      /\ sems' \in [DOMAIN sems -> [key : Keys, val : {0, 1}]]
      /\ sems'[semid[p]].val = v
      /\ \A j \in DOMAIN sems : sems'[j].key = sems[j].key
      /\ \A j \in DOMAIN sems : j /= semid[p] => sems'[j].val = sems[j].val
  <2>1. PICK i \in DOMAIN sems : i = semid[p]
    OBVIOUS
  <2>. QED
    BY <1>0, <2>1, ValueFacts, Zenon
<1>2. /\ semPc'[p] = l
      /\ \A q \in Procs : q /= p => semPc'[q] = semPc[q]
  BY <1>0 DEF SemTypes
<1>3. SemTypes'
  BY <1>0, <1>1 DEF SemTypes, SemLabels
<1>4. OneSemaphore'
  BY <1>1, <1>2 DEF SemInv, OneSemaphore
<1>5. \A q \in Procs : q /= p /\ semPc[q] \in {"setval", "critical"} => semid[q] /= semid[p]
  BY DEF SemInv, OneUnit
<1>6. OneUnit'
  BY <1>1, <1>2, <1>5 DEF SemInv, OneUnit
<1>. QED
  BY <1>3, <1>4, <1>6 DEF SemInv

\* SemInv holds at the start and is kept by every step.
LEMMA SemInductive ==
    ASSUME SemSetting
    PROVE  /\ Sem!Init => SemInv
           /\ SemInv /\ LimitHarmless /\ [Sem!Next]_(Sem!vars) => SemInv'
<1>1. Sem!Init => SemInv
  BY DEF Sem!Init, SemInv, SemTypes, SemLabels, OneSemaphore, OneUnit
<1>2. ASSUME SemInv, NEW p \in Procs, Sem!SetSemVal(p) PROVE SemInv'
  <2>0. SemTypes /\ semPc[p] = "setval" /\ semid' = semid
    BY <1>2 DEF SemInv, Sem!SetSemVal
  <2>1. CASE semid[p] \in DOMAIN sems
    <3>1. /\ sems' = [sems EXCEPT ![semid[p]].val = 1] /\ semPc' = [semPc EXCEPT ![p] = "ready"]
      BY <1>2, <2>1 DEF Sem!SetSemVal, Sem!Initially, Sem!Goto
    <3>2. semid[p] \in Sem!Ids
      BY <2>0, <2>1 DEF SemTypes
    <3>3. sems[semid[p]].key = KeyOf[p]
      BY <1>2, <2>0, <3>2 DEF SemInv, OneSemaphore
    <3>. QED
      BY <1>2, <2>0, <2>1, <3>1, <3>3, SemValue, Zenon
  <2>2. CASE semid[p] \notin DOMAIN sems
    <3>1. PICK i \in Sem!Ids \cup {-1, ENOSPC} : i = semid[p] /\ semid' = [semid EXCEPT ![p] = i]
      BY <2>0 DEF SemTypes
    <3>2. sems' = sems /\ semPc' = [semPc EXCEPT ![p] = "failed"]
      BY <1>2, <2>2 DEF Sem!SetSemVal, Sem!Goto
    <3>. QED
      BY <1>2, <3>1, <3>2, SemMoves, Zenon DEF SemLabels
  <2>. QED
    BY <2>1, <2>2
<1>3. ASSUME SemInv, NEW p \in Procs, Sem!OpenSem(p) PROVE SemInv'
  <2>1. PICK i \in DOMAIN sems : sems[i].key = KeyOf[p] /\ semid' = [semid EXCEPT ![p] = i]
    BY <1>3, Zenon DEF Sem!OpenSem, Sem!Named
  <2>2. i \in Sem!Ids \cup {-1, ENOSPC}
    BY <1>3 DEF SemInv, SemTypes
  <2>3. sems' = sems /\ semPc' = [semPc EXCEPT ![p] = "ready"]
    BY <1>3 DEF Sem!OpenSem, Sem!Goto
  <2>. QED
    BY <1>3, <2>1, <2>2, <2>3, SemMoves, Zenon DEF SemLabels
<1>4. ASSUME SemInv, NEW p \in Procs, Sem!SemP(p) PROVE SemInv'
  <2>1. /\ semPc[p] = "ready" /\ semid' = semid /\ semPc' = [semPc EXCEPT ![p] = "critical"]
        /\ sems' = [sems EXCEPT ![semid[p]].val = @ - 1] /\ sems[semid[p]].val > 0
    BY <1>4 DEF Sem!SemP, Sem!Goto
  <2>2. semid[p] \in DOMAIN sems /\ sems[semid[p]].key = KeyOf[p]
    BY <1>4, <2>1 DEF SemInv, OneSemaphore
  <2>3. sems[semid[p]].val = 1
    BY <1>4, <2>1, <2>2 DEF SemInv, SemTypes
  <2>4. sems' = [sems EXCEPT ![semid[p]].val = 0]
    BY <2>1, <2>2, <2>3
  <2>. QED
    BY <1>4, <2>1, <2>2, <2>3, <2>4, SemValue, Zenon
<1>5. ASSUME SemInv, NEW p \in Procs, Sem!SemV(p) PROVE SemInv'
  <2>1. /\ semPc[p] = "critical" /\ semid' = semid /\ semPc' = [semPc EXCEPT ![p] = "ready"]
        /\ sems' = [sems EXCEPT ![semid[p]].val = @ + 1]
    BY <1>5 DEF Sem!SemV, Sem!Goto
  <2>2. semid[p] \in DOMAIN sems /\ sems[semid[p]].key = KeyOf[p]
    BY <1>5, <2>1 DEF SemInv, OneSemaphore
  <2>3. sems[semid[p]].val = 0
    BY <1>5, <2>1, <2>2 DEF SemInv, OneUnit
  <2>4. sems' = [sems EXCEPT ![semid[p]].val = 1]
    BY <2>1, <2>2, <2>3
  <2>. QED
    BY <1>5, <2>1, <2>2, <2>4, SemValue, Zenon
<1>6. ASSUME SemInv, NEW p \in Procs, Sem!Crash(p) \/ Sem!Restart(p) PROVE SemInv'
  <2>1. /\ sems' = sems /\ semid' = semid
        /\ \E l \in {"start", "crashed"} : semPc' = [semPc EXCEPT ![p] = l]
    BY <1>6 DEF Sem!Crash, Sem!Restart, Sem!Goto
  <2>2. PICK i \in Sem!Ids \cup {-1, ENOSPC} : i = semid[p] /\ semid' = [semid EXCEPT ![p] = i]
    BY <1>6, <2>1 DEF SemInv, SemTypes
  <2>. QED
    BY <1>6, <2>1, <2>2, SemMoves, Zenon DEF SemLabels
<1>7. ASSUME SemInv, UNCHANGED Sem!vars PROVE SemInv'
  BY <1>7 DEF Sem!vars, SemInv, SemTypes, OneSemaphore, OneUnit
<1>. QED
  BY <1>1, <1>2, <1>3, <1>4, <1>5, <1>6, <1>7, SemCreate DEF Sem!Next

\* Processes that create or open the semaphore of one key exclude one another
\* in the section it guards, for any number of processes, keys, semaphores and
\* crashes: create_sem() sets the value only of a semaphore that it made.  They do so
\* also at the limit on semaphores, unless the number of that error is an id.
THEOREM SemaphoreExcludes ==
    ASSUME SemSetting
    PROVE  Sem!Spec /\ []LimitHarmless => []Sem!MutualExclusion
<1>1. SemInv => Sem!MutualExclusion
  <2> SUFFICES ASSUME SemInv, NEW p \in Procs, NEW q \in Procs, p /= q, KeyOf[p] = KeyOf[q],
                      semPc[p] = "critical", semPc[q] = "critical"
               PROVE  FALSE
    BY DEF Sem!MutualExclusion
  <2>1. /\ semid[p] \in DOMAIN sems /\ sems[semid[p]].key = KeyOf[p]
        /\ semid[q] \in DOMAIN sems /\ sems[semid[q]].key = KeyOf[q]
    BY DEF SemInv, OneSemaphore
  <2>2. semid[p] = semid[q]
    BY <2>1 DEF SemInv, OneSemaphore
  <2>. QED
    BY <2>1, <2>2 DEF SemInv, OneUnit
<1>. QED
  BY <1>1, SemInductive, PTL DEF Sem!Spec

-------------------------------------------------------------------------------
(* SocketTimeout *)

CONSTANTS Waits, MaxSignals, MaxClock, Faults
VARIABLES op, wait, toPc, toLeft, toFd, nonblock, ret, errno, clock, signals

Timeout == INSTANCE SocketTimeout WITH pc <- toPc, left <- toLeft, fd <- toFd

\* wait_seconds is unsigned.
TimeSetting == Waits \subseteq Nat

TimeTypes ==
    /\ op \in {"read", "write", "accept", "connect"} /\ wait \in Nat
    /\ toPc \in {"idle", "connect", "select", "accept", "getsockopt", "done"}
    /\ toFd \in {"quiet", "ready", "error"}
    /\ toLeft \in Nat /\ clock \in Nat

\* The time select() has left and the time that passed make up the timeout; the
\* other calls of a function that has one do not block.
TimeAccount ==
    /\ toPc = "idle" => clock = 0
    /\ toPc = "connect" => clock = 0 \/ wait = 0
    /\ toPc = "connect" => toLeft = wait /\ (wait > 0 => nonblock)
    /\ toPc = "select" => wait > 0 /\ clock + toLeft = wait
    /\ toPc = "accept" /\ wait > 0 => toFd /= "quiet"
    /\ wait > 0 => clock <= wait

\* getsockopt() comes after select() found the descriptor ready.
ConnectAccount ==
    /\ toPc = "getsockopt" => toFd /= "quiet"
    /\ Timeout!ConnectTruthful

\* Only connect_timeout() with a timeout makes the descriptor non-blocking.
BlockAccount ==
    /\ nonblock => op = "connect" /\ wait > 0
    /\ toPc /= "done" => errno = "none"
    /\ Timeout!BlocksAgain

TimeInv == TimeTypes /\ TimeAccount /\ ConnectAccount /\ BlockAccount

\* The time-out helpers start in the invariant.
LEMMA TimeInit ==
    ASSUME TimeSetting, Timeout!Init
    PROVE  TimeInv
<1>1. TimeTypes /\ TimeAccount /\ ConnectAccount
  BY DEF TimeSetting, Timeout!Init, TimeTypes, TimeAccount, ConnectAccount, Timeout!ConnectTruthful
<1>2. BlockAccount
  BY Zenon DEF Timeout!Init, BlockAccount, Timeout!BlocksAgain
<1>. QED
  BY <1>1, <1>2 DEF TimeInv

\* A return restores the mode, or carries an error that says it may not have.
LEMMA BlockReturn ==
    ASSUME BlockAccount, UNCHANGED <<op, wait>>, NEW r, NEW e,
           Timeout!Return(r, e) \/ (e = "other" /\ Timeout!ReturnAtOnce(e))
    PROVE  BlockAccount'
<1>1. op' = op /\ wait' = wait /\ toPc' = "done" /\ errno' = e
  BY DEF Timeout!Return, Timeout!ReturnAtOnce
<1>2. CASE Timeout!Return(r, e)
  <2>1. nonblock' = (IF op = "connect" /\ wait > 0 THEN FALSE ELSE nonblock)
    BY <1>2, Zenon DEF Timeout!Return, Timeout!SetBlocking
  <2>2. ~nonblock'
    BY <2>1, Zenon DEF BlockAccount
  <2>. QED
    BY <1>1, <2>2, Zenon DEF BlockAccount, Timeout!BlocksAgain
<1>3. CASE e = "other" /\ Timeout!ReturnAtOnce(e)
  <2>1. nonblock' = nonblock
    BY <1>3, Zenon DEF Timeout!ReturnAtOnce
  <2>2. errno' \notin {"none", "ETIMEDOUT", "refused"}
    BY <1>1, <1>3
  <2>. QED
    BY <1>1, <2>1, <2>2, Zenon DEF BlockAccount, Timeout!BlocksAgain
<1>. QED
  BY <1>2, <1>3

\* A step that does not return leaves the mode alone.
LEMMA BlockGoes ==
    ASSUME BlockAccount, toPc /= "done", toPc' /= "done",
           UNCHANGED <<op, wait, nonblock, errno>>
    PROVE  BlockAccount'
BY Zenon DEF BlockAccount, Timeout!BlocksAgain

\* Every step of a call keeps it.
LEMMA TimeNext ==
    ASSUME TimeInv, Timeout!Next
    PROVE  TimeInv'
<1> USE DEF TimeInv
<1>1. CASE Timeout!Call
  <2>0. UNCHANGED <<op, wait, toFd, clock, signals>> /\ toPc = "idle" /\ toLeft' = wait
    BY <1>1 DEF Timeout!Call, Timeout!world
  <2>1. CASE op = "connect" /\ toPc' = "connect" /\ nonblock' = (wait > 0) /\ UNCHANGED <<ret, errno>>
    <3>1. BlockAccount'
      BY <2>0, <2>1, Zenon DEF BlockAccount, Timeout!BlocksAgain
    <3>. QED
      BY <2>0, <2>1, <3>1, Zenon DEF TimeTypes, TimeAccount, ConnectAccount, Timeout!ConnectTruthful
  <2>2. CASE op /= "connect" /\ wait > 0 /\ Timeout!Goto("select")
    <3>1. BlockAccount'
      BY <2>0, <2>2, BlockGoes DEF Timeout!Goto
    <3>. QED
      BY <2>0, <2>2, <3>1 DEF Timeout!Goto, TimeTypes, TimeAccount, ConnectAccount, Timeout!ConnectTruthful
  <2>3. CASE op = "accept" /\ wait = 0 /\ Timeout!Goto("accept")
    <3>1. BlockAccount'
      BY <2>0, <2>3, BlockGoes DEF Timeout!Goto
    <3>. QED
      BY <2>0, <2>3, <3>1 DEF Timeout!Goto, TimeTypes, TimeAccount, ConnectAccount, Timeout!ConnectTruthful
  <2>4. CASE op \in {"read", "write"} /\ wait = 0 /\ Timeout!Return(0, errno)
    <3>1. BlockAccount'
      BY <2>0, <2>4, BlockReturn
    <3>. QED
      BY <2>0, <2>4, <3>1 DEF Timeout!Return, TimeTypes, TimeAccount, ConnectAccount, Timeout!ConnectTruthful
  <2>. QED
    BY <1>1, <2>1, <2>2, <2>3, <2>4 DEF Timeout!Call
<1>2. CASE Timeout!Connect
  <2>0. UNCHANGED <<op, wait, toFd, clock, signals, toLeft>> /\ toPc = "connect"
    BY <1>2 DEF Timeout!Connect, Timeout!world
  <2>1. CASE nonblock /\ toFd = "quiet" /\ Timeout!Goto("select")
    <3>1. BlockAccount'
      BY <2>0, <2>1, BlockGoes DEF Timeout!Goto
    <3>2. wait > 0
      BY <2>1, Zenon DEF BlockAccount
    <3>. QED
      BY <2>0, <2>1, <3>1, <3>2 DEF Timeout!Goto, TimeTypes, TimeAccount, ConnectAccount, Timeout!ConnectTruthful
  <2>2. ASSUME NEW r, NEW e, Timeout!Return(r, e), r = 0 => toFd = "ready" PROVE TimeInv'
    <3>1. BlockAccount'
      BY <2>0, <2>2, BlockReturn
    <3>. QED
      BY <2>0, <2>2, <3>1 DEF Timeout!Return, TimeTypes, TimeAccount, ConnectAccount, Timeout!ConnectTruthful
  <2>. QED
    BY <1>2, <2>1, <2>2 DEF Timeout!Connect
<1>3. CASE Timeout!Select \/ Timeout!SelectFails
  <2>0. UNCHANGED <<op, wait, toFd, clock, signals, toLeft>> /\ toPc = "select"
    BY <1>3 DEF Timeout!Select, Timeout!SelectFails, Timeout!world
  <2>1. ASSUME NEW l \in {"accept", "getsockopt"}, toFd /= "quiet", Timeout!Goto(l) PROVE TimeInv'
    <3>1. BlockAccount'
      BY <2>0, <2>1, BlockGoes DEF Timeout!Goto
    <3>. QED
      BY <2>0, <2>1, <3>1 DEF Timeout!Goto, TimeTypes, TimeAccount, ConnectAccount, Timeout!ConnectTruthful
  <2>2. ASSUME NEW r, NEW e, Timeout!Return(r, e) \/ (e = "other" /\ Timeout!ReturnAtOnce(e)),
               op = "connect" => ret' /= 0
        PROVE  TimeInv'
    <3>1. BlockAccount'
      BY <2>0, <2>2, BlockReturn
    <3>2. toPc' = "done"
      BY <2>2 DEF Timeout!Return, Timeout!ReturnAtOnce
    <3>. QED
      BY <2>0, <2>2, <3>1, <3>2 DEF TimeTypes, TimeAccount, ConnectAccount, Timeout!ConnectTruthful
  <2>3. CASE Timeout!Select
    BY <2>0, <2>1, <2>2, <2>3 DEF Timeout!Select, Timeout!Ready, Timeout!Return
  <2>4. CASE Timeout!SelectFails
    BY <2>0, <2>2, <2>4 DEF Timeout!SelectFails, Timeout!Return, Timeout!ReturnAtOnce
  <2>. QED
    BY <1>3, <2>3, <2>4
<1>4. CASE Timeout!Getsockopt
  <2>0. UNCHANGED <<op, wait, toFd, clock, signals, toLeft>> /\ toPc = "getsockopt"
    BY <1>4 DEF Timeout!Getsockopt, Timeout!world
  <2>1. ASSUME NEW r, NEW e, Timeout!Return(r, e) \/ (e = "other" /\ Timeout!ReturnAtOnce(e)),
               ret' = 0 => toFd /= "error"
        PROVE  TimeInv'
    <3>1. BlockAccount'
      BY <2>0, <2>1, BlockReturn
    <3>2. toPc' = "done"
      BY <2>1 DEF Timeout!Return, Timeout!ReturnAtOnce
    <3>. QED
      BY <2>0, <2>1, <3>1, <3>2 DEF TimeTypes, TimeAccount, ConnectAccount, Timeout!ConnectTruthful
  <2>. QED
    BY <1>4, <2>1 DEF Timeout!Getsockopt, Timeout!SocketError, Timeout!Return, Timeout!ReturnAtOnce
<1>5. CASE Timeout!Accept
  <2>0. /\ UNCHANGED <<op, wait, toLeft, clock>> /\ toPc = "accept"
        /\ toFd' \in {"quiet", "ready", "error"}
    BY <1>5 DEF Timeout!Accept, TimeTypes
  <2>1. ASSUME NEW r \in {1, -1}, NEW e, Timeout!Return(r, e) PROVE TimeInv'
    <3>1. BlockAccount'
      BY <2>0, <2>1, BlockReturn
    <3>. QED
      BY <2>0, <2>1, <3>1 DEF Timeout!Return, TimeTypes, TimeAccount, ConnectAccount, Timeout!ConnectTruthful
  <2>. QED
    BY <1>5, <2>1 DEF Timeout!Accept
<1>6. CASE Timeout!Interrupted \/ Timeout!Event \/ Timeout!Tick
  <2>0. UNCHANGED <<op, wait, toPc, nonblock, ret, errno>> /\ toPc /= "done"
    BY <1>6, Zenon DEF Timeout!Interrupted, Timeout!Event, Timeout!Tick, Timeout!Blocked
  <2>1. BlockAccount'
    BY <2>0, BlockGoes
  <2>2. CASE Timeout!Interrupted
    BY <2>0, <2>1, <2>2
       DEF Timeout!Interrupted, Timeout!TimeLeft, TimeTypes, TimeAccount, ConnectAccount, Timeout!ConnectTruthful
  <2>3. CASE Timeout!Event
    <3>1. toFd' \in {"ready", "error"} /\ toLeft' = toLeft /\ clock' = clock
      BY <2>3 DEF Timeout!Event
    <3>2. TimeAccount'
      BY <2>0, <3>1, SMTT(30) DEF TimeAccount
    <3>. QED
      BY <2>0, <2>1, <3>1, <3>2 DEF TimeTypes, ConnectAccount, Timeout!ConnectTruthful
  <2>4. CASE Timeout!Tick
    <3>1. /\ toFd = "quiet" /\ toFd' = toFd /\ clock' = clock + 1
          /\ toLeft' = IF toPc = "select" THEN toLeft - 1 ELSE toLeft
      BY <2>4 DEF Timeout!Tick
    <3>2. CASE toPc = "select" /\ toLeft > 0
      BY <2>0, <2>1, <3>1, <3>2 DEF TimeTypes, TimeAccount, ConnectAccount, Timeout!ConnectTruthful
    <3>3. CASE toPc \in {"accept", "connect"} /\ wait = 0
      BY <2>0, <2>1, <3>1, <3>3 DEF TimeTypes, TimeAccount, ConnectAccount, Timeout!ConnectTruthful
    <3>4. toPc = "connect" /\ ~nonblock => ~(wait > 0)
      BY Zenon DEF TimeAccount
    <3>5. \/ toPc = "select" /\ toLeft > 0
          \/ toPc \in {"accept", "connect"} /\ wait = 0
      BY <2>4, <3>1, <3>4 DEF Timeout!Tick, Timeout!Blocked, TimeAccount, TimeTypes
    <3>. QED
      BY <3>2, <3>3, <3>5
  <2>. QED
    BY <1>6, <2>2, <2>3, <2>4
<1>. QED
  BY <1>1, <1>2, <1>3, <1>4, <1>5, <1>6 DEF Timeout!Next

\* For every timeout and however many signals: a call with a timeout takes no
\* longer than that, connect_timeout() returns 0 only for a connection that is
\* there, and the descriptor blocks again unless a system call failed.
THEOREM TimeoutsKept ==
    ASSUME TimeSetting
    PROVE  Timeout!Spec => []Timeout!TimeoutsRight
<1>1. Timeout!Init => TimeInv
  BY TimeInit
<1>2. TimeInv /\ [Timeout!Next]_(Timeout!vars) => TimeInv'
  <2>1. ASSUME TimeInv, UNCHANGED Timeout!vars PROVE TimeInv'
    <3>1. UNCHANGED <<op, wait, toPc, toLeft, toFd, nonblock, ret, errno, clock, signals>>
      BY <2>1 DEF Timeout!vars
    <3>. QED
      BY <2>1, <3>1, ZenonT(60)
         DEF TimeInv, TimeTypes, TimeAccount, ConnectAccount, BlockAccount,
             Timeout!ConnectTruthful, Timeout!BlocksAgain
  <2>. QED
    BY <2>1, TimeNext
<1>3. TimeInv => Timeout!TimeoutsRight
  BY Zenon DEF TimeInv, TimeAccount, ConnectAccount, BlockAccount,
               Timeout!TimeoutsRight, Timeout!WaitBounded
<1>. QED
  BY <1>1, <1>2, <1>3, PTL DEF Timeout!Spec

-------------------------------------------------------------------------------
(* IpcShm *)

CONSTANTS ShmProcs, Seeds, MaxVersion, MaxSegs, ShmFaults
VARIABLES version, segs, key, asked, hdl, addr

Shm == INSTANCE IpcShm WITH Procs <- ShmProcs, Faults <- ShmFaults

\* No seed file has the name that stands for none.
ShmSetting == "none" \notin Seeds /\ MaxSegs \in Nat

ShmKeys == Seeds \X Nat

ShmTypes ==
    /\ version \in [Seeds -> Nat] /\ hdl \in [ShmProcs -> Int]
    /\ key \in [ShmProcs -> ShmKeys \cup {Shm!NoKey}]
    /\ DOMAIN segs \subseteq Shm!Ids
    /\ segs \in [DOMAIN segs -> [key : ShmKeys, removed : BOOLEAN]]

\* A process's handle names a segment of its key, and of the segments of a key only
\* one has not been deleted.
OwnSegment == \A p \in ShmProcs : hdl[p] /= -1 => hdl[p] \in DOMAIN segs /\ segs[hdl[p]].key = key[p]
OneLive == \A i, j \in DOMAIN segs :
             segs[i].key = segs[j].key /\ ~segs[i].removed /\ ~segs[j].removed => i = j

ShmInv == ShmTypes /\ OwnSegment /\ OneLive

\* CreateShm() finds the segment of its key or makes one, and keeps the one there is.
LEMMA ShmCreate ==
    ASSUME ShmSetting, ShmInv, NEW p \in ShmProcs, NEW seed \in Seeds, Shm!CreateShm(p, seed)
    PROVE  ShmInv' /\ Shm!KeepsSegment
<1>1. PICK k \in ShmKeys : k = Shm!KeyFor(p, seed)
  <2>1. version[seed] \in Nat /\ key[p] \in ShmKeys \cup {Shm!NoKey}
    BY DEF ShmInv, ShmTypes
  <2>2. Shm!ftok(seed) \in ShmKeys
    BY <2>1 DEF Shm!ftok, ShmKeys
  <2>. QED
    BY <2>1, <2>2, Zenon DEF Shm!KeyFor
<1>2. k /= Shm!NoKey /\ (hdl[p] /= -1 => key[p] = k)
  BY <1>1 DEF ShmSetting, ShmInv, ShmTypes, OwnSegment, Shm!KeyFor, Shm!NoKey, ShmKeys
<1>3. /\ key' = [key EXCEPT ![p] = k] /\ key'[p] = k /\ UNCHANGED version
      /\ key' \in [ShmProcs -> ShmKeys \cup {Shm!NoKey}]
      /\ \A q \in ShmProcs : q /= p => key'[q] = key[q]
  BY <1>1 DEF Shm!CreateShm, ShmInv, ShmTypes
<1>4. ASSUME NEW h \in Int, hdl' = [hdl EXCEPT ![p] = h], segs' = segs,
             h = -1 \/ h \in Shm!Live(k)
      PROVE  ShmInv' /\ Shm!KeepsSegment
  <2>1. hdl' \in [ShmProcs -> Int] /\ hdl'[p] = h /\ \A q \in ShmProcs : q /= p => hdl'[q] = hdl[q]
    BY <1>4 DEF ShmInv, ShmTypes
  <2>2. ShmTypes' /\ OneLive'
    BY <1>3, <1>4, <2>1 DEF ShmInv, ShmTypes, OneLive
  <2>3. OwnSegment'
    BY <1>3, <1>4, <2>1, Zenon DEF ShmInv, OwnSegment, Shm!Live
  <2>4. Shm!KeepsSegment
    <3>1. ASSUME hdl[p] /= -1, h \notin {hdl[p], -1} PROVE segs[hdl[p]].removed
      <4>1. h \in DOMAIN segs /\ segs[h].key = k /\ ~segs[h].removed
        BY <1>4, <3>1, Zenon DEF Shm!Live
      <4>2. hdl[p] \in DOMAIN segs /\ segs[hdl[p]].key = k
        BY <1>2, <3>1, Zenon DEF ShmInv, OwnSegment
      <4>. QED
        BY <3>1, <4>1, <4>2, Zenon DEF ShmInv, OneLive
    <3>. QED
      BY <2>1, <3>1, Zenon DEF Shm!KeepsSegment
  <2>. QED
    BY <2>2, <2>3, <2>4 DEF ShmInv
<1>5. ASSUME Shm!Live(k) = {}, DOMAIN segs /= Shm!Ids, hdl' = [hdl EXCEPT ![p] = Shm!FreeId],
             segs' = [j \in DOMAIN segs \cup {Shm!FreeId} |->
                        IF j = Shm!FreeId THEN [key |-> k, removed |-> FALSE] ELSE segs[j]]
      PROVE  ShmInv' /\ Shm!KeepsSegment
  <2>1. PICK i : i = Shm!FreeId
    OBVIOUS
  <2>2. i \in Shm!Ids /\ i \notin DOMAIN segs
    BY <1>5, <2>1, Zenon DEF Shm!FreeId, ShmInv, ShmTypes
  <2>3. i \in Int /\ i /= -1
    BY <2>2 DEF Shm!Ids, ShmSetting
  <2>4. hdl' \in [ShmProcs -> Int] /\ hdl'[p] = i /\ \A q \in ShmProcs : q /= p => hdl'[q] = hdl[q]
    BY <1>5, <2>1, <2>3 DEF ShmInv, ShmTypes
  <2>5. /\ DOMAIN segs' = DOMAIN segs \cup {i} /\ segs'[i] = [key |-> k, removed |-> FALSE]
        /\ \A j \in DOMAIN segs : segs'[j] = segs[j]
        /\ segs' \in [DOMAIN segs' -> [key : ShmKeys, removed : BOOLEAN]]
    BY <1>5, <2>1, <2>2 DEF ShmInv, ShmTypes
  <2>6. ShmTypes'
    BY <1>3, <2>2, <2>4, <2>5, Zenon DEF ShmInv, ShmTypes
  <2>7. OwnSegment'
    <3>1. SUFFICES ASSUME NEW q \in ShmProcs, hdl'[q] /= -1
                   PROVE  hdl'[q] \in DOMAIN segs' /\ segs'[hdl'[q]].key = key'[q]
      BY Zenon DEF OwnSegment
    <3>2. CASE q = p
      BY <1>3, <2>4, <2>5, <3>2
    <3>3. CASE q /= p
      <4>1. hdl'[q] = hdl[q] /\ hdl[q] \in DOMAIN segs /\ segs[hdl[q]].key = key[q]
        BY <2>4, <3>1, <3>3, Zenon DEF ShmInv, OwnSegment
      <4>. QED
        BY <1>3, <2>5, <3>3, <4>1
    <3>. QED
      BY <3>2, <3>3
  <2>8. OneLive'
    <3>1. SUFFICES ASSUME NEW j1 \in DOMAIN segs', NEW j2 \in DOMAIN segs', segs'[j1].key = segs'[j2].key,
                          ~segs'[j1].removed, ~segs'[j2].removed
                   PROVE  j1 = j2
      BY Zenon DEF OneLive
    <3>2. \A j \in DOMAIN segs : segs[j].key /= k \/ segs[j].removed
      BY <1>5, Zenon DEF Shm!Live
    <3>3. segs'[i].key = k /\ \A j \in DOMAIN segs' : j = i \/ (j \in DOMAIN segs /\ segs'[j] = segs[j])
      BY <2>5
    <3>4. CASE j1 = i \/ j2 = i
      BY <3>1, <3>2, <3>3, <3>4, Zenon
    <3>5. CASE j1 /= i /\ j2 /= i
      BY <3>1, <3>3, <3>5, Zenon DEF ShmInv, OneLive
    <3>. QED
      BY <3>4, <3>5
  <2>9. Shm!KeepsSegment
    BY <1>2, <1>5, <2>4 DEF ShmInv, OwnSegment, Shm!Live, Shm!KeepsSegment
  <2>. QED
    BY <2>6, <2>7, <2>8, <2>9 DEF ShmInv
<1>6. \/ hdl' = [hdl EXCEPT ![p] = -1] /\ segs' = segs
      \/ \E i \in Shm!Live(k) : hdl' = [hdl EXCEPT ![p] = i] /\ segs' = segs
      \/ /\ Shm!Live(k) = {} /\ DOMAIN segs /= Shm!Ids /\ hdl' = [hdl EXCEPT ![p] = Shm!FreeId]
         /\ segs' = [j \in DOMAIN segs \cup {Shm!FreeId} |->
                       IF j = Shm!FreeId THEN [key |-> k, removed |-> FALSE] ELSE segs[j]]
  BY <1>3, Zenon DEF Shm!CreateShm
<1>7. \A i \in Shm!Live(k) : i \in Int
  BY DEF Shm!Live, ShmInv, ShmTypes, Shm!Ids, ShmSetting
<1>. QED
  BY <1>4, <1>5, <1>6, <1>7

\* Only create_shm() changes a handle.
LEMMA ShmOthers ==
    ASSUME ShmSetting, ShmInv,
           \/ \E p \in ShmProcs : Shm!CreateFails(p) \/ Shm!MapShm(p) \/ Shm!UnmapShm(p) \/ Shm!DelShm(p)
           \/ \E seed \in Seeds : Shm!Replace(seed)
           \/ UNCHANGED Shm!vars
    PROVE  ShmInv' /\ Shm!KeepsSegment
<1>1. UNCHANGED <<key, hdl>>
  BY Zenon DEF Shm!CreateFails, Shm!MapShm, Shm!UnmapShm, Shm!DelShm, Shm!Replace, Shm!vars
<1>2. Shm!KeepsSegment
  BY <1>1 DEF Shm!KeepsSegment
<1>3. version' \in [Seeds -> Nat]
  <2>1. version \in [Seeds -> Nat]
    BY DEF ShmInv, ShmTypes
  <2>2. ASSUME NEW seed \in Seeds, Shm!Replace(seed) PROVE version' \in [Seeds -> Nat]
    BY <2>1, <2>2 DEF Shm!Replace
  <2>3. version' = version \/ \E seed \in Seeds : Shm!Replace(seed)
    BY Zenon DEF Shm!CreateFails, Shm!MapShm, Shm!UnmapShm, Shm!DelShm, Shm!vars
  <2>. QED
    BY <2>1, <2>2, <2>3
<1>4. /\ DOMAIN segs' = DOMAIN segs /\ segs' \in [DOMAIN segs -> [key : ShmKeys, removed : BOOLEAN]]
      /\ \A i \in DOMAIN segs : segs'[i].key = segs[i].key /\ (segs[i].removed => segs'[i].removed)
  <2>1. CASE segs' = segs
    BY <2>1 DEF ShmInv, ShmTypes
  <2>2. ASSUME NEW i \in DOMAIN segs, segs' = [segs EXCEPT ![i].removed = TRUE]
        PROVE  <1>4!1
    <3>1. PICK c : c = [segs[i] EXCEPT !.removed = TRUE]
      BY Zenon
    <3>2. segs[i] \in [key : ShmKeys, removed : BOOLEAN]
      BY DEF ShmInv, ShmTypes
    <3>3. c \in [key : ShmKeys, removed : BOOLEAN] /\ c.key = segs[i].key /\ c.removed = TRUE
      BY <3>1, <3>2, Zenon
    <3>4. segs' = [segs EXCEPT ![i] = c]
      BY <2>2, <3>1, Zenon
    <3>5. DOMAIN segs' = DOMAIN segs /\ segs'[i] = c /\ \A j \in DOMAIN segs : j /= i => segs'[j] = segs[j]
      BY <3>4, Zenon DEF ShmInv, ShmTypes
    <3>6. segs' \in [DOMAIN segs -> [key : ShmKeys, removed : BOOLEAN]]
      BY <3>3, <3>4, Zenon DEF ShmInv, ShmTypes
    <3>. QED
      BY <3>3, <3>5, <3>6, Zenon
  <2>3. segs' = segs \/ \E i \in DOMAIN segs : segs' = [segs EXCEPT ![i].removed = TRUE]
    BY Zenon DEF Shm!CreateFails, Shm!MapShm, Shm!UnmapShm, Shm!DelShm, Shm!Replace, Shm!vars, Shm!Kept
  <2>. QED
    BY <2>1, <2>2, <2>3
<1>5. ShmTypes'
  BY <1>1, <1>3, <1>4 DEF ShmInv, ShmTypes
<1>6. OwnSegment'
  BY <1>1, <1>4 DEF ShmInv, OwnSegment
<1>7. OneLive'
  BY <1>4 DEF ShmInv, OneLive
<1>. QED
  BY <1>2, <1>5, <1>6, <1>7 DEF ShmInv

\* For any number of processes and seed files: a process that calls create_shm() again
\* keeps the segment it has until somebody deletes that, also when the seed file was
\* replaced meanwhile.
THEOREM SegmentKept ==
    ASSUME ShmSetting
    PROVE  Shm!Spec => [][Shm!KeepsSegment]_(Shm!vars)
<1>1. Shm!Init => ShmInv
  BY SMTT(60) DEF Shm!Init, ShmInv, ShmTypes, OwnSegment, OneLive
<1>2. ShmInv /\ [Shm!Next]_(Shm!vars) => ShmInv' /\ Shm!KeepsSegment
  BY ShmCreate, ShmOthers DEF Shm!Next
<1>. QED
  BY <1>1, <1>2, PTL DEF Shm!Spec

-------------------------------------------------------------------------------
(* SocketIO *)

CONSTANTS Bytes, Streams, Newline, Counts, MaxLines
VARIABLES stream, coming, kernel, sent, ioPc, count, buf, io, line, ioRet, ioErrno, ioSignals

IO == INSTANCE SocketIO WITH pc <- ioPc, ret <- ioRet, errno <- ioErrno, signals <- ioSignals

\* The peer sends bytes, and count and maxline are unsigned.
IOSetting == Streams \subseteq Seq(Bytes) /\ Counts \subseteq Nat /\ MaxLines \subseteq Nat

IOTypes ==
    /\ stream \in Seq(Bytes) /\ coming \in Seq(Bytes) /\ kernel \in Seq(Bytes) /\ buf \in Seq(Bytes)
    /\ sent \in Seq(Nat) /\ count \in Nat
    /\ ioPc \in {"idle", "readn", "writen", "peek", "scan", "done"}
    /\ io \in [count : Nat, left : Nat, from : Nat, then : {"done", "scan", "peek"}]
    /\ line \in [from : Nat, left : Nat, nread : Nat, i : Nat]
    /\ io.left <= io.count

\* Nothing was read but by readn().
Untouched == line = IO!NoLine /\ sent = <<>>

Three(a, b, c) == a \o b \o c

\* What the caller has, what the socket has and what is to come is the stream.
Whole == Untouched => Three(buf, kernel, coming) = stream

\* The numbers below count were sent, each once.
SentInv ==
    /\ \A k \in 1 .. Len(sent) : sent[k] = k
    /\ sent /= <<>> => ioPc \in {"writen", "done"}

\* The bytes stored so far, at each place of readn(), writen() and readline().
Plans ==
    /\ ioPc = "idle" => Untouched /\ buf = <<>>
    /\ ioPc = "readn" /\ io.then = "done" =>
         Untouched /\ io.from = 0 /\ io.count = count /\ Len(buf) = io.count - io.left
    /\ ioPc = "writen" =>
         /\ line = IO!NoLine /\ buf = <<>> /\ io.from = 0 /\ io.count = count
         /\ Len(sent) = io.count - io.left
    /\ ioPc = "peek" =>
         /\ line.from <= Len(buf) /\ line.from + line.left <= count
         /\ line = IO!NoLine => count = 0 /\ io = IO!NoIO /\ buf = <<>>
    /\ ioPc = "scan" \/ (ioPc = "readn" /\ io.then /= "done") =>
         line.nread > 0 /\ line.from + line.nread <= Len(buf)
    /\ ioPc = "scan" \/ (ioPc = "readn" /\ io.then = "scan") =>
         line.nread <= line.left /\ line.from + line.left <= count
    /\ ioPc = "readn" /\ io.then /= "done" => io.from = line.from /\ io.count <= line.nread
    /\ ioPc = "readn" /\ io.then = "peek" =>
         io.count = line.nread /\ line.from + line.nread + line.left <= count

\* What the call returned agrees with what it stored or sent.
Results ==
    ioPc = "done" =>
      /\ sent /= <<>> /\ ioRet = count => Len(sent) = count
      /\ Untouched =>
           \/ ioRet = -1 /\ ioErrno = "other"
           \/ /\ ioRet \in Nat /\ (buf /= <<>> => ioRet = Len(buf))
              /\ io.count - io.left /= count => kernel = <<>> /\ coming = <<>>

IOInv == IOTypes /\ Whole /\ SentInv /\ Plans /\ Results /\ Len(buf) <= count

\* Sequences one behind the other, by name: the equations alone lead the provers round.
Joined(S, a, b, r) ==
    /\ r \in Seq(S) /\ Len(r) = Len(a) + Len(b)
    /\ \A i \in 1 .. Len(a) + Len(b) : r[i] = IF i <= Len(a) THEN a[i] ELSE b[i - Len(a)]
Grouped(a, b, c) == (a \o b) \o c = a \o (b \o c)
Front(q, n) == SubSeq(q, 1, n)
Back(q, n) == SubSeq(q, n + 1, Len(q))
Kept(b, q, c, n) == Three(b \o Front(q, n), Back(q, n), c) = Three(b, q, c)
Stored(b, f, s) == SubSeq(b, 1, f) \o s \o SubSeq(b, f + Len(s) + 1, Len(b))
StoredWell(b, f, s) ==
    /\ Stored(b, f, s) \in Seq(Bytes)
    /\ Len(Stored(b, f, s)) = IF f + Len(s) <= Len(b) THEN Len(b) ELSE f + Len(s)
    /\ f = Len(b) => Stored(b, f, s) = b \o s

\* What a concatenation is, position by position.
LEMMA Joins ==
    ASSUME NEW S, NEW a \in Seq(S), NEW b \in Seq(S), NEW r, r = a \o b
    PROVE  Joined(S, a, b, r)
BY ConcatProperties DEF Joined

\* Concatenation is associative.
LEMMA Groups ==
    ASSUME NEW a \in Seq(Bytes), NEW b \in Seq(Bytes), NEW c \in Seq(Bytes)
    PROVE  Grouped(a, b, c)
BY ConcatAssociative DEF Grouped

\* Lemma Cuts: a sequence and its parts up to a place and behind it.
LEMMA Cuts ==
    ASSUME NEW q \in Seq(Bytes), NEW n \in Nat, n <= Len(q)
    PROVE  /\ Front(q, n) \in Seq(Bytes) /\ Len(Front(q, n)) = n
           /\ Back(q, n) \in Seq(Bytes) /\ Len(Back(q, n)) = Len(q) - n
           /\ Front(q, n) \o Back(q, n) = q
<1>1. Len(q) \in Nat /\ \A i \in 1 .. Len(q) : q[i] \in Bytes
  OBVIOUS
<1>2. Front(q, n) \in Seq(Bytes) /\ Len(Front(q, n)) = n
  <2>1. \A i \in 1 .. n : q[i] \in Bytes
    BY <1>1
  <2>. QED
    BY <2>1, SubSeqProperties DEF Front
<1>3. Back(q, n) \in Seq(Bytes) /\ Len(Back(q, n)) = Len(q) - n
  <2>1. PICK m \in Nat : m = n + 1
    OBVIOUS
  <2>2. \A i \in m .. Len(q) : q[i] \in Bytes
    BY <1>1, <2>1
  <2>3. /\ SubSeq(q, m, Len(q)) \in Seq(Bytes)
        /\ Len(SubSeq(q, m, Len(q))) = IF m <= Len(q) THEN Len(q) - m + 1 ELSE 0
    BY <1>1, <2>2, SubSeqProperties
  <2>4. Back(q, n) = SubSeq(q, m, Len(q))
    BY <2>1, Zenon DEF Back
  <2>5. PICK k \in Nat : k = Len(q)
    BY <1>1
  <2>6. (IF m <= k THEN k - m + 1 ELSE 0) = k - n
    BY ONLY <2>1, <2>5, n <= Len(q), n \in Nat, m \in Nat, k \in Nat
  <2>. QED
    BY <2>3, <2>4, <2>5, <2>6, Zenon
<1>4. Front(q, n) \o Back(q, n) = q
  <2>1. 1 \in 1 .. Len(q) + 1 /\ n \in 1 - 1 .. Len(q) /\ Len(q) \in n .. Len(q)
    BY <1>1
  <2>2. SubSeq(q, 1, n) \o SubSeq(q, n + 1, Len(q)) = SubSeq(q, 1, Len(q))
    BY <2>1, ConcatAdjacentSubSeq, Zenon
  <2>. QED
    BY <2>2, SubSeqFull, Zenon DEF Front, Back
<1>. QED
  BY <1>2, <1>3, <1>4, Zenon

\* Lemma Moved: moving bytes from the socket to the end of the buffer keeps their order.
LEMMA Moved ==
    ASSUME NEW b \in Seq(Bytes), NEW q \in Seq(Bytes), NEW c \in Seq(Bytes), NEW n \in Nat, n <= Len(q)
    PROVE  Kept(b, q, c, n)
<1>1. Front(q, n) \in Seq(Bytes) /\ Back(q, n) \in Seq(Bytes) /\ Front(q, n) \o Back(q, n) = q
  BY Cuts, Zenon
<1>2. Grouped(b, Front(q, n), Back(q, n))
  BY <1>1, Groups, Zenon
<1>. QED
  BY <1>1, <1>2, Zenon DEF Grouped, Three, Kept

\* Lemma Arrived: a byte that comes to the socket goes to its end.
LEMMA Arrived ==
    ASSUME NEW b \in Seq(Bytes), NEW q \in Seq(Bytes), NEW c \in Seq(Bytes), c /= <<>>
    PROVE  /\ Append(q, Head(c)) \in Seq(Bytes) /\ Tail(c) \in Seq(Bytes)
           /\ Three(b, Append(q, Head(c)), Tail(c)) = Three(b, q, c)
<1>1. PICK h \in Bytes, t \in Seq(Bytes), e \in Seq(Bytes) :
        h = Head(c) /\ t = Tail(c) /\ e = <<h>> /\ c = e \o t
  <2>1. Head(c) \in Bytes /\ Tail(c) \in Seq(Bytes) /\ <<Head(c)>> \in Seq(Bytes)
    OBVIOUS
  <2>2. c = <<Head(c)>> \o Tail(c)
    OBVIOUS
  <2>. QED
    BY <2>1, <2>2, Zenon
<1>2. Append(q, h) = q \o e /\ q \o e \in Seq(Bytes) /\ b \o q \in Seq(Bytes)
  BY <1>1, AppendIsConcat
<1>3. Grouped(b, q, e) /\ Grouped(b \o q, e, t)
  BY <1>2, Groups, Zenon
<1>. QED
  BY <1>1, <1>2, <1>3, Zenon DEF Three, Grouped

\* Lemma StoreFacts: storing bytes inside or right behind what a buffer has.
LEMMA StoreFacts ==
    ASSUME NEW b \in Seq(Bytes), NEW f \in Nat, NEW s \in Seq(Bytes), f <= Len(b)
    PROVE  StoredWell(b, f, s)
<1>1. PICK lb \in Nat, ls \in Nat : lb = Len(b) /\ ls = Len(s)
  OBVIOUS
<1>2. PICK v \in Seq(Bytes) : v = SubSeq(b, 1, f) /\ Len(v) = f
  BY Cuts, Zenon DEF Front
<1>3. PICK u : u = v \o s
  BY Zenon
<1>4. u \in Seq(Bytes) /\ Len(u) = f + ls
  <2>1. Joined(Bytes, v, s, u)
    BY <1>3, Joins, Zenon
  <2>. QED
    BY <1>1, <1>2, <2>1, Zenon DEF Joined
<1>5. PICK t : t = SubSeq(b, f + Len(s) + 1, Len(b))
  BY Zenon
<1>6. CASE f + ls <= lb
  <2>1. PICK n \in Nat : n = f + ls
    OBVIOUS
  <2>2. t = Back(b, n) /\ n <= Len(b)
    BY <1>1, <1>5, <1>6, <2>1, Zenon DEF Back
  <2>3. t \in Seq(Bytes) /\ Len(t) = lb - n
    BY <1>1, <2>2, Cuts, Zenon
  <2>4. Len(Stored(b, f, s)) = n + (lb - n) /\ Stored(b, f, s) \in Seq(Bytes)
    <3>1. Stored(b, f, s) = u \o t
      BY <1>2, <1>3, <1>5, Zenon DEF Stored
    <3>2. Joined(Bytes, u, t, Stored(b, f, s))
      BY <1>4, <2>3, <3>1, Joins, Zenon
    <3>. QED
      BY <1>4, <2>1, <2>3, <3>2, Zenon DEF Joined
  <2>5. n + (lb - n) = lb
    OBVIOUS
  <2>6. f = Len(b) => s = <<>> /\ t = <<>>
    <3>1. f = lb => ls = 0 /\ lb - n = 0
      BY <1>6, <2>1
    <3>. QED
      BY <1>1, <2>3, <3>1, EmptySeq
  <2>7. f = Len(b) => Stored(b, f, s) = b \o s
    BY <1>2, <1>3, <1>5, <2>6, ConcatEmptySeq, SubSeqFull, Zenon DEF Stored
  <2>. QED
    BY <1>1, <1>6, <2>4, <2>5, <2>7, Zenon DEF StoredWell
<1>7. CASE ~(f + ls <= lb)
  <2>1. t = <<>>
    <3>1. PICK m \in Nat : m = f + Len(s) + 1 /\ lb < m
      BY <1>1, <1>7
    <3>2. SubSeq(b, m, lb) = <<>>
      BY <3>1, SubSeqEmpty
    <3>. QED
      BY <1>1, <1>5, <3>1, <3>2, Zenon
  <2>2. Stored(b, f, s) = u
    <3>1. u \o <<>> = u
      BY <1>4, ConcatEmptySeq, Zenon
    <3>. QED
      BY <1>2, <1>3, <1>5, <2>1, <3>1, Zenon DEF Stored
  <2>3. f = Len(b) => v = b
    BY <1>2, SubSeqFull, Zenon
  <2>. QED
    BY <1>1, <1>3, <1>4, <1>7, <2>2, <2>3, Zenon DEF StoredWell
<1>. QED
  BY <1>6, <1>7, Zenon

-------------------------------------------------------------------------------
\* Nothing is transferred before the first call.
LEMMA IOStart == IOSetting /\ IO!Init => IOInv
<1> SUFFICES ASSUME IOSetting, IO!Init PROVE IOInv
  OBVIOUS
<1>1. IOTypes
  BY DEF IOSetting, IOTypes, IO!Init, IO!NoIO, IO!NoLine
<1>2. Whole
  BY <1>1, ConcatEmptySeq DEF IOTypes, Whole, Three, IO!Init
<1>3. SentInv /\ Plans /\ Results /\ Len(buf) <= count
  BY DEF IO!Init, SentInv, Plans, Results, Untouched
<1>. QED
  BY <1>1, <1>2, <1>3 DEF IOInv

\* Bytes arrive behind those already there.
LEMMA IOArrive ==
    ASSUME IOInv, IO!Arrive
    PROVE  IOInv'
<1>1. /\ coming /= <<>> /\ coming' = Tail(coming) /\ kernel' = Append(kernel, Head(coming))
      /\ UNCHANGED <<stream, sent, ioPc, count, buf, io, line, ioRet, ioErrno>>
  BY Zenon DEF IO!Arrive, IO!calls
<1>2. /\ kernel' \in Seq(Bytes) /\ coming' \in Seq(Bytes)
      /\ Three(buf, kernel', coming') = Three(buf, kernel, coming)
  <2>1. buf \in Seq(Bytes) /\ kernel \in Seq(Bytes) /\ coming \in Seq(Bytes)
    BY Zenon DEF IOInv, IOTypes
  <2>. QED
    <3>1. /\ Append(kernel, Head(coming)) \in Seq(Bytes) /\ Tail(coming) \in Seq(Bytes)
          /\ Three(buf, Append(kernel, Head(coming)), Tail(coming)) = Three(buf, kernel, coming)
      BY <1>1, <2>1, Arrived, Zenon
    <3>. QED
      BY <1>1, <3>1, Zenon
<1>3. IOTypes'
  BY <1>1, <1>2, Zenon DEF IOInv, IOTypes
<1>4. Whole' /\ SentInv' /\ Plans' /\ Len(buf') <= count'
  BY <1>1, <1>2, Zenon DEF IOInv, Whole, SentInv, Plans, Untouched
<1>5. Results'
  BY <1>1, Zenon DEF IOInv, Results, Untouched
<1>. QED
  BY <1>3, <1>4, <1>5 DEF IOInv

\* A call starts with nothing transferred.
LEMMA IOCalls ==
    ASSUME IOSetting, IOInv, IO!Calls
    PROVE  IOInv'
<1>1. /\ ioPc = "idle" /\ UNCHANGED <<stream, coming, kernel, sent, buf, ioRet, ioErrno>>
      /\ ioPc' \in {"readn", "writen", "peek"} /\ count' \in Nat
      /\ ioPc' \in {"readn", "writen"} =>
           line' = line /\ io' = [count |-> count', left |-> count', from |-> 0, then |-> "done"]
      /\ ioPc' = "peek" => line' = [IO!NoLine EXCEPT !.left = count'] /\ io' = IO!NoIO
  BY DEF IOSetting, IO!Calls, IO!CallReadn, IO!CallWriten, IO!CallReadline, IO!net, IO!calls
<1>2. Untouched /\ buf = <<>> /\ sent = <<>> /\ line = IO!NoLine
  BY <1>1, Zenon DEF IOInv, Plans, Untouched
<1>3. IOTypes'
  BY <1>1, <1>2 DEF IOInv, IOTypes, IO!NoIO, IO!NoLine
<1>4. Whole'
  BY <1>1, <1>2, Zenon DEF IOInv, Whole, Untouched
<1>5. SentInv' /\ Results' /\ Len(buf') <= count'
  BY <1>1, <1>2 DEF IOInv, SentInv, Results
<1>6. Plans'
  BY <1>1, <1>2 DEF Plans, Untouched, IO!NoLine, IO!NoIO
<1>. QED
  BY <1>3, <1>4, <1>5, <1>6 DEF IOInv

\* EINTR and an error transfer nothing.
LEMMA IOStops ==
    ASSUME IOInv, IO!Interrupted \/ IO!Failed
    PROVE  IOInv'
<1>1. UNCHANGED <<stream, coming, kernel, sent, count, buf, io, line>>
  BY Zenon DEF IO!Interrupted, IO!Failed, IO!net
<1>2. IO!InCall /\ ioPc \in {"readn", "writen", "peek"}
  BY DEF IO!Interrupted, IO!Failed, IO!InCall
<1>3. CASE IO!Interrupted
  <2>1. ioPc' = ioPc
    BY <1>3, Zenon DEF IO!Interrupted, IO!Retry
  <2>2. IOTypes' /\ Whole' /\ SentInv' /\ Plans' /\ Len(buf') <= count'
    BY <1>1, <2>1, Zenon DEF IOInv, IOTypes, Whole, SentInv, Plans, Untouched
  <2>3. Results'
    BY <1>2, <2>1 DEF Results
  <2>. QED
    BY <2>2, <2>3 DEF IOInv
<1>4. CASE IO!Failed
  <2>1. /\ ioPc' = "done" /\ ioErrno' = "other"
        /\ ioRet' = IF ioPc = "readn" /\ io.then = "peek" THEN 1 ELSE -1
    BY <1>4, Zenon DEF IO!Failed, IO!Return, IO!Errno
  <2>2. IOTypes' /\ Whole' /\ SentInv' /\ Len(buf') <= count'
    BY <1>1, <2>1 DEF IOInv, IOTypes, Whole, SentInv, Untouched
  <2>3. Plans'
    BY <2>1 DEF Plans
  <2>4. ASSUME sent /= <<>> PROVE ioRet' /= count
    <3>1. ioPc = "writen"
      BY <1>2, <2>4 DEF IOInv, SentInv
    <3>. QED
      BY <2>1, <3>1 DEF IOInv, IOTypes
  <2>5. ASSUME Untouched PROVE ioRet' = -1
    <3>1. line.nread = 0
      BY <2>5 DEF Untouched, IO!NoLine
    <3>. QED
      BY <2>1, <3>1 DEF IOInv, Plans
  <2>. QED
    BY <1>1, <2>1, <2>2, <2>3, <2>4, <2>5, Zenon DEF IOInv, Results, Untouched
<1>. QED
  BY <1>3, <1>4

\* write() moves the front of what is left.
LEMMA IOWrite ==
    ASSUME IOInv, IO!Write
    PROVE  IOInv'
<1>1. /\ ioPc = "writen" /\ UNCHANGED <<stream, coming, kernel, count, buf, line, ioErrno>>
  BY Zenon DEF IO!Write, IO!net, IO!calls
<1>2. /\ line = IO!NoLine /\ buf = <<>> /\ io.from = 0 /\ io.count = count
      /\ Len(sent) = io.count - io.left /\ IO!Offset = Len(sent)
      /\ io \in [count : Nat, left : Nat, from : Nat, then : {"done", "scan", "peek"}] /\ io.left <= io.count
      /\ sent \in Seq(Nat) /\ count \in Nat
  BY <1>1 DEF IOInv, IOTypes, Plans, IO!Offset
<1>3. CASE io.left = 0
  <2>1. ioPc' = "done" /\ ioRet' = count /\ io' = io /\ sent' = sent
    BY <1>2, <1>3 DEF IO!Write, IO!Return
  <2>2. IOTypes' /\ Whole' /\ SentInv' /\ Len(buf') <= count'
    BY <1>1, <2>1 DEF IOInv, IOTypes, Whole, SentInv, Untouched
  <2>3. Plans'
    BY <2>1 DEF Plans
  <2>4. Len(sent) = count /\ io.count - io.left = count
    BY <1>2, <1>3
  <2>5. Results'
    BY <1>1, <1>2, <2>1, <2>4 DEF Results
  <2>. QED
    BY <2>2, <2>3, <2>5 DEF IOInv
<1>4. CASE io.left > 0
  <2>1. PICK n \in 0 .. io.left :
          /\ sent' = sent \o [k \in 1 .. n |-> IO!Offset + k]
          /\ io' = [io EXCEPT !.left = @ - n] /\ ioPc' = ioPc
    <3>1. io.left /= 0
      BY <1>2, <1>4
    <3>. QED
      BY <3>1, Zenon DEF IO!Write
  <2>0. n \in Nat /\ n <= io.left /\ io.left \in Nat /\ Len(sent) \in Nat
    BY <1>2
  <2>2. /\ io' \in [count : Nat, left : Nat, from : Nat, then : {"done", "scan", "peek"}]
        /\ io'.left = io.left - n /\ io'.count = io.count /\ io'.from = io.from /\ io'.left <= io'.count
    <3>1. io' = [io EXCEPT !.left = @ - n]
      BY <2>1, Zenon
    <3>. QED
      BY <1>2, <2>0, <3>1
  <2>3. PICK t : t = [k \in 1 .. n |-> IO!Offset + k]
    BY Zenon
  <2>4. t \in Seq(Nat) /\ Len(t) = n /\ \A k \in 1 .. n : t[k] = Len(sent) + k
    BY <1>2, <2>0, <2>3
  <2>5. sent' = sent \o t
    BY <2>1, <2>3, Zenon
  <2>6. /\ sent' \in Seq(Nat) /\ Len(sent') = Len(sent) + n
        /\ \A k \in 1 .. Len(sent) + n : sent'[k] = IF k <= Len(sent) THEN sent[k] ELSE t[k - Len(sent)]
    <3>1. Joined(Nat, sent, t, sent')
      BY <1>2, <2>4, <2>5, Joins, Zenon
    <3>. QED
      BY <2>4, <3>1, Zenon DEF Joined
  <2>7. \A k \in 1 .. Len(sent') : sent'[k] = k
    <3>1. \A k \in 1 .. Len(sent) : sent[k] = k
      BY DEF IOInv, SentInv
    <3>2. PICK l \in Nat : l = Len(sent)
      BY <2>0
    <3>3. \A k \in 1 .. l + n : sent'[k] = IF k <= l THEN sent[k] ELSE t[k - l]
      BY <2>6, <3>2, Zenon
    <3>4. (\A k \in 1 .. l : sent[k] = k) /\ \A k \in 1 .. n : t[k] = l + k
      BY <2>4, <3>1, <3>2, Zenon
    <3>5. \A k \in 1 .. l + n : sent'[k] = k
      BY ONLY <3>3, <3>4, l \in Nat, n \in Nat
    <3>. QED
      BY <2>6, <3>2, <3>5, Zenon
  <2>8. sent' = <<>> => sent = <<>>
    BY <1>2, <2>0, <2>6
  <2>9. IOTypes'
    BY <1>1, <2>1, <2>2, <2>6 DEF IOInv, IOTypes
  <2>10. SentInv' /\ Whole' /\ Results' /\ Len(buf') <= count'
    BY <1>1, <2>1, <2>7, <2>8, Zenon DEF IOInv, SentInv, Whole, Results, Untouched
  <2>11. Len(sent') = io'.count - io'.left
    BY <1>2, <2>0, <2>2, <2>6
  <2>12. Plans'
    BY <1>1, <1>2, <2>1, <2>2, <2>11 DEF Plans
  <2>. QED
    BY <2>9, <2>10, <2>12 DEF IOInv
<1>. QED
  BY <1>2, <1>3, <1>4

\* recv( MSG_PEEK ) copies without taking.
LEMMA IOPeek ==
    ASSUME IOInv, IO!Peek
    PROVE  IOInv'
<1>1. /\ ioPc = "peek" /\ UNCHANGED <<stream, coming, kernel, sent, io, count, ioErrno>>
  BY Zenon DEF IO!Peek, IO!net, IO!calls
<1>2. /\ line \in [from : Nat, left : Nat, nread : Nat, i : Nat]
      /\ line.from <= Len(buf) /\ line.from + line.left <= count
      /\ line = IO!NoLine => count = 0 /\ io = IO!NoIO /\ buf = <<>>
      /\ kernel \in Seq(Bytes) /\ buf \in Seq(Bytes) /\ count \in Nat /\ Len(buf) <= count
      /\ sent = <<>>
  BY <1>1 DEF IOInv, IOTypes, Plans, SentInv
<1>0. count \in Nat
  BY <1>2
<1>3. CASE ioPc' = "done"
  <2>1. ioRet' = 0 /\ line' = line /\ buf' = buf
    BY <1>3 DEF IO!Peek, IO!Return
  <2>2. IOTypes' /\ Whole' /\ SentInv' /\ Len(buf') <= count'
    BY <1>1, <1>3, <2>1 DEF IOInv, IOTypes, Whole, SentInv, Untouched
  <2>3. Plans'
    BY <1>3 DEF Plans
  <2>4. Results'
    BY <1>1, <1>2, <2>1 DEF Results, Untouched, IO!NoIO
  <2>. QED
    BY <2>2, <2>3, <2>4 DEF IOInv
<1>4. CASE ioPc' /= "done"
  <2>1. PICK n \in 1 .. Len(kernel) :
          /\ n <= line.left /\ buf' = IO!Store(line.from, SubSeq(kernel, 1, n))
          /\ line' = [line EXCEPT !.nread = n, !.i = 0] /\ ioPc' = "scan"
    BY <1>4, Zenon DEF IO!Peek, IO!Return
  <2>2. PICK s \in Seq(Bytes) : s = SubSeq(kernel, 1, n) /\ Len(s) = n /\ n \in Nat /\ n > 0
    <3>1. n \in Nat /\ n > 0 /\ n <= Len(kernel)
      BY <1>2
    <3>. QED
      BY <1>2, <3>1, Cuts, Zenon DEF Front
  <2>3. buf' = Stored(buf, line.from, s)
    BY <2>1, <2>2, Zenon DEF IO!Store, Stored
  <2>4. /\ buf' \in Seq(Bytes)
        /\ Len(buf') = IF line.from + n <= Len(buf) THEN Len(buf) ELSE line.from + n
    <3>1. line.from \in Nat
      BY <1>2
    <3>. QED
      <4>1. StoredWell(buf, line.from, s)
        BY <1>2, <3>1, StoreFacts, Zenon
      <4>. QED
        BY <2>2, <2>3, <4>1, Zenon DEF StoredWell
  <2>5. /\ line' \in [from : Nat, left : Nat, nread : Nat, i : Nat]
        /\ line'.nread = n /\ line'.from = line.from /\ line'.left = line.left
    BY <1>2, <2>1, <2>2, Zenon
  <2>6. line' /= IO!NoLine
    BY <2>2, <2>5 DEF IO!NoLine
  <2>7. Len(buf') <= count /\ line'.from + line'.nread <= Len(buf')
    <3>1. PICK b \in Nat, f \in Nat, l \in Nat : b = Len(buf) /\ f = line.from /\ l = line.left
      BY <1>2
    <3>2. f + l <= count /\ n <= l /\ b <= count /\ Len(buf') = IF f + n <= b THEN b ELSE f + n
      BY <1>2, <2>1, <2>4, <3>1, Zenon
    <3>3. Len(buf') <= count /\ f + n <= Len(buf')
      BY <1>0, <2>2, <3>2
    <3>. QED
      BY <2>5, <3>1, <3>3, Zenon
  <2>8. IOTypes'
    BY <1>1, <2>1, <2>4, <2>5 DEF IOInv, IOTypes
  <2>9. Whole' /\ SentInv' /\ Results'
    BY <1>1, <1>2, <2>1, <2>6 DEF IOInv, Whole, SentInv, Results, Untouched
  <2>10. Plans'
    BY <1>1, <1>2, <2>1, <2>2, <2>5, <2>7 DEF Plans
  <2>. QED
    BY <1>1, <2>7, <2>8, <2>9, <2>10 DEF IOInv
<1>. QED
  BY <1>3, <1>4

\* Lemma Smallest: a set of numbers has a smallest one.
LEMMA Smallest ==
    ASSUME NEW S, S \subseteq Nat, S /= {}
    PROVE  \E m \in S : \A n \in S : m <= n
<1>1. PICK R : R = OpToRel(<, Nat)
  BY Zenon
<1>2. \A x, y \in Nat : <<x, y>> \in R <=> x < y
  BY <1>1 DEF OpToRel
<1>3. IsWellFoundedOn(R, Nat)
  BY <1>1, NatLessThanWellFounded, Zenon
<1>4. PICK m \in S : \A n \in S : ~(<<n, m>> \in R)
  BY <1>3, WFMin, Zenon
<1>5. \A n \in S : n \in Nat /\ m \in Nat /\ ~(n < m)
  BY <1>2, <1>4, Zenon
<1>. QED
  BY <1>5

\* The scan of what was peeked takes nothing either.
LEMMA IOScan ==
    ASSUME IOInv, IO!Scan
    PROVE  IOInv'
<1>1. /\ ioPc = "scan" /\ ioPc' = "readn"
      /\ UNCHANGED <<stream, coming, kernel, sent, count, buf, ioRet, ioErrno>>
  BY Zenon DEF IO!Scan, IO!net, IO!calls
<1>2. /\ line \in [from : Nat, left : Nat, nread : Nat, i : Nat]
      /\ line.nread > 0 /\ line.from + line.nread <= Len(buf)
      /\ line.nread <= line.left /\ line.from + line.left <= count /\ sent = <<>>
  BY <1>1 DEF IOInv, IOTypes, Plans, SentInv
<1>3. SentInv' /\ Results' /\ Len(buf') <= count'
  BY <1>1, <1>2 DEF IOInv, SentInv, Results
<1>4. ASSUME line'.nread = line.nread PROVE Whole'
  <2>1. line' /= IO!NoLine
    BY <1>2, <1>4 DEF IO!NoLine
  <2>. QED
    BY <2>1, Zenon DEF Whole, Untouched
<1>5. CASE IO!NewlineAt /= {}
  <2>1. PICK m : m = IO!FirstNewline
    BY Zenon
  <2>2. m \in Nat /\ m < line.nread
    <3>1. \A i \in IO!NewlineAt : i \in Nat /\ i < line.nread
      BY <1>2 DEF IO!NewlineAt
    <3>2. \E x \in IO!NewlineAt : \A y \in IO!NewlineAt : x <= y
      BY <1>5, <3>1, Smallest, Zenon
    <3>3. m \in IO!NewlineAt
      BY <2>1, <3>2, Zenon DEF IO!FirstNewline
    <3>. QED
      BY <3>1, <3>3, Zenon
  <2>3. /\ line' = [line EXCEPT !.i = m]
        /\ io' = [count |-> line'.i + 1, left |-> line'.i + 1, from |-> line.from, then |-> "scan"]
    BY <1>5, <2>1, Zenon DEF IO!Scan
  <2>4. /\ line' \in [from : Nat, left : Nat, nread : Nat, i : Nat] /\ line'.i = m
        /\ line'.from = line.from /\ line'.left = line.left /\ line'.nread = line.nread
    BY <1>2, <2>2, <2>3
  <2>5. /\ io' \in [count : Nat, left : Nat, from : Nat, then : {"done", "scan", "peek"}]
        /\ io'.count = m + 1 /\ io'.left = m + 1 /\ io'.from = line.from /\ io'.then = "scan"
    BY <1>2, <2>2, <2>3, <2>4
  <2>6. IOTypes'
    BY <1>1, <2>2, <2>4, <2>5 DEF IOInv, IOTypes
  <2>7. Plans'
    <3>1. /\ line'.nread > 0 /\ line'.from + line'.nread <= Len(buf')
          /\ line'.nread <= line'.left /\ line'.from + line'.left <= count'
      BY <1>1, <1>2, <2>4, Zenon
    <3>2. io'.from = line'.from /\ io'.count <= line'.nread
      BY <1>2, <2>2, <2>4, <2>5
    <3>. QED
      BY <1>1, <2>5, <3>1, <3>2 DEF Plans
  <2>. QED
    BY <1>3, <1>4, <2>4, <2>6, <2>7, Zenon DEF IOInv
<1>6. CASE IO!NewlineAt = {}
  <2>1. /\ io' = [count |-> line.nread, left |-> line.nread, from |-> line.from, then |-> "peek"]
        /\ line' = [line EXCEPT !.left = line.left - line.nread]
    BY <1>6, Zenon DEF IO!Scan, IO!LeftAfter
  <2>2. /\ line' \in [from : Nat, left : Nat, nread : Nat, i : Nat]
        /\ line'.from = line.from /\ line'.left = line.left - line.nread /\ line'.nread = line.nread
    BY <1>2, <2>1
  <2>3. /\ io' \in [count : Nat, left : Nat, from : Nat, then : {"done", "scan", "peek"}]
        /\ io'.count = line.nread /\ io'.left = line.nread /\ io'.from = line.from /\ io'.then = "peek"
    BY <1>2, <2>1
  <2>4. IOTypes'
    BY <1>1, <1>2, <2>2, <2>3 DEF IOInv, IOTypes
  <2>5. Plans'
    BY <1>1, <1>2, <2>2, <2>3 DEF Plans
  <2>. QED
    BY <1>3, <1>4, <2>2, <2>4, <2>5, Zenon DEF IOInv
<1>. QED
  BY <1>5, <1>6

\* Lemma IODone: readn() returns to its caller, having read what was asked for or
\* met the end of the stream.
LEMMA IODone ==
    ASSUME IOInv, ioPc = "readn", NEW r \in Nat, r = io.count - io.left, IO!ReadnDone(r),
           r /= io.count => kernel = <<>> /\ coming = <<>>,
           UNCHANGED <<stream, coming, kernel, sent, count, buf, io, ioErrno>>
    PROVE  IOInv'
<1>1. /\ line \in [from : Nat, left : Nat, nread : Nat, i : Nat] /\ count \in Nat /\ Len(buf) <= count
      /\ io \in [count : Nat, left : Nat, from : Nat, then : {"done", "scan", "peek"}] /\ sent = <<>>
      /\ buf \in Seq(Bytes)
  BY DEF IOInv, IOTypes, SentInv
<1>0. line \in [from : Nat, left : Nat, nread : Nat, i : Nat]
  BY <1>1, Zenon
<1>2. CASE ioPc' = "done"
  <2>1. line' = line /\ ioRet' \in {r, 1}
    BY <1>1, <1>2, Zenon DEF IO!ReadnDone, IO!Return, IO!Errno
  <2>2. IOTypes' /\ Whole' /\ SentInv' /\ Len(buf') <= count'
    BY <1>2, <2>1 DEF IOInv, IOTypes, Whole, SentInv, Untouched
  <2>3. Plans'
    BY <1>2 DEF Plans
  <2>4. ASSUME Untouched PROVE io.then = "done"
    <3>1. line.nread = 0
      BY <2>4 DEF Untouched, IO!NoLine
    <3>. QED
      BY <3>1 DEF IOInv, Plans
  <2>5. ASSUME Untouched PROVE ioRet' = r /\ Len(buf) = r /\ io.count = count
    <3>1. io.then = "done"
      BY <2>4, <2>5
    <3>2. ioRet' = r
      BY <3>1, Zenon DEF IO!ReadnDone, IO!Return
    <3>. QED
      BY <3>1, <3>2, Zenon DEF IOInv, Plans
  <2>6. Results'
    BY <1>1, <2>1, <2>5, Zenon DEF Results, Untouched
  <2>. QED
    BY <2>2, <2>3, <2>6 DEF IOInv
<1>3. CASE ioPc' /= "done"
  <2>1. /\ io.then /= "done" /\ line'.nread = line.nread
        /\ line' \in [from : Nat, left : Nat, nread : Nat, i : Nat]
        /\ line'.left = line.left
        /\ \/ ioPc' = "scan" /\ line'.from = line.from /\ io.then = "scan"
           \/ ioPc' = "peek" /\ line'.from = line.from + line.nread /\ io.then = "peek"
    <3>1. CASE io.then = "done"
      BY <1>3, <3>1, Zenon DEF IO!ReadnDone, IO!Return
    <3>2. CASE io.then = "scan"
      <4>1. ioPc' = "scan" /\ line' = [line EXCEPT !.i = @ + 1]
        BY <1>3, <3>2 DEF IO!ReadnDone, IO!Return
      <4>. QED
        BY <1>0, <3>2, <4>1
    <3>3. CASE io.then = "peek"
      <4>1. ioPc' = "peek" /\ line' = [line EXCEPT !.from = @ + line.nread]
        BY <1>3, <3>3 DEF IO!ReadnDone, IO!Return
      <4>. QED
        BY <1>0, <3>3, <4>1
    <3>. QED
      BY <1>1, <3>1, <3>2, <3>3
  <2>2. line.nread > 0 /\ line.from + line.nread <= Len(buf)
    BY <2>1, Zenon DEF IOInv, Plans
  <2>3. line' /= IO!NoLine
    BY <1>1, <2>1, <2>2 DEF IO!NoLine
  <2>4. IOTypes'
    BY <2>1 DEF IOInv, IOTypes
  <2>5. Whole' /\ SentInv' /\ Results' /\ Len(buf') <= count'
    BY <1>1, <2>1, <2>3 DEF IOInv, Whole, SentInv, Results, Untouched
  <2>6. Plans'
    <3>1. CASE ioPc' = "scan"
      BY <2>1, <2>2, <3>1 DEF IOInv, Plans
    <3>2. CASE ioPc' = "peek"
      BY <1>1, <2>1, <2>2, <2>3, <3>2 DEF IOInv, Plans
    <3>. QED
      BY <2>1, <3>1, <3>2
  <2>. QED
    BY <2>4, <2>5, <2>6 DEF IOInv
<1>. QED
  BY <1>2, <1>3

\* read() takes the front of what has arrived.
LEMMA IORead ==
    ASSUME IOInv, IO!Read
    PROVE  IOInv'
<1>1. ioPc = "readn" /\ UNCHANGED <<stream, coming, sent, count, ioErrno>>
  BY Zenon DEF IO!Read, IO!net, IO!calls
<1>2. /\ io \in [count : Nat, left : Nat, from : Nat, then : {"done", "scan", "peek"}] /\ io.left <= io.count
      /\ kernel \in Seq(Bytes) /\ buf \in Seq(Bytes) /\ coming \in Seq(Bytes) /\ count \in Nat
      /\ line \in [from : Nat, left : Nat, nread : Nat, i : Nat]
      /\ sent = <<>> /\ Len(buf) <= count
  BY <1>1 DEF IOInv, IOTypes, SentInv
<1>0. io \in [count : Nat, left : Nat, from : Nat, then : {"done", "scan", "peek"}] /\ io.left <= io.count
  BY <1>2, Zenon
<1>3. ASSUME NEW r, r = io.count - io.left, UNCHANGED <<kernel, buf, io>>, IO!ReadnDone(r),
             io.left = 0 \/ (kernel = <<>> /\ coming = <<>>)
      PROVE  IOInv'
  <2>1. r \in Nat /\ (r /= io.count => io.left /= 0)
    BY <1>0, <1>3
  <2>. QED
    BY <1>1, <1>3, <2>1, IODone, Zenon
<1>4. ASSUME NEW n \in 1 .. Len(kernel), n <= io.left,
             buf' = IO!Store(IO!Offset, SubSeq(kernel, 1, n)),
             kernel' = SubSeq(kernel, n + 1, Len(kernel)),
             io' = [io EXCEPT !.left = @ - n], UNCHANGED <<ioPc, line, ioRet>>
      PROVE  IOInv'
  <2>1. n \in Nat /\ n > 0 /\ n <= Len(kernel) /\ IO!Offset \in Nat /\ Len(buf) \in Nat
    BY <1>2 DEF IO!Offset
  <2>2. IO!Offset <= Len(buf) /\ (io.then /= "done" => IO!Offset + io.left <= Len(buf))
    <3>1. CASE io.then = "done"
      <4>1. io.from = 0 /\ Len(buf) = io.count - io.left
        BY <1>1, <3>1, Zenon DEF IOInv, Plans
      <4>. QED
        BY <1>0, <2>1, <3>1, <4>1 DEF IO!Offset
    <3>2. CASE io.then /= "done"
      <4>1. io.from = line.from /\ io.count <= line.nread /\ line.from + line.nread <= Len(buf)
        BY <1>1, <3>2, Zenon DEF IOInv, Plans
      <4>. QED
        BY <1>2, <2>1, <3>2, <4>1 DEF IO!Offset
    <3>. QED
      BY <3>1, <3>2
  <2>3. PICK s \in Seq(Bytes) : s = Front(kernel, n) /\ Len(s) = n
    BY <1>2, <2>1, Cuts, Zenon
  <2>4. kernel' = Back(kernel, n) /\ kernel' \in Seq(Bytes)
    BY <1>2, <1>4, <2>1, Cuts, Zenon DEF Back
  <2>5. buf' = Stored(buf, IO!Offset, s)
    BY <1>4, <2>3, Zenon DEF IO!Store, Stored, Front
  <2>6. StoredWell(buf, IO!Offset, s)
    BY <1>2, <2>1, <2>2, StoreFacts, Zenon
  <2>7. /\ buf' \in Seq(Bytes)
        /\ Len(buf') = IF IO!Offset + n <= Len(buf) THEN Len(buf) ELSE IO!Offset + n
        /\ IO!Offset = Len(buf) => buf' = buf \o s
    BY <2>3, <2>5, <2>6, Zenon DEF StoredWell
  <2>8. /\ io' \in [count : Nat, left : Nat, from : Nat, then : {"done", "scan", "peek"}]
        /\ io'.left = io.left - n /\ io'.count = io.count /\ io'.from = io.from /\ io'.then = io.then
        /\ io'.left <= io'.count
    <3>1. io' = [io EXCEPT !.left = @ - n] /\ n <= io.left
      BY <1>4, Zenon
    <3>. QED
      BY <1>0, <2>1, <3>1
  <2>0. PICK b \in Nat, c \in Nat, f \in Nat :
          b = Len(buf) /\ c = Len(buf') /\ f = IO!Offset /\ c = IF f + n <= b THEN b ELSE f + n
    BY <2>1, <2>7
  <2>9. IOTypes'
    BY <1>1, <1>4, <2>4, <2>7, <2>8 DEF IOInv, IOTypes
  <2>10. SentInv' /\ Results'
    BY <1>1, <1>2, <1>4 DEF IOInv, SentInv, Results
  <2>11. CASE io.then = "done"
    <3>1. /\ Untouched /\ io.from = 0 /\ io.count = count /\ Len(buf) = io.count - io.left
          /\ IO!Offset = Len(buf)
      <4>1. Untouched /\ io.from = 0 /\ io.count = count /\ Len(buf) = io.count - io.left
        BY <1>1, <2>11, Zenon DEF IOInv, Plans
      <4>2. IO!Offset = io.count - io.left
        BY <1>0, <4>1 DEF IO!Offset
      <4>. QED
        BY <4>1, <4>2, Zenon
    <3>2. Len(buf') = io'.count - io'.left /\ Len(buf') <= count'
      <4>1. c = b + n /\ c = io'.count - io'.left
        <5>1. io.count \in Nat /\ io.left \in Nat
          BY <1>0
        <5>2. f = b /\ b = io.count - io.left /\ io'.count = io.count /\ io'.left = io.left - n
          BY <2>0, <2>8, <3>1, Zenon
        <5>3. c = f + n
          BY <2>0, <2>1, <5>2
        <5>. QED
          BY <2>1, <5>1, <5>2, <5>3
      <4>. QED
        BY <1>1, <2>0, <2>8, <3>1, <4>1
    <3>3. Plans'
      BY <1>1, <1>4, <2>8, <2>11, <3>1, <3>2 DEF Plans, Untouched
    <3>4. Three(buf', kernel', coming) = Three(buf, kernel, coming)
      <4>1. Kept(buf, kernel, coming, n)
        BY <1>2, <2>1, Moved, Zenon
      <4>. QED
        BY <2>3, <2>4, <2>7, <3>1, <4>1, Zenon DEF Kept
    <3>5. Whole'
      BY <1>1, <3>1, <3>4, Zenon DEF IOInv, Whole
    <3>. QED
      BY <2>9, <2>10, <3>2, <3>3, <3>5 DEF IOInv
  <2>12. CASE io.then /= "done"
    <3>1. Len(buf') = Len(buf)
      <4>1. f + io.left <= b /\ n <= io.left
        BY <1>4, <2>0, <2>2, <2>12, Zenon
      <4>. QED
        BY <1>0, <2>0, <2>1, <4>1
    <3>2. line.nread > 0
      BY <1>1, <2>12, Zenon DEF IOInv, Plans
    <3>3. Whole'
      BY <1>2, <1>4, <3>2 DEF Whole, Untouched, IO!NoLine
    <3>4. Plans'
      BY <1>1, <1>4, <2>8, <2>12, <3>1 DEF IOInv, Plans
    <3>. QED
      BY <1>1, <1>2, <2>9, <2>10, <3>1, <3>3, <3>4 DEF IOInv
  <2>. QED
    BY <2>11, <2>12
<1>. QED
  <2>1. CASE io.left = 0
    <3>1. ~(io.left > 0) /\ io.count = io.count - io.left
      BY <1>0, <2>1
    <3>2. IO!ReadnDone(io.count) /\ UNCHANGED <<kernel, buf, io>>
      BY <3>1, Zenon DEF IO!Read
    <3>3. PICK r : r = io.count
      BY Zenon
    <3>4. IO!ReadnDone(r)
      BY <3>2, <3>3
    <3>. QED
      <4>1. r = io.count - io.left /\ UNCHANGED <<kernel, buf, io>> /\ io.left = 0
        BY <2>1, <3>1, <3>2, <3>3, Zenon
      <4>. QED
        BY <1>3, <3>4, <4>1
  <2>2. CASE io.left /= 0
    BY <1>3, <1>4, <2>2, Zenon DEF IO!Read, IO!EndOfStream
  <2>. QED
    BY <2>1, <2>2

\* Every step, and stuttering, keeps the invariant of the transfers.
LEMMA IOStep == IOSetting /\ IOInv /\ [IO!Next]_IO!vars => IOInv'
<1> SUFFICES ASSUME IOSetting, IOInv, [IO!Next]_IO!vars PROVE IOInv'
  OBVIOUS
<1>1. CASE IO!Next
  BY <1>1, IOArrive, IOCalls, IOStops, IORead, IOWrite, IOPeek, IOScan, Zenon DEF IO!Next
<1>2. CASE UNCHANGED IO!vars
  <2>1. UNCHANGED <<stream, coming, kernel, sent, ioPc, count, buf, io, line, ioRet, ioErrno>>
    BY <1>2, Zenon DEF IO!vars
  <2>2. IOTypes' /\ Whole' /\ SentInv' /\ Len(buf') <= count'
    BY <2>1, Zenon DEF IOInv, IOTypes, Whole, SentInv, Untouched
  <2>3. Plans' /\ Results'
    <3>1. Plans'
      BY <2>1, Zenon DEF IOInv, Plans, Untouched
    <3>2. Results'
      BY <2>1, Zenon DEF IOInv, Results, Untouched
    <3>. QED
      BY <3>1, <3>2, Zenon
  <2>. QED
    BY <2>2, <2>3 DEF IOInv
<1>. QED
  BY <1>1, <1>2

\* readn(), writen() and readline(), with any stream, any counts and any splitting of
\* the bytes over calls that may be interrupted or fail: readn() hands over the next
\* bytes of the stream in order and stops early only at its end, writen() sends each
\* byte of the buffer once and in order, and neither readn() nor readline() stores behind the buffer.
THEOREM TransfersKept ==
    ASSUME IOSetting
    PROVE  IO!Spec => [](IO!ReadnExact /\ IO!WritenExact /\ IO!InsideBuffer)
<1>1. IO!Init => IOInv
  BY IOStart
<1>2. IOInv /\ [IO!Next]_IO!vars => IOInv'
  BY IOStep
<1>3. IOInv => IO!ReadnExact /\ IO!WritenExact /\ IO!InsideBuffer
  <2> SUFFICES ASSUME IOInv PROVE IO!ReadnExact /\ IO!WritenExact /\ IO!InsideBuffer
    OBVIOUS
  <2>1. ASSUME Untouched PROVE buf \o kernel \o coming = stream
    BY <2>1, Zenon DEF IOInv, Whole, Three
  <2>2. ASSUME kernel = <<>>, coming = <<>> PROVE kernel \o coming = <<>>
    BY <2>2
  <2>3. ioRet \in Nat => ioRet >= 0 /\ ioRet /= -1
    OBVIOUS
  <2>4. IO!ReadnExact
    BY <2>1, <2>2, <2>3 DEF IOInv, Results, Untouched, IO!ReadnExact
  <2>5. sent = [k \in 1 .. Len(sent) |-> k]
    BY DEF IOInv, IOTypes, SentInv
  <2>6. IO!WritenExact
    BY <2>5, Zenon DEF IOInv, Results, IO!WritenExact
  <2>7. IO!InsideBuffer
    BY Zenon DEF IOInv, IO!InsideBuffer
  <2>. QED
    BY <2>4, <2>6, <2>7
<1>. QED
  BY <1>1, <1>2, <1>3, PTL DEF IO!Spec
===============================================================================
