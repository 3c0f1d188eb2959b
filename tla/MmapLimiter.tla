----------------------------- MODULE MmapLimiter -----------------------------
(***************************************************************************)
(* NewRandomAccessFile() and the MmapLimiter of PosixEnv: threads open      *)
(* tables for reading, by mmap() while slots are left and by pread()        *)
(* otherwise, and delete them again.                                        *)
(***************************************************************************)
EXTENDS Integers, FiniteSets, FiniteSetsExt

CONSTANTS Threads, Limit,       \* 1000 in the code, 0 in 32-bit binaries
          MaxFiles              \* bound: files a thread has at a time

VARIABLES allowed,              \* allowed_
          pc, fds,              \* of each thread: what it does, descriptors it has open
          mapped, preads        \* the files of each thread, by kind
vars == <<allowed, pc, fds, mapped, preads>>

Init ==
    /\ allowed = Limit /\ pc = [t \in Threads |-> "idle"]
    /\ fds = [t \in Threads |-> 0] /\ mapped = fds /\ preads = fds

To(t, p) == pc' = [pc EXCEPT ![t] = p]
Opened(t) == fds' = [fds EXCEPT ![t] = @ + 1]

ClosedFd(t) == fds' = [fds EXCEPT ![t] = @ - 1]

\* open(); Acquire() looks at allowed_ without mu_.
Open(t) ==
    /\ pc[t] = "idle" /\ mapped[t] + preads[t] < MaxFiles
    /\ Opened(t) /\ To(t, "check")
    /\ UNCHANGED <<allowed, mapped, preads>>

FirstCheck(t) ==
    /\ pc[t] = "check"
    /\ To(t, IF allowed <= 0 THEN "pread" ELSE "acquire")
    /\ UNCHANGED <<allowed, fds, mapped, preads>>

\* Mutant: the value is not looked at again under mu_.
NoSecondCheck(a) == TRUE

SlotLeft(a) == a > 0

\* Acquire() with mu_.
Acquire(t) ==
    /\ pc[t] = "acquire"
    /\ \/ SlotLeft(allowed) /\ allowed' = allowed - 1 /\ To(t, "map")
       \/ ~SlotLeft(allowed) /\ allowed' = allowed /\ To(t, "pread")
    /\ UNCHANGED <<fds, mapped, preads>>

\* GetFileSize() and mmap(), then close(); on an error the slot is given back.
Map(t) ==
    /\ pc[t] = "map"
    /\ ClosedFd(t)
    /\ \/ mapped' = [mapped EXCEPT ![t] = @ + 1] /\ To(t, "idle")
       \/ mapped' = mapped /\ To(t, "release")
    /\ UNCHANGED <<allowed, preads>>

Pread(t) ==
    /\ pc[t] = "pread"
    /\ preads' = [preads EXCEPT ![t] = @ + 1] /\ To(t, "idle")
    /\ UNCHANGED <<allowed, fds, mapped>>

Released(a) == a + 1

Release(t) ==
    /\ pc[t] = "release"
    /\ allowed' = Released(allowed) /\ To(t, "idle")
    /\ UNCHANGED <<fds, mapped, preads>>

\* ~PosixMmapReadableFile(): munmap(), then Release().
AfterMunmap(t) == To(t, "release")

DeleteMapped(t) ==
    /\ pc[t] = "idle" /\ mapped[t] > 0
    /\ mapped' = [mapped EXCEPT ![t] = @ - 1] /\ AfterMunmap(t)
    /\ UNCHANGED <<allowed, fds, preads>>

\* ~PosixRandomAccessFile()
DeletePread(t) ==
    /\ pc[t] = "idle" /\ preads[t] > 0
    /\ preads' = [preads EXCEPT ![t] = @ - 1] /\ ClosedFd(t)
    /\ UNCHANGED <<allowed, pc, mapped>>

Next == \E t \in Threads :
    Open(t) \/ FirstCheck(t) \/ Acquire(t) \/ Map(t) \/ Pread(t) \/ Release(t)
    \/ DeleteMapped(t) \/ DeletePread(t)
Spec == Init /\ [][Next]_vars

-----------------------------------------------------------------------------
Mapping == MapThenSumSet(LAMBDA t : mapped[t], Threads) + Cardinality({t \in Threads : pc[t] \in {"map", "release"}})

\* There are never more mappings than MmapLimiter allows, however many threads
\* pass the first look at allowed_ together.
WithinLimit == Mapping <= Limit /\ allowed >= 0

\* No slot is lost or made up: each is free or belongs to a file that is mapped,
\* being mapped or being given back.
SlotsConserved == allowed + Mapping = Limit

\* A file costs a descriptor only when it is read with pread().
DescriptorsMatch ==
    \A t \in Threads : fds[t] = preads[t] + (IF pc[t] \in {"check", "acquire", "map", "pread"} THEN 1 ELSE 0)
===============================================================================
