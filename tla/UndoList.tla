------------------------------- MODULE UndoList ------------------------------
(***************************************************************************)
(* m_undo_tasks of TcpTaskPool, a std::list, link by link.  The loop thread *)
(* appends in add_undo_task() without m_undo_lock; the application's        *)
(* threads take messages in get_undo_task() under it.  Node 0 is the list's *)
(* own node; node n holds the n-th message appended.                        *)
(***************************************************************************)
EXTENDS Integers, Sequences

CONSTANTS Apps,         \* threads of the application
          Nobody,       \* no thread
          MaxMessages   \* bound on the messages appended

VARIABLES next, prev,   \* the links
          last,         \* the node of the last message made
          push,         \* add_undo_task(): "idle", "next" or "prev"
          pc,           \* of each thread: "idle", "test", "copy", "next", "prev" or "unlock"
          node,         \* of each thread: the node it takes
          m_undo_lock,  \* who holds it
          taken,        \* history: the messages get_undo_task() returned, in order
          brushed       \* history: a node was taken while it was being linked to
vars == <<next, prev, last, push, pc, node, m_undo_lock, taken, brushed>>
Nodes == 0 .. MaxMessages

Init ==
    /\ next = [n \in Nodes |-> 0] /\ prev = [n \in Nodes |-> 0]
    /\ last = 0 /\ push = "idle"
    /\ pc = [a \in Apps |-> "idle"] /\ node = [a \in Apps |-> 0]
    /\ m_undo_lock = Nobody /\ taken = <<>> /\ brushed = FALSE

\* The append under way links the new node and the one before it.
Linking == IF push = "idle" THEN {} ELSE {last, prev[last]}
Taking == {node[a] : a \in {a \in Apps : pc[a] \in {"copy", "next", "prev"}}}
NoteBrush == brushed' = (brushed \/ ((Linking' \cap Taking') \ {0}) # {})

-----------------------------------------------------------------------------
\* push_back(): the new node's links, the last node's, the list's own.
PushHook ==
    /\ push = "idle" /\ last < MaxMessages
    /\ last' = last + 1 /\ push' = "next"
    /\ next' = [next EXCEPT ![last'] = 0] /\ prev' = [prev EXCEPT ![last'] = prev[0]]
    /\ UNCHANGED <<pc, node, m_undo_lock, taken>>
PushNext ==
    /\ push = "next" /\ push' = "prev"
    /\ next' = [next EXCEPT ![prev[last]] = last]
    /\ UNCHANGED <<prev, last, pc, node, m_undo_lock, taken>>
PushPrev ==
    /\ push = "prev" /\ push' = "idle"
    /\ prev' = [prev EXCEPT ![0] = last]
    /\ UNCHANGED <<next, last, pc, node, m_undo_lock, taken>>

-----------------------------------------------------------------------------
\* Mutant: the lock is not taken.
NoLock(a) == m_undo_lock' = m_undo_lock

TakeLock(a) == m_undo_lock = Nobody /\ m_undo_lock' = a

Goto(a, label) == pc' = [pc EXCEPT ![a] = label]
Lock(a) ==
    /\ pc[a] = "idle" /\ TakeLock(a) /\ Goto(a, "test")
    /\ UNCHANGED <<next, prev, last, push, node, taken>>

\* is_undo_tasks_empty(), and front().
Test(a) ==
    /\ pc[a] = "test"
    /\ IF next[0] = 0 THEN Goto(a, "unlock") /\ node' = node
                      ELSE Goto(a, "copy") /\ node' = [node EXCEPT ![a] = next[0]]
    /\ UNCHANGED <<next, prev, last, push, m_undo_lock, taken>>
Copy(a) ==
    /\ pc[a] = "copy" /\ Goto(a, "next")
    /\ taken' = Append(taken, node[a])
    /\ UNCHANGED <<next, prev, last, push, node, m_undo_lock>>

\* pop_front() links the neighbours of the node and frees it.
PopNext(a) ==
    /\ pc[a] = "next" /\ Goto(a, "prev")
    /\ next' = [next EXCEPT ![prev[node[a]]] = next[node[a]]]
    /\ UNCHANGED <<prev, last, push, node, m_undo_lock, taken>>
PopPrev(a) ==
    /\ pc[a] = "prev" /\ Goto(a, "unlock")
    /\ prev' = [prev EXCEPT ![next[node[a]]] = prev[node[a]]]
    /\ UNCHANGED <<next, last, push, node, m_undo_lock, taken>>

Unlock(a) ==
    /\ pc[a] = "unlock" /\ Goto(a, "idle")
    /\ m_undo_lock' = IF m_undo_lock = a THEN Nobody ELSE m_undo_lock
    /\ UNCHANGED <<next, prev, last, push, node, taken>>

Step ==
    \/ PushHook \/ PushNext \/ PushPrev
    \/ \E a \in Apps : Lock(a) \/ Test(a) \/ Copy(a) \/ PopNext(a) \/ PopPrev(a) \/ Unlock(a)
Next == Step /\ NoteBrush
Spec == Init /\ [][Next]_vars

-----------------------------------------------------------------------------
\* The list is damaged only by an append that meets the taking of the node it links
\* to or of the node it is adding, as when a thread takes the only message while the
\* loop appends the next.  Short of that, although the append holds no lock, the
\* threads take the messages once and in order, and a list that looks empty has none
\* left.
TakenInOrder ==
    ~brushed =>
      /\ taken = [i \in 1 .. Len(taken) |-> i]
      /\ (next[0] = 0 /\ push = "idle" /\ Taking = {}) => Len(taken) = last
===============================================================================
