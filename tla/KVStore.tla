------------------------------- MODULE KVStore -------------------------------
(***************************************************************************)
(* What the key-value store promises: a map that batches of writes change   *)
(* at once, and snapshots that stay as the map was when they were taken.    *)
(* The value of a key is the number of the write that gave it, 0 when it is *)
(* absent.                                                                  *)
(***************************************************************************)
EXTENDS Naturals, Sequences, FiniteSets, SequencesExt

CONSTANTS Keys, MaxBatch

VARIABLES clock,    \* the number of writes so far
          store,    \* the map
          views     \* the snapshots
vars == <<clock, store, views>>

Init == clock = 0 /\ store = [k \in Keys |-> 0] /\ views = <<>>

\* A batch of n entries gives new values to at most n keys, or takes theirs away.
Write ==
    /\ clock' \in clock + 1 .. clock + MaxBatch
    /\ \A k \in Keys : store'[k] \in {store[k], 0} \cup clock + 1 .. clock'
    /\ Cardinality({k \in Keys : store'[k] # store[k]}) <= clock' - clock
    /\ UNCHANGED views

GetSnapshot == views' = Append(views, store) /\ UNCHANGED <<clock, store>>
ReleaseSnapshot == (\E i \in DOMAIN views : views' = RemoveAt(views, i)) /\ UNCHANGED <<clock, store>>

Next == Write \/ GetSnapshot \/ ReleaseSnapshot
Spec == Init /\ [][Next]_vars
===============================================================================
