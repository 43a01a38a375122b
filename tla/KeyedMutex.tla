------------------------------ MODULE KeyedMutex ------------------------------
(***************************************************************************)
(* What a keyed lock promises its callers (services/keyed_locks.py,        *)
(* "Serialize equal keys"): at any time at most one thread is inside the   *)
(* block guarded by a key, and only that thread leaves it.  How the lock   *)
(* object of a key is found, shared and thrown away does not appear here:  *)
(* KeyedLocks implements this module, and AlertDelivery takes its lineage  *)
(* lock from it.                                                           *)
(***************************************************************************)
CONSTANTS Keys, Threads, Nobody

VARIABLE owner      \* owner[k]: the thread inside hold(k), or Nobody

Free == owner = [k \in Keys |-> Nobody]

Acquire(t, k) == /\ owner[k] = Nobody
                 /\ owner' = [owner EXCEPT ![k] = t]

Release(t, k) == /\ owner[k] = t
                 /\ owner' = [owner EXCEPT ![k] = Nobody]

Next == \E t \in Threads, k \in Keys : Acquire(t, k) \/ Release(t, k)

Spec == Free /\ [][Next]_owner
===============================================================================
