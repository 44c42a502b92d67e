----------------------------- MODULE AtomicStore -----------------------------
(***************************************************************************)
(* What secure storage promises: a map from object names to contents that  *)
(* changes by whole operations only.  A crash, a failed operation and a    *)
(* write that is under way leave the map as it is.                         *)
(***************************************************************************)
CONSTANTS Names, Data, None

VARIABLE store

Init == store = [n \in Names |-> None]

\* Create an object, replace it, write to it or truncate it.
Put(n, d) == store' = [store EXCEPT ![n] = d]

Remove(n) == store[n] # None /\ store' = [store EXCEPT ![n] = None]

\* An object is never renamed onto another one.
Rename(m, n) ==
    /\ store[m] # None /\ store[n] = None
    /\ store' = [store EXCEPT ![m] = None, ![n] = store[m]]

\* An operation that gives name n another content.
Next == \E n \in Names :
            /\ store'[n] # store[n]
            /\ \/ Remove(n)
               \/ \E d \in Data : Put(n, d)
               \/ \E m \in Names : Rename(m, n)

Spec == Init /\ [][Next]_store
=============================================================================
