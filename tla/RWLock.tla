------------------------------- MODULE RWLock -------------------------------
(***************************************************************************)
(* What kernel/mutex.h promises of a struct mutex: many readers or one     *)
(* writer.  No queue, no condition variable, no spinlock: a thread that    *)
(* waits, sleeps or is being woken takes stuttering steps here.  Mutex     *)
(* implements this specification.                                          *)
(***************************************************************************)

CONSTANT Threads        \* the OP-TEE threads that use the mutex

VARIABLES writers,      \* the threads that hold the mutex for writing
          readers       \* the threads that hold the mutex for reading

rwvars == <<writers, readers>>

RWInit == writers = {} /\ readers = {}

AcquireWrite(t) ==
    /\ writers = {} /\ readers = {}
    /\ writers' = {t}
    /\ UNCHANGED readers

AcquireRead(t) ==
    /\ writers = {} /\ t \notin readers
    /\ readers' = readers \cup {t}
    /\ UNCHANGED writers

ReleaseWrite(t) ==
    /\ t \in writers
    /\ writers' = writers \ {t}
    /\ UNCHANGED readers

ReleaseRead(t) ==
    /\ t \in readers
    /\ readers' = readers \ {t}
    /\ UNCHANGED writers

RWNext == \E t \in Threads :
    \/ AcquireWrite(t) \/ AcquireRead(t)
    \/ ReleaseWrite(t) \/ ReleaseRead(t)

RWSpec == RWInit /\ [][RWNext]_rwvars

=============================================================================
