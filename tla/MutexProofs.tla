----------------------------- MODULE MutexProofs -----------------------------
(***************************************************************************)
(* What Mutex guarantees for any set of threads and condition variables:   *)
(* its types, that the state word counts the holders, that no panic() of   *)
(* mutex.c is reached, that only a signal ends a condition wait, that no   *)
(* wakeup is lost, that waiters are woken in order, and that it implements *)
(* RWLock.                                                                 *)
(*                                                                         *)
(* HoldersMatchState is not inductive by itself: __condvar_wait decides by *)
(* m->state which lock it gives back, and the waker's handle must be a     *)
(* thread, so PcInv records what a thread at each location holds.          *)
(* NoLostWakeup needs WakePcInv besides: who frees the mutex enters        *)
(* wq_wake_next with fresh locals, who promotes condvar waiters holds it.  *)
(***************************************************************************)
EXTENDS Mutex, FiniteSetTheorems, SequenceTheorems, TLAPS

\* What a thread holds and wants at each location of the mutex code.
PcInv ==
    \A t \in Threads :
       /\ pc[t] = "cv_enqueue" => held[t] # "none"
       /\ pc[t] \in {"acquire", "sleep", "check"} =>
             held[t] = "none" /\ want[t] # "none"
       /\ pc[t] \in {"wake", "wake_rpc"} => held[t] = "none"
       /\ pc[t] = "wake_rpc" => wake[t].handle \in Threads

\* Every wqe, queued or not.
CvInv == \A t \in Threads : wqe[t].done => wqe[t].cv = NoCv

MInv == TypeOK /\ HoldersMatchState /\ PcInv /\ CvInv /\ NoPanic

-----------------------------------------------------------------------------

\* Every set of threads is finite, so Cardinality is defined on Readers and
\* counts one up or down when one reader comes or goes.
LEMMA CountReaders ==
    ASSUME NEW S \in SUBSET Threads, NEW t \in Threads
    PROVE  /\ Cardinality(S) \in Nat
           /\ Cardinality(S) = 0 <=> S = {}
           /\ t \notin S => Cardinality(S \cup {t}) = Cardinality(S) + 1
           /\ t \in S => Cardinality(S \ {t}) = Cardinality(S) - 1
<1>1. IsFiniteSet(S)
  BY MutexAssumption, FS_Subset
<1> QED
  BY <1>1, FS_CardinalityType, FS_EmptySet, FS_AddElement, FS_RemoveElement

\* A grant (lock, read_lock, the trylocks) keeps the state word in step with
\* the holders and is an acquire step of the abstract lock.
LEMMA GrantStep ==
    ASSUME TypeOK, HoldersMatchState,
           NEW t \in Threads, NEW mode \in {"read", "write"},
           held[t] = "none", CanLock(mode),
           mstate' = LockedState(mode),
           held' = [held EXCEPT ![t] = mode]
    PROVE  /\ HoldersMatchState'
           /\ mstate' \in Nat \cup {-1}
           /\ RW!AcquireWrite(t) \/ RW!AcquireRead(t)
<1>1. CASE mode = "write"
  <2>1. mstate = 0 /\ mstate' = -1
    BY <1>1 DEF CanLock, LockedState
  <2>2. Readers = {} /\ Writers = {}
    <3>1. Cardinality(Readers) = 0 <=> Readers = {}
      BY CountReaders DEF Readers
    <3> QED
      BY <2>1, <3>1 DEF HoldersMatchState
  <2>3. Readers' = {} /\ Writers' = {t}
    BY <1>1, <2>2 DEF Readers, Writers, TypeOK
  <2> QED
    BY <2>1, <2>2, <2>3 DEF HoldersMatchState, RW!AcquireWrite
<1>2. CASE mode = "read"
  <2>1. mstate # -1 /\ mstate' = mstate + 1
    BY <1>2 DEF CanLock, LockedState
  <2>2. mstate = Cardinality(Readers) /\ Writers = {} /\ t \notin Readers
    BY <2>1 DEF HoldersMatchState, Readers
  <2>3. Readers' = Readers \cup {t} /\ Writers' = {}
    BY <1>2, <2>2 DEF Readers, Writers, TypeOK
  <2>4. mstate' = Cardinality(Readers') /\ mstate' \in Nat
    <3>1. /\ Cardinality(Readers) \in Nat
          /\ Cardinality(Readers \cup {t}) = Cardinality(Readers) + 1
      BY <2>2, CountReaders DEF Readers
    <3> QED
      BY <2>1, <2>2, <2>3, <3>1
  <2> QED
    BY <2>2, <2>3, <2>4 DEF HoldersMatchState, RW!AcquireRead
<1> QED
  BY <1>1, <1>2

\* Giving one lock back (the unlocks and __condvar_wait): the state word
\* tells which kind of lock the caller has, and is never 0 then.
LEMMA GiveBackStep ==
    ASSUME TypeOK, HoldersMatchState,
           NEW t \in Threads, held[t] # "none",
           mstate' = IF held[t] = "write" THEN 0 ELSE mstate - 1,
           held' = [held EXCEPT ![t] = "none"]
    PROVE  /\ HoldersMatchState'
           /\ mstate' \in Nat \cup {-1}
           /\ held[t] = "write" => mstate = -1
           /\ held[t] = "read" => mstate > 0
           /\ RW!ReleaseWrite(t) \/ RW!ReleaseRead(t)
<1>1. CASE held[t] = "write"
  <2>1. mstate = -1 /\ Readers = {} /\ Writers = {t}
    BY <1>1 DEF HoldersMatchState, Writers
  <2>2. Readers' = {} /\ Writers' = {}
    BY <2>1 DEF Readers, Writers, TypeOK
  <2>3. mstate' = 0 /\ Cardinality({}) = 0
    BY <1>1, FS_EmptySet
  <2> QED
    BY <1>1, <2>1, <2>2, <2>3 DEF HoldersMatchState, RW!ReleaseWrite
<1>2. CASE held[t] = "read"
  <2>1. t \in Readers /\ Writers = {} /\ mstate = Cardinality(Readers)
    BY <1>2 DEF HoldersMatchState, Readers
  <2>2. Readers' = Readers \ {t} /\ Writers' = {}
    BY <2>1 DEF Readers, Writers, TypeOK
  <2>3. /\ mstate' = Cardinality(Readers')
        /\ mstate' \in Nat /\ mstate > 0
    <3>1. Readers \in SUBSET Threads /\ Readers' \in SUBSET Threads
      BY DEF Readers
    <3>2. Cardinality(Readers) \in Nat /\ Cardinality(Readers') \in Nat
      BY <3>1, CountReaders
    <3>3. Cardinality(Readers') = Cardinality(Readers) - 1
      BY <2>1, <2>2, <3>1, CountReaders
    <3> QED
      BY <1>2, <2>1, <3>2, <3>3
  <2> QED
    BY <1>2, <2>1, <2>2, <2>3 DEF HoldersMatchState, RW!ReleaseRead
<1> QED
  BY <1>1, <1>2 DEF TypeOK, Modes

-----------------------------------------------------------------------------

\* The locals and the queue keep their types when a wqe is queued.
LEMMA WaitInitStep ==
    ASSUME TypeOK, CvInv, NEW t \in Threads, NEW r \in BOOLEAN,
           NEW c \in Condvars \cup {NoCv}, WaitInit(t, r, c)
    PROVE  wqe' \in [Threads -> WaitQueueElem] /\ wq' \in Seq(Threads) /\ CvInv'
  BY DEF WaitInit, FreshElem, TypeOK, WaitQueueElem, CvInv

\* The state after start-up satisfies the invariant.
LEMMA InitMInv == Init => MInv
<1> SUFFICES ASSUME Init PROVE MInv
  OBVIOUS
<1>1. TypeOK
  <2>1. wqe \in [Threads -> WaitQueueElem]
    BY DEF Init, FreshElem, WaitQueueElem
  <2>2. wake \in [Threads -> WakeLocals]
    BY DEF Init, NoWake, WakeLocals
  <2>3. wq \in Seq(Threads) /\ onlyOne \in [Threads -> BOOLEAN]
    BY DEF Init
  <2> QED
    BY <2>1, <2>2, <2>3 DEF Init, TypeOK, PCs, Modes
<1>2. HoldersMatchState
  BY FS_EmptySet DEF Init, HoldersMatchState, Readers, Writers
<1> QED
  BY <1>1, <1>2 DEF Init, MInv, PcInv, CvInv, NoPanic, FreshElem

\* Every step of every thread keeps the invariant.
LEMMA NextMInv == MInv /\ [Next]_vars => MInv' /\ [RW!RWNext]_(RW!rwvars)
<1> SUFFICES ASSUME MInv, [Next]_vars
             PROVE  MInv' /\ [RW!RWNext]_(RW!rwvars)
  OBVIOUS
<1> USE DEF MInv
<1> DEFINE Stays == Readers' = Readers /\ Writers' = Writers
\* A step that moves neither the state word nor a holder.
<1>0. ASSUME mstate' = mstate, held' = held
      PROVE  HoldersMatchState' /\ Stays
  BY <1>0 DEF HoldersMatchState, Readers, Writers
<1>st. ASSUME Stays PROVE UNCHANGED RW!rwvars
  BY <1>st DEF RW!rwvars
<1>1. ASSUME NEW t \in Threads, CallLock(t) PROVE MInv' /\ Stays
  <2>1. TypeOK'
    BY <1>1 DEF CallLock, TypeOK, PCs, Modes
  <2>2. PcInv' /\ CvInv' /\ NoPanic'
    BY <1>1 DEF CallLock, TypeOK, PcInv, CvInv, NoPanic
  <2> QED
    BY <1>0, <1>1, <2>1, <2>2 DEF CallLock
<1>2. ASSUME NEW t \in Threads, AcquireGranted(t)
      PROVE  MInv' /\ [RW!RWNext]_(RW!rwvars)
  <2>1. want[t] \in {"read", "write"} /\ held[t] = "none"
    BY <1>2 DEF AcquireGranted, PcInv, TypeOK, Modes
  <2>2. /\ HoldersMatchState' /\ mstate' \in Nat \cup {-1}
        /\ RW!AcquireWrite(t) \/ RW!AcquireRead(t)
    BY <1>2, <2>1, GrantStep DEF AcquireGranted
  <2>3. TypeOK'
    BY <1>2, <2>2 DEF AcquireGranted, TypeOK, PCs, Modes
  <2>4. PcInv' /\ CvInv' /\ NoPanic'
    BY <1>2 DEF AcquireGranted, TypeOK, PcInv, CvInv, NoPanic
  <2> QED
    BY <2>2, <2>3, <2>4 DEF RW!RWNext
<1>3. ASSUME NEW t \in Threads, AcquireBlocked(t) PROVE MInv' /\ Stays
  <2>1. wqe' \in [Threads -> WaitQueueElem] /\ wq' \in Seq(Threads) /\ CvInv'
    BY <1>3, WaitInitStep DEF AcquireBlocked
  <2>2. TypeOK'
    BY <1>3, <2>1 DEF AcquireBlocked, TypeOK, PCs
  <2>3. PcInv' /\ NoPanic'
    BY <1>3 DEF AcquireBlocked, TypeOK, PcInv, NoPanic
  <2> QED
    BY <1>0, <1>3, <2>1, <2>2, <2>3 DEF AcquireBlocked
<1>4. ASSUME NEW t \in Threads, TryLock(t)
      PROVE  MInv' /\ [RW!RWNext]_(RW!rwvars)
  <2> PICK mode \in {"read", "write"} :
             CanLock(mode) /\ mstate' = LockedState(mode)
             /\ held' = [held EXCEPT ![t] = mode]
    BY <1>4 DEF TryLock
  <2>1. pc[t] = "idle" /\ held[t] = "none"
    BY <1>4 DEF TryLock
  <2>2. /\ HoldersMatchState' /\ mstate' \in Nat \cup {-1}
        /\ RW!AcquireWrite(t) \/ RW!AcquireRead(t)
    BY <2>1, GrantStep
  <2>3. TypeOK'
    BY <1>4, <2>2 DEF TryLock, TypeOK, Modes
  <2>4. PcInv' /\ CvInv' /\ NoPanic'
    BY <1>4, <2>1 DEF TryLock, TypeOK, PcInv, CvInv, NoPanic
  <2> QED
    BY <2>2, <2>3, <2>4 DEF RW!RWNext
<1>5. ASSUME NEW t \in Threads, Release(t)
      PROVE  MInv' /\ [RW!RWNext]_(RW!rwvars)
  <2>1. /\ pc[t] = "idle" /\ held[t] # "none"
        /\ mstate' = IF held[t] = "write" THEN 0 ELSE mstate - 1
        /\ held' = [held EXCEPT ![t] = "none"]
    BY <1>5 DEF Release, Unlock, ReadUnlock
  <2>2. /\ HoldersMatchState' /\ mstate' \in Nat \cup {-1}
        /\ held[t] = "write" => mstate = -1
        /\ held[t] = "read" => mstate > 0
        /\ RW!ReleaseWrite(t) \/ RW!ReleaseRead(t)
    BY <2>1, GiveBackStep
  <2>3. panicked' = FALSE
    BY <1>5, <2>2 DEF Release, Unlock, ReadUnlock, NoPanic, TypeOK
  <2>4. TypeOK'
    BY <1>5, <2>2, <2>3 DEF Release, Unlock, ReadUnlock, TypeOK, PCs, Modes
  <2>5. PcInv' /\ CvInv' /\ NoPanic'
    BY <1>5, <2>1, <2>3
    DEF Release, Unlock, ReadUnlock, TypeOK, PcInv, CvInv, NoPanic
  <2> QED
    BY <2>2, <2>4, <2>5 DEF RW!RWNext
<1>6. ASSUME NEW t \in Threads, WakeNone(t) PROVE MInv' /\ Stays
  <2>1. TypeOK'
    BY <1>6 DEF WakeNone, AfterWake, NoWake, TypeOK, WakeLocals, PCs
  <2>2. PcInv' /\ CvInv' /\ NoPanic'
    BY <1>6 DEF WakeNone, AfterWake, TypeOK, PcInv, CvInv, NoPanic
  <2> QED
    BY <1>0, <1>6, <2>1, <2>2 DEF WakeNone
<1>7. ASSUME NEW t \in Threads, WakeOne(t) PROVE MInv' /\ Stays
  <2> PICK i \in Eligible(t) :
        /\ wqe' = [wqe EXCEPT ![wq[i]].done = TRUE]
        /\ wake' = [wake EXCEPT ![t] = [assigned |-> TRUE,
                                        wake_read |-> wqe[wq[i]].wait_read,
                                        handle |-> wq[i]]]
    BY <1>7 DEF WakeOne
  <2>1. wq[i] \in Threads /\ wqe[wq[i]].cv = NoCv
    BY DEF Eligible, TypeOK
  <2>2. TypeOK'
    <3>1. wqe' \in [Threads -> WaitQueueElem]
      <4>1. wqe[wq[i]] \in WaitQueueElem
        BY <2>1 DEF TypeOK
      <4>2. [wqe[wq[i]] EXCEPT !.done = TRUE] \in WaitQueueElem
        BY <4>1 DEF WaitQueueElem
      <4> QED
        BY <2>1, <4>2 DEF TypeOK
    <3>2. wake' \in [Threads -> WakeLocals]
      BY <2>1 DEF TypeOK, WakeLocals, WaitQueueElem
    <3> QED
      BY <1>7, <3>1, <3>2 DEF WakeOne, TypeOK, PCs
  <2>3. CvInv'
    BY <2>1 DEF TypeOK, CvInv, WaitQueueElem
  <2>4. PcInv' /\ NoPanic'
    BY <1>7, <2>1 DEF WakeOne, TypeOK, PcInv, NoPanic
  <2> QED
    BY <1>0, <1>7, <2>2, <2>3, <2>4 DEF WakeOne
<1>8. ASSUME NEW t \in Threads, WakeRpc(t) PROVE MInv' /\ Stays
  <2>1. wake[t].handle \in Threads /\ wake[t].wake_read \in BOOLEAN
    BY <1>8 DEF WakeRpc, PcInv, TypeOK, WakeLocals
  <2>2. wake' \in [Threads -> WakeLocals]
    <3>1. NoWake \in WakeLocals
      BY DEF NoWake, WakeLocals
    <3>2. [wake[t] EXCEPT !.handle = NoThread] \in WakeLocals
      BY DEF TypeOK, WakeLocals
    <3> QED
      BY <1>8, <3>1, <3>2 DEF WakeRpc, TypeOK
  <2>0. rpcWake' \subseteq Threads
    BY <1>8, <2>1 DEF WakeRpc, TypeOK
  <2>3. TypeOK'
    BY <1>8, <2>0, <2>1, <2>2 DEF WakeRpc, AfterWake, TypeOK, PCs
  <2>4. PcInv' /\ CvInv' /\ NoPanic'
    BY <1>8 DEF WakeRpc, AfterWake, TypeOK, PcInv, CvInv, NoPanic
  <2> QED
    BY <1>0, <1>8, <2>3, <2>4 DEF WakeRpc
<1>9. ASSUME NEW t \in Threads, SleepWoken(t) \/ SleepReturnsEarly(t)
      PROVE  MInv' /\ Stays
  <2>1. TypeOK'
    BY <1>9 DEF SleepWoken, SleepReturnsEarly, TypeOK, PCs
  <2>2. PcInv' /\ CvInv' /\ NoPanic'
    BY <1>9 DEF SleepWoken, SleepReturnsEarly, TypeOK, PcInv, CvInv, NoPanic
  <2> QED
    BY <1>0, <1>9, <2>1, <2>2 DEF SleepWoken, SleepReturnsEarly
<1>10. ASSUME NEW t \in Threads, CheckDone(t) PROVE MInv' /\ Stays
  <2>1. \A i \in 1..Len(wq) : Remove(i) \in Seq(Threads)
    BY SubSeqProperties, ConcatProperties DEF Remove, TypeOK
  <2>2. TypeOK'
    BY <1>10, <2>1 DEF CheckDone, TypeOK, PCs
  <2>3. PcInv' /\ CvInv' /\ NoPanic'
    BY <1>10 DEF CheckDone, TypeOK, PcInv, CvInv, NoPanic
  <2> QED
    BY <1>0, <1>10, <2>2, <2>3 DEF CheckDone
<1>11. ASSUME NEW t \in Threads, CondvarWait(t) \/ CondvarSignal(t)
       PROVE  MInv' /\ Stays
  <2>1. TypeOK'
    BY <1>11 DEF CondvarWait, CondvarSignal, TypeOK, PCs
  <2>2. PcInv' /\ CvInv' /\ NoPanic'
    BY <1>11 DEF CondvarWait, CondvarSignal, TypeOK, PcInv, CvInv, NoPanic
  <2> QED
    BY <1>0, <1>11, <2>1, <2>2 DEF CondvarWait, CondvarSignal
<1>12. ASSUME NEW t \in Threads, CondvarEnqueue(t)
       PROVE  MInv' /\ [RW!RWNext]_(RW!rwvars)
  <2>1. held[t] # "none" /\ held' = [held EXCEPT ![t] = "none"]
    BY <1>12 DEF CondvarEnqueue, PcInv
  <2>2. mstate' = IF held[t] = "write" THEN 0 ELSE mstate - 1
    <3>1. mstate' = IF mstate > 1 THEN mstate - 1 ELSE 0
      BY <1>12 DEF CondvarEnqueue, CondvarState
    <3>2. CASE held[t] = "write"
      <4>1. mstate = -1
        BY <3>2 DEF HoldersMatchState, Writers
      <4> QED
        BY <3>1, <3>2, <4>1
    <3>3. CASE held[t] = "read"
      <4>1. mstate = Cardinality(Readers) /\ Readers # {}
        BY <3>3 DEF HoldersMatchState, Readers
      <4>2. Cardinality(Readers) \in Nat \ {0}
        BY <4>1, CountReaders DEF Readers
      <4> QED
        BY <3>1, <3>3, <4>1, <4>2
    <3> QED
      BY <2>1, <3>2, <3>3 DEF TypeOK, Modes
  <2>3. /\ HoldersMatchState' /\ mstate' \in Nat \cup {-1}
        /\ mstate # 0
        /\ RW!ReleaseWrite(t) \/ RW!ReleaseRead(t)
    <3>1. held[t] = "write" \/ held[t] = "read"
      BY <2>1 DEF TypeOK, Modes
    <3>2. /\ HoldersMatchState' /\ mstate' \in Nat \cup {-1}
          /\ held[t] = "write" => mstate = -1
          /\ held[t] = "read" => mstate > 0
          /\ RW!ReleaseWrite(t) \/ RW!ReleaseRead(t)
      BY <2>1, <2>2, GiveBackStep
    <3> QED
      BY <3>1, <3>2
  <2>4. wqe' \in [Threads -> WaitQueueElem] /\ wq' \in Seq(Threads) /\ CvInv'
    <3>1. (mstate > 0) \in BOOLEAN /\ cvarg[t] \in Condvars \cup {NoCv}
      BY DEF TypeOK
    <3>2. WaitInit(t, mstate > 0, cvarg[t])
      BY <1>12 DEF CondvarEnqueue
    <3> QED
      BY <3>1, <3>2, WaitInitStep
  <2>5. panicked' = FALSE
    BY <1>12, <2>3 DEF CondvarEnqueue, NoPanic, TypeOK
  <2>6. TypeOK'
    BY <1>12, <2>3, <2>4, <2>5 DEF CondvarEnqueue, TypeOK, PCs, Modes
  <2>7. PcInv' /\ NoPanic'
    BY <1>12, <2>5 DEF CondvarEnqueue, TypeOK, PcInv, NoPanic
  <2> QED
    BY <2>3, <2>4, <2>6, <2>7 DEF RW!RWNext
<1>13. ASSUME NEW t \in Threads, Promote(t) PROVE MInv' /\ Stays
  <2>1. wqe' \in [Threads -> WaitQueueElem] /\ CvInv'
    BY <1>13 DEF Promote, TypeOK, WaitQueueElem, CvInv
  <2>2. TypeOK'
    BY <1>13, <2>1 DEF Promote, TypeOK, PCs
  <2>3. PcInv' /\ NoPanic'
    BY <1>13 DEF Promote, TypeOK, PcInv, NoPanic
  <2> QED
    BY <1>0, <1>13, <2>1, <2>2, <2>3 DEF Promote
<1>14. ASSUME NEW t \in Threads, CondvarDestroy(t) PROVE MInv' /\ Stays
  <2>1. TypeOK'
    BY <1>14 DEF CondvarDestroy, TypeOK
  <2>2. PcInv' /\ CvInv' /\ NoPanic'
    BY <1>14 DEF CondvarDestroy, TypeOK, PcInv, CvInv, NoPanic
  <2> QED
    BY <1>0, <1>14, <2>1, <2>2 DEF CondvarDestroy
<1>15. ASSUME UNCHANGED vars PROVE MInv' /\ Stays
  <2>1. TypeOK' /\ PcInv' /\ CvInv' /\ NoPanic'
    BY <1>15 DEF vars, TypeOK, PcInv, CvInv, NoPanic
  <2> QED
    BY <1>0, <1>15, <2>1 DEF vars
<1> QED
  BY <1>st, <1>1, <1>2, <1>3, <1>4, <1>5, <1>6, <1>7, <1>8, <1>9, <1>10,
     <1>11, <1>12, <1>13, <1>14, <1>15 DEF Next, Internal, Client

-----------------------------------------------------------------------------

\* The invariant holds in every reachable state.
THEOREM Invariance == Spec => []MInv
<1>1. MInv /\ [Next]_vars => MInv'
  BY NextMInv
<1> QED
  BY InitMInv, <1>1, PTL DEF Spec

\* Every variable of the mutex model keeps its type.
THEOREM TypeCorrect == Spec => []TypeOK
<1>1. MInv => TypeOK
  BY DEF MInv
<1> QED
  BY Invariance, <1>1, PTL

\* m->state counts the holders in every reachable state, for any number of
\* threads and condition variables.
THEOREM HoldersCounted == Spec => []HoldersMatchState
<1>1. MInv => HoldersMatchState
  BY DEF MInv
<1> QED
  BY Invariance, <1>1, PTL

\* No panic() of the unlock functions or of __condvar_wait is reached.
THEOREM NeverPanics == Spec => []NoPanic
<1>1. MInv => NoPanic
  BY DEF MInv
<1> QED
  BY Invariance, <1>1, PTL

\* wq_wake_next never ends the wait of a thread that waits for a signal.
THEOREM OnlySignalsWakeCondvars == Spec => []NoSpuriousCondvarWakeup
<1>1. MInv => NoSpuriousCondvarWakeup
  BY DEF MInv, CvInv, NoSpuriousCondvarWakeup, Queued, TypeOK
<1> QED
  BY Invariance, <1>1, PTL

\* The mutex, its wait queue and its condition variables implement the
\* readers-writer lock: the acquire and release steps map to the steps of
\* RWLock, every other step stutters.
THEOREM Refinement == Spec => ImplementsRWLock
<1>1. Init => RW!RWInit
  BY DEF Init, RW!RWInit, Readers, Writers
<1>2. MInv /\ [Next]_vars => [RW!RWNext]_(RW!rwvars)
  BY NextMInv
<1> QED
  BY Invariance, <1>1, <1>2, PTL DEF Spec, ImplementsRWLock, RW!RWSpec

-----------------------------------------------------------------------------
(* The queue: nobody sleeps on a free mutex, and writers are woken in      *)
(* order.                                                                  *)

\* What wq_wake_next and the queue need to know of each location.
WakePcInv ==
    \A t \in Threads :
       /\ pc[t] \in {"idle", "cv_enqueue", "promote"} => want[t] = "none"
       /\ pc[t] = "promote" => held[t] # "none"
       /\ pc[t] \notin {"wake", "wake_rpc"} => wake[t] = NoWake
       /\ pc[t] = "wake" /\ wake[t].assigned => wake[t].wake_read

\* The second half of NoLostWakeup.
WakeupComing ==
    (mstate = 0 /\ \E t \in Threads : Active(t)) =>
       \E t \in Threads : \/ pc[t] = "wake" /\ Eligible(t) # {}
                          \/ t \in Queued /\ wqe[t].done
                          \/ pc[t] = "acquire"

\* A thread whose wqe must be queued.
InWait(t) == \/ pc[t] \in {"sleep", "check"}
             \/ pc[t] \in {"wake", "wake_rpc"} /\ want[t] # "none"

\* A queue holds no thread twice.
NoRepeat == \A i, j \in 1..Len(wq) : wq[i] = wq[j] => i = j

WInv == WakePcInv /\ QueueMatchesWaiters /\ WakeupComing

\* wq_wait_init adds the thread last: the queue gains it and nobody moves.
LEMMA AppendToQueue ==
    ASSUME wq \in Seq(Threads), NEW t \in Threads, wq' = Append(wq, t)
    PROVE  /\ Len(wq) \in Nat /\ Len(wq') = Len(wq) + 1
           /\ \A i \in 1..Len(wq) : wq'[i] = wq[i]
           /\ wq'[Len(wq) + 1] = t
           /\ Queued' = Queued \cup {t}
<1>1. /\ Len(wq) \in Nat /\ Len(wq') = Len(wq) + 1
      /\ \A i \in 1..Len(wq) : wq'[i] = wq[i]
      /\ wq'[Len(wq) + 1] = t
  BY AppendProperties
<1> HIDE DEF Queued
<1>2. ASSUME NEW u \in Queued' PROVE u \in Queued \cup {t}
  <2> PICK i \in 1..Len(wq') : u = wq'[i]
    BY DEF Queued
  <2> QED
    BY <1>1 DEF Queued
<1>3. ASSUME NEW u \in Queued \cup {t} PROVE u \in Queued'
  <2>1. CASE u = t
    BY <1>1, <2>1 DEF Queued
  <2>2. CASE u \in Queued
    <3> PICK i \in 1..Len(wq) : u = wq[i]
      BY <2>2 DEF Queued
    <3>1. i \in 1..Len(wq') /\ u = wq'[i]
      BY <1>1
    <3> QED
      BY <3>1 DEF Queued
  <2> QED
    BY <2>1, <2>2
<1> QED
  BY <1>1, <1>2, <1>3

\* wq_wait_final takes exactly its own element out.
LEMMA RemoveFromQueue ==
    ASSUME wq \in Seq(Threads), NoRepeat,
           NEW k \in 1..Len(wq), wq' = Remove(k)
    PROVE  NoRepeat' /\ Queued' = Queued \ {wq[k]}
<1> DEFINE n == Len(wq)
           a == SubSeq(wq, 1, k - 1)
           b == SubSeq(wq, k + 1, n)
           At(i) == IF i < k THEN i ELSE i + 1
<1>1. n \in Nat /\ k \in Int /\ \A i \in 1..n : wq[i] \in Threads
  BY LenProperties, ElementOfSeq
<1>2. /\ a \in Seq(Threads) /\ Len(a) = k - 1
      /\ \A i \in 1..(k - 1) : a[i] = wq[i]
  <2>1. 1 \in Int /\ k - 1 \in Int /\ \A i \in 1..(k - 1) : wq[i] \in Threads
    BY <1>1
  <2>2. /\ a \in Seq(Threads)
        /\ Len(a) = IF 1 <= k - 1 THEN (k - 1) - 1 + 1 ELSE 0
        /\ \A i \in 1..((k - 1) - 1 + 1) : a[i] = wq[1 + i - 1]
    BY ONLY <2>1, SubSeqProperties
  <2> HIDE DEF a
  <2> QED
    BY <1>1, <2>2
<1>3. /\ b \in Seq(Threads) /\ Len(b) = n - k
      /\ \A i \in 1..(n - k) : b[i] = wq[k + i]
  <2>1. k + 1 \in Int /\ n \in Int /\ \A i \in (k + 1)..n : wq[i] \in Threads
    BY <1>1
  <2>2. /\ b \in Seq(Threads)
        /\ Len(b) = IF k + 1 <= n THEN n - (k + 1) + 1 ELSE 0
        /\ \A i \in 1..(n - (k + 1) + 1) : b[i] = wq[(k + 1) + i - 1]
    BY ONLY <2>1, SubSeqProperties
  <2> HIDE DEF b
  <2> QED
    BY <1>1, <2>2
<1>4. /\ Len(wq') = n - 1
      /\ \A i \in 1..(n - 1) : wq'[i] = wq[At(i)] /\ At(i) \in 1..n /\ At(i) # k
  <2>1. wq' = a \o b
    BY DEF Remove
  <2>2. /\ Len(a \o b) = Len(a) + Len(b)
        /\ \A i \in 1..(Len(a) + Len(b)) :
              (a \o b)[i] = IF i <= Len(a) THEN a[i] ELSE b[i - Len(a)]
    BY <1>2, <1>3, ConcatProperties
  <2> HIDE DEF a, b
  <2> QED
    BY <1>1, <1>2, <1>3, <2>1, <2>2
<1> HIDE DEF a, b
<1>5. NoRepeat'
  <2> SUFFICES ASSUME NEW i \in 1..(n - 1), NEW j \in 1..(n - 1), wq'[i] = wq'[j]
               PROVE  i = j
    BY <1>4 DEF NoRepeat
  <2>1. At(i) = At(j)
    BY <1>4 DEF NoRepeat
  <2> QED
    BY <1>1, <2>1
<1>6. ASSUME NEW u \in Queued' PROVE u \in Queued \ {wq[k]}
  <2> PICK i \in 1..(n - 1) : u = wq'[i]
    BY <1>4 DEF Queued
  <2>1. u = wq[At(i)] /\ At(i) \in 1..n /\ At(i) # k
    BY <1>4
  <2> QED
    BY <2>1 DEF Queued, NoRepeat
<1>7. ASSUME NEW u \in Queued, u # wq[k] PROVE u \in Queued'
  <2> PICK i \in 1..n : u = wq[i]
    BY DEF Queued
  <2> DEFINE j == IF i < k THEN i ELSE i - 1
  <2>1. j \in 1..(n - 1) /\ At(j) = i
    BY <1>1, <1>7
  <2>2. u = wq'[j]
    BY <1>4, <2>1
  <2> QED
    BY <1>4, <2>1, <2>2 DEF Queued
<1> QED
  BY <1>5, <1>6, <1>7

\* A step that leaves the queue alone and moves nobody in or out of a wait.
LEMMA QueueKept ==
    ASSUME QueueMatchesWaiters, wq' = wq,
           \A t \in Threads : InWait(t)' <=> InWait(t)
    PROVE  QueueMatchesWaiters'
  BY DEF QueueMatchesWaiters, InWait, Queued

\* The thread that queues itself was not in the queue and is waiting now.
LEMMA QueueJoined ==
    ASSUME QueueMatchesWaiters, wq \in Seq(Threads), NEW t \in Threads,
           wq' = Append(wq, t), ~InWait(t), InWait(t)',
           \A u \in Threads \ {t} : InWait(u)' <=> InWait(u)
    PROVE  QueueMatchesWaiters'
<1>1. /\ Len(wq) \in Nat /\ Len(wq') = Len(wq) + 1
      /\ \A i \in 1..Len(wq) : wq'[i] = wq[i]
      /\ wq'[Len(wq) + 1] = t
      /\ Queued' = Queued \cup {t}
  BY AppendToQueue
<1>2. t \notin Queued
  BY DEF QueueMatchesWaiters, InWait
<1>3. NoRepeat'
  <2> SUFFICES ASSUME NEW i \in 1..Len(wq'), NEW j \in 1..Len(wq'),
                      wq'[i] = wq'[j]
               PROVE  i = j
    BY DEF NoRepeat
  <2>1. \A l \in 1..Len(wq) : wq[l] # t
    BY <1>2 DEF Queued
  <2> QED
    BY <1>1, <2>1 DEF QueueMatchesWaiters
<1> QED
  BY <1>1, <1>3 DEF QueueMatchesWaiters, InWait, NoRepeat

\* A step that leaves the queue, the elements and the state word alone, and
\* takes nobody out of "acquire" or of a loop of wq_wake_next that has work.
LEMMA WakeupKept ==
    ASSUME WakeupComing, mstate' = mstate, wq' = wq, wqe' = wqe,
           \A t \in Threads : pc[t] = "acquire" => pc'[t] = "acquire",
           \A t \in Threads : (pc[t] = "wake" /\ Eligible(t) # {}) =>
                                 pc'[t] = "wake" /\ wake'[t] = wake[t]
    PROVE  WakeupComing'
<1>1. Queued' = Queued /\ \A t \in Threads : Active(t)' <=> Active(t)
  BY DEF Queued, Active
<1>2. ASSUME NEW t \in Threads, wake'[t] = wake[t]
      PROVE  Eligible(t)' = Eligible(t)
  BY <1>2 DEF Eligible
<1> SUFFICES ASSUME mstate = 0, NEW u \in Threads, Active(u)
             PROVE  \E t \in Threads : \/ pc'[t] = "wake" /\ Eligible(t)' # {}
                                       \/ t \in Queued' /\ wqe'[t].done
                                       \/ pc'[t] = "acquire"
  BY <1>1 DEF WakeupComing
<1> PICK t \in Threads : \/ pc[t] = "wake" /\ Eligible(t) # {}
                         \/ t \in Queued /\ wqe[t].done
                         \/ pc[t] = "acquire"
  BY DEF WakeupComing
<1>3. CASE pc[t] = "wake" /\ Eligible(t) # {}
  BY <1>2, <1>3
<1>4. CASE t \in Queued /\ wqe[t].done
  BY <1>1, <1>4
<1>5. CASE pc[t] = "acquire"
  BY <1>5
<1> QED
  BY <1>3, <1>4, <1>5

\* Who frees the mutex enters wq_wake_next with fresh locals, so it finds
\* every active waiter.
LEMMA WakeupSent ==
    ASSUME NEW t \in Threads, pc'[t] = "wake", wake'[t] = NoWake
    PROVE  WakeupComing'
<1> SUFFICES ASSUME NEW u \in Threads, Active(u)'
             PROVE  Eligible(t)' # {}
  BY DEF WakeupComing
<1> PICK i \in 1..Len(wq') : u = wq'[i]
  BY DEF Active, Queued
<1>1. i \in Eligible(t)'
  BY DEF Active, Eligible, NoWake
<1> QED
  BY <1>1

\* The queue is empty and nobody wakes at start-up.
LEMMA InitWInv == Init => WInv
  BY DEF Init, WInv, WakePcInv, QueueMatchesWaiters, WakeupComing, Active,
         Queued, NoWake

\* Every step of every thread keeps the queue, and a wakeup on its way to it.
LEMMA NextWInv == MInv /\ WInv /\ [Next]_vars => WInv'
<1> SUFFICES ASSUME MInv, WInv, [Next]_vars PROVE WInv'
  OBVIOUS
<1> USE DEF WInv
<1>ty. /\ pc \in [Threads -> PCs] /\ held \in [Threads -> Modes]
       /\ want \in [Threads -> Modes] /\ wake \in [Threads -> WakeLocals]
       /\ wqe \in [Threads -> WaitQueueElem] /\ wq \in Seq(Threads)
       /\ mstate \in Nat \cup {-1}
  BY DEF MInv, TypeOK
<1>pc. PcInv
  BY DEF MInv
\* Holders and the state word.
<1>held. \A t \in Threads : held[t] # "none" => mstate # 0
  <2> TAKE t \in Threads
  <2>1. CASE held[t] = "write"
    BY <2>1 DEF MInv, HoldersMatchState, Writers
  <2>2. CASE held[t] = "read"
    <3>1. t \in Readers /\ Readers \in SUBSET Threads
      BY <2>2 DEF Readers
    <3>2. Cardinality(Readers) # 0
      BY <3>1, CountReaders
    <3> QED
      BY <3>1, <3>2 DEF MInv, HoldersMatchState
  <2> QED
    BY <1>ty, <2>1, <2>2 DEF Modes
<1>1. ASSUME NEW t \in Threads, CallLock(t) PROVE WInv'
  <2>1. WakePcInv'
    BY <1>1, <1>ty DEF CallLock, WakePcInv
  <2>2. QueueMatchesWaiters'
    <3>1. \A u \in Threads : InWait(u)' <=> InWait(u)
      BY <1>1, <1>ty DEF CallLock, InWait
    <3> QED
      BY <1>1, <3>1, QueueKept DEF CallLock
  <2>3. WakeupComing'
    BY <1>1, <1>ty DEF CallLock, WakeupComing
  <2> QED
    BY <2>1, <2>2, <2>3
<1>2. ASSUME NEW t \in Threads, AcquireGranted(t) PROVE WInv'
  <2>1. WakePcInv'
    BY <1>2, <1>ty DEF AcquireGranted, WakePcInv
  <2>2. QueueMatchesWaiters'
    <3>1. \A u \in Threads : InWait(u)' <=> InWait(u)
      BY <1>2, <1>ty DEF AcquireGranted, InWait
    <3> QED
      BY <1>2, <3>1, QueueKept DEF AcquireGranted
  <2>3. mstate' # 0
    BY <1>2, <1>ty DEF AcquireGranted, CanLock, LockedState
  <2> QED
    BY <2>1, <2>2, <2>3 DEF WakeupComing
<1>3. ASSUME NEW t \in Threads, AcquireBlocked(t) PROVE WInv'
  <2>1. WakePcInv'
    BY <1>3, <1>ty DEF AcquireBlocked, WakePcInv
  <2>2. QueueMatchesWaiters'
    <3>1. ~InWait(t) /\ InWait(t)'
      BY <1>3, <1>ty DEF AcquireBlocked, InWait
    <3>2. \A u \in Threads \ {t} : InWait(u)' <=> InWait(u)
      BY <1>3, <1>ty DEF AcquireBlocked, InWait
    <3> QED
      BY <1>3, <1>ty, <3>1, <3>2, QueueJoined DEF AcquireBlocked, WaitInit
  <2>3. mstate' # 0
    BY <1>3, <1>ty DEF AcquireBlocked, CanLock
  <2> QED
    BY <2>1, <2>2, <2>3 DEF WakeupComing
<1>4. ASSUME NEW t \in Threads, TryLock(t) PROVE WInv'
  <2>1. WakePcInv'
    BY <1>4, <1>ty DEF TryLock, WakePcInv
  <2>2. QueueMatchesWaiters'
    <3>1. \A u \in Threads : InWait(u)' <=> InWait(u)
      BY <1>4, <1>ty DEF TryLock, InWait
    <3> QED
      BY <1>4, <3>1, QueueKept DEF TryLock
  <2>3. mstate' # 0
    BY <1>4, <1>ty DEF TryLock, CanLock, LockedState
  <2> QED
    BY <2>1, <2>2, <2>3 DEF WakeupComing
<1>5. ASSUME NEW t \in Threads, Release(t) PROVE WInv'
  <2>0. /\ pc[t] = "idle" /\ want[t] = "none" /\ wake[t] = NoWake
        /\ wake' = wake /\ want' = want /\ wq' = wq
        /\ held' = [held EXCEPT ![t] = "none"]
        /\ \/ mstate' = 0 /\ pc' = [pc EXCEPT ![t] = "wake"]
           \/ mstate' # 0 /\ pc' = [pc EXCEPT ![t] = "idle"]
    BY <1>5, <1>ty DEF Release, Unlock, ReadUnlock, WakePcInv
  <2>1. WakePcInv'
    BY <2>0, <1>ty DEF WakePcInv, NoWake
  <2>2. QueueMatchesWaiters'
    <3>1. \A u \in Threads : InWait(u)' <=> InWait(u)
      BY <2>0, <1>ty DEF InWait
    <3> QED
      BY <2>0, <3>1, QueueKept
  <2>3. WakeupComing'
    <3>1. CASE mstate' # 0
      BY <3>1 DEF WakeupComing
    <3>2. CASE mstate' = 0
      <4>1. pc'[t] = "wake" /\ wake'[t] = NoWake
        BY <2>0, <3>2, <1>ty
      <4> QED
        BY <4>1, WakeupSent
    <3> QED
      BY <3>1, <3>2
  <2> QED
    BY <2>1, <2>2, <2>3
<1>6. ASSUME NEW t \in Threads, WakeNone(t) PROVE WInv'
  <2>0. pc'[t] = IF want[t] = "none" THEN "idle" ELSE "sleep"
    BY <1>6, <1>ty DEF WakeNone, AfterWake
  <2>1. WakePcInv'
    BY <1>6, <1>ty, <2>0 DEF WakeNone, WakePcInv
  <2>2. QueueMatchesWaiters'
    <3>1. \A u \in Threads : InWait(u)' <=> InWait(u)
      BY <1>6, <1>ty, <2>0 DEF WakeNone, InWait
    <3> QED
      BY <1>6, <3>1, QueueKept DEF WakeNone
  <2>3. WakeupComing'
    <3>1. \A u \in Threads : pc[u] = "acquire" => pc'[u] = "acquire"
      BY <1>6, <1>ty DEF WakeNone
    <3>2. \A u \in Threads : (pc[u] = "wake" /\ Eligible(u) # {}) =>
                                pc'[u] = "wake" /\ wake'[u] = wake[u]
      BY <1>6, <1>ty DEF WakeNone
    <3> QED
      BY <1>6, <3>1, <3>2, WakeupKept DEF WakeNone
  <2> QED
    BY <2>1, <2>2, <2>3
<1>7. ASSUME NEW t \in Threads, WakeOne(t) PROVE WInv'
  <2> PICK i \in Eligible(t) :
        /\ wqe' = [wqe EXCEPT ![wq[i]].done = TRUE]
        /\ wake' = [wake EXCEPT ![t] = [assigned |-> TRUE,
                                        wake_read |-> wqe[wq[i]].wait_read,
                                        handle |-> wq[i]]]
    BY <1>7 DEF WakeOne
  <2>1. WakePcInv'
    BY <1>7, <1>ty DEF WakeOne, WakePcInv
  <2>2. QueueMatchesWaiters'
    <3>1. \A u \in Threads : InWait(u)' <=> InWait(u)
      BY <1>7, <1>ty DEF WakeOne, InWait
    <3> QED
      BY <1>7, <3>1, QueueKept DEF WakeOne
  <2>3. WakeupComing'
    <3>1. i \in 1..Len(wq) /\ wq[i] \in Threads /\ wq' = wq
      BY <1>7, <1>ty, ElementOfSeq DEF Eligible, WakeOne
    <3>2. wq[i] \in Queued'
      BY <3>1 DEF Queued
    <3>3. wqe'[wq[i]].done
      BY <3>1, <1>ty DEF WaitQueueElem
    <3> QED
      BY <3>1, <3>2, <3>3 DEF WakeupComing
  <2> QED
    BY <2>1, <2>2, <2>3
<1>8. ASSUME NEW t \in Threads, WakeRpc(t) PROVE WInv'
  <2>1. WakePcInv'
    <3>1. wake[t] \in WakeLocals
      BY <1>ty
    <3>2. CASE wake[t].wake_read
      <4>1. /\ wake'[t] = [wake[t] EXCEPT !.handle = NoThread]
            /\ pc'[t] = "wake" /\ want' = want /\ held' = held
            /\ \A u \in Threads \ {t} : pc'[u] = pc[u] /\ wake'[u] = wake[u]
        BY <1>8, <3>2, <1>ty DEF WakeRpc
      <4>2. wake'[t].wake_read
        BY <3>1, <3>2, <4>1 DEF WakeLocals
      <4> QED
        BY <4>1, <4>2 DEF WakePcInv
    <3>3. CASE ~wake[t].wake_read
      <4>1. /\ wake'[t] = NoWake /\ want' = want /\ held' = held
            /\ pc'[t] = IF want[t] = "none" THEN "idle" ELSE "sleep"
            /\ \A u \in Threads \ {t} : pc'[u] = pc[u] /\ wake'[u] = wake[u]
        BY <1>8, <3>3, <1>ty DEF WakeRpc, AfterWake
      <4> QED
        BY <4>1 DEF WakePcInv
    <3> QED
      BY <3>2, <3>3
  <2>2. QueueMatchesWaiters'
    <3>1. \A u \in Threads : InWait(u)' <=> InWait(u)
      BY <1>8, <1>ty DEF WakeRpc, AfterWake, InWait
    <3> QED
      BY <1>8, <3>1, QueueKept DEF WakeRpc
  <2>3. WakeupComing'
    <3>1. \A u \in Threads : pc[u] = "acquire" => pc'[u] = "acquire"
      BY <1>8, <1>ty DEF WakeRpc
    <3>2. \A u \in Threads : (pc[u] = "wake" /\ Eligible(u) # {}) =>
                                pc'[u] = "wake" /\ wake'[u] = wake[u]
      BY <1>8, <1>ty DEF WakeRpc
    <3> QED
      BY <1>8, <3>1, <3>2, WakeupKept DEF WakeRpc
  <2> QED
    BY <2>1, <2>2, <2>3
<1>9. ASSUME NEW t \in Threads, SleepWoken(t) \/ SleepReturnsEarly(t)
      PROVE  WInv'
  <2>0. /\ pc[t] = "sleep" /\ pc' = [pc EXCEPT ![t] = "check"]
        /\ UNCHANGED <<mstate, wq, wqe, held, want, wake>>
    BY <1>9 DEF SleepWoken, SleepReturnsEarly
  <2>1. WakePcInv'
    BY <2>0, <1>ty DEF WakePcInv
  <2>2. QueueMatchesWaiters'
    <3>1. \A u \in Threads : InWait(u)' <=> InWait(u)
      BY <2>0, <1>ty DEF InWait
    <3> QED
      BY <2>0, <3>1, QueueKept
  <2>3. WakeupComing'
    <3>1. \A u \in Threads : pc[u] = "acquire" => pc'[u] = "acquire"
      BY <2>0, <1>ty
    <3>2. \A u \in Threads : (pc[u] = "wake" /\ Eligible(u) # {}) =>
                                pc'[u] = "wake" /\ wake'[u] = wake[u]
      BY <2>0, <1>ty
    <3> QED
      BY <2>0, <3>1, <3>2, WakeupKept
  <2> QED
    BY <2>1, <2>2, <2>3
<1>10. ASSUME NEW t \in Threads, CheckDone(t) PROVE WInv'
  <2>1. CASE wqe[t].done
    <3> PICK k \in 1..Len(wq) : wq[k] = t /\ wq' = Remove(k)
      BY <1>10, <2>1 DEF CheckDone
    <3>0. /\ pc[t] = "check" /\ pc' = [pc EXCEPT ![t] = "acquire"]
          /\ UNCHANGED <<mstate, held, want, wake>>
      BY <1>10, <2>1 DEF CheckDone
    <3>1. WakePcInv'
      BY <3>0, <1>ty DEF WakePcInv
    <3>2. NoRepeat' /\ Queued' = Queued \ {t}
      <4>1. NoRepeat
        BY DEF QueueMatchesWaiters, NoRepeat
      <4> QED
        BY <1>ty, <4>1, RemoveFromQueue
    <3>3. \A u \in Threads : InWait(u)' <=> (InWait(u) /\ u # t)
      BY <3>0, <1>ty DEF InWait
    <3>4. QueueMatchesWaiters'
      BY <3>2, <3>3 DEF QueueMatchesWaiters, NoRepeat, InWait
    <3>5. WakeupComing'
      BY <3>0, <1>ty DEF WakeupComing
    <3> QED
      BY <3>1, <3>4, <3>5
  <2>2. CASE ~wqe[t].done
    <3>0. /\ pc[t] = "check" /\ pc' = [pc EXCEPT ![t] = "sleep"]
          /\ UNCHANGED <<mstate, wq, wqe, held, want, wake>>
      BY <1>10, <2>2 DEF CheckDone
    <3>1. WakePcInv'
      BY <3>0, <1>ty DEF WakePcInv
    <3>2. \A u \in Threads : InWait(u)' <=> InWait(u)
      BY <3>0, <1>ty DEF InWait
    <3>3. \A u \in Threads : pc[u] = "acquire" => pc'[u] = "acquire"
      BY <3>0, <1>ty
    <3>4. \A u \in Threads : (pc[u] = "wake" /\ Eligible(u) # {}) =>
                                pc'[u] = "wake" /\ wake'[u] = wake[u]
      BY <3>0, <1>ty
    <3> QED
      BY <3>0, <3>1, <3>2, <3>3, <3>4, QueueKept, WakeupKept
  <2> QED
    BY <2>1, <2>2
<1>11. ASSUME NEW t \in Threads, CondvarWait(t) \/ CondvarSignal(t)
       PROVE  WInv'
  <2>0. /\ pc[t] = "idle" /\ held[t] # "none"
        /\ pc' = [pc EXCEPT ![t] = "cv_enqueue"]
           \/ pc' = [pc EXCEPT ![t] = "promote"]
        /\ UNCHANGED <<mstate, wq, wqe, held, want, wake>>
    BY <1>11 DEF CondvarWait, CondvarSignal
  <2>1. WakePcInv'
    BY <2>0, <1>ty DEF WakePcInv
  <2>2. \A u \in Threads : InWait(u)' <=> InWait(u)
    BY <2>0, <1>ty DEF InWait
  <2>3. mstate' # 0
    BY <2>0, <1>held
  <2> QED
    BY <2>0, <2>1, <2>2, <2>3, QueueKept DEF WakeupComing
<1>12. ASSUME NEW t \in Threads, CondvarEnqueue(t) PROVE WInv'
  <2>0. /\ pc[t] = "cv_enqueue" /\ wake[t] = NoWake /\ wake' = wake
        /\ wq' = Append(wq, t)
        /\ want' = [want EXCEPT ![t] = IF mstate > 0 THEN "read" ELSE "write"]
        /\ held' = [held EXCEPT ![t] = "none"]
        /\ pc' = [pc EXCEPT ![t] = IF mstate' = 0 THEN "wake" ELSE "sleep"]
    BY <1>12, <1>ty DEF CondvarEnqueue, WaitInit, WakePcInv
  <2>1. WakePcInv'
    BY <2>0, <1>ty DEF WakePcInv, NoWake
  <2>2. QueueMatchesWaiters'
    <3>1. ~InWait(t) /\ InWait(t)'
      BY <2>0, <1>ty DEF InWait
    <3>2. \A u \in Threads \ {t} : InWait(u)' <=> InWait(u)
      BY <2>0, <1>ty DEF InWait
    <3> QED
      BY <2>0, <1>ty, <3>1, <3>2, QueueJoined
  <2>3. WakeupComing'
    <3>1. CASE mstate' # 0
      BY <3>1 DEF WakeupComing
    <3>2. CASE mstate' = 0
      <4>1. pc'[t] = "wake" /\ wake'[t] = NoWake
        BY <2>0, <3>2, <1>ty
      <4> QED
        BY <4>1, WakeupSent
    <3> QED
      BY <3>1, <3>2
  <2> QED
    BY <2>1, <2>2, <2>3
<1>13. ASSUME NEW t \in Threads, Promote(t) PROVE WInv'
  <2>0. /\ pc[t] = "promote" /\ pc' = [pc EXCEPT ![t] = "idle"]
        /\ UNCHANGED <<mstate, wq, held, want, wake>>
    BY <1>13 DEF Promote
  <2>1. WakePcInv'
    BY <2>0, <1>ty DEF WakePcInv
  <2>2. \A u \in Threads : InWait(u)' <=> InWait(u)
    BY <2>0, <1>ty DEF InWait
  <2>3. mstate' # 0
    BY <2>0, <1>held DEF WakePcInv
  <2> QED
    BY <2>0, <2>1, <2>2, <2>3, QueueKept DEF WakeupComing
<1>14. ASSUME NEW t \in Threads, CondvarDestroy(t) PROVE WInv'
  <2>0. UNCHANGED <<mstate, wq, wqe, pc, held, want, wake>>
    BY <1>14 DEF CondvarDestroy
  <2> QED
    BY <2>0, QueueKept, WakeupKept DEF WakePcInv, InWait
<1>15. ASSUME UNCHANGED vars PROVE WInv'
  <2>0. UNCHANGED <<mstate, wq, wqe, pc, held, want, wake>>
    BY <1>15 DEF vars
  <2> QED
    BY <2>0, QueueKept, WakeupKept DEF WakePcInv, InWait
<1> QED
  BY <1>1, <1>2, <1>3, <1>4, <1>5, <1>6, <1>7, <1>8, <1>9, <1>10,
     <1>11, <1>12, <1>13, <1>14, <1>15 DEF Next, Internal, Client

\* The step that marks wqe i done overtakes no older active waiter unless it
\* wakes a reader, and every new waiter queues behind those that wait.
LEMMA NextInOrder ==
    ASSUME MInv, WInv, [Next]_vars
    PROVE  /\ \A t \in Queued, u \in Queued' \ Queued :
                 t \in Queued' => \E i, j \in 1..Len(wq') :
                                      i < j /\ wq'[i] = t /\ wq'[j] = u
           /\ \A i \in 1..Len(wq) :
                 (~wqe[wq[i]].done /\ wqe'[wq[i]].done /\ ~wqe[wq[i]].wait_read)
                    => \A j \in 1..(i - 1) : ~Active(wq[j])
<1> DEFINE
      Joins == \A t \in Queued, u \in Queued' \ Queued :
                  t \in Queued' => \E i, j \in 1..Len(wq') :
                                       i < j /\ wq'[i] = t /\ wq'[j] = u
      Wakes(i) == (~wqe[wq[i]].done /\ wqe'[wq[i]].done /\ ~wqe[wq[i]].wait_read)
                    => \A j \in 1..(i - 1) : ~Active(wq[j])
<1>ty. /\ wake \in [Threads -> WakeLocals]
       /\ wqe \in [Threads -> WaitQueueElem] /\ wq \in Seq(Threads)
  BY DEF MInv, TypeOK
<1>in. \A i \in 1..Len(wq) : wq[i] \in Threads
  BY <1>ty, ElementOfSeq
<1>len. Len(wq) \in Nat
  BY <1>ty, LenProperties
\* A thread joins at the tail.
<1>1. ASSUME NEW t \in Threads, NEW r, NEW c, WaitInit(t, r, c)
      PROVE  Joins /\ \A i \in 1..Len(wq) : Wakes(i)
  <2>1. /\ Len(wq') = Len(wq) + 1
        /\ \A i \in 1..Len(wq) : wq'[i] = wq[i]
        /\ wq'[Len(wq) + 1] = t
        /\ Queued' = Queued \cup {t}
    BY <1>1, <1>ty, AppendToQueue DEF WaitInit
  <2>2. Joins
    <3> SUFFICES ASSUME NEW v \in Queued, NEW u \in Queued' \ Queued
                 PROVE  \E i, j \in 1..Len(wq') :
                            i < j /\ wq'[i] = v /\ wq'[j] = u
      OBVIOUS
    <3> PICK i \in 1..Len(wq) : v = wq[i]
      BY DEF Queued
    <3>1. u = t /\ wq'[i] = v
      BY <2>1
    <3>2. i \in 1..Len(wq') /\ Len(wq) + 1 \in 1..Len(wq') /\ i < Len(wq) + 1
      BY <2>1, <1>len
    <3> QED
      BY <2>1, <3>1, <3>2
  <2>3. ASSUME NEW i \in 1..Len(wq) PROVE Wakes(i)
    BY <1>1, <1>ty, <1>in DEF WaitInit, FreshElem
  <2> QED
    BY <2>2, <2>3
\* Nobody joins when the queue stays or shrinks.
<1>2. ASSUME Queued' \subseteq Queued PROVE Joins
  BY <1>2
<1>3. ASSUME wq' = wq PROVE Queued' \subseteq Queued
  BY <1>3 DEF Queued
\* Nobody is woken when no wqe is newly done.
<1>4. ASSUME \A t \in Threads : wqe'[t].done => wqe[t].done
      PROVE  \A i \in 1..Len(wq) : Wakes(i)
  BY <1>4, <1>in
<1>5. ASSUME NEW t \in Threads, AcquireBlocked(t) \/ CondvarEnqueue(t)
      PROVE  Joins /\ \A i \in 1..Len(wq) : Wakes(i)
  <2>1. \/ WaitInit(t, want[t] = "read", NoCv)
        \/ WaitInit(t, mstate > 0, cvarg[t])
    BY <1>5 DEF AcquireBlocked, CondvarEnqueue
  <2> HIDE DEF Joins, Wakes
  <2> QED
    BY <2>1, <1>1
<1>6. ASSUME NEW t \in Threads, WakeOne(t)
      PROVE  Joins /\ \A i \in 1..Len(wq) : Wakes(i)
  <2>1. Joins
    <3>1. wq' = wq
      BY <1>6 DEF WakeOne
    <3> QED
      BY <3>1, <1>2, <1>3
  <2> PICK k \in Eligible(t) :
        /\ \A j \in Eligible(t) : k <= j
        /\ wqe' = [wqe EXCEPT ![wq[k]].done = TRUE]
    BY <1>6 DEF WakeOne
  <2>2. SUFFICES ASSUME NEW i \in 1..Len(wq), ~wqe[wq[i]].done,
                        wqe'[wq[i]].done, ~wqe[wq[i]].wait_read,
                        NEW j \in 1..(i - 1), Active(wq[j])
                 PROVE  FALSE
    BY <2>1
  <2>3. k \in 1..Len(wq) /\ wq[i] = wq[k]
    BY <1>ty, <1>in, <2>2 DEF Eligible
  <2>4. i = k
    BY <2>3 DEF WInv, QueueMatchesWaiters
  <2>5. ~wake[t].assigned
    <3>1. pc[t] = "wake"
      BY <1>6 DEF WakeOne
    <3>2. wake[t].assigned => wake[t].wake_read
      BY <3>1 DEF WInv, WakePcInv
    <3>3. wake[t].assigned => wqe[wq[k]].wait_read = wake[t].wake_read
      BY DEF Eligible
    <3> QED
      BY <2>2, <2>3, <3>2, <3>3, <1>ty DEF WakeLocals, WaitQueueElem
  <2>6. j \in 1..Len(wq) /\ j < k
    BY <1>len, <2>4
  <2>7. j \in Eligible(t)
    BY <2>2, <2>5, <2>6 DEF Active, Eligible
  <2> QED
    BY <2>3, <2>6, <2>7, <1>len
<1>7. ASSUME NEW t \in Threads, CheckDone(t)
      PROVE  Joins /\ \A i \in 1..Len(wq) : Wakes(i)
  <2>1. wqe' = wqe
    BY <1>7 DEF CheckDone
  <2>2. Queued' \subseteq Queued
    <3>1. CASE wq' = wq
      BY <3>1, <1>3
    <3>2. CASE \E k \in 1..Len(wq) : wq' = Remove(k)
      <4>1. NoRepeat
        BY DEF WInv, QueueMatchesWaiters, NoRepeat
      <4> QED
        BY <3>2, <1>ty, <4>1, RemoveFromQueue
    <3> QED
      BY <1>7, <3>1, <3>2 DEF CheckDone
  <2> HIDE DEF Joins, Wakes
  <2> QED
    BY <2>1, <2>2, <1>2, <1>4
<1>8. ASSUME NEW t \in Threads, Promote(t)
      PROVE  Joins /\ \A i \in 1..Len(wq) : Wakes(i)
  <2>1. \A u \in Threads : wqe'[u].done => wqe[u].done
    BY <1>8, <1>ty DEF Promote, WaitQueueElem
  <2>2. wq' = wq
    BY <1>8 DEF Promote
  <2> HIDE DEF Joins, Wakes
  <2> QED
    BY <2>1, <2>2, <1>2, <1>3, <1>4
<1>9. ASSUME wq' = wq, wqe' = wqe PROVE Joins /\ \A i \in 1..Len(wq) : Wakes(i)
  <2> HIDE DEF Joins, Wakes
  <2> QED
    BY <1>9, <1>2, <1>3, <1>4
<1>10. ASSUME NEW t \in Threads,
              \/ CallLock(t) \/ AcquireGranted(t) \/ TryLock(t) \/ Release(t)
              \/ WakeNone(t) \/ WakeRpc(t) \/ SleepWoken(t)
              \/ SleepReturnsEarly(t) \/ CondvarWait(t) \/ CondvarSignal(t)
              \/ CondvarDestroy(t)
       PROVE  wq' = wq /\ wqe' = wqe
  BY <1>10 DEF CallLock, AcquireGranted, TryLock, Release, Unlock, ReadUnlock,
     WakeNone, WakeRpc, SleepWoken, SleepReturnsEarly, CondvarWait,
     CondvarSignal, CondvarDestroy
<1>11. ASSUME UNCHANGED vars PROVE wq' = wq /\ wqe' = wqe
  BY <1>11 DEF vars
<1> HIDE DEF Joins, Wakes
<1>12. Joins /\ \A i \in 1..Len(wq) : Wakes(i)
  BY <1>5, <1>6, <1>7, <1>8, <1>9, <1>10, <1>11 DEF Next, Internal, Client
<1> QED
  BY <1>12 DEF Joins, Wakes

\* Nobody sleeps on a free mutex, for any number of threads and condition
\* variables: the comment of __mutex_lock about the missed wakeup holds.
THEOREM NoWakeupIsLost == Spec => []NoLostWakeup
<1>1. MInv /\ WInv /\ [Next]_vars => WInv'
  BY NextWInv
<1>2. WInv => NoLostWakeup
  BY DEF WInv, NoLostWakeup, WakeupComing
<1> QED
  BY Invariance, InitWInv, <1>1, <1>2, PTL DEF Spec

\* Waiters queue in order of arrival, and the step that wakes a writer
\* overtakes no older active waiter.
THEOREM FirstComeFirstWoken == Spec => WritersWokenInOrder
<1>1. MInv /\ WInv /\ [Next]_vars => WInv'
  BY NextWInv
<1>2. MInv /\ WInv /\ [Next]_vars =>
        [/\ \A t \in Queued, u \in Queued' \ Queued :
               t \in Queued' => \E i, j \in 1..Len(wq') :
                                    i < j /\ wq'[i] = t /\ wq'[j] = u
         /\ \A i \in 1..Len(wq) :
               (~wqe[wq[i]].done /\ wqe'[wq[i]].done /\ ~wqe[wq[i]].wait_read)
                  => \A j \in 1..(i - 1) : ~Active(wq[j])]_vars
  BY NextInOrder
<1> QED
  BY Invariance, InitWInv, <1>1, <1>2, PTL DEF Spec, WritersWokenInOrder

=============================================================================
