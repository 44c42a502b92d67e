-------------------------------- MODULE Mutex --------------------------------
(***************************************************************************)
(* One struct mutex, its wait queue and the condition variables linked to  *)
(* it (core/arch/arm/kernel/mutex.c, core/arch/arm/kernel/wait_queue.c).   *)
(*                                                                         *)
(* Each action is one critical section: m->spin_lock protects m->state,    *)
(* wq_spin_lock protects every queue.  The section of __mutex_lock nests   *)
(* the two (test the state, queue the wqe); m->spin_lock is held until the *)
(* wqe is queued, so the pair is one step.  wq_wake_next takes wq_spin_lock *)
(* anew for each thread it wakes and does an RPC in between, so that is    *)
(* one step per iteration and one per RPC.                                 *)
(***************************************************************************)
EXTENDS Integers, Sequences, FiniteSets

CONSTANTS Threads,      \* ids of the threads that use the mutex
          Condvars,     \* condition variables used with the mutex
          NoThread,     \* "no handle" of wq_wake_next
          NoCv          \* wqe->cv == NULL

ASSUME MutexAssumption ==
    /\ IsFiniteSet(Threads)
    /\ NoThread \notin Threads
    /\ NoCv \notin Condvars

VARIABLES
    mstate,     \* m->state: -1 write locked, 0 unlocked, n > 0 readers
    wq,         \* m->wq, the queued threads, oldest first
    wqe,        \* wqe[t]: the struct wait_queue_elem on the stack of t
    linked,     \* the condvars whose cv->m is this mutex
    rpcWake,    \* normal world: threads with a WAKEUP they have not seen
    pc,         \* where each thread is
    held,       \* held[t]: the lock t was granted and has not given back
    want,       \* want[t]: the lock t is about to take (again)
    wake,       \* wake[t]: the locals of wq_wake_next
    cvarg,      \* cvarg[t]: the condvar argument of the call t is in
    onlyOne,    \* onlyOne[t]: only_one of cv_signal
    panicked    \* a panic() was reached

vars == <<mstate, wq, wqe, linked, rpcWake, pc, held, want, wake, cvarg,
          onlyOne, panicked>>

Modes == {"none", "read", "write"}

PCs == {"idle", "acquire", "sleep", "check", "wake", "wake_rpc",
        "cv_enqueue", "promote"}

WaitQueueElem == [done : BOOLEAN, wait_read : BOOLEAN, cv : Condvars \cup {NoCv}]

WakeLocals == [assigned : BOOLEAN, wake_read : BOOLEAN,
               handle : Threads \cup {NoThread}]

FreshElem(wait_read, cv) ==
    [done |-> FALSE, wait_read |-> wait_read, cv |-> cv]

NoWake == [assigned |-> FALSE, wake_read |-> FALSE, handle |-> NoThread]

Init ==
    /\ mstate = 0
    /\ wq = <<>>
    /\ wqe = [t \in Threads |-> FreshElem(FALSE, NoCv)]
    /\ linked = {}
    /\ rpcWake = {}
    /\ pc = [t \in Threads |-> "idle"]
    /\ held = [t \in Threads |-> "none"]
    /\ want = [t \in Threads |-> "none"]
    /\ wake = [t \in Threads |-> NoWake]
    /\ cvarg = [t \in Threads |-> NoCv]
    /\ onlyOne = [t \in Threads |-> FALSE]
    /\ panicked = FALSE

-----------------------------------------------------------------------------
(* The wait queue.                                                         *)

Queued == {wq[i] : i \in 1..Len(wq)}

\* A wqe that wq_wake_next may still pick.
Active(t) == t \in Queued /\ wqe[t].cv = NoCv /\ ~wqe[t].done

\* Mutant: wq_wake_next without the test of wqe->cv.
Eligible_ignores_cv(t) ==
    {i \in 1..Len(wq) :
        /\ ~wqe[wq[i]].done
        /\ wake[t].assigned => wqe[wq[i]].wait_read = wake[t].wake_read}

\* SLIST_FOREACH of wq_wake_next: the positions it does not skip.
Eligible(t) ==
    {i \in 1..Len(wq) :
        /\ wqe[wq[i]].cv = NoCv
        /\ ~wqe[wq[i]].done
        /\ wake[t].assigned => wqe[wq[i]].wait_read = wake[t].wake_read}

\* Mutant: the wqe is added first (SLIST_INSERT_HEAD).
WaitInit_at_head(t, wait_read, cv) ==
    /\ wqe' = [wqe EXCEPT ![t] = FreshElem(wait_read, cv)]
    /\ wq' = <<t>> \o wq

\* wq_wait_init_condvar: fill the wqe in and add it last.
WaitInit(t, wait_read, cv) ==
    /\ wqe' = [wqe EXCEPT ![t] = FreshElem(wait_read, cv)]
    /\ wq' = Append(wq, t)

\* SLIST_REMOVE of wq_wait_final: the queue without its i-th element.
Remove(i) == SubSeq(wq, 1, i - 1) \o SubSeq(wq, i + 1, Len(wq))

\* Where a thread goes on when wq_wake_next returns: __condvar_wait goes to
\* sleep, the unlock functions return to their caller.
AfterWake(t) == IF want[t] = "none" THEN "idle" ELSE "sleep"

-----------------------------------------------------------------------------
(* Taking the mutex.                                                       *)

\* mutex_lock and mutex_read_lock are called.
CallLock(t) ==
    /\ pc[t] = "idle" /\ held[t] = "none"
    /\ \E mode \in {"read", "write"} : want' = [want EXCEPT ![t] = mode]
    /\ pc' = [pc EXCEPT ![t] = "acquire"]
    /\ UNCHANGED <<mstate, wq, wqe, linked, rpcWake, held, wake, cvarg,
                   onlyOne, panicked>>

\* Mutant: a writer tests for "not write locked" as a reader does.
CanLock_write_over_read(mode) == mstate # -1

CanLock(mode) == IF mode = "write" THEN mstate = 0 ELSE mstate # -1

\* Mutant: a reader sets the state instead of counting.
LockedState_not_counted(mode) == IF mode = "write" THEN -1 ELSE 1

LockedState(mode) == IF mode = "write" THEN -1 ELSE mstate + 1

\* One pass of the loop of __mutex_lock / __mutex_read_lock that succeeds ...
AcquireGranted(t) ==
    /\ pc[t] = "acquire" /\ CanLock(want[t])
    /\ mstate' = LockedState(want[t])
    /\ held' = [held EXCEPT ![t] = want[t]]
    /\ want' = [want EXCEPT ![t] = "none"]
    /\ pc' = [pc EXCEPT ![t] = "idle"]
    /\ UNCHANGED <<wq, wqe, linked, rpcWake, wake, cvarg, onlyOne, panicked>>

\* ... and one that queues a wqe and goes to sleep in normal world.
AcquireBlocked(t) ==
    /\ pc[t] = "acquire" /\ ~CanLock(want[t])
    /\ WaitInit(t, want[t] = "read", NoCv)
    /\ pc' = [pc EXCEPT ![t] = "sleep"]
    /\ UNCHANGED <<mstate, linked, rpcWake, held, want, wake, cvarg, onlyOne,
                   panicked>>

\* __mutex_trylock and __mutex_read_trylock; a failed try changes nothing.
TryLock(t) ==
    /\ pc[t] = "idle" /\ held[t] = "none"
    /\ \E mode \in {"read", "write"} :
          /\ CanLock(mode)
          /\ mstate' = LockedState(mode)
          /\ held' = [held EXCEPT ![t] = mode]
    /\ UNCHANGED <<wq, wqe, linked, rpcWake, pc, want, wake, cvarg, onlyOne,
                   panicked>>

-----------------------------------------------------------------------------
(* Giving the mutex back.                                                  *)

\* Mutant: mutex_unlock that does not call wq_wake_next.
Unlock_no_wake(t) ==
    /\ pc[t] = "idle" /\ held[t] = "write"
    /\ panicked' = (panicked \/ mstate = 0)
    /\ mstate' = 0
    /\ held' = [held EXCEPT ![t] = "none"]
    /\ UNCHANGED <<wq, wqe, linked, rpcWake, pc, want, wake, cvarg, onlyOne>>

\* __mutex_unlock up to the call of wq_wake_next.
Unlock(t) ==
    /\ pc[t] = "idle" /\ held[t] = "write"
    /\ panicked' = (panicked \/ mstate = 0)
    /\ mstate' = 0
    /\ held' = [held EXCEPT ![t] = "none"]
    /\ pc' = [pc EXCEPT ![t] = "wake"]
    /\ UNCHANGED <<wq, wqe, linked, rpcWake, want, wake, cvarg, onlyOne>>

\* __mutex_read_unlock: only the last reader wakes the waiters.
ReadUnlock(t) ==
    /\ pc[t] = "idle" /\ held[t] = "read"
    /\ panicked' = (panicked \/ mstate <= 0)
    /\ mstate' = mstate - 1
    /\ held' = [held EXCEPT ![t] = "none"]
    /\ pc' = [pc EXCEPT ![t] = IF mstate' = 0 THEN "wake" ELSE "idle"]
    /\ UNCHANGED <<wq, wqe, linked, rpcWake, want, wake, cvarg, onlyOne>>

\* wq_wake_next, one iteration: no wqe left to wake, return ...
WakeNone(t) ==
    /\ pc[t] = "wake" /\ Eligible(t) = {}
    /\ wake' = [wake EXCEPT ![t] = NoWake]
    /\ pc' = [pc EXCEPT ![t] = AfterWake(t)]
    /\ UNCHANGED <<mstate, wq, wqe, linked, rpcWake, held, want, cvarg,
                   onlyOne, panicked>>

\* ... or mark the oldest one done.
WakeOne(t) ==
    /\ pc[t] = "wake"
    /\ \E i \in Eligible(t) :
          /\ \A j \in Eligible(t) : i <= j
          /\ wqe' = [wqe EXCEPT ![wq[i]].done = TRUE]
          /\ wake' = [wake EXCEPT ![t] = [assigned |-> TRUE,
                                          wake_read |-> wqe[wq[i]].wait_read,
                                          handle |-> wq[i]]]
    /\ pc' = [pc EXCEPT ![t] = "wake_rpc"]
    /\ UNCHANGED <<mstate, wq, linked, rpcWake, held, want, cvarg, onlyOne,
                   panicked>>

\* __wq_rpc(WAKEUP): the request reaches the sleeper, or it fails, which is
\* only logged.  The loop goes on only when it wakes readers.
WakeRpc(t) ==
    /\ pc[t] = "wake_rpc"
    /\ rpcWake' \in {rpcWake \cup {wake[t].handle}, rpcWake}
    /\ IF wake[t].wake_read
       THEN /\ wake' = [wake EXCEPT ![t].handle = NoThread]
            /\ pc' = [pc EXCEPT ![t] = "wake"]
       ELSE /\ wake' = [wake EXCEPT ![t] = NoWake]
            /\ pc' = [pc EXCEPT ![t] = AfterWake(t)]
    /\ UNCHANGED <<mstate, wq, wqe, linked, held, want, cvarg, onlyOne,
                   panicked>>

-----------------------------------------------------------------------------
(* Sleeping: wq_wait_final.                                                *)

\* The SLEEP request returns because a WAKEUP was delivered.
SleepWoken(t) ==
    /\ pc[t] = "sleep" /\ t \in rpcWake
    /\ rpcWake' = rpcWake \ {t}
    /\ pc' = [pc EXCEPT ![t] = "check"]
    /\ UNCHANGED <<mstate, wq, wqe, linked, held, want, wake, cvarg, onlyOne,
                   panicked>>

\* The SLEEP request fails or returns early: __wq_rpc only logs that.
SleepReturnsEarly(t) ==
    /\ pc[t] = "sleep"
    /\ pc' = [pc EXCEPT ![t] = "check"]
    /\ UNCHANGED <<mstate, wq, wqe, linked, rpcWake, held, want, wake, cvarg,
                   onlyOne, panicked>>

\* do { } while (!done): leave the queue when done, else sleep again.
CheckDone(t) ==
    /\ pc[t] = "check"
    /\ IF wqe[t].done
       THEN /\ \E i \in 1..Len(wq) : wq[i] = t /\ wq' = Remove(i)
            /\ pc' = [pc EXCEPT ![t] = "acquire"]
       ELSE wq' = wq /\ pc' = [pc EXCEPT ![t] = "sleep"]
    /\ UNCHANGED <<mstate, wqe, linked, rpcWake, held, want, wake, cvarg,
                   onlyOne, panicked>>

-----------------------------------------------------------------------------
(* Condition variables.                                                    *)

\* __condvar_wait links cv to m under cv->spin_lock ...
CondvarWait(t) ==
    /\ pc[t] = "idle" /\ held[t] # "none"
    /\ \E cv \in Condvars :
          /\ linked' = linked \cup {cv}
          /\ cvarg' = [cvarg EXCEPT ![t] = cv]
    /\ pc' = [pc EXCEPT ![t] = "cv_enqueue"]
    /\ UNCHANGED <<mstate, wq, wqe, rpcWake, held, want, wake, onlyOne,
                   panicked>>

\* Mutant: a write lock (-1) is given back by a decrement, as a read lock is.
CondvarState_decrements(s) == s - 1

\* m->state after __condvar_wait gave one lock back.
CondvarState(s) == IF s > 1 THEN s - 1 ELSE 0

\* ... then, under m->spin_lock, queues itself and gives the mutex back.
CondvarEnqueue(t) ==
    /\ pc[t] = "cv_enqueue"
    /\ panicked' = (panicked \/ mstate = 0)
    /\ WaitInit(t, mstate > 0, cvarg[t])
    /\ mstate' = CondvarState(mstate)
    /\ want' = [want EXCEPT ![t] = IF mstate > 0 THEN "read" ELSE "write"]
    /\ held' = [held EXCEPT ![t] = "none"]
    /\ cvarg' = [cvarg EXCEPT ![t] = NoCv]
    /\ pc' = [pc EXCEPT ![t] = IF mstate' = 0 THEN "wake" ELSE "sleep"]
    /\ UNCHANGED <<linked, rpcWake, wake, onlyOne>>

\* cv_signal reads cv->m under cv->spin_lock; NULL: nobody ever waited.
\* Every caller in the core holds the mutex.
CondvarSignal(t) ==
    /\ pc[t] = "idle" /\ held[t] # "none"
    /\ \E cv \in linked, one \in BOOLEAN :
          /\ cvarg' = [cvarg EXCEPT ![t] = cv]
          /\ onlyOne' = [onlyOne EXCEPT ![t] = one]
    /\ pc' = [pc EXCEPT ![t] = "promote"]
    /\ UNCHANGED <<mstate, wq, wqe, linked, rpcWake, held, want, wake,
                   panicked>>

\* The positions of the waiters of cv.
CvWaiters(cv) == {i \in 1..Len(wq) : wqe[wq[i]].cv = cv}

\* The threads wq_promote_condvar turns into active waiters.
Promoted(cv, one) ==
    LET ws == CvWaiters(cv)
    IN  IF one THEN {wq[i] : i \in {j \in ws : \A k \in ws : j <= k}}
               ELSE {wq[i] : i \in ws}

Promote(t) ==
    /\ pc[t] = "promote"
    /\ LET ws == Promoted(cvarg[t], onlyOne[t])
       IN  wqe' = [u \in Threads |-> IF u \in ws
                                     THEN [wqe[u] EXCEPT !.cv = NoCv]
                                     ELSE wqe[u]]
    /\ cvarg' = [cvarg EXCEPT ![t] = NoCv]
    /\ onlyOne' = [onlyOne EXCEPT ![t] = FALSE]
    /\ pc' = [pc EXCEPT ![t] = "idle"]
    /\ UNCHANGED <<mstate, wq, linked, rpcWake, held, want, wake, panicked>>

\* condvar_destroy.  It panics when a thread waits on cv: that nobody does, and
\* that no other call on cv is in progress, is what its caller guarantees here.
\* Its one caller is destroy_context, where TaManager models the panic.
CondvarDestroy(t) ==
    /\ pc[t] = "idle" /\ held[t] = "none"
    /\ \E cv \in linked :
          /\ \A u \in Threads : cvarg[u] # cv
          /\ CvWaiters(cv) = {}
          /\ linked' = linked \ {cv}
    /\ UNCHANGED <<mstate, wq, wqe, rpcWake, pc, held, want, wake, cvarg,
                   onlyOne, panicked>>

-----------------------------------------------------------------------------

\* The steps a thread takes inside the mutex code once it has called it.
Internal(t) ==
    \/ AcquireGranted(t) \/ AcquireBlocked(t)
    \/ WakeNone(t) \/ WakeOne(t) \/ WakeRpc(t)
    \/ SleepWoken(t) \/ CheckDone(t)
    \/ CondvarEnqueue(t) \/ Promote(t)

Release(t) == Unlock(t) \/ ReadUnlock(t)

Client(t) ==
    \/ CallLock(t) \/ TryLock(t) \/ CondvarWait(t) \/ CondvarSignal(t)
    \/ CondvarDestroy(t)

Next == \E t \in Threads :
    Internal(t) \/ Release(t) \/ Client(t) \/ SleepReturnsEarly(t)

Spec == Init /\ [][Next]_vars

-----------------------------------------------------------------------------
(* Properties.                                                             *)

TypeOK ==
    /\ mstate \in Nat \cup {-1}
    /\ wq \in Seq(Threads)
    /\ wqe \in [Threads -> WaitQueueElem]
    /\ linked \subseteq Condvars
    /\ rpcWake \subseteq Threads
    /\ pc \in [Threads -> PCs]
    /\ held \in [Threads -> Modes]
    /\ want \in [Threads -> Modes]
    /\ wake \in [Threads -> WakeLocals]
    /\ cvarg \in [Threads -> Condvars \cup {NoCv}]
    /\ onlyOne \in [Threads -> BOOLEAN]
    /\ panicked \in BOOLEAN

Writers == {t \in Threads : held[t] = "write"}
Readers == {t \in Threads : held[t] = "read"}

\* m->state counts exactly the locks granted: -1 when one thread holds it for
\* writing and nobody reads, else the number of readers.  The counter is kept
\* by nine functions, __condvar_wait among them, each in its own critical
\* section.
HoldersMatchState ==
    \/ /\ mstate = -1 /\ Readers = {}
       /\ \E t \in Threads : Writers = {t}
    \/ mstate = Cardinality(Readers) /\ Writers = {}

\* The panic() calls of the unlock functions and of __condvar_wait are dead
\* code for callers that give back only what they were granted.  (The panic of
\* condvar_destroy is its caller's business: TaManager's NoHang.)
NoPanic == ~panicked

\* The queue is exactly the threads inside wq_wait_final, or about to call it:
\* the element lives on the thread's stack, so a queued element of a thread
\* that returned would be a dangling pointer.
QueueMatchesWaiters ==
    /\ \A i, j \in 1..Len(wq) : wq[i] = wq[j] => i = j
    /\ \A t \in Threads :
          t \in Queued <=> \/ pc[t] \in {"sleep", "check"}
                           \/ pc[t] \in {"wake", "wake_rpc"} /\ want[t] # "none"

\* Nobody sleeps on a free mutex: the queue holds all who wait, and when the
\* mutex is free and a thread waits for it, a wakeup is on its way: some thread
\* in wq_wake_next will find it, or some wqe is done and its thread will retry.
\* This is the comment of __mutex_lock: the wqe is initialized "before
\* releasing the spinlock to guarantee that we don't miss the wakeup from
\* mutex_unlock()".  It is about secure world alone: the thread of a done wqe
\* whose WAKEUP request failed retries only when its SLEEP request returns.
NoLostWakeup ==
    /\ QueueMatchesWaiters
    /\ (mstate = 0 /\ \E t \in Threads : Active(t)) =>
          \E t \in Threads : \/ pc[t] = "wake" /\ Eligible(t) # {}
                             \/ t \in Queued /\ wqe[t].done
                             \/ pc[t] = "acquire"

\* A wqe that waits for a condvar is never marked done: a thread leaves
\* condvar_wait only after a signal, whatever normal world returns early.
NoSpuriousCondvarWakeup ==
    \A t \in Queued : wqe[t].done => wqe[t].cv = NoCv

\* First come, first woken: a thread queues behind every thread that waits
\* already, and the step that marks a writer done overtakes no older active
\* waiter.
WritersWokenInOrder ==
    [][/\ \A t \in Queued, u \in Queued' \ Queued :
             t \in Queued' => \E i, j \in 1..Len(wq') :
                                  i < j /\ wq'[i] = t /\ wq'[j] = u
       /\ \A i \in 1..Len(wq) :
             (~wqe[wq[i]].done /\ wqe'[wq[i]].done /\ ~wqe[wq[i]].wait_read)
                => \A j \in 1..(i - 1) : ~Active(wq[j])]_vars

\* The mutex implements the readers-writer lock its header describes.
RW == INSTANCE RWLock WITH writers <- Writers, readers <- Readers

ImplementsRWLock == RW!RWSpec

=============================================================================
