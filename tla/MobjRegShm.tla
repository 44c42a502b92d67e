----------------------------- MODULE MobjRegShm -----------------------------
(***************************************************************************)
(* Registered shared memory (core/arch/arm/mm/mobj_dyn_shm.c) with the     *)
(* callers that create, look up, map and release it: register_shm,         *)
(* unregister_shm and set_rmem_param of core/arch/arm/tee/entry_std.c and  *)
(* the parameter mapping of core/arch/arm/kernel/pseudo_ta.c.              *)
(*                                                                         *)
(* A step is one critical section of reg_shm_slist_lock, reg_shm_map_lock  *)
(* or shm_mu, or one atomic operation on a reference counter.  shm_mu and  *)
(* shm_cv are used with the promise of Mutex.tla: mutual exclusion, and a  *)
(* waiter that leaves the mutex and falls asleep in one step.              *)
(***************************************************************************)
EXTENDS Naturals, FiniteSets

CONSTANTS Threads,       \* threads executing standard calls
          Cookies,       \* the names normal world gives its buffers
          Objs,          \* room for struct mobj_reg_shm on the heap
          MMs,           \* ranges of tee_mm_shm, the virtual address pool
          NwPins,        \* TRUE: the calls of normal world look up only
                         \* buffers it has registered, neither temporary
                         \* ones nor one it is unregistering, and it does
                         \* not unregister a buffer that is looked up
          NoObj, NoMM, NoCookie

ASSUME MobjAssumption ==
    /\ IsFiniteSet(Threads) /\ IsFiniteSet(Objs)
    /\ NwPins \in BOOLEAN
    /\ NoObj \notin Objs /\ NoMM \notin MMs /\ NoCookie \notin Cookies

VARIABLES
    mobj,         \* mobj[o]: the struct mobj_reg_shm at o
    shmList,      \* reg_shm_list
    mmUsed,       \* the ranges tee_mm_alloc has given out
    shmMu,        \* holder of shm_mu, {} or one thread
    waiters,      \* shm_release_waiters
    pc,           \* where each thread is
    cur,          \* cur[t]: the object t works on
    attr,         \* attr[t]: what the object is to t: a parameter named by
                  \* cookie ("rmem") or brought with the call ("tmem"), or
                  \* the buffer of the call itself or of its RPC ("cmd")
    va,           \* va[t]: the mapping t took its address from
    didMap,       \* didMap[t]: did_map of copy_in_param
    releaser,     \* the threads inside mobj_reg_shm_release_by_cookie
    panicked      \* "no", or which counter reached a panic() or assert():
                  \* that of the references or that of the mappings

vars == <<mobj, shmList, mmUsed, shmMu, waiters, pc, cur, attr, va, didMap,
          releaser, panicked>>

MobjRec == [live : BOOLEAN, cookie : Cookies \cup {NoCookie}, refc : Nat,
            mapcount : Nat, mm : MMs \cup {NoMM}, guarded : BOOLEAN,
            releasing : BOOLEAN, release_frees : BOOLEAN]

FreeChunk == [live |-> FALSE, cookie |-> NoCookie, refc |-> 0, mapcount |-> 0,
              mm |-> NoMM, guarded |-> FALSE, releasing |-> FALSE,
              release_frees |-> FALSE]

PCs == {"idle", "created", "found", "using", "inc", "inc_lock", "get_va",
        "mapped", "dec", "dec_lock", "put", "free", "free_guarded",
        "free_notify", "broadcast", "rel_lock", "rel_check", "rel_wait",
        "rel_sleep", "rel_woken", "rel_done"}

Init ==
    /\ mobj = [o \in Objs |-> FreeChunk]
    /\ shmList = {}
    /\ mmUsed = {}
    /\ shmMu = {}
    /\ waiters = 0
    /\ pc = [t \in Threads |-> "idle"]
    /\ cur = [t \in Threads |-> NoObj]
    /\ attr = [t \in Threads |-> "rmem"]
    /\ va = [t \in Threads |-> NoMM]
    /\ didMap = [t \in Threads |-> FALSE]
    /\ releaser = {}
    /\ panicked = "no"

Goto(t, l) == pc' = [pc EXCEPT ![t] = l]

Panic(counter) ==
    /\ panicked' = counter
    /\ UNCHANGED <<mobj, shmList, mmUsed, shmMu, waiters, pc, cur, attr, va,
                   didMap, releaser>>

\* Leave the call: the thread keeps no pointer.
Return(t) ==
    /\ Goto(t, "idle")
    /\ cur' = [cur EXCEPT ![t] = NoObj]
    /\ attr' = [attr EXCEPT ![t] = "rmem"]
    /\ va' = [va EXCEPT ![t] = NoMM]
    /\ didMap' = [didMap EXCEPT ![t] = FALSE]

\* mobj_put() returns to mobj_reg_shm_release_by_cookie() or ends the use.
PutReturns(t) ==
    IF t \in releaser
    THEN Goto(t, "rel_lock") /\ UNCHANGED <<cur, attr, va, didMap>>
    ELSE Return(t)

-----------------------------------------------------------------------------
(* Creation: mobj_reg_shm_alloc(), then either mobj_reg_shm_unguard() for   *)
(* a registration or direct use for a temporary buffer.                     *)

MobjRegShmAlloc(t, c, o) ==
    /\ pc[t] = "idle" /\ ~mobj[o].live
    /\ mobj' = [mobj EXCEPT ![o] = [FreeChunk EXCEPT !.live = TRUE,
                    !.cookie = c, !.refc = 1, !.guarded = TRUE]]
    /\ shmList' = shmList \cup {o}
    /\ cur' = [cur EXCEPT ![t] = o]
    /\ Goto(t, "created")
    /\ UNCHANGED <<mmUsed, shmMu, waiters, attr, va, didMap, releaser,
                   panicked>>

\* register_shm(): the reference now belongs to the registration.
MobjRegShmUnguard(t) ==
    /\ pc[t] = "created"
    /\ mobj' = [mobj EXCEPT ![cur[t]].guarded = FALSE]
    /\ Return(t)
    /\ UNCHANGED <<shmList, mmUsed, shmMu, waiters, releaser, panicked>>

\* set_tmem_param(): a noncontiguous parameter stays guarded and is used by the
\* call that brings it.
UseTemporary(t) ==
    /\ pc[t] = "created"
    /\ attr' = [attr EXCEPT ![t] = "tmem"]
    /\ Goto(t, "using")
    /\ UNCHANGED <<mobj, shmList, mmUsed, shmMu, waiters, cur, va, didMap,
                   releaser, panicked>>

\* mobj_mapped_shm_alloc(): the buffer of a call or of an RPC is mapped at once.
MobjMappedShmAlloc(t) ==
    /\ pc[t] = "created"
    /\ attr' = [attr EXCEPT ![t] = "cmd"]
    /\ Goto(t, "inc")
    /\ UNCHANGED <<mobj, shmList, mmUsed, shmMu, waiters, cur, va, didMap,
                   releaser, panicked>>

-----------------------------------------------------------------------------
(* Lookup.                                                                  *)

\* reg_shm_find_unlocked() takes the object with the cookie that was created
\* last; here it may be any of them, which allows more.
RegShmFind(c) == {o \in shmList : mobj[o].cookie = c}

\* mobj_reg_shm_get_by_cookie() up to the unlock.
GetByCookie(t, c) ==
    /\ pc[t] = "idle"
    /\ \E o \in RegShmFind(c) :
          /\ NwPins => ~mobj[o].guarded /\ ~mobj[o].releasing
          /\ cur' = [cur EXCEPT ![t] = o]
    /\ Goto(t, "found")
    /\ UNCHANGED <<mobj, shmList, mmUsed, shmMu, waiters, attr, va, didMap,
                   releaser, panicked>>

\* mobj_get(), after the unlock.
MobjGet(t) ==
    /\ pc[t] = "found"
    /\ IF mobj[cur[t]].refc = 0
       THEN Panic("ref")
       ELSE /\ mobj' = [mobj EXCEPT ![cur[t]].refc = @ + 1]
            /\ Goto(t, "using")
            /\ UNCHANGED <<shmList, mmUsed, shmMu, waiters, cur, attr, va,
                           didMap, releaser, panicked>>

-----------------------------------------------------------------------------
(* Mapping.  copy_in_param() of pseudo_ta.c maps a buffer that has no       *)
(* address yet and remembers that it did.                                   *)

CopyInParam(t) ==
    /\ pc[t] = "using"
    /\ IF mobj[cur[t]].mm = NoMM
       THEN Goto(t, "inc") /\ UNCHANGED va
       ELSE Goto(t, "mapped") /\ va' = [va EXCEPT ![t] = mobj[cur[t]].mm]
    /\ UNCHANGED <<mobj, shmList, mmUsed, shmMu, waiters, cur, attr, didMap,
                   releaser, panicked>>

\* refcount_inc(&r->mapcount) of mobj_inc_map().
IncMapFast(t) ==
    /\ pc[t] = "inc"
    /\ IF mobj[cur[t]].mapcount > 0
       THEN /\ mobj' = [mobj EXCEPT ![cur[t]].mapcount = @ + 1]
            /\ didMap' = [didMap EXCEPT ![t] = TRUE]
            /\ Goto(t, "get_va")
       ELSE Goto(t, "inc_lock") /\ UNCHANGED <<mobj, didMap>>
    /\ UNCHANGED <<shmList, mmUsed, shmMu, waiters, cur, attr, va, releaser,
                   panicked>>

\* tee_mm_alloc() and core_mmu_map_pages() of mobj_inc_map(): either may fail.
MapPages(t) ==
    \/ \E m \in MMs \ mmUsed :
          /\ mmUsed' = mmUsed \cup {m}
          /\ mobj' = [mobj EXCEPT ![cur[t]].mm = m, ![cur[t]].mapcount = 1]
          /\ didMap' = [didMap EXCEPT ![t] = TRUE]
          /\ Goto(t, "get_va")
    \/ /\ mobj' = [mobj EXCEPT ![cur[t]].mm = NoMM]
       /\ Goto(t, "put")
       /\ UNCHANGED <<mmUsed, didMap>>

\* Under reg_shm_map_lock: another thread mapped it meanwhile, or map it now.
IncMapLocked(t) ==
    /\ pc[t] = "inc_lock"
    /\ IF mobj[cur[t]].mapcount > 0
       THEN /\ didMap' = [didMap EXCEPT ![t] = TRUE]
            /\ Goto(t, "get_va")
            /\ UNCHANGED <<mobj, mmUsed>>
       ELSE MapPages(t)
    /\ UNCHANGED <<shmList, shmMu, waiters, cur, attr, va, releaser,
                   panicked>>

\* mobj_get_va() after mobj_inc_map(); NULL is answered BAD_PARAMETERS.
GetVa(t) ==
    /\ pc[t] = "get_va"
    /\ va' = [va EXCEPT ![t] = mobj[cur[t]].mm]
    /\ Goto(t, IF mobj[cur[t]].mm = NoMM THEN "dec" ELSE "mapped")
    /\ UNCHANGED <<mobj, shmList, mmUsed, shmMu, waiters, cur, attr, didMap,
                   releaser, panicked>>

\* The TA returns: unmap_mapped_param().  The owner of a command or RPC buffer
\* does not call mobj_dec_map().
EndUse(t) ==
    /\ \/ pc[t] = "using" /\ Goto(t, "put")
       \/ /\ pc[t] = "mapped"
          /\ Goto(t, IF didMap[t] /\ attr[t] # "cmd" THEN "dec" ELSE "put")
    /\ va' = [va EXCEPT ![t] = NoMM]
    /\ UNCHANGED <<mobj, shmList, mmUsed, shmMu, waiters, cur, attr, didMap,
                   releaser, panicked>>

\* refcount_dec(&r->mapcount) of mobj_dec_map().
DecMapFast(t) ==
    /\ pc[t] = "dec"
    /\ IF mobj[cur[t]].mapcount = 0
       THEN Panic("map")
       ELSE /\ mobj' = [mobj EXCEPT ![cur[t]].mapcount = @ - 1]
            /\ Goto(t, IF mobj[cur[t]].mapcount = 1 THEN "dec_lock" ELSE "put")
            /\ UNCHANGED <<shmList, mmUsed, shmMu, waiters, cur, attr, va,
                           didMap, releaser, panicked>>

\* Under reg_shm_map_lock.  The test reads "if (refcount_val(...))".
DecMapLocked(t) ==
    /\ pc[t] = "dec_lock"
    /\ IF mobj[cur[t]].mapcount = 0
       THEN /\ Goto(t, "put")
            /\ UNCHANGED <<mobj, shmList, mmUsed, shmMu, waiters, cur, attr,
                           va, didMap, releaser, panicked>>
       ELSE IF mobj[cur[t]].mm = NoMM
       THEN Panic("map")
       ELSE /\ mmUsed' = mmUsed \ {mobj[cur[t]].mm}
            /\ mobj' = [mobj EXCEPT ![cur[t]].mm = NoMM]
            /\ Goto(t, "put")
            /\ UNCHANGED <<shmList, shmMu, waiters, cur, attr, va, didMap,
                           releaser, panicked>>

-----------------------------------------------------------------------------
(* Giving references back.                                                  *)

\* reg_shm_free_helper(): unmap, unlink, free.
RegShmFreeHelper(o) ==
    /\ mmUsed' = mmUsed \ {mobj[o].mm}
    /\ shmList' = shmList \ {o}
    /\ mobj' = [mobj EXCEPT ![o] = FreeChunk]

\* cleanup_shm_refs() compares the whole attribute word, in which a
\* noncontiguous parameter has OPTEE_MSG_ATTR_NONCONTIG set, so its reference is
\* not given back.
CleanupSkips(t) ==
    /\ pc[t] = "put" /\ attr[t] = "tmem"
    /\ Return(t)
    /\ UNCHANGED <<mobj, shmList, mmUsed, shmMu, waiters, releaser, panicked>>

\* refcount_dec(&mobj->refc) of mobj_put().
MobjPut(t) ==
    /\ pc[t] = "put" /\ attr[t] # "tmem"
    /\ IF mobj[cur[t]].refc = 0
       THEN Panic("ref")
       ELSE /\ mobj' = [mobj EXCEPT ![cur[t]].refc = @ - 1]
            /\ IF mobj[cur[t]].refc = 1
               THEN Goto(t, "free") /\ UNCHANGED <<cur, attr, va, didMap>>
               ELSE PutReturns(t)
            /\ UNCHANGED <<shmList, mmUsed, shmMu, waiters, releaser, panicked>>

\* Mutant: the last mobj_put() frees the object without looking at releasing.
MobjRegShmFree_frees(t) ==
    /\ pc[t] = "free"
    /\ Goto(t, "free_guarded")
    /\ UNCHANGED <<mobj, shmList, mmUsed, shmMu, waiters, cur, attr, va,
                   didMap, releaser, panicked>>

\* mobj_reg_shm_free() reads the flags before it takes any lock.
MobjRegShmFree(t) ==
    /\ pc[t] = "free"
    /\ Goto(t, IF mobj[cur[t]].guarded /\ ~mobj[cur[t]].releasing
               THEN "free_guarded" ELSE "free_notify")
    /\ UNCHANGED <<mobj, shmList, mmUsed, shmMu, waiters, cur, attr, va,
                   didMap, releaser, panicked>>

FreeGuarded(t) ==
    /\ pc[t] = "free_guarded"
    /\ RegShmFreeHelper(cur[t])
    /\ PutReturns(t)
    /\ UNCHANGED <<shmMu, waiters, releaser, panicked>>

SetReleaseFrees(t) ==
    /\ pc[t] = "free_notify"
    /\ mobj' = [mobj EXCEPT ![cur[t]].release_frees = TRUE]
    /\ Goto(t, "broadcast")
    /\ UNCHANGED <<shmList, mmUsed, shmMu, waiters, cur, attr, va, didMap,
                   releaser, panicked>>

\* Mutant: nobody is woken.
Woken_none(p) == [t \in Threads |-> p[t]]

\* The threads condvar_broadcast(&shm_cv) wakes, and where they go on.
Woken(p) == [t \in Threads |-> IF p[t] = "rel_sleep" THEN "rel_woken" ELSE p[t]]

\* mutex_lock(&shm_mu) ... mutex_unlock(&shm_mu): nothing in it blocks.
NotifyReleasers(t) ==
    /\ pc[t] = "broadcast" /\ shmMu = {}
    /\ LET next == IF t \in releaser THEN "rel_lock" ELSE "idle"
           after == [pc EXCEPT ![t] = next]
       IN  pc' = IF waiters > 0 THEN Woken(after) ELSE after
    /\ IF t \in releaser
       THEN UNCHANGED <<cur, attr, va, didMap>>
       ELSE /\ cur' = [cur EXCEPT ![t] = NoObj]
            /\ attr' = [attr EXCEPT ![t] = "rmem"]
            /\ va' = [va EXCEPT ![t] = NoMM]
            /\ didMap' = [didMap EXCEPT ![t] = FALSE]
    /\ UNCHANGED <<mobj, shmList, mmUsed, shmMu, waiters, releaser, panicked>>

-----------------------------------------------------------------------------
(* mobj_reg_shm_release_by_cookie().                                        *)

\* Mutant: a buffer that is being released may be released once more.
ReleaseByCookie_again(t, c) ==
    /\ pc[t] = "idle"
    /\ \E o \in RegShmFind(c) :
          /\ ~mobj[o].guarded
          /\ NwPins => \A u \in Threads : pc[u] = "found" => cur[u] # o
          /\ mobj' = [mobj EXCEPT ![o].releasing = TRUE]
          /\ cur' = [cur EXCEPT ![t] = o]
    /\ releaser' = releaser \cup {t}
    /\ Goto(t, "put")
    /\ UNCHANGED <<shmList, mmUsed, shmMu, waiters, attr, va, didMap, panicked>>

\* Another cookie, a guarded buffer or one that is being released is answered
\* TEE_ERROR_BAD_PARAMETERS and changes nothing.
ReleaseByCookie(t, c) ==
    /\ pc[t] = "idle"
    /\ \E o \in RegShmFind(c) :
          /\ ~mobj[o].guarded /\ ~mobj[o].releasing
          /\ NwPins => \A u \in Threads : pc[u] = "found" => cur[u] # o
          /\ mobj' = [mobj EXCEPT ![o].releasing = TRUE]
          /\ cur' = [cur EXCEPT ![t] = o]
    /\ releaser' = releaser \cup {t}
    /\ Goto(t, "put")
    /\ UNCHANGED <<shmList, mmUsed, shmMu, waiters, attr, va, didMap,
                   panicked>>

\* Mutant: shm_release_waiters is not incremented.
ReleaseLock_not_counted(t) ==
    /\ pc[t] = "rel_lock" /\ shmMu = {}
    /\ shmMu' = {t}
    /\ Goto(t, "rel_check")
    /\ UNCHANGED <<mobj, shmList, mmUsed, waiters, cur, attr, va, didMap,
                   releaser, panicked>>

ReleaseLock(t) ==
    /\ pc[t] = "rel_lock" /\ shmMu = {}
    /\ shmMu' = {t}
    /\ waiters' = waiters + 1
    /\ Goto(t, "rel_check")
    /\ UNCHANGED <<mobj, shmList, mmUsed, cur, attr, va, didMap, releaser,
                   panicked>>

\* One turn of the loop, under shm_mu and reg_shm_slist_lock.
ReleaseCheck(t) ==
    /\ pc[t] = "rel_check"
    /\ IF mobj[cur[t]].release_frees
       THEN RegShmFreeHelper(cur[t]) /\ Goto(t, "rel_done")
       ELSE Goto(t, "rel_wait") /\ UNCHANGED <<mobj, shmList, mmUsed>>
    /\ UNCHANGED <<shmMu, waiters, cur, attr, va, didMap, releaser, panicked>>

\* condvar_wait(&shm_cv, &shm_mu).
ReleaseWait(t) ==
    /\ pc[t] = "rel_wait"
    /\ shmMu' = {}
    /\ Goto(t, "rel_sleep")
    /\ UNCHANGED <<mobj, shmList, mmUsed, waiters, cur, attr, va, didMap,
                   releaser, panicked>>

ReleaseWakes(t) ==
    /\ pc[t] = "rel_woken" /\ shmMu = {}
    /\ shmMu' = {t}
    /\ Goto(t, "rel_check")
    /\ UNCHANGED <<mobj, shmList, mmUsed, waiters, cur, attr, va, didMap,
                   releaser, panicked>>

ReleaseDone(t) ==
    /\ pc[t] = "rel_done"
    /\ waiters' = waiters - 1
    /\ shmMu' = {}
    /\ releaser' = releaser \ {t}
    /\ Return(t)
    /\ UNCHANGED <<mobj, shmList, mmUsed, panicked>>

-----------------------------------------------------------------------------
\* What normal world asks for.
Calls(t) ==
    \/ \E c \in Cookies, o \in Objs : MobjRegShmAlloc(t, c, o)
    \/ \E c \in Cookies : GetByCookie(t, c) \/ ReleaseByCookie(t, c)

\* The steps of a call that was accepted.
Steps(t) ==
    \/ MobjRegShmUnguard(t) \/ UseTemporary(t) \/ MobjMappedShmAlloc(t)
    \/ MobjGet(t) \/ CopyInParam(t)
    \/ IncMapFast(t) \/ IncMapLocked(t)
    \/ GetVa(t) \/ EndUse(t) \/ DecMapFast(t) \/ DecMapLocked(t)
    \/ CleanupSkips(t) \/ MobjPut(t) \/ MobjRegShmFree(t) \/ FreeGuarded(t) \/ SetReleaseFrees(t)
    \/ NotifyReleasers(t)
    \/ ReleaseLock(t) \/ ReleaseCheck(t) \/ ReleaseWait(t) \/ ReleaseWakes(t)
    \/ ReleaseDone(t)

Next == panicked = "no" /\ \E t \in Threads : Calls(t) \/ Steps(t)

Spec == Init /\ [][Next]_vars

\* An accepted call is scheduled by normal world until it returns; nothing
\* obliges normal world to make another one.
FairSpec == Spec /\ \A t \in Threads : WF_vars(panicked = "no" /\ Steps(t))

-----------------------------------------------------------------------------
(* Properties.                                                              *)

\* Types; shm_release_waiters, incremented and decremented in two critical
\* sections of mobj_reg_shm_release_by_cookie(), never goes below 0.
TypeOK ==
    /\ mobj \in [Objs -> MobjRec]
    /\ shmList \subseteq Objs
    /\ mmUsed \subseteq MMs
    /\ shmMu \in {{}} \cup {{t} : t \in Threads}
    /\ waiters \in Nat
    /\ pc \in [Threads -> PCs]
    /\ cur \in [Threads -> Objs \cup {NoObj}]
    /\ attr \in [Threads -> {"rmem", "tmem", "cmd"}]
    /\ va \in [Threads -> MMs \cup {NoMM}]
    /\ didMap \in [Threads -> BOOLEAN]
    /\ releaser \subseteq Threads
    /\ panicked \in {"no", "ref", "map"}

\* mobj_get() is not called on an object whose last reference is gone, nor
\* mobj_put() on a counter that is 0.  The map count is another matter: what
\* mobj_inc_map() and mobj_dec_map() do with it can stop the core, see MapKept.
NoPanic == panicked # "ref"

\* The threads that will still read or write their object in this call.
Touches(t) == /\ pc[t] \notin {"idle", "rel_done"}
              /\ pc[t] = "broadcast" => t \in releaser

\* Nobody reaches a step that touches an object after reg_shm_free_helper()
\* gave its memory back; a releaser that wakes up late still finds its own.
NoUseAfterFree ==
    \A t \in Threads : Touches(t) =>
        mobj[cur[t]].live /\ cur[t] \in shmList

\* What mobj_inc_map() promises until the matching mobj_dec_map(): the address a
\* TA was given stays mapped to its own buffer until the TA returns, whatever
\* other calls map or unmap meanwhile; each range of the address pool belongs
\* to one live object, so none is lost when a buffer is mapped again; and no
\* mobj_dec_map() finds a map count of 0.
MapKept ==
    /\ \A t \in Threads : pc[t] = "mapped" =>
          va[t] \in mmUsed /\ mobj[cur[t]].mm = va[t]
    /\ mmUsed = {mobj[o].mm : o \in Objs} \ {NoMM}
    /\ panicked # "map"

\* A release never sleeps through the notification: once normal world makes no
\* new calls, each release that was accepted answers, unless the core stops in
\* mobj_dec_map() (MapKept).
ReleaseAnswered ==
    /\ <>[][\A t \in Threads : pc[t] = "idle" => pc'[t] = "idle"]_vars
    /\ [](panicked = "no")
    => \A t \in Threads : (t \in releaser) ~> (t \notin releaser)
=============================================================================
