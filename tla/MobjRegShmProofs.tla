-------------------------- MODULE MobjRegShmProofs --------------------------
(***************************************************************************)
(* Theorems about MobjRegShm.tla, for any finite set of threads and any    *)
(* cookies, objects and address ranges.                                    *)
(*                                                                         *)
(* Memory safety rests on one equation: the reference counter of a live    *)
(* object is the number of threads that hold a reference plus one while    *)
(* the object is registered; for a temporary buffer it may be more, since  *)
(* a noncontiguous parameter is never given back (RefInv).  The other      *)
(* parts say who may touch an object whose counter is 0: the one thread    *)
(* that brought it there, and the one that releases it.                    *)
(***************************************************************************)
EXTENDS MobjRegShm, FiniteSetTheorems, TLAPS

\* A thread at one of these labels has a reference to give back.
HoldPCs == {"created", "using", "inc", "inc_lock", "get_va", "mapped", "dec",
            "dec_lock", "put"}

\* The thread whose mobj_put() was the last one.
FreePCs == {"free", "free_guarded", "free_notify"}

RelPCs == {"rel_lock", "rel_check", "rel_wait", "rel_sleep", "rel_woken",
           "rel_done"}

\* The threads counted by shm_release_waiters.
WaitPCs == RelPCs \ {"rel_lock"}

Holders(o) == {t \in Threads : cur[t] = o /\ pc[t] \in HoldPCs}

Registered(o) == mobj[o].live /\ ~mobj[o].guarded /\ ~mobj[o].releasing

Waiting == {t \in Threads : pc[t] \in WaitPCs}

WaitInv == waiters = Cardinality(Waiting)

CurInv == \A t \in Threads : pc[t] # "idle" => cur[t] \in Objs

TInv == TypeOK /\ WaitInv /\ CurInv

\* A thread that touches an object finds it on the list.
UseInv ==
    /\ shmList = {o \in Objs : mobj[o].live}
    /\ \A t \in Threads : Touches(t) => cur[t] \in Objs /\ mobj[cur[t]].live

Owed(o) == Cardinality(Holders(o)) + (IF Registered(o) THEN 1 ELSE 0)

\* No reference is given back twice; only a temporary buffer may keep one that
\* nobody will give back.
Balanced(o) == /\ mobj[o].refc >= Owed(o)
               /\ ~mobj[o].guarded => mobj[o].refc = Owed(o)

RefInv == \A o \in Objs : mobj[o].live => Balanced(o)

FlagInv == \A o \in Objs :
    /\ mobj[o].releasing => ~mobj[o].guarded
    /\ mobj[o].release_frees => mobj[o].releasing /\ mobj[o].refc = 0

\* What the label of a thread says about its object.
Phase(t) ==
    /\ pc[t] = "created" => mobj[cur[t]].guarded /\ mobj[cur[t]].refc = 1
    /\ pc[t] = "found" => Registered(cur[t])
    /\ pc[t] \in FreePCs => mobj[cur[t]].refc = 0 /\ ~mobj[cur[t]].release_frees
    /\ pc[t] = "free_guarded" => mobj[cur[t]].guarded
    /\ pc[t] = "free_notify" => mobj[cur[t]].releasing
    /\ pc[t] \in RelPCs => t \in releaser
    /\ t \in releaser => pc[t] \in {"put", "free", "free_notify", "broadcast"} \cup RelPCs
    /\ t \in releaser /\ pc[t] # "rel_done" => mobj[cur[t]].releasing

PhaseInv == \A t \in Threads : Phase(t)

\* One thread brings the counter to 0, one creates, one releases.
UniqueInv == \A t, u \in Threads : t # u /\ cur[t] = cur[u] =>
    /\ ~(pc[t] \in FreePCs /\ pc[u] \in FreePCs)
    /\ ~(pc[t] = "created" /\ Touches(u))
    /\ ~(t \in releaser /\ u \in releaser /\ pc[t] # "rel_done"
                                          /\ pc[u] # "rel_done")

RInv == UseInv /\ RefInv /\ FlagInv /\ PhaseInv /\ UniqueInv

\* A call never gives back the reference of a noncontiguous parameter, which
\* nobody can find by its cookie.
TmemInv == \A t \in Threads : attr[t] = "tmem" =>
    pc[t] \in HoldPCs /\ mobj[cur[t]].guarded

-----------------------------------------------------------------------------
(* Types, and the count of waiting releasers.                               *)

\* The arithmetic of reference counts, on sets of threads.
LEMMA Count ==
    ASSUME NEW S \in SUBSET Threads, NEW t \in Threads
    PROVE  /\ Cardinality(S) \in Nat
           /\ Cardinality(S) = 0 <=> S = {}
           /\ t \notin S => Cardinality(S \cup {t}) = Cardinality(S) + 1
           /\ t \in S => Cardinality(S \ {t}) = Cardinality(S) - 1
<1>1. IsFiniteSet(S)
  BY MobjAssumption, FS_Subset
<1> QED
  BY <1>1, FS_CardinalityType, FS_EmptySet, FS_AddElement, FS_RemoveElement

\* A step of t that neither starts nor ends a wait; sleepers may be woken.
LEMMA WaitingStep ==
    ASSUME WaitInv, NEW t \in Threads, waiters' = waiters,
           pc'[t] \in WaitPCs <=> pc[t] \in WaitPCs,
           \A u \in Threads \ {t} : \/ pc'[u] = pc[u]
                                    \/ pc[u] = "rel_sleep" /\ pc'[u] = "rel_woken"
    PROVE  WaitInv'
<1>1. Waiting' = Waiting
  BY DEF Waiting, WaitPCs, RelPCs
<1> QED
  BY <1>1 DEF WaitInv

\* A struct mobj_reg_shm stays one under the assignments of the code.
LEMMA ObjTypes ==
    ASSUME NEW f \in [Objs -> MobjRec], NEW o \in Objs
    PROVE  /\ [f EXCEPT ![o].guarded = FALSE] \in [Objs -> MobjRec]
           /\ [f EXCEPT ![o].releasing = TRUE] \in [Objs -> MobjRec]
           /\ [f EXCEPT ![o].mm = NoMM] \in [Objs -> MobjRec]
           /\ \A m \in MMs : [f EXCEPT ![o].mm = m, ![o].mapcount = 1] \in [Objs -> MobjRec]
           /\ [f EXCEPT ![o] = FreeChunk] \in [Objs -> MobjRec]
BY DEF MobjRec, FreeChunk

\* Each step keeps the types and the count of waiting releasers.
LEMMA TypeStep ==
    ASSUME TInv, NEW t \in Threads, Calls(t) \/ Steps(t)
    PROVE  TInv'
<1> USE DEF Goto, Return, PutReturns, Panic
<1>0. /\ mobj \in [Objs -> MobjRec] /\ shmList \subseteq Objs /\ mmUsed \subseteq MMs
      /\ attr \in [Threads -> {"rmem", "tmem", "cmd"}]
      /\ pc \in [Threads -> PCs] /\ cur \in [Threads -> Objs \cup {NoObj}]
      /\ va \in [Threads -> MMs \cup {NoMM}] /\ didMap \in [Threads -> BOOLEAN]
  BY DEF TInv, TypeOK
<1>1. ASSUME NEW c \in Cookies, NEW o \in Objs, MobjRegShmAlloc(t, c, o) PROVE TInv'
  <2>2. mobj' \in [Objs -> MobjRec]
    BY <1>0, <1>1 DEF MobjRegShmAlloc, FreeChunk, MobjRec, TInv
  <2>3. TypeOK'
    BY <1>1, <2>2 DEF MobjRegShmAlloc, FreeChunk, TInv, TypeOK, PCs
  <2>4. CurInv'
    BY <1>0, <1>1 DEF MobjRegShmAlloc, FreeChunk, TInv, CurInv
  <2>5. WaitInv'
    BY <1>0, <1>1, WaitingStep DEF MobjRegShmAlloc, FreeChunk, TInv, WaitPCs, RelPCs
  <2> QED
    BY <2>3, <2>4, <2>5 DEF TInv
<1>2. ASSUME NEW c \in Cookies, GetByCookie(t, c) PROVE TInv'
  <2>2. mobj' \in [Objs -> MobjRec]
    BY <1>0, <1>2 DEF GetByCookie, RegShmFind, TInv
  <2>3. TypeOK'
    BY <1>2, <2>2 DEF GetByCookie, RegShmFind, TInv, TypeOK, PCs
  <2>4. CurInv'
    BY <1>0, <1>2 DEF GetByCookie, RegShmFind, TInv, CurInv
  <2>5. WaitInv'
    BY <1>0, <1>2, WaitingStep DEF GetByCookie, RegShmFind, TInv, WaitPCs, RelPCs
  <2> QED
    BY <2>3, <2>4, <2>5 DEF TInv
<1>3. ASSUME NEW c \in Cookies, ReleaseByCookie(t, c) PROVE TInv'
  <2>2. mobj' \in [Objs -> MobjRec]
    <3>1. \E o \in Objs : mobj' = [mobj EXCEPT ![o].releasing = TRUE]
      BY <1>0, <1>3 DEF ReleaseByCookie, RegShmFind, TInv
    <3>2. mobj \in [Objs -> MobjRec]
      BY <1>0
    <3> QED
      BY <3>1, <3>2 DEF MobjRec
  <2>3. TypeOK'
    BY <1>3, <2>2 DEF ReleaseByCookie, RegShmFind, TInv, TypeOK, PCs
  <2>4. CurInv'
    BY <1>0, <1>3 DEF ReleaseByCookie, RegShmFind, TInv, CurInv
  <2>5. WaitInv'
    BY <1>0, <1>3, WaitingStep DEF ReleaseByCookie, RegShmFind, TInv, WaitPCs, RelPCs
  <2> QED
    BY <2>3, <2>4, <2>5 DEF TInv
<1>4. ASSUME MobjRegShmUnguard(t) PROVE TInv'
  <2>1. pc[t] # "idle" /\ cur[t] \in Objs
    BY <1>4 DEF MobjRegShmUnguard, TInv, CurInv
  <2>2. mobj' \in [Objs -> MobjRec]
    BY <1>0, <1>4, <2>1, ObjTypes DEF MobjRegShmUnguard, TInv
  <2>3. TypeOK'
    BY <1>4, <2>1, <2>2 DEF MobjRegShmUnguard, TInv, TypeOK, PCs
  <2>4. CurInv'
    BY <1>0, <1>4, <2>1 DEF MobjRegShmUnguard, TInv, CurInv
  <2>5. WaitInv'
    BY <1>0, <1>4, <2>1, WaitingStep DEF MobjRegShmUnguard, TInv, WaitPCs, RelPCs
  <2> QED
    BY <2>3, <2>4, <2>5 DEF TInv
<1>5. ASSUME UseTemporary(t) PROVE TInv'
  <2>1. pc[t] # "idle" /\ cur[t] \in Objs
    BY <1>5 DEF UseTemporary, TInv, CurInv
  <2>2. mobj' \in [Objs -> MobjRec]
    BY <1>0, <1>5, <2>1 DEF UseTemporary, TInv
  <2>3. TypeOK'
    BY <1>5, <2>1, <2>2 DEF UseTemporary, TInv, TypeOK, PCs
  <2>4. CurInv'
    BY <1>0, <1>5, <2>1 DEF UseTemporary, TInv, CurInv
  <2>5. WaitInv'
    BY <1>0, <1>5, <2>1, WaitingStep DEF UseTemporary, TInv, WaitPCs, RelPCs
  <2> QED
    BY <2>3, <2>4, <2>5 DEF TInv
<1>6. ASSUME MobjGet(t) PROVE TInv'
  <2>1. pc[t] # "idle" /\ cur[t] \in Objs
    BY <1>6 DEF MobjGet, TInv, CurInv
  <2>2. mobj' \in [Objs -> MobjRec]
    BY <1>0, <1>6, <2>1 DEF MobjGet, MobjRec, TInv
  <2>3. TypeOK'
    BY <1>6, <2>1, <2>2 DEF MobjGet, TInv, TypeOK, PCs
  <2>4. CurInv'
    BY <1>0, <1>6, <2>1 DEF MobjGet, TInv, CurInv
  <2>5. WaitInv'
    BY <1>0, <1>6, <2>1, WaitingStep DEF MobjGet, TInv, WaitPCs, RelPCs
  <2> QED
    BY <2>3, <2>4, <2>5 DEF TInv
<1>7. ASSUME CopyInParam(t) PROVE TInv'
  <2>1. pc[t] # "idle" /\ cur[t] \in Objs
    BY <1>7 DEF CopyInParam, TInv, CurInv
  <2>2. mobj' \in [Objs -> MobjRec]
    BY <1>0, <1>7, <2>1 DEF CopyInParam, MobjRec, TInv
  <2>3. TypeOK'
    BY <1>7, <2>1, <2>2 DEF CopyInParam, MobjRec, TInv, TypeOK, PCs
  <2>4. CurInv'
    BY <1>0, <1>7, <2>1 DEF CopyInParam, TInv, CurInv
  <2>5. WaitInv'
    BY <1>0, <1>7, <2>1, WaitingStep DEF CopyInParam, TInv, WaitPCs, RelPCs
  <2> QED
    BY <2>3, <2>4, <2>5 DEF TInv
<1>8. ASSUME IncMapFast(t) PROVE TInv'
  <2>1. pc[t] # "idle" /\ cur[t] \in Objs
    BY <1>8 DEF IncMapFast, TInv, CurInv
  <2>2. mobj' \in [Objs -> MobjRec]
    BY <1>0, <1>8, <2>1 DEF IncMapFast, MobjRec, TInv
  <2>3. TypeOK'
    BY <1>8, <2>1, <2>2 DEF IncMapFast, TInv, TypeOK, PCs
  <2>4. CurInv'
    BY <1>0, <1>8, <2>1 DEF IncMapFast, TInv, CurInv
  <2>5. WaitInv'
    BY <1>0, <1>8, <2>1, WaitingStep DEF IncMapFast, TInv, WaitPCs, RelPCs
  <2> QED
    BY <2>3, <2>4, <2>5 DEF TInv
<1>9. ASSUME IncMapLocked(t) PROVE TInv'
  <2>1. pc[t] # "idle" /\ cur[t] \in Objs
    BY <1>9 DEF IncMapLocked, TInv, CurInv
  <2>2. mobj' \in [Objs -> MobjRec]
    <3>1. \/ mobj' = mobj
          \/ mobj' = [mobj EXCEPT ![cur[t]].mm = NoMM]
          \/ \E m \in MMs : mobj' = [mobj EXCEPT ![cur[t]].mm = m, ![cur[t]].mapcount = 1]
      BY <1>9 DEF IncMapLocked, MapPages
    <3>2. CASE mobj' = mobj \/ mobj' = [mobj EXCEPT ![cur[t]].mm = NoMM]
      BY <1>0, <2>1, <3>2 DEF MobjRec
    <3>3. CASE \E m \in MMs : mobj' = [mobj EXCEPT ![cur[t]].mm = m, ![cur[t]].mapcount = 1]
      <4> PICK m \in MMs : mobj' = [mobj EXCEPT ![cur[t]].mm = m, ![cur[t]].mapcount = 1]
        BY <3>3
      <4>1. mobj \in [Objs -> MobjRec]
        BY <1>0
      <4> QED
        BY <2>1, <4>1 DEF MobjRec
    <3> QED
      BY <3>1, <3>2, <3>3
  <2>3. TypeOK'
    <3>1. \/ pc' = [pc EXCEPT ![t] = "get_va"]
          \/ pc' = [pc EXCEPT ![t] = "put"]
      BY <1>9 DEF IncMapLocked, MapPages
    <3>2. didMap' = [didMap EXCEPT ![t] = TRUE] \/ didMap' = didMap
      BY <1>9 DEF IncMapLocked, MapPages
    <3>3. mmUsed' \subseteq MMs
      <4>1. mmUsed' = mmUsed \/ \E m \in MMs : mmUsed' = mmUsed \cup {m}
        BY <1>9 DEF IncMapLocked, MapPages
      <4> QED
        BY <1>0, <4>1
    <3>4. UNCHANGED <<shmList, shmMu, waiters, cur, attr, va, releaser, panicked>>
      BY <1>9 DEF IncMapLocked
    <3> QED
      BY <2>2, <3>1, <3>2, <3>3, <3>4 DEF TInv, TypeOK, PCs
  <2>4. CurInv'
    BY <1>0, <1>9, <2>1 DEF IncMapLocked, MapPages, TInv, CurInv
  <2>5. WaitInv'
    BY <1>0, <1>9, <2>1, WaitingStep DEF IncMapLocked, MapPages, TInv, WaitPCs, RelPCs
  <2> QED
    BY <2>3, <2>4, <2>5 DEF TInv
<1>10. ASSUME GetVa(t) PROVE TInv'
  <2>1. pc[t] # "idle" /\ cur[t] \in Objs
    BY <1>10 DEF GetVa, TInv, CurInv
  <2>2. mobj' \in [Objs -> MobjRec]
    BY <1>0, <1>10, <2>1 DEF GetVa, MobjRec, TInv
  <2>3. TypeOK'
    BY <1>10, <2>1, <2>2 DEF GetVa, MobjRec, TInv, TypeOK, PCs
  <2>4. CurInv'
    BY <1>0, <1>10, <2>1 DEF GetVa, TInv, CurInv
  <2>5. WaitInv'
    BY <1>0, <1>10, <2>1, WaitingStep DEF GetVa, TInv, WaitPCs, RelPCs
  <2> QED
    BY <2>3, <2>4, <2>5 DEF TInv
<1>11. ASSUME EndUse(t) PROVE TInv'
  <2>1. pc[t] # "idle" /\ cur[t] \in Objs
    BY <1>11 DEF EndUse, TInv, CurInv
  <2>2. mobj' \in [Objs -> MobjRec]
    BY <1>0, <1>11, <2>1 DEF EndUse, TInv
  <2>3. TypeOK'
    BY <1>11, <2>1, <2>2 DEF EndUse, TInv, TypeOK, PCs
  <2>4. CurInv'
    BY <1>0, <1>11, <2>1 DEF EndUse, TInv, CurInv
  <2>5. WaitInv'
    BY <1>0, <1>11, <2>1, WaitingStep DEF EndUse, TInv, WaitPCs, RelPCs
  <2> QED
    BY <2>3, <2>4, <2>5 DEF TInv
<1>12. ASSUME DecMapFast(t) PROVE TInv'
  <2>1. pc[t] # "idle" /\ cur[t] \in Objs
    BY <1>12 DEF DecMapFast, TInv, CurInv
  <2>2. mobj' \in [Objs -> MobjRec]
    BY <1>0, <1>12, <2>1 DEF DecMapFast, MobjRec, TInv
  <2>3. TypeOK'
    BY <1>12, <2>1, <2>2 DEF DecMapFast, TInv, TypeOK, PCs
  <2>4. CurInv'
    BY <1>0, <1>12, <2>1 DEF DecMapFast, TInv, CurInv
  <2>5. WaitInv'
    BY <1>0, <1>12, <2>1, WaitingStep DEF DecMapFast, TInv, WaitPCs, RelPCs
  <2> QED
    BY <2>3, <2>4, <2>5 DEF TInv
<1>13. ASSUME DecMapLocked(t) PROVE TInv'
  <2>1. pc[t] # "idle" /\ cur[t] \in Objs
    BY <1>13 DEF DecMapLocked, TInv, CurInv
  <2>2. mobj' \in [Objs -> MobjRec]
    BY <1>0, <1>13, <2>1 DEF DecMapLocked, MobjRec, TInv
  <2>3. TypeOK'
    BY <1>13, <2>1, <2>2 DEF DecMapLocked, TInv, TypeOK, PCs
  <2>4. CurInv'
    BY <1>0, <1>13, <2>1 DEF DecMapLocked, TInv, CurInv
  <2>5. WaitInv'
    BY <1>0, <1>13, <2>1, WaitingStep DEF DecMapLocked, TInv, WaitPCs, RelPCs
  <2> QED
    BY <2>3, <2>4, <2>5 DEF TInv
<1>14. ASSUME MobjPut(t) PROVE TInv'
  <2>1. pc[t] # "idle" /\ cur[t] \in Objs
    BY <1>14 DEF MobjPut, TInv, CurInv
  <2>2. mobj' \in [Objs -> MobjRec]
    BY <1>0, <1>14, <2>1 DEF MobjPut, MobjRec, TInv
  <2>3. TypeOK'
    BY <1>14, <2>1, <2>2 DEF MobjPut, TInv, TypeOK, PCs
  <2>4. CurInv'
    BY <1>0, <1>14, <2>1 DEF MobjPut, TInv, CurInv
  <2>5. WaitInv'
    BY <1>0, <1>14, <2>1, WaitingStep DEF MobjPut, TInv, WaitPCs, RelPCs
  <2> QED
    BY <2>3, <2>4, <2>5 DEF TInv
<1>15. ASSUME MobjRegShmFree(t) PROVE TInv'
  <2>1. pc[t] # "idle" /\ cur[t] \in Objs
    BY <1>15 DEF MobjRegShmFree, TInv, CurInv
  <2>2. mobj' \in [Objs -> MobjRec]
    BY <1>0, <1>15, <2>1 DEF MobjRegShmFree, TInv
  <2>3. TypeOK'
    BY <1>15, <2>1, <2>2 DEF MobjRegShmFree, TInv, TypeOK, PCs
  <2>4. CurInv'
    BY <1>0, <1>15, <2>1 DEF MobjRegShmFree, TInv, CurInv
  <2>5. WaitInv'
    BY <1>0, <1>15, <2>1, WaitingStep DEF MobjRegShmFree, TInv, WaitPCs, RelPCs
  <2> QED
    BY <2>3, <2>4, <2>5 DEF TInv
<1>16. ASSUME FreeGuarded(t) PROVE TInv'
  <2>1. pc[t] # "idle" /\ cur[t] \in Objs
    BY <1>16 DEF FreeGuarded, TInv, CurInv
  <2>2. mobj' \in [Objs -> MobjRec]
    BY <1>0, <1>16, <2>1, ObjTypes DEF FreeGuarded, RegShmFreeHelper, TInv
  <2>3. TypeOK'
    BY <1>16, <2>1, <2>2 DEF FreeGuarded, RegShmFreeHelper, TInv, TypeOK, PCs
  <2>4. CurInv'
    BY <1>0, <1>16, <2>1 DEF FreeGuarded, RegShmFreeHelper, TInv, CurInv
  <2>5. WaitInv'
    BY <1>0, <1>16, <2>1, WaitingStep DEF FreeGuarded, RegShmFreeHelper, TInv, WaitPCs,
       RelPCs
  <2> QED
    BY <2>3, <2>4, <2>5 DEF TInv
<1>17. ASSUME SetReleaseFrees(t) PROVE TInv'
  <2>1. pc[t] # "idle" /\ cur[t] \in Objs
    BY <1>17 DEF SetReleaseFrees, TInv, CurInv
  <2>2. mobj' \in [Objs -> MobjRec]
    BY <1>0, <1>17, <2>1 DEF SetReleaseFrees, MobjRec, TInv
  <2>3. TypeOK'
    BY <1>17, <2>1, <2>2 DEF SetReleaseFrees, TInv, TypeOK, PCs
  <2>4. CurInv'
    BY <1>0, <1>17, <2>1 DEF SetReleaseFrees, TInv, CurInv
  <2>5. WaitInv'
    BY <1>0, <1>17, <2>1, WaitingStep DEF SetReleaseFrees, TInv, WaitPCs, RelPCs
  <2> QED
    BY <2>3, <2>4, <2>5 DEF TInv
<1>18. ASSUME ReleaseCheck(t) PROVE TInv'
  <2>1. pc[t] # "idle" /\ cur[t] \in Objs
    BY <1>18 DEF ReleaseCheck, TInv, CurInv
  <2>2. mobj' \in [Objs -> MobjRec]
    <3>1. mobj' = mobj \/ mobj' = [mobj EXCEPT ![cur[t]] = FreeChunk]
      BY <1>18 DEF ReleaseCheck, RegShmFreeHelper
    <3>2. FreeChunk \in MobjRec
      BY DEF FreeChunk, MobjRec
    <3> QED
      BY <1>0, <2>1, <3>1, <3>2
  <2>3. TypeOK'
    BY <1>18, <2>1, <2>2 DEF ReleaseCheck, RegShmFreeHelper, TInv, TypeOK, PCs
  <2>4. CurInv'
    BY <1>0, <1>18, <2>1 DEF ReleaseCheck, RegShmFreeHelper, TInv, CurInv
  <2>5. WaitInv'
    BY <1>0, <1>18, <2>1, WaitingStep DEF ReleaseCheck, RegShmFreeHelper, TInv,
       WaitPCs, RelPCs
  <2> QED
    BY <2>3, <2>4, <2>5 DEF TInv
<1>19. ASSUME ReleaseWait(t) PROVE TInv'
  <2>1. pc[t] # "idle" /\ cur[t] \in Objs
    BY <1>19 DEF ReleaseWait, TInv, CurInv
  <2>2. mobj' \in [Objs -> MobjRec]
    BY <1>0, <1>19, <2>1 DEF ReleaseWait, TInv
  <2>3. TypeOK'
    BY <1>19, <2>1, <2>2 DEF ReleaseWait, TInv, TypeOK, PCs
  <2>4. CurInv'
    BY <1>0, <1>19, <2>1 DEF ReleaseWait, TInv, CurInv
  <2>5. WaitInv'
    BY <1>0, <1>19, <2>1, WaitingStep DEF ReleaseWait, TInv, WaitPCs, RelPCs
  <2> QED
    BY <2>3, <2>4, <2>5 DEF TInv
<1>20. ASSUME ReleaseWakes(t) PROVE TInv'
  <2>1. pc[t] # "idle" /\ cur[t] \in Objs
    BY <1>20 DEF ReleaseWakes, TInv, CurInv
  <2>2. mobj' \in [Objs -> MobjRec]
    BY <1>0, <1>20, <2>1 DEF ReleaseWakes, TInv
  <2>3. TypeOK'
    BY <1>20, <2>1, <2>2 DEF ReleaseWakes, TInv, TypeOK, PCs
  <2>4. CurInv'
    BY <1>0, <1>20, <2>1 DEF ReleaseWakes, TInv, CurInv
  <2>5. WaitInv'
    BY <1>0, <1>20, <2>1, WaitingStep DEF ReleaseWakes, TInv, WaitPCs, RelPCs
  <2> QED
    BY <2>3, <2>4, <2>5 DEF TInv
<1>21. ASSUME NotifyReleasers(t) PROVE TInv'
  <2>1. pc[t] = "broadcast" /\ pc'[t] \in {"rel_lock", "idle"} /\ waiters' = waiters
    BY <1>0, <1>21 DEF NotifyReleasers, Woken, TInv
  <2>2. \A u \in Threads \ {t} : \/ pc'[u] = pc[u]
                                 \/ pc[u] = "rel_sleep" /\ pc'[u] = "rel_woken"
    <3>1. PICK next \in PCs : \/ pc' = Woken([pc EXCEPT ![t] = next])
                             \/ pc' = [pc EXCEPT ![t] = next]
      BY <1>21 DEF NotifyReleasers, PCs
    <3>2. CASE pc' = [pc EXCEPT ![t] = next]
      <4>1. \A u \in Threads \ {t} : pc'[u] = pc[u]
        BY <1>0, <3>2
      <4> QED
        BY <4>1, Zenon
    <3>3. CASE pc' = Woken([pc EXCEPT ![t] = next])
      <4> DEFINE p == [pc EXCEPT ![t] = next]
      <4>1. \A u \in Threads \ {t} : p[u] = pc[u]
        BY <1>0
      <4> HIDE DEF p
      <4>2. pc' = Woken(p)
        BY <3>3 DEF p
      <4>3. \A u \in Threads \ {t} :
               pc'[u] = IF pc[u] = "rel_sleep" THEN "rel_woken" ELSE pc[u]
        BY <4>1, <4>2 DEF Woken
      <4> QED
        BY <4>3
    <3> QED
      BY <3>1, <3>2, <3>3
  <2>3. /\ \A u \in Threads \ {t} : cur'[u] = cur[u]
        /\ IF t \in releaser THEN pc'[t] = "rel_lock" /\ cur'[t] = cur[t]
           ELSE pc'[t] = "idle"
    BY <1>0, <1>21 DEF NotifyReleasers, Woken, TInv
  <2>4. TypeOK'
    <3>1. pc' \in [Threads -> PCs]
      BY <1>0, <1>21 DEF NotifyReleasers, Woken, TInv, PCs
    <3> QED
      BY <1>21, <3>1 DEF NotifyReleasers, TInv, TypeOK
  <2>5. CurInv'
    BY <2>1, <2>2, <2>3 DEF TInv, CurInv
  <2>6. WaitInv'
    BY <2>1, <2>2, WaitingStep DEF TInv, WaitPCs, RelPCs
  <2> QED
    BY <2>4, <2>5, <2>6 DEF TInv
<1>22. ASSUME ReleaseLock(t) PROVE TInv'
  <2>1. TypeOK' /\ CurInv'
    BY <1>22 DEF ReleaseLock, TInv, TypeOK, CurInv, PCs
  <2>2. t \notin Waiting /\ Waiting' = Waiting \cup {t} /\ Waiting \in SUBSET Threads
    BY <1>0, <1>22 DEF ReleaseLock, Waiting, WaitPCs, RelPCs, TInv
  <2>3. WaitInv'
    BY <1>22, <2>2, Count DEF ReleaseLock, TInv, WaitInv
  <2> QED
    BY <2>1, <2>3 DEF TInv
<1>23. ASSUME ReleaseDone(t) PROVE TInv'
  <2>1. t \in Waiting /\ Waiting' = Waiting \ {t} /\ Waiting \in SUBSET Threads
    BY <1>0, <1>23 DEF ReleaseDone, Waiting, WaitPCs, RelPCs, TInv
  <2>2. waiters' = Cardinality(Waiting') /\ waiters' \in Nat
    <3>1. waiters' = Cardinality(Waiting) - 1
      BY <1>23 DEF ReleaseDone, TInv, WaitInv
    <3>2. Waiting' \in SUBSET Threads
      BY <2>1
    <3>3. Cardinality(Waiting') \in Nat
      BY <3>2, Count
    <3> QED
      BY <2>1, <3>1, <3>3, Count
  <2>3. TypeOK' /\ CurInv'
    BY <1>23, <2>2 DEF ReleaseDone, TInv, TypeOK, CurInv, PCs
  <2> QED
    BY <2>2, <2>3 DEF TInv, WaitInv
<1>24. ASSUME MobjMappedShmAlloc(t) PROVE TInv'
  <2>1. pc[t] # "idle" /\ cur[t] \in Objs
    BY <1>24 DEF MobjMappedShmAlloc, TInv, CurInv
  <2>2. mobj' \in [Objs -> MobjRec]
    BY <1>0, <1>24, <2>1 DEF MobjMappedShmAlloc, TInv
  <2>3. TypeOK'
    BY <1>24, <2>1, <2>2 DEF MobjMappedShmAlloc, TInv, TypeOK, PCs
  <2>4. CurInv'
    BY <1>0, <1>24, <2>1 DEF MobjMappedShmAlloc, TInv, CurInv
  <2>5. WaitInv'
    BY <1>0, <1>24, <2>1, WaitingStep DEF MobjMappedShmAlloc, TInv, WaitPCs, RelPCs
  <2> QED
    BY <2>3, <2>4, <2>5 DEF TInv
<1>25. ASSUME CleanupSkips(t) PROVE TInv'
  <2>1. pc[t] # "idle" /\ cur[t] \in Objs
    BY <1>25 DEF CleanupSkips, TInv, CurInv
  <2>2. mobj' \in [Objs -> MobjRec]
    BY <1>0, <1>25, <2>1 DEF CleanupSkips, TInv
  <2>3. TypeOK'
    BY <1>25, <2>1, <2>2 DEF CleanupSkips, TInv, TypeOK, PCs
  <2>4. CurInv'
    BY <1>0, <1>25, <2>1 DEF CleanupSkips, TInv, CurInv
  <2>5. WaitInv'
    BY <1>0, <1>25, <2>1, WaitingStep DEF CleanupSkips, TInv, WaitPCs, RelPCs
  <2> QED
    BY <2>3, <2>4, <2>5 DEF TInv
<1> HIDE DEF Goto, Return, PutReturns, Panic
<1> QED
  BY <1>1, <1>2, <1>3, <1>4, <1>5, <1>6, <1>7, <1>8, <1>9, <1>10, <1>11, <1>12, <1>13,
     <1>14, <1>15, <1>16, <1>17, <1>18, <1>19, <1>20, <1>21, <1>22, <1>23, <1>24, <1>25
  DEF Calls, Steps

\* The inductive form of TypeOK.
LEMMA TypeInvariant == Spec => []TInv
<1>1. Init => TInv
  <2> SUFFICES ASSUME Init PROVE TInv
    OBVIOUS
  <2>1. TypeOK
    BY DEF Init, TypeOK, MobjRec, FreeChunk, PCs
  <2>2. Waiting = {}
    BY DEF Init, Waiting, WaitPCs, RelPCs
  <2> QED
    BY <2>1, <2>2, FS_EmptySet DEF Init, TInv, WaitInv, CurInv
<1>2. TInv /\ [Next]_vars => TInv'
  <2> SUFFICES ASSUME TInv, [Next]_vars PROVE TInv'
    OBVIOUS
  <2>1. CASE Next
    BY <2>1, TypeStep DEF Next
  <2>2. CASE UNCHANGED vars
    BY <2>2 DEF vars, TInv, TypeOK, WaitInv, Waiting, CurInv
  <2> QED
    BY <2>1, <2>2
<1> QED
  BY <1>1, <1>2, PTL DEF Spec

\* The variables of the module keep their types; in particular
\* shm_release_waiters never goes below 0: it counts the releasers between
\* their first and last section under shm_mu.
THEOREM TypeCorrect == Spec => []TypeOK
<1>1. TInv => TypeOK
  BY DEF TInv
<1> QED
  BY <1>1, TypeInvariant, PTL

-----------------------------------------------------------------------------
(* Memory safety.                                                           *)

\* The fields RInv speaks of are left alone.
SameObjs == \A o \in Objs :
    /\ mobj'[o].live <=> mobj[o].live
    /\ mobj'[o].guarded <=> mobj[o].guarded
    /\ mobj'[o].releasing <=> mobj[o].releasing
    /\ mobj'[o].release_frees <=> mobj[o].release_frees
    /\ mobj'[o].refc = mobj[o].refc

\* A step of t that changes no reference: t goes from one label to another of
\* the same kind.
LEMMA MoveStep ==
    ASSUME TInv, RInv, NEW t \in Threads, SameObjs,
           shmList' = shmList, cur' = cur, releaser' = releaser,
           \A u \in Threads \ {t} : \/ pc'[u] = pc[u]
                                    \/ pc[u] = "rel_sleep" /\ pc'[u] = "rel_woken",
           Touches(t), pc'[t] \notin {"idle", "created", "found", "rel_done"},
           pc'[t] \in HoldPCs <=> pc[t] \in HoldPCs,
           pc'[t] \in FreePCs => pc[t] \in FreePCs,
           pc'[t] = "free_guarded" => mobj[cur[t]].guarded,
           pc'[t] = "free_notify" => mobj[cur[t]].releasing,
           pc'[t] \in RelPCs => t \in releaser,
           t \in releaser => pc'[t] \in {"put", "free", "free_notify", "broadcast"}
                                           \cup RelPCs
    PROVE  RInv'
<1>1. cur[t] \in Objs /\ mobj[cur[t]].live /\ pc[t] # "rel_done"
  BY DEF RInv, UseInv, Touches
<1>2. \A u \in Threads : /\ Touches(u)' => Touches(u)
                         /\ pc'[u] \in FreePCs => pc[u] \in FreePCs
                         /\ pc'[u] \in HoldPCs <=> pc[u] \in HoldPCs
  BY DEF Touches, FreePCs, HoldPCs
<1>3. UseInv'
  BY <1>2 DEF RInv, UseInv, SameObjs
<1>4. RefInv'
  <2>1. \A o \in Objs : Holders(o)' = Holders(o)
    BY <1>2 DEF Holders
  <2>2. \A o \in Objs : Registered(o)' <=> Registered(o)
    BY DEF Registered, SameObjs
  <2> QED
    BY <2>1, <2>2 DEF RInv, RefInv, Balanced, Owed, SameObjs
<1>5. FlagInv'
  BY DEF RInv, FlagInv, SameObjs
<1>6. \A u \in Threads : pc[u] # "idle" => cur[u] \in Objs
  BY DEF TInv, CurInv
<1>7. PhaseInv'
  <2> SUFFICES ASSUME NEW u \in Threads
               PROVE  Phase(u)'
    BY DEF PhaseInv
  <2>1. CASE u = t
    BY <2>1, <1>1, <1>2 DEF RInv, PhaseInv, Phase, SameObjs, RelPCs
  <2>2. CASE u # t /\ pc'[u] = pc[u]
    BY <2>2, <1>6 DEF RInv, PhaseInv, Phase, SameObjs, Registered, FreePCs, RelPCs
  <2>3. CASE u # t /\ pc[u] = "rel_sleep" /\ pc'[u] = "rel_woken"
    BY <2>3, <1>6 DEF RInv, PhaseInv, Phase, SameObjs, FreePCs, RelPCs
  <2> QED
    BY <2>1, <2>2, <2>3
<1>8. UniqueInv'
  BY <1>1, <1>2 DEF RInv, UniqueInv
<1> QED
  BY <1>3, <1>4, <1>5, <1>7, <1>8 DEF RInv

\* A step that is about one object, o, and one thread, t.
Elsewhere(t, o) ==
    /\ \A p \in Objs \ {o} : mobj'[p] = mobj[p]
    /\ \A u \in Threads \ {t} : pc'[u] = pc[u] /\ cur'[u] = cur[u]
    /\ \A u \in Threads \ {t} : u \in releaser' <=> u \in releaser

\* Only t can join or leave the holders, and only those of o.
LEMMA ElsewhereHolders ==
    ASSUME NEW t \in Threads, NEW o \in Objs, Elsewhere(t, o),
           cur[t] = o \/ pc[t] = "idle", cur'[t] = o \/ pc'[t] = "idle"
    PROVE  /\ \A p \in Objs \ {o} : Holders(p)' = Holders(p)
           /\ Holders(o) \ {t} = Holders(o)' \ {t}
           /\ Holders(o) \in SUBSET Threads /\ Holders(o)' \in SUBSET Threads
BY DEF Elsewhere, Holders, HoldPCs

\* The reference count of o follows the change of its holders; the others have
\* not changed.
LEMMA RefStep ==
    ASSUME RInv, NEW t \in Threads, NEW o \in Objs, Elsewhere(t, o),
           cur[t] = o \/ pc[t] = "idle", cur'[t] = o \/ pc'[t] = "idle",
           mobj'[o].live => Balanced(o)'
    PROVE  RefInv'
<1>1. \A p \in Objs \ {o} : Holders(p)' = Holders(p) /\ mobj'[p] = mobj[p]
  BY ElsewhereHolders DEF Elsewhere
<1>2. \A p \in Objs \ {o} : Registered(p)' <=> Registered(p)
  BY <1>1 DEF Registered
<1> QED
  BY <1>1, <1>2 DEF RInv, RefInv, Balanced, Owed

\* mobj_reg_shm_alloc(): nobody touches a chunk that was free.
LEMMA AllocStep ==
    ASSUME TInv, RInv, NEW t \in Threads, NEW c \in Cookies, NEW o \in Objs,
           MobjRegShmAlloc(t, c, o)
    PROVE  RInv'
<1>0. /\ mobj \in [Objs -> MobjRec] /\ pc \in [Threads -> PCs]
      /\ cur \in [Threads -> Objs \cup {NoObj}]
  BY DEF TInv, TypeOK
<1>1. Elsewhere(t, o) /\ releaser' = releaser /\ t \notin releaser
  BY <1>0 DEF MobjRegShmAlloc, Goto, Elsewhere, RInv, PhaseInv, Phase, RelPCs
<1>2. /\ mobj'[o].live /\ mobj'[o].guarded /\ ~mobj'[o].releasing
      /\ ~mobj'[o].release_frees /\ mobj'[o].refc = 1
  BY <1>0 DEF MobjRegShmAlloc, FreeChunk
<1>3. pc[t] = "idle" /\ ~mobj[o].live /\ pc'[t] = "created" /\ cur'[t] = o
  BY <1>0 DEF MobjRegShmAlloc, Goto
<1>4. \A u \in Threads : Touches(u) => cur[u] \in Objs /\ cur[u] # o
  BY <1>3 DEF RInv, UseInv
<1>5. \A u \in Threads \ {t} : /\ Touches(u)' <=> Touches(u)
                               /\ pc'[u] = pc[u] /\ cur'[u] = cur[u]
  BY <1>1 DEF Elsewhere, Touches
<1>6. UseInv'
  <2>1. shmList' = {p \in Objs : mobj'[p].live}
    BY <1>1, <1>2 DEF MobjRegShmAlloc, RInv, UseInv, Elsewhere
  <2> QED
    BY <1>1, <1>2, <1>3, <1>4, <1>5, <2>1 DEF RInv, UseInv, Elsewhere
<1>7. RefInv'
  <2>1. Holders(o)' = {t}
    BY <1>3, <1>4, <1>5 DEF Holders, HoldPCs, Touches
  <2>2. Cardinality({t}) = 1
    BY FS_Singleton
  <2>3. ~Registered(o)'
    BY <1>2 DEF Registered
  <2> QED
    BY <1>1, <1>2, <1>3, <2>1, <2>2, <2>3, RefStep DEF Balanced, Owed
<1>8. FlagInv'
  BY <1>1, <1>2 DEF RInv, FlagInv, Elsewhere
<1>9. PhaseInv'
  <2> SUFFICES ASSUME NEW u \in Threads PROVE Phase(u)'
    BY DEF PhaseInv
  <2>1. CASE u = t
    BY <2>1, <1>1, <1>2, <1>3 DEF Phase, FreePCs, RelPCs
  <2>2. CASE u # t /\ Touches(u)
    BY <2>2, <1>1, <1>4, <1>5 DEF RInv, PhaseInv, Phase, Registered, Elsewhere
  <2>3. CASE u # t /\ ~Touches(u)
    BY <2>3, <1>1, <1>5 DEF RInv, PhaseInv, Phase, Touches, FreePCs, RelPCs
  <2> QED
    BY <2>1, <2>2, <2>3
<1>10. UniqueInv'
  <2>1. \A u \in Threads \ {t} : cur'[u] = o => ~Touches(u)'
    BY <1>4, <1>5
  <2> SUFFICES ASSUME NEW u \in Threads, NEW v \in Threads, u # v, cur'[u] = cur'[v]
               PROVE  /\ ~(pc'[u] \in FreePCs /\ pc'[v] \in FreePCs)
                      /\ ~(pc'[u] = "created" /\ Touches(v)')
                      /\ ~(u \in releaser' /\ v \in releaser' /\ pc'[u] # "rel_done"
                                                              /\ pc'[v] # "rel_done")
    BY DEF UniqueInv
  <2>2. CASE u # t /\ v # t
    BY <2>2, <1>1, <1>5 DEF RInv, UniqueInv
  <2>3. CASE u = t
    BY <2>1, <2>3, <1>1, <1>3 DEF FreePCs
  <2>4. CASE v = t
    BY <2>1, <2>4, <1>1, <1>3 DEF FreePCs, Touches
  <2> QED
    BY <2>2, <2>3, <2>4
<1> QED
  BY <1>6, <1>7, <1>8, <1>9, <1>10 DEF RInv

\* A lookup finds a registered object and does not count itself yet.
LEMMA GetByCookieStep ==
    ASSUME TInv, RInv, NwPins, NEW t \in Threads, NEW c \in Cookies, GetByCookie(t, c)
    PROVE  RInv'
<1>0. /\ mobj \in [Objs -> MobjRec] /\ pc \in [Threads -> PCs]
      /\ cur \in [Threads -> Objs \cup {NoObj}] /\ releaser \subseteq Threads
  BY DEF TInv, TypeOK
<1> PICK o \in RegShmFind(c) : /\ ~mobj[o].guarded /\ ~mobj[o].releasing
                               /\ cur' = [cur EXCEPT ![t] = o]
  BY DEF GetByCookie
<1>1. o \in Objs /\ Elsewhere(t, o) /\ releaser' = releaser /\ t \notin releaser
  BY <1>0 DEF GetByCookie, Goto, Elsewhere, RegShmFind, RInv, UseInv, PhaseInv, Phase,
     RelPCs
<1>2. Registered(o) /\ mobj' = mobj /\ shmList' = shmList
  BY DEF GetByCookie, RegShmFind, RInv, UseInv, Registered
<1>3. pc[t] = "idle" /\ pc'[t] = "found" /\ cur'[t] = o
  BY <1>0 DEF GetByCookie, Goto
<1>4. \A u \in Threads \ {t} : /\ Touches(u)' <=> Touches(u)
                               /\ pc'[u] = pc[u] /\ cur'[u] = cur[u]
                               /\ u \in releaser' <=> u \in releaser
  BY <1>1 DEF Elsewhere, Touches
<1>6. UseInv'
  BY <1>1, <1>2, <1>3, <1>4 DEF RInv, UseInv, Registered
<1>7. RefInv'
  <2>1. Holders(o)' = Holders(o)
    BY <1>3, <1>4 DEF Holders, HoldPCs
  <2>2. Balanced(o)'
    BY <1>1, <1>2, <2>1 DEF RInv, RefInv, Balanced, Owed, Registered
  <2> QED
    BY <1>1, <1>3, <2>2, RefStep
<1>8. FlagInv'
  BY <1>2 DEF RInv, FlagInv
<1>9. PhaseInv'
  <2> SUFFICES ASSUME NEW u \in Threads PROVE Phase(u)'
    BY DEF PhaseInv
  <2>1. CASE u = t
    BY <2>1, <1>1, <1>2, <1>3 DEF Phase, FreePCs, RelPCs, Registered
  <2>2. CASE u # t /\ Touches(u)
    BY <2>2, <1>2, <1>4 DEF RInv, PhaseInv, Phase, Registered, Elsewhere
  <2>3. CASE u # t /\ ~Touches(u)
    BY <2>3, <1>4 DEF RInv, PhaseInv, Phase, Touches, FreePCs, RelPCs
  <2> QED
    BY <2>1, <2>2, <2>3
<1>10. UniqueInv'
  <2> SUFFICES ASSUME NEW u \in Threads, NEW v \in Threads, u # v, cur'[u] = cur'[v]
               PROVE  /\ ~(pc'[u] \in FreePCs /\ pc'[v] \in FreePCs)
                      /\ ~(pc'[u] = "created" /\ Touches(v)')
                      /\ ~(u \in releaser' /\ v \in releaser' /\ pc'[u] # "rel_done"
                                                              /\ pc'[v] # "rel_done")
    BY DEF UniqueInv
  <2>1. CASE u # t /\ v # t
    BY <2>1, <1>4 DEF RInv, UniqueInv
  <2>2. CASE u = t
    BY <2>2, <1>1, <1>3 DEF FreePCs
  <2>3. CASE v = t
    BY <2>3, <1>1, <1>2, <1>3, <1>4 DEF FreePCs, RInv, PhaseInv, Phase, Registered
  <2> QED
    BY <2>1, <2>2, <2>3
<1> QED
  BY <1>6, <1>7, <1>8, <1>9, <1>10 DEF RInv

\* register_shm() hands the creator's reference to the registration.
LEMMA UnguardStep ==
    ASSUME TInv, RInv, NEW t \in Threads, MobjRegShmUnguard(t)
    PROVE  RInv'
<1>0. /\ mobj \in [Objs -> MobjRec] /\ pc \in [Threads -> PCs]
      /\ cur \in [Threads -> Objs \cup {NoObj}] /\ releaser \subseteq Threads
  BY DEF TInv, TypeOK
<1>c. cur[t] \in Objs
  BY DEF MobjRegShmUnguard, TInv, CurInv
<1> PICK o \in Objs : o = cur[t]
  BY <1>c
<1>o. pc[t] = "created" /\ mobj[o].live /\ Touches(t)
  BY DEF MobjRegShmUnguard, RInv, UseInv, Touches
<1>1. Elsewhere(t, o) /\ releaser' = releaser /\ t \notin releaser /\ shmList' = shmList
  BY <1>0, <1>o DEF MobjRegShmUnguard, Return, Goto, Elsewhere, RInv, PhaseInv, Phase,
     RelPCs
<1>2. /\ mobj'[o].live /\ mobj[o].guarded /\ ~mobj[o].releasing
      /\ ~mobj'[o].guarded /\ ~mobj'[o].releasing /\ ~mobj'[o].release_frees
      /\ mobj'[o].refc = mobj[o].refc
  BY <1>0, <1>o DEF MobjRegShmUnguard, RInv, PhaseInv, Phase, FlagInv
<1>3. cur[t] = o /\ pc'[t] = "idle"
  BY <1>0 DEF MobjRegShmUnguard, Return, Goto
<1>4. \A u \in Threads \ {t} : /\ Touches(u)' <=> Touches(u)
                               /\ pc'[u] = pc[u] /\ cur'[u] = cur[u]
                               /\ u \in releaser' <=> u \in releaser
  BY <1>1 DEF Elsewhere, Touches
<1>5. \A u \in Threads \ {t} : Touches(u) => cur[u] \in Objs /\ cur[u] # o
  BY <1>o, <1>3 DEF RInv, UniqueInv, UseInv
<1>6. UseInv'
  BY <1>1, <1>2, <1>3, <1>4, <1>5, <1>o DEF RInv, UseInv, Touches, Elsewhere
<1>7. RefInv'
  <2>1. Holders(o)' = {} /\ Holders(o) = {t}
    BY <1>o, <1>3, <1>4, <1>5 DEF Holders, HoldPCs, Touches
  <2>2. Cardinality({t}) = 1 /\ Cardinality({}) = 0
    BY FS_Singleton, FS_EmptySet
  <2>3. Registered(o)' /\ ~Registered(o)
    BY <1>2 DEF Registered
  <2>4. mobj[o].refc = 1
    BY <1>o DEF RInv, PhaseInv, Phase
  <2>5. Balanced(o)'
    BY <1>2, <2>1, <2>2, <2>3, <2>4 DEF Balanced, Owed
  <2> QED
    BY <1>1, <1>3, <2>5, RefStep
<1>8. FlagInv'
  BY <1>1, <1>2 DEF RInv, FlagInv, Elsewhere
<1>9. PhaseInv'
  <2> SUFFICES ASSUME NEW u \in Threads PROVE Phase(u)'
    BY DEF PhaseInv
  <2>1. CASE u = t
    BY <2>1, <1>1, <1>3 DEF Phase, FreePCs, RelPCs
  <2>2. CASE u # t /\ Touches(u)
    BY <2>2, <1>1, <1>4, <1>5 DEF RInv, PhaseInv, Phase, Registered, Elsewhere
  <2>3. CASE u # t /\ ~Touches(u)
    BY <2>3, <1>4 DEF RInv, PhaseInv, Phase, Touches, FreePCs, RelPCs
  <2> QED
    BY <2>1, <2>2, <2>3
<1>10. UniqueInv'
  <2> SUFFICES ASSUME NEW u \in Threads, NEW v \in Threads, u # v, cur'[u] = cur'[v]
               PROVE  /\ ~(pc'[u] \in FreePCs /\ pc'[v] \in FreePCs)
                      /\ ~(pc'[u] = "created" /\ Touches(v)')
                      /\ ~(u \in releaser' /\ v \in releaser' /\ pc'[u] # "rel_done"
                                                              /\ pc'[v] # "rel_done")
    BY DEF UniqueInv
  <2>1. CASE u # t /\ v # t
    BY <2>1, <1>4 DEF RInv, UniqueInv
  <2>2. CASE u = t
    BY <2>2, <1>1, <1>3 DEF FreePCs
  <2>3. CASE v = t
    BY <2>3, <1>1, <1>3 DEF FreePCs, Touches
  <2> QED
    BY <2>1, <2>2, <2>3
<1> QED
  BY <1>6, <1>7, <1>8, <1>9, <1>10 DEF RInv

\* mobj_get() of an object that is still registered.
LEMMA GetStep ==
    ASSUME TInv, RInv, NEW t \in Threads, MobjGet(t), mobj[cur[t]].refc # 0
    PROVE  RInv'
<1>0. /\ mobj \in [Objs -> MobjRec] /\ pc \in [Threads -> PCs]
      /\ cur \in [Threads -> Objs \cup {NoObj}] /\ releaser \subseteq Threads
  BY DEF TInv, TypeOK
<1>c. cur[t] \in Objs
  BY DEF MobjGet, TInv, CurInv
<1> PICK o \in Objs : o = cur[t]
  BY <1>c
<1>o. pc[t] = "found" /\ Registered(o) /\ Touches(t)
  BY DEF MobjGet, RInv, PhaseInv, Phase, Touches
<1>1. Elsewhere(t, o) /\ releaser' = releaser /\ t \notin releaser /\ shmList' = shmList
  BY <1>0, <1>o DEF MobjGet, Goto, Elsewhere, RInv, PhaseInv, Phase, RelPCs
<1>2. /\ mobj'[o].live /\ ~mobj'[o].guarded /\ ~mobj'[o].releasing
      /\ ~mobj'[o].release_frees /\ mobj'[o].refc = mobj[o].refc + 1
  <2>1. mobj'[o] = [mobj[o] EXCEPT !.refc = @ + 1]
    BY <1>0, <1>o DEF MobjGet
  <2>2. mobj[o] \in MobjRec
    BY <1>0, <1>o
  <2> QED
    BY <1>o, <2>1, <2>2 DEF Registered, RInv, FlagInv, MobjRec
<1>3. cur[t] = o /\ cur'[t] = o /\ pc'[t] = "using"
  BY <1>0 DEF MobjGet, Goto
<1>4. \A u \in Threads \ {t} : /\ Touches(u)' <=> Touches(u)
                               /\ pc'[u] = pc[u] /\ cur'[u] = cur[u]
                               /\ u \in releaser' <=> u \in releaser
  BY <1>1 DEF Elsewhere, Touches
<1>5. mobj[o].live /\ ~mobj[o].guarded /\ ~mobj[o].releasing /\ ~mobj[o].release_frees
  BY <1>o DEF Registered, RInv, FlagInv
<1>a. mobj[o].refc = Cardinality(Holders(o)) + 1 /\ Cardinality(Holders(o)) \in Nat
  <2>1. Holders(o) \in SUBSET Threads
    BY DEF Holders
  <2>2. Balanced(o)
    BY <1>5 DEF RInv, RefInv
  <2> QED
    BY <1>o, <1>5, <2>1, <2>2, Count DEF Balanced, Owed
<1>6. UseInv'
  BY <1>1, <1>2, <1>3, <1>4, <1>5, <1>o DEF RInv, UseInv, Elsewhere
<1>7. RefInv'
  <2>1. t \notin Holders(o) /\ Holders(o)' = Holders(o) \cup {t} /\ Holders(o) \in SUBSET Threads
    BY <1>o, <1>3, <1>4 DEF Holders, HoldPCs
  <2>2. Cardinality(Holders(o)') = Cardinality(Holders(o)) + 1
    BY <2>1, Count
  <2>3. Registered(o)'
    BY <1>2 DEF Registered
  <2>4. Balanced(o)'
    BY <1>a, <1>2, <2>2, <2>3 DEF Balanced, Owed
  <2> QED
    BY <1>o, <1>1, <1>3, <2>4, RefStep
<1>8. FlagInv'
  BY <1>1, <1>2 DEF RInv, FlagInv, Elsewhere
<1>b. \A u \in Threads \ {t} : cur[u] = o /\ Touches(u) =>
         pc[u] \notin FreePCs \cup {"created"} /\ (u \in releaser => pc[u] = "rel_done")
  BY <1>5, <1>a DEF RInv, PhaseInv, Phase
<1>9. PhaseInv'
  <2> SUFFICES ASSUME NEW u \in Threads PROVE Phase(u)'
    BY DEF PhaseInv
  <2>1. CASE u = t
    BY <2>1, <1>1, <1>3 DEF Phase, FreePCs, RelPCs
  <2>2. CASE u # t /\ Touches(u)
    BY <2>2, <1>1, <1>2, <1>4, <1>5, <1>b DEF RInv, PhaseInv, Phase, Registered,
       Elsewhere, FreePCs, RelPCs, UseInv
  <2>3. CASE u # t /\ ~Touches(u)
    BY <2>3, <1>4 DEF RInv, PhaseInv, Phase, Touches, FreePCs, RelPCs
  <2> QED
    BY <2>1, <2>2, <2>3
<1>10. UniqueInv'
  <2> SUFFICES ASSUME NEW u \in Threads, NEW v \in Threads, u # v, cur'[u] = cur'[v]
               PROVE  /\ ~(pc'[u] \in FreePCs /\ pc'[v] \in FreePCs)
                      /\ ~(pc'[u] = "created" /\ Touches(v)')
                      /\ ~(u \in releaser' /\ v \in releaser' /\ pc'[u] # "rel_done"
                                                              /\ pc'[v] # "rel_done")
    BY DEF UniqueInv
  <2>1. CASE u # t /\ v # t
    BY <2>1, <1>4 DEF RInv, UniqueInv
  <2>2. CASE u = t
    BY <2>2, <1>1, <1>3 DEF FreePCs
  <2>3. CASE v = t
    BY <2>3, <1>b, <1>1, <1>3, <1>4 DEF FreePCs, Touches
  <2> QED
    BY <2>1, <2>2, <2>3
<1> QED
  BY <1>6, <1>7, <1>8, <1>9, <1>10 DEF RInv

\* Giving back one reference of several, or the last one.
LEMMA PutStep ==
    ASSUME TInv, RInv, NEW t \in Threads, MobjPut(t), mobj[cur[t]].refc # 0
    PROVE  RInv'
<1>0. /\ mobj \in [Objs -> MobjRec] /\ pc \in [Threads -> PCs]
      /\ cur \in [Threads -> Objs \cup {NoObj}] /\ releaser \subseteq Threads
  BY DEF TInv, TypeOK
<1>c. cur[t] \in Objs
  BY DEF MobjPut, TInv, CurInv
<1> PICK o \in Objs : o = cur[t]
  BY <1>c
<1>o. pc[t] = "put" /\ Touches(t) /\ mobj[o].live /\ mobj[o].refc # 0
  BY DEF MobjPut, RInv, UseInv, Touches
<1>1. Elsewhere(t, o) /\ releaser' = releaser /\ shmList' = shmList
  BY <1>0, <1>o DEF MobjPut, PutReturns, Return, Goto, Elsewhere
<1>2. /\ mobj'[o].live /\ (mobj'[o].guarded <=> mobj[o].guarded)
      /\ (mobj'[o].releasing <=> mobj[o].releasing)
      /\ ~mobj'[o].release_frees /\ mobj'[o].refc = mobj[o].refc - 1
      /\ ~mobj[o].release_frees /\ mobj[o].refc \in Nat
  <2>1. mobj'[o] = [mobj[o] EXCEPT !.refc = @ - 1]
    BY <1>0, <1>o DEF MobjPut
  <2>2. mobj[o] \in MobjRec
    BY <1>0
  <2> QED
    BY <1>o, <2>1, <2>2 DEF RInv, FlagInv, MobjRec
<1>3. /\ cur[t] = o
      /\ \/ pc'[t] = "free" /\ cur'[t] = o /\ mobj'[o].refc = 0
         \/ pc'[t] = "rel_lock" /\ cur'[t] = o /\ t \in releaser
         \/ pc'[t] = "idle" /\ t \notin releaser
  BY <1>0, <1>o, <1>2 DEF MobjPut, PutReturns, Return, Goto
<1>4. \A u \in Threads \ {t} : /\ Touches(u)' <=> Touches(u)
                               /\ pc'[u] = pc[u] /\ cur'[u] = cur[u]
                               /\ u \in releaser' <=> u \in releaser
  BY <1>1 DEF Elsewhere, Touches
<1>6. UseInv'
  BY <1>1, <1>2, <1>3, <1>4, <1>o DEF RInv, UseInv, Elsewhere, Touches
<1>7. RefInv'
  <2>1. t \in Holders(o) /\ Holders(o)' = Holders(o) \ {t} /\ Holders(o) \in SUBSET Threads
    BY <1>o, <1>3, <1>4 DEF Holders, HoldPCs
  <2>2. /\ Cardinality(Holders(o)') = Cardinality(Holders(o)) - 1
        /\ Cardinality(Holders(o)) \in Nat
    BY <2>1, Count
  <2>3. Registered(o)' <=> Registered(o)
    BY <1>2, <1>o DEF Registered
  <2>4. Balanced(o)
    BY <1>o DEF RInv, RefInv
  <2>5. Balanced(o)'
    BY <1>2, <2>2, <2>3, <2>4 DEF Balanced, Owed
  <2> QED
    BY <1>1, <1>3, <2>5, RefStep
<1>8. FlagInv'
  BY <1>1, <1>2 DEF RInv, FlagInv, Elsewhere
<1>b. \A u \in Threads \ {t} : cur[u] = o => pc[u] \notin FreePCs \cup {"created"}
  BY <1>o, <1>3 DEF RInv, PhaseInv, Phase, UniqueInv
<1>9. PhaseInv'
  <2> SUFFICES ASSUME NEW u \in Threads PROVE Phase(u)'
    BY DEF PhaseInv
  <2>1. CASE u = t
    BY <2>1, <1>o, <1>1, <1>2, <1>3 DEF RInv, PhaseInv, Phase, FreePCs, RelPCs
  <2>2. CASE u # t /\ Touches(u)
    BY <2>2, <1>o, <1>1, <1>2, <1>4, <1>b DEF RInv, PhaseInv, Phase, Registered,
       Elsewhere, FreePCs, RelPCs, UseInv
  <2>3. CASE u # t /\ ~Touches(u)
    BY <2>3, <1>4 DEF RInv, PhaseInv, Phase, Touches, FreePCs, RelPCs
  <2> QED
    BY <2>1, <2>2, <2>3
<1>10. UniqueInv'
  <2> SUFFICES ASSUME NEW u \in Threads, NEW v \in Threads, u # v, cur'[u] = cur'[v]
               PROVE  /\ ~(pc'[u] \in FreePCs /\ pc'[v] \in FreePCs)
                      /\ ~(pc'[u] = "created" /\ Touches(v)')
                      /\ ~(u \in releaser' /\ v \in releaser' /\ pc'[u] # "rel_done"
                                                              /\ pc'[v] # "rel_done")
    BY DEF UniqueInv
  <2>1. CASE u # t /\ v # t
    BY <2>1, <1>4 DEF RInv, UniqueInv
  <2>2. CASE u = t
    BY <2>2, <1>b, <1>o, <1>1, <1>3, <1>4 DEF FreePCs, RInv, UniqueInv
  <2>3. CASE v = t
    <3>1. CASE cur'[t] = o
      BY <2>3, <3>1, <1>b, <1>o, <1>1, <1>3, <1>4 DEF FreePCs, RInv, UniqueInv
    <3>2. CASE pc'[t] = "idle" /\ t \notin releaser
      BY <2>3, <3>2, <1>1 DEF FreePCs, Touches
    <3> QED
      BY <3>1, <3>2, <1>3
  <2> QED
    BY <2>1, <2>2, <2>3
<1> QED
  BY <1>6, <1>7, <1>8, <1>9, <1>10 DEF RInv

\* reg_shm_free_helper(o) by the only thread that still touches o.
LEMMA FreeStep ==
    ASSUME TInv, RInv, NEW t \in Threads, NEW o \in Objs, cur[t] = o, Elsewhere(t, o),
           releaser' = releaser, mobj'[o] = FreeChunk, shmList' = shmList \ {o},
           \/ pc'[t] = "idle" /\ t \notin releaser
           \/ pc'[t] = "rel_done" /\ cur'[t] = o /\ t \in releaser,
           \A u \in Threads \ {t} : Touches(u) => cur[u] # o
    PROVE  RInv'
<1>1. Elsewhere(t, o) /\ releaser' = releaser
  OBVIOUS
<1>2. /\ ~mobj'[o].live /\ ~mobj'[o].guarded /\ ~mobj'[o].releasing
      /\ ~mobj'[o].release_frees
  BY DEF FreeChunk
<1>4. \A u \in Threads \ {t} : /\ Touches(u)' <=> Touches(u)
                               /\ pc'[u] = pc[u] /\ cur'[u] = cur[u]
                               /\ u \in releaser' <=> u \in releaser
  BY <1>1 DEF Elsewhere, Touches
<1>6. UseInv'
  <2>1. shmList' = {p \in Objs : mobj'[p].live}
    BY <1>1, <1>2 DEF RInv, UseInv, Elsewhere
  <2> QED
    BY <2>1, <1>4 DEF RInv, UseInv, Elsewhere, Touches
<1>7. RefInv'
  BY <1>2, RefStep
<1>8. FlagInv'
  BY <1>1, <1>2 DEF RInv, FlagInv, Elsewhere
<1>9. PhaseInv'
  <2> SUFFICES ASSUME NEW u \in Threads PROVE Phase(u)'
    BY DEF PhaseInv
  <2>1. CASE u = t
    BY <2>1 DEF Phase, FreePCs, RelPCs
  <2>2. CASE u # t /\ Touches(u)
    BY <2>2, <1>1, <1>4 DEF RInv, PhaseInv, Phase, Registered, Elsewhere, UseInv
  <2>3. CASE u # t /\ ~Touches(u)
    BY <2>3, <1>4 DEF RInv, PhaseInv, Phase, Touches, FreePCs, RelPCs
  <2> QED
    BY <2>1, <2>2, <2>3
<1>10. UniqueInv'
  <2> SUFFICES ASSUME NEW u \in Threads, NEW v \in Threads, u # v, cur'[u] = cur'[v]
               PROVE  /\ ~(pc'[u] \in FreePCs /\ pc'[v] \in FreePCs)
                      /\ ~(pc'[u] = "created" /\ Touches(v)')
                      /\ ~(u \in releaser' /\ v \in releaser' /\ pc'[u] # "rel_done"
                                                              /\ pc'[v] # "rel_done")
    BY DEF UniqueInv
  <2>1. CASE u # t /\ v # t
    BY <2>1, <1>4 DEF RInv, UniqueInv
  <2>2. CASE u = t
    BY <2>2, <1>4 DEF FreePCs
  <2>3. CASE v = t
    BY <2>3, <1>4 DEF FreePCs, Touches
  <2> QED
    BY <2>1, <2>2, <2>3
<1> QED
  BY <1>6, <1>7, <1>8, <1>9, <1>10 DEF RInv

\* The last reference of a buffer that was never registered: nobody can find it.
LEMMA FreeGuardedAlone ==
    ASSUME TInv, RInv, NEW t \in Threads, FreeGuarded(t)
    PROVE  /\ cur[t] \in Objs /\ t \notin releaser
           /\ \A u \in Threads \ {t} : Touches(u) => cur[u] # cur[t]
<1>c. cur[t] \in Objs
  BY DEF FreeGuarded, TInv, CurInv
<1> PICK o \in Objs : o = cur[t]
  BY <1>c
<1>o. pc[t] = "free_guarded" /\ Touches(t) /\ mobj[o].live /\ mobj[o].refc = 0
      /\ mobj[o].guarded /\ ~mobj[o].releasing /\ t \notin releaser
  BY DEF FreeGuarded, RInv, UseInv, Touches, PhaseInv, Phase, FreePCs, FlagInv, RelPCs
<1>2. Holders(o) = {}
  <2>1. mobj[o].refc >= Owed(o)
    BY <1>o DEF RInv, RefInv, Balanced
  <2>2. Holders(o) \in SUBSET Threads
    BY DEF Holders
  <2>3. Cardinality(Holders(o)) \in Nat /\ (Cardinality(Holders(o)) = 0 <=> Holders(o) = {})
    BY <2>2, Count
  <2> QED
    BY <1>o, <2>1, <2>3 DEF Owed
<1>3. ASSUME NEW u \in Threads \ {t}, cur[u] = o, Touches(u) PROVE FALSE
  <2>1. pc[u] \in PCs /\ pc[u] \notin HoldPCs
    BY <1>2, <1>3 DEF Holders, TInv, TypeOK
  <2>2. pc[u] \notin FreePCs
    BY <1>o, <1>3 DEF RInv, UniqueInv, FreePCs
  <2>3. u \notin releaser /\ pc[u] \notin RelPCs
    BY <1>o, <1>3 DEF RInv, PhaseInv, Phase, RelPCs, Touches
  <2>4. pc[u] # "found"
    BY <1>o, <1>3 DEF RInv, PhaseInv, Phase, Registered
  <2> QED
    BY <1>3, <2>1, <2>2, <2>3, <2>4 DEF Touches, HoldPCs, FreePCs, RelPCs, PCs
<1> QED
  BY <1>c, <1>o, <1>3

\* A releaser that finds release_frees is the last to touch its object.
LEMMA ReleaserAlone ==
    ASSUME TInv, RInv, NEW t \in Threads, ReleaseCheck(t), mobj[cur[t]].release_frees
    PROVE  /\ cur[t] \in Objs /\ t \in releaser
           /\ \A u \in Threads \ {t} : Touches(u) => cur[u] # cur[t]
<1>c. cur[t] \in Objs
  BY DEF ReleaseCheck, TInv, CurInv
<1> PICK o \in Objs : o = cur[t]
  BY <1>c
<1>o. pc[t] = "rel_check" /\ Touches(t) /\ mobj[o].live /\ mobj[o].refc = 0
      /\ mobj[o].release_frees /\ mobj[o].releasing /\ t \in releaser
  BY DEF ReleaseCheck, RInv, UseInv, Touches, PhaseInv, Phase, FlagInv, RelPCs
<1>2. Holders(o) = {}
  <2>1. mobj[o].refc >= Owed(o)
    BY <1>o DEF RInv, RefInv, Balanced
  <2>2. Holders(o) \in SUBSET Threads
    BY DEF Holders
  <2>3. Cardinality(Holders(o)) \in Nat /\ (Cardinality(Holders(o)) = 0 <=> Holders(o) = {})
    BY <2>2, Count
  <2> QED
    BY <1>o, <2>1, <2>3 DEF Owed
<1>3. ASSUME NEW u \in Threads \ {t}, cur[u] = o, Touches(u) PROVE FALSE
  <2>1. pc[u] \in PCs /\ pc[u] \notin HoldPCs
    BY <1>2, <1>3 DEF Holders, TInv, TypeOK
  <2>2. pc[u] \notin FreePCs
    BY <1>o, <1>3 DEF RInv, PhaseInv, Phase
  <2>3. u \notin releaser /\ pc[u] \notin RelPCs
    BY <1>o, <1>3 DEF RInv, UniqueInv, PhaseInv, Phase, RelPCs, Touches
  <2>4. pc[u] # "found"
    BY <1>o, <1>3 DEF RInv, PhaseInv, Phase, Registered
  <2> QED
    BY <1>3, <2>1, <2>2, <2>3, <2>4 DEF Touches, HoldPCs, FreePCs, RelPCs, PCs
<1> QED
  BY <1>c, <1>o, <1>3

\* mobj_reg_shm_free() of a buffer that is still guarded.
LEMMA FreeGuardedStep ==
    ASSUME TInv, RInv, NEW t \in Threads, FreeGuarded(t)
    PROVE  RInv'
<1>0. /\ mobj \in [Objs -> MobjRec] /\ pc \in [Threads -> PCs]
      /\ cur \in [Threads -> Objs \cup {NoObj}] /\ releaser \subseteq Threads
  BY DEF TInv, TypeOK
<1>1. PICK o \in Objs : o = cur[t] /\ t \notin releaser
                     /\ \A u \in Threads \ {t} : Touches(u) => cur[u] # o
  BY FreeGuardedAlone
<1>2. /\ Elsewhere(t, o) /\ releaser' = releaser /\ shmList' = shmList \ {o}
      /\ pc'[t] = "idle" /\ mobj'[o] = FreeChunk
  BY <1>0, <1>1 DEF FreeGuarded, RegShmFreeHelper, PutReturns, Return, Goto, Elsewhere
<1> QED
  BY <1>1, <1>2, FreeStep

\* The releaser frees the object it waited for.
LEMMA ReleaseFreeStep ==
    ASSUME TInv, RInv, NEW t \in Threads, ReleaseCheck(t), mobj[cur[t]].release_frees
    PROVE  RInv'
<1>0. /\ mobj \in [Objs -> MobjRec] /\ pc \in [Threads -> PCs]
      /\ cur \in [Threads -> Objs \cup {NoObj}] /\ releaser \subseteq Threads
  BY DEF TInv, TypeOK
<1>1. PICK o \in Objs : o = cur[t] /\ t \in releaser
                     /\ \A u \in Threads \ {t} : Touches(u) => cur[u] # o
  BY ReleaserAlone
<1>2. /\ Elsewhere(t, o) /\ releaser' = releaser /\ shmList' = shmList \ {o}
      /\ pc'[t] = "rel_done" /\ cur'[t] = o /\ mobj'[o] = FreeChunk
  BY <1>0, <1>1 DEF ReleaseCheck, RegShmFreeHelper, Goto, Elsewhere
<1> QED
  BY <1>1, <1>2, FreeStep

\* The last user tells the releaser that the object is its to free.
LEMMA SetReleaseFreesStep ==
    ASSUME TInv, RInv, NEW t \in Threads, SetReleaseFrees(t)
    PROVE  RInv'
<1>0. /\ mobj \in [Objs -> MobjRec] /\ pc \in [Threads -> PCs]
      /\ cur \in [Threads -> Objs \cup {NoObj}] /\ releaser \subseteq Threads
  BY DEF TInv, TypeOK
<1>c. cur[t] \in Objs
  BY DEF SetReleaseFrees, TInv, CurInv
<1> PICK o \in Objs : o = cur[t]
  BY <1>c
<1>o. pc[t] = "free_notify" /\ Touches(t) /\ mobj[o].live /\ mobj[o].refc = 0
      /\ mobj[o].releasing /\ ~mobj[o].guarded
  BY DEF SetReleaseFrees, RInv, UseInv, Touches, PhaseInv, Phase, FreePCs, FlagInv
<1>1. Elsewhere(t, o) /\ releaser' = releaser /\ shmList' = shmList
  BY <1>0, <1>o DEF SetReleaseFrees, Goto, Elsewhere
<1>2. /\ mobj'[o].live /\ ~mobj'[o].guarded /\ mobj'[o].releasing
      /\ mobj'[o].refc = 0
  BY <1>0, <1>o DEF SetReleaseFrees
<1>3. cur[t] = o /\ cur'[t] = o /\ pc'[t] = "broadcast"
  BY <1>0 DEF SetReleaseFrees, Goto
<1>4. \A u \in Threads \ {t} : /\ Touches(u)' <=> Touches(u)
                               /\ pc'[u] = pc[u] /\ cur'[u] = cur[u]
                               /\ u \in releaser' <=> u \in releaser
  BY <1>1 DEF Elsewhere, Touches
<1>6. UseInv'
  BY <1>1, <1>2, <1>3, <1>4, <1>o DEF RInv, UseInv, Elsewhere
<1>7. RefInv'
  <2>1. Holders(o)' = Holders(o)
    BY <1>o, <1>3, <1>4 DEF Holders, HoldPCs
  <2>2. ~Registered(o)' /\ ~Registered(o)
    BY <1>o, <1>2 DEF Registered
  <2>3. Balanced(o)
    BY <1>o DEF RInv, RefInv
  <2>4. Balanced(o)'
    BY <1>o, <1>2, <2>1, <2>2, <2>3 DEF Balanced, Owed
  <2> QED
    BY <1>1, <1>3, <2>4, RefStep
<1>8. FlagInv'
  BY <1>1, <1>2 DEF RInv, FlagInv, Elsewhere
<1>b. \A u \in Threads \ {t} : cur[u] = o => pc[u] \notin FreePCs \cup {"created", "found"}
  BY <1>o, <1>3 DEF RInv, UniqueInv, FreePCs, PhaseInv, Phase, Registered
<1>9. PhaseInv'
  <2> SUFFICES ASSUME NEW u \in Threads PROVE Phase(u)'
    BY DEF PhaseInv
  <2>1. CASE u = t
    BY <2>1, <1>o, <1>1, <1>2, <1>3 DEF RInv, PhaseInv, Phase, FreePCs, RelPCs
  <2>2. CASE u # t /\ Touches(u)
    BY <2>2, <1>o, <1>1, <1>2, <1>4, <1>b DEF RInv, PhaseInv, Phase, Registered,
       Elsewhere, FreePCs, RelPCs, UseInv
  <2>3. CASE u # t /\ ~Touches(u)
    BY <2>3, <1>4 DEF RInv, PhaseInv, Phase, Touches, FreePCs, RelPCs
  <2> QED
    BY <2>1, <2>2, <2>3
<1>10. UniqueInv'
  <2> SUFFICES ASSUME NEW u \in Threads, NEW v \in Threads, u # v, cur'[u] = cur'[v]
               PROVE  /\ ~(pc'[u] \in FreePCs /\ pc'[v] \in FreePCs)
                      /\ ~(pc'[u] = "created" /\ Touches(v)')
                      /\ ~(u \in releaser' /\ v \in releaser' /\ pc'[u] # "rel_done"
                                                              /\ pc'[v] # "rel_done")
    BY DEF UniqueInv
  <2>1. CASE u # t /\ v # t
    BY <2>1, <1>4 DEF RInv, UniqueInv
  <2>2. CASE u = t
    BY <2>2, <1>b, <1>o, <1>1, <1>3, <1>4 DEF FreePCs, RInv, UniqueInv
  <2>3. CASE v = t
    BY <2>3, <1>b, <1>o, <1>1, <1>3, <1>4 DEF FreePCs, RInv, UniqueInv
  <2> QED
    BY <2>1, <2>2, <2>3
<1> QED
  BY <1>6, <1>7, <1>8, <1>9, <1>10 DEF RInv

\* The registration's reference becomes the releaser's.
LEMMA ReleaseByCookieStep ==
    ASSUME TInv, RInv, NwPins, NEW t \in Threads, NEW c \in Cookies, ReleaseByCookie(t, c)
    PROVE  RInv'
<1>0. /\ mobj \in [Objs -> MobjRec] /\ pc \in [Threads -> PCs]
      /\ cur \in [Threads -> Objs \cup {NoObj}] /\ releaser \subseteq Threads
  BY DEF TInv, TypeOK
<1> PICK o \in RegShmFind(c) : /\ ~mobj[o].guarded /\ ~mobj[o].releasing
                               /\ \A u \in Threads : pc[u] = "found" => cur[u] # o
                               /\ mobj' = [mobj EXCEPT ![o].releasing = TRUE]
                               /\ cur' = [cur EXCEPT ![t] = o]
  BY DEF ReleaseByCookie
<1>o. o \in Objs /\ Registered(o) /\ mobj[o].live /\ ~mobj[o].release_frees
  BY DEF RegShmFind, RInv, UseInv, Registered, FlagInv
<1>1. /\ Elsewhere(t, o) /\ releaser' = releaser \cup {t} /\ shmList' = shmList
      /\ t \notin releaser
  BY <1>0, <1>o DEF ReleaseByCookie, Goto, Elsewhere, RInv, PhaseInv, Phase, RelPCs
<1>2. /\ mobj'[o].live /\ ~mobj'[o].guarded /\ mobj'[o].releasing
      /\ ~mobj'[o].release_frees /\ mobj'[o].refc = mobj[o].refc
  BY <1>0, <1>o
<1>3. pc[t] = "idle" /\ cur'[t] = o /\ pc'[t] = "put" /\ t \in releaser'
  BY <1>0, <1>1 DEF ReleaseByCookie, Goto
<1>4. \A u \in Threads \ {t} : /\ Touches(u)' <=> Touches(u)
                               /\ pc'[u] = pc[u] /\ cur'[u] = cur[u]
                               /\ u \in releaser' <=> u \in releaser
  BY <1>1 DEF Elsewhere, Touches
<1>a. mobj[o].refc = Cardinality(Holders(o)) + 1 /\ Cardinality(Holders(o)) \in Nat
  <2>1. Holders(o) \in SUBSET Threads
    BY DEF Holders
  <2>2. Balanced(o)
    BY <1>o DEF RInv, RefInv
  <2> QED
    BY <1>o, <2>1, <2>2, Count DEF Balanced, Owed, Registered
<1>6. UseInv'
  BY <1>1, <1>2, <1>3, <1>4, <1>o DEF RInv, UseInv, Elsewhere
<1>7. RefInv'
  <2>1. t \notin Holders(o) /\ Holders(o)' = Holders(o) \cup {t} /\ Holders(o) \in SUBSET Threads
    BY <1>o, <1>3, <1>4 DEF Holders, HoldPCs
  <2>2. Cardinality(Holders(o)') = Cardinality(Holders(o)) + 1
    BY <2>1, Count
  <2>3. ~Registered(o)'
    BY <1>2 DEF Registered
  <2>4. Balanced(o)'
    BY <1>a, <1>2, <2>2, <2>3 DEF Balanced, Owed
  <2> QED
    BY <1>o, <1>1, <1>3, <2>4, RefStep
<1>8. FlagInv'
  BY <1>1, <1>2 DEF RInv, FlagInv, Elsewhere
<1>b. \A u \in Threads \ {t} : cur[u] = o =>
         /\ pc[u] \notin FreePCs \cup {"created", "found"}
         /\ u \in releaser => pc[u] = "rel_done"
  BY <1>a DEF RInv, PhaseInv, Phase
<1>9. PhaseInv'
  <2> SUFFICES ASSUME NEW u \in Threads PROVE Phase(u)'
    BY DEF PhaseInv
  <2>1. CASE u = t
    BY <2>1, <1>o, <1>1, <1>2, <1>3 DEF Phase, FreePCs, RelPCs
  <2>2. CASE u # t /\ Touches(u)
    BY <2>2, <1>o, <1>1, <1>2, <1>4, <1>b DEF RInv, PhaseInv, Phase, Registered,
       Elsewhere, FreePCs, RelPCs, UseInv
  <2>3. CASE u # t /\ ~Touches(u)
    BY <2>3, <1>4 DEF RInv, PhaseInv, Phase, Touches, FreePCs, RelPCs
  <2> QED
    BY <2>1, <2>2, <2>3
<1>10. UniqueInv'
  <2> SUFFICES ASSUME NEW u \in Threads, NEW v \in Threads, u # v, cur'[u] = cur'[v]
               PROVE  /\ ~(pc'[u] \in FreePCs /\ pc'[v] \in FreePCs)
                      /\ ~(pc'[u] = "created" /\ Touches(v)')
                      /\ ~(u \in releaser' /\ v \in releaser' /\ pc'[u] # "rel_done"
                                                              /\ pc'[v] # "rel_done")
    BY DEF UniqueInv
  <2>1. CASE u # t /\ v # t
    BY <2>1, <1>4 DEF RInv, UniqueInv
  <2>2. CASE u = t
    BY <2>2, <1>b, <1>o, <1>1, <1>3, <1>4 DEF FreePCs
  <2>3. CASE v = t
    BY <2>3, <1>b, <1>o, <1>1, <1>3, <1>4 DEF FreePCs
  <2> QED
    BY <2>1, <2>2, <2>3
<1> QED
  BY <1>6, <1>7, <1>8, <1>9, <1>10 DEF RInv

\* t returns without a reference; releasers may be woken.
LEMMA IdleStep ==
    ASSUME TInv, RInv, NEW t \in Threads, mobj' = mobj, shmList' = shmList,
           releaser' = releaser \ {t}, pc'[t] = "idle", pc[t] \notin HoldPCs,
           \A u \in Threads \ {t} :
               /\ cur'[u] = cur[u]
               /\ \/ pc'[u] = pc[u]
                  \/ pc[u] = "rel_sleep" /\ pc'[u] = "rel_woken"
    PROVE  RInv'
<1>1. \A u \in Threads \ {t} : /\ Touches(u)' <=> Touches(u)
                               /\ pc'[u] \in FreePCs <=> pc[u] \in FreePCs
                               /\ pc'[u] \in HoldPCs <=> pc[u] \in HoldPCs
                               /\ u \in releaser' <=> u \in releaser
  BY DEF Touches, FreePCs, HoldPCs
<1>6. UseInv'
  BY <1>1 DEF RInv, UseInv, Touches
<1>7. RefInv'
  <2>1. \A o \in Objs : Holders(o)' = Holders(o)
    BY <1>1 DEF Holders, HoldPCs
  <2>2. \A o \in Objs : Registered(o)' <=> Registered(o)
    BY DEF Registered
  <2> QED
    BY <2>1, <2>2 DEF RInv, RefInv, Balanced, Owed
<1>8. FlagInv'
  BY DEF RInv, FlagInv
<1>9. PhaseInv'
  <2> SUFFICES ASSUME NEW u \in Threads PROVE Phase(u)'
    BY DEF PhaseInv
  <2>1. CASE u = t
    BY <2>1 DEF Phase, FreePCs, RelPCs
  <2>2. CASE u # t /\ pc'[u] = pc[u]
    BY <2>2, <1>1 DEF RInv, PhaseInv, Phase, Registered
  <2>3. CASE u # t /\ pc[u] = "rel_sleep" /\ pc'[u] = "rel_woken"
    BY <2>3, <1>1 DEF RInv, PhaseInv, Phase, FreePCs, RelPCs
  <2> QED
    BY <2>1, <2>2, <2>3
<1>10. UniqueInv'
  <2> SUFFICES ASSUME NEW u \in Threads, NEW v \in Threads, u # v, cur'[u] = cur'[v]
               PROVE  /\ ~(pc'[u] \in FreePCs /\ pc'[v] \in FreePCs)
                      /\ ~(pc'[u] = "created" /\ Touches(v)')
                      /\ ~(u \in releaser' /\ v \in releaser' /\ pc'[u] # "rel_done"
                                                              /\ pc'[v] # "rel_done")
    BY DEF UniqueInv
  <2>1. CASE u # t /\ v # t
    BY <2>1, <1>1 DEF RInv, UniqueInv
  <2>2. CASE u = t
    BY <2>2 DEF FreePCs
  <2>3. CASE v = t
    BY <2>3 DEF FreePCs, Touches
  <2> QED
    BY <2>1, <2>2, <2>3
<1> QED
  BY <1>6, <1>7, <1>8, <1>9, <1>10 DEF RInv

\* A panic ends every call where it is.
LEMMA PanicStep ==
    ASSUME RInv, NEW k, Panic(k)
    PROVE  RInv'
<1>1. UNCHANGED <<mobj, shmList, pc, cur, releaser>>
  BY DEF Panic
<1>2. \A o \in Objs : Holders(o)' = Holders(o) /\ (Registered(o)' <=> Registered(o))
  BY <1>1 DEF Holders, Registered
<1>3. \A t \in Threads : (Touches(t)' <=> Touches(t)) /\ (Phase(t)' <=> Phase(t))
  BY <1>1 DEF Touches, Phase, Registered
<1>4. UseInv' /\ FlagInv' /\ UniqueInv'
  BY <1>1, <1>3 DEF RInv, UseInv, FlagInv, UniqueInv
<1>5. RefInv' /\ PhaseInv'
  BY <1>1, <1>2, <1>3 DEF RInv, RefInv, Balanced, Owed, PhaseInv
<1> QED
  BY <1>4, <1>5 DEF RInv

\* The call forgets the reference of a noncontiguous parameter.
LEMMA LeakStep ==
    ASSUME TInv, RInv, TmemInv, NEW t \in Threads, CleanupSkips(t)
    PROVE  RInv'
<1>0. /\ mobj \in [Objs -> MobjRec] /\ pc \in [Threads -> PCs]
      /\ cur \in [Threads -> Objs \cup {NoObj}] /\ releaser \subseteq Threads
  BY DEF TInv, TypeOK
<1>c. cur[t] \in Objs
  BY DEF CleanupSkips, TInv, CurInv
<1> PICK o \in Objs : o = cur[t]
  BY <1>c
<1>o. pc[t] = "put" /\ Touches(t) /\ mobj[o].live /\ mobj[o].guarded
      /\ ~mobj[o].releasing /\ t \notin releaser
  BY DEF CleanupSkips, TmemInv, RInv, UseInv, Touches, FlagInv, PhaseInv, Phase
<1>1. Elsewhere(t, o) /\ releaser' = releaser /\ shmList' = shmList /\ mobj' = mobj
  BY <1>0, <1>o DEF CleanupSkips, Return, Goto, Elsewhere
<1>3. cur[t] = o /\ pc'[t] = "idle"
  BY <1>0 DEF CleanupSkips, Return, Goto
<1>4. \A u \in Threads \ {t} : /\ Touches(u)' <=> Touches(u)
                               /\ pc'[u] = pc[u] /\ cur'[u] = cur[u]
                               /\ u \in releaser' <=> u \in releaser
  BY <1>1 DEF Elsewhere, Touches
<1>6. UseInv'
  BY <1>1, <1>3, <1>4 DEF RInv, UseInv, Touches
<1>7. RefInv'
  <2>1. t \in Holders(o) /\ Holders(o)' = Holders(o) \ {t} /\ Holders(o) \in SUBSET Threads
    BY <1>o, <1>3, <1>4 DEF Holders, HoldPCs
  <2>2. /\ Cardinality(Holders(o)') = Cardinality(Holders(o)) - 1
        /\ Cardinality(Holders(o)) \in Nat
    BY <2>1, Count
  <2>3. ~Registered(o)' /\ ~Registered(o)
    BY <1>1, <1>o DEF Registered
  <2>4. mobj[o].refc >= Owed(o) /\ mobj[o].refc \in Nat
    BY <1>0, <1>o DEF RInv, RefInv, Balanced, MobjRec
  <2>5. Balanced(o)'
    BY <1>1, <1>o, <2>2, <2>3, <2>4 DEF Balanced, Owed
  <2> QED
    BY <1>1, <1>3, <2>5, RefStep
<1>8. FlagInv'
  BY <1>1 DEF RInv, FlagInv
<1>9. PhaseInv'
  <2> SUFFICES ASSUME NEW u \in Threads PROVE Phase(u)'
    BY DEF PhaseInv
  <2>1. CASE u = t
    BY <2>1, <1>o, <1>1, <1>3 DEF Phase, FreePCs, RelPCs
  <2>2. CASE u # t
    BY <2>2, <1>1, <1>4 DEF RInv, PhaseInv, Phase, Registered
  <2> QED
    BY <2>1, <2>2
<1>10. UniqueInv'
  <2> SUFFICES ASSUME NEW u \in Threads, NEW v \in Threads, u # v, cur'[u] = cur'[v]
               PROVE  /\ ~(pc'[u] \in FreePCs /\ pc'[v] \in FreePCs)
                      /\ ~(pc'[u] = "created" /\ Touches(v)')
                      /\ ~(u \in releaser' /\ v \in releaser' /\ pc'[u] # "rel_done"
                                                              /\ pc'[v] # "rel_done")
    BY DEF UniqueInv
  <2>1. CASE u # t /\ v # t
    BY <2>1, <1>4 DEF RInv, UniqueInv
  <2>2. CASE u = t
    BY <2>2, <1>o, <1>1, <1>3 DEF FreePCs
  <2>3. CASE v = t
    BY <2>3, <1>o, <1>1, <1>3 DEF FreePCs, Touches
  <2> QED
    BY <2>1, <2>2, <2>3
<1> QED
  BY <1>6, <1>7, <1>8, <1>9, <1>10 DEF RInv

\* Each step keeps the reference count equation and the rest of RInv.
LEMMA RInvStep ==
    ASSUME TInv, RInv, TmemInv, NwPins, NEW t \in Threads, Calls(t) \/ Steps(t)
    PROVE  RInv'
<1> USE DEF Goto, Return, PutReturns
<1>0. /\ mobj \in [Objs -> MobjRec] /\ pc \in [Threads -> PCs]
      /\ cur \in [Threads -> Objs \cup {NoObj}] /\ releaser \subseteq Threads
  BY DEF TInv, TypeOK
<1>1. CASE Calls(t)
  BY <1>1, AllocStep, GetByCookieStep, ReleaseByCookieStep DEF Calls
<1>2. CASE MobjRegShmUnguard(t)
  BY <1>2, UnguardStep
<1>3. CASE MobjGet(t)
  BY <1>3, GetStep, PanicStep DEF MobjGet
<1>4. CASE MobjPut(t)
  BY <1>4, PutStep, PanicStep DEF MobjPut
<1>5. CASE FreeGuarded(t)
  BY <1>5, FreeGuardedStep
<1>6. CASE SetReleaseFrees(t)
  BY <1>6, SetReleaseFreesStep
<1>7. CASE ReleaseDone(t)
  BY <1>0, <1>7, IdleStep DEF ReleaseDone, HoldPCs
<1>8. CASE NotifyReleasers(t)
  <2>1. CASE t \in releaser
    <3>1. pc'[t] = "rel_lock"
      BY <1>0, <1>8, <2>1 DEF NotifyReleasers, Woken
    <3>2. \A u \in Threads \ {t} : \/ pc'[u] = pc[u]
                                   \/ pc[u] = "rel_sleep" /\ pc'[u] = "rel_woken"
      BY <1>0, <1>8, <2>1 DEF NotifyReleasers, Woken
    <3> QED
      BY <1>8, <2>1, <3>1, <3>2, MoveStep
         DEF NotifyReleasers, SameObjs, Touches, HoldPCs, FreePCs, RelPCs
  <2>2. CASE t \notin releaser
    <3>1. pc'[t] = "idle"
      BY <1>0, <1>8, <2>2 DEF NotifyReleasers, Woken
    <3>2. \A u \in Threads \ {t} : \/ pc'[u] = pc[u]
                                   \/ pc[u] = "rel_sleep" /\ pc'[u] = "rel_woken"
      BY <1>0, <1>8, <2>2 DEF NotifyReleasers, Woken
    <3>3. \A u \in Threads \ {t} : cur'[u] = cur[u]
      BY <1>0, <1>8, <2>2 DEF NotifyReleasers
    <3> QED
      BY <1>8, <2>2, <3>1, <3>2, <3>3, IdleStep DEF NotifyReleasers, HoldPCs
  <2> QED
    BY <2>1, <2>2
<1>9. CASE ReleaseCheck(t)
  <2>1. CASE mobj[cur[t]].release_frees
    BY <1>9, <2>1, ReleaseFreeStep
  <2>2. CASE ~mobj[cur[t]].release_frees
    BY <1>0, <1>9, <2>2, MoveStep
       DEF ReleaseCheck, SameObjs, Touches, HoldPCs, FreePCs, RelPCs, RInv, PhaseInv, Phase
  <2> QED
    BY <2>1, <2>2
<1>10. CASE ReleaseLock(t) \/ ReleaseWait(t) \/ ReleaseWakes(t)
  <2>1. /\ pc[t] \in RelPCs \ {"rel_done"} /\ pc'[t] \in RelPCs \ {"rel_done"}
        /\ \A u \in Threads \ {t} : pc'[u] = pc[u]
        /\ UNCHANGED <<mobj, shmList, cur, releaser>>
    BY <1>0, <1>10 DEF ReleaseLock, ReleaseWait, ReleaseWakes, RelPCs
  <2> QED
    BY <2>1, MoveStep DEF SameObjs, Touches, HoldPCs, FreePCs, RelPCs, RInv, PhaseInv, Phase
<1>11. CASE MobjRegShmFree(t)
  <2>1. cur[t] \in Objs /\ mobj[cur[t]].live /\ mobj[cur[t]].refc = 0
    BY <1>11 DEF MobjRegShmFree, RInv, UseInv, Touches, PhaseInv, Phase, FreePCs
  <2>2. mobj[cur[t]].guarded \/ mobj[cur[t]].releasing
    <3>1. Holders(cur[t]) \in SUBSET Threads
      BY DEF Holders
    <3>2. Cardinality(Holders(cur[t])) \in Nat
      BY <3>1, Count
    <3>3. ~Registered(cur[t])
      BY <2>1, <3>2 DEF RInv, RefInv, Balanced, Owed
    <3> QED
      BY <2>1, <3>3 DEF Registered
  <2>3. /\ pc[t] = "free" /\ pc'[t] \in {"free_guarded", "free_notify"}
        /\ pc'[t] = "free_guarded" => mobj[cur[t]].guarded /\ ~mobj[cur[t]].releasing
        /\ pc'[t] = "free_notify" => mobj[cur[t]].releasing
        /\ \A u \in Threads \ {t} : pc'[u] = pc[u]
        /\ UNCHANGED <<mobj, shmList, cur, releaser>>
    BY <1>0, <1>11, <2>2 DEF MobjRegShmFree
  <2>4. t \in releaser => pc'[t] = "free_notify"
    BY <2>3 DEF RInv, PhaseInv, Phase
  <2> QED
    BY <2>3, <2>4, MoveStep DEF SameObjs, Touches, HoldPCs, FreePCs, RelPCs
<1>13. CASE CleanupSkips(t)
  BY <1>13, LeakStep
<1>12. CASE UseTemporary(t) \/ MobjMappedShmAlloc(t) \/ CopyInParam(t) \/ IncMapFast(t) \/ IncMapLocked(t)
            \/ GetVa(t) \/ EndUse(t) \/ DecMapFast(t) \/ DecMapLocked(t)
  <2>0. cur[t] \in Objs
    BY <1>12 DEF UseTemporary, MobjMappedShmAlloc, CopyInParam, IncMapFast, IncMapLocked, GetVa, EndUse,
                 DecMapFast, DecMapLocked, TInv, CurInv
  <2>1. Panic("map") \/ SameObjs
    <3>1. CASE UseTemporary(t) \/ MobjMappedShmAlloc(t) \/ CopyInParam(t) \/ GetVa(t)
               \/ EndUse(t)
      BY <3>1 DEF UseTemporary, MobjMappedShmAlloc, CopyInParam, GetVa, EndUse, SameObjs
    <3>2. CASE IncMapFast(t)
      BY <1>0, <2>0, <3>2 DEF IncMapFast, SameObjs, MobjRec
    <3>3. CASE IncMapLocked(t)
      <4>1. CASE \E m \in MMs : mobj' = [mobj EXCEPT ![cur[t]].mm = m, ![cur[t]].mapcount = 1]
        BY <1>0, <2>0, <4>1 DEF SameObjs
      <4>2. CASE mobj' = [mobj EXCEPT ![cur[t]].mm = NoMM]
        BY <1>0, <2>0, <4>2 DEF SameObjs
      <4>3. CASE mobj' = mobj
        BY <4>3 DEF SameObjs
      <4> QED
        BY <3>3, <4>1, <4>2, <4>3 DEF IncMapLocked, MapPages
    <3>4. CASE DecMapFast(t)
      BY <1>0, <2>0, <3>4 DEF DecMapFast, SameObjs, MobjRec
    <3>5. CASE DecMapLocked(t)
      BY <1>0, <2>0, <3>5 DEF DecMapLocked, SameObjs, MobjRec
    <3> QED
      BY <1>12, <3>1, <3>2, <3>3, <3>4, <3>5
  <2>2. \/ Panic("map")
        \/ /\ pc[t] \in HoldPCs /\ pc'[t] \in HoldPCs \ {"created"}
           /\ pc[t] # "put" /\ \A u \in Threads \ {t} : pc'[u] = pc[u]
           /\ UNCHANGED <<shmList, cur, releaser>>
    BY <1>0, <1>12 DEF UseTemporary, MobjMappedShmAlloc, CopyInParam, IncMapFast, IncMapLocked, MapPages, GetVa,
             EndUse, DecMapFast, DecMapLocked, HoldPCs
  <2>3. CASE ~Panic("map")
    <3>1. t \notin releaser
      BY <2>2, <2>3 DEF RInv, PhaseInv, Phase, HoldPCs, RelPCs
    <3> QED
      BY <2>1, <2>2, <2>3, <3>1, MoveStep DEF Touches, HoldPCs, FreePCs, RelPCs
  <2> QED
    BY <2>3, PanicStep
<1> QED
  BY <1>1, <1>2, <1>3, <1>4, <1>5, <1>6, <1>7, <1>8, <1>9, <1>10, <1>11, <1>12, <1>13
  DEF Steps

\* The assignments to the other fields leave the guard of every object.
LEMMA GuardKept ==
    ASSUME NEW f \in [Objs -> MobjRec], NEW o \in Objs, NEW p \in Objs, f[p].guarded
    PROVE  /\ [f EXCEPT ![o].refc = @ + 1][p].guarded
           /\ [f EXCEPT ![o].refc = @ - 1][p].guarded
           /\ [f EXCEPT ![o].release_frees = TRUE][p].guarded
           /\ [f EXCEPT ![o].mapcount = @ + 1][p].guarded
           /\ [f EXCEPT ![o].mapcount = @ - 1][p].guarded
           /\ [f EXCEPT ![o].mm = NoMM][p].guarded
           /\ \A m \in MMs : [f EXCEPT ![o].mm = m, ![o].mapcount = 1][p].guarded
<1>1. CASE o # p
  BY <1>1
<1>2. CASE o = p
  <2>1. f[p] \in MobjRec
    OBVIOUS
  <2>2. [f EXCEPT ![o].refc = @ + 1][p] = [f[p] EXCEPT !.refc = @ + 1]
    BY <1>2
  <2>3. [f EXCEPT ![o].refc = @ - 1][p] = [f[p] EXCEPT !.refc = @ - 1]
    BY <1>2
  <2>4. [f EXCEPT ![o].release_frees = TRUE][p] = [f[p] EXCEPT !.release_frees = TRUE]
    BY <1>2
  <2>5. [f EXCEPT ![o].mapcount = @ + 1][p] = [f[p] EXCEPT !.mapcount = @ + 1]
    BY <1>2
  <2>6. [f EXCEPT ![o].mapcount = @ - 1][p] = [f[p] EXCEPT !.mapcount = @ - 1]
    BY <1>2
  <2>7. [f EXCEPT ![o].mm = NoMM][p] = [f[p] EXCEPT !.mm = NoMM]
    BY <1>2
  <2>8. \A m \in MMs : [f EXCEPT ![o].mm = m, ![o].mapcount = 1][p]
                         = [f[p] EXCEPT !.mm = m, !.mapcount = 1]
    BY <1>2
  <2>9. [f[p] EXCEPT !.refc = @ + 1].guarded /\ [f[p] EXCEPT !.refc = @ - 1].guarded
    BY <2>1 DEF MobjRec
  <2>10. /\ [f[p] EXCEPT !.release_frees = TRUE].guarded
         /\ [f[p] EXCEPT !.mapcount = @ + 1].guarded
         /\ [f[p] EXCEPT !.mapcount = @ - 1].guarded
         /\ [f[p] EXCEPT !.mm = NoMM].guarded
    BY <2>1 DEF MobjRec
  <2>11. \A m \in MMs : [f[p] EXCEPT !.mm = m, !.mapcount = 1].guarded
    BY <2>1 DEF MobjRec
  <2> QED
    BY <2>2, <2>3, <2>4, <2>5, <2>6, <2>7, <2>8, <2>9, <2>10, <2>11
<1> QED
  BY <1>1, <1>2

\* A step of t leaves the guard of an object another thread touches.
LEMMA GuardStep ==
    ASSUME TInv, RInv, NEW t \in Threads, Calls(t) \/ Steps(t),
           NEW u \in Threads \ {t}, Touches(u), mobj[cur[u]].guarded
    PROVE  mobj'[cur[u]].guarded
<1> USE DEF Goto
<1>0. mobj \in [Objs -> MobjRec] /\ cur \in [Threads -> Objs \cup {NoObj}]
  BY DEF TInv, TypeOK
<1>a. pc[t] # "idle" => cur[t] \in Objs
  BY DEF TInv, CurInv
<1> PICK p \in Objs : p = cur[u] /\ mobj[p].live
  BY DEF RInv, UseInv
<1>b. mobj[p] \in MobjRec /\ mobj[p].guarded
  BY <1>0
<1>1. ASSUME NEW c \in Cookies, NEW o \in Objs, MobjRegShmAlloc(t, c, o)
      PROVE  mobj'[p].guarded
  BY <1>0, <1>1, <1>b DEF MobjRegShmAlloc
<1>2. ASSUME NEW c \in Cookies, GetByCookie(t, c) PROVE mobj'[p].guarded
  BY <1>2, <1>b DEF GetByCookie
<1>3. ASSUME NEW c \in Cookies, ReleaseByCookie(t, c) PROVE mobj'[p].guarded
  <2>1. PICK o \in RegShmFind(c) : ~mobj[o].guarded /\ mobj' = [mobj EXCEPT ![o].releasing = TRUE]
    BY <1>3 DEF ReleaseByCookie
  <2>2. mobj'[p] = mobj[p]
    BY <1>0, <1>b, <2>1
  <2> QED
    BY <1>b, <2>2
<1>4. CASE MobjRegShmUnguard(t)
  <2>1. cur[t] # p /\ cur[t] \in Objs
    BY <1>4, <1>a DEF MobjRegShmUnguard, RInv, UniqueInv
  <2>2. mobj'[p] = mobj[p]
    BY <1>0, <1>4, <2>1 DEF MobjRegShmUnguard
  <2> QED
    BY <1>b, <2>2
<1>5. CASE FreeGuarded(t)
  <2>1. cur[t] # p /\ cur[t] \in Objs
    BY <1>5, FreeGuardedAlone
  <2>2. mobj'[p] = mobj[p]
    BY <1>0, <1>5, <2>1 DEF FreeGuarded, RegShmFreeHelper
  <2> QED
    BY <1>b, <2>2
<1>6. CASE ReleaseCheck(t)
  <2>1. CASE mobj[cur[t]].release_frees
    <3>1. cur[t] # p /\ cur[t] \in Objs
      BY <1>6, <2>1, ReleaserAlone
    <3>2. mobj'[p] = mobj[p]
      BY <1>0, <1>6, <2>1, <3>1 DEF ReleaseCheck, RegShmFreeHelper
    <3> QED
      BY <1>b, <3>2
  <2>2. CASE ~mobj[cur[t]].release_frees
    BY <1>6, <2>2, <1>b DEF ReleaseCheck
  <2> QED
    BY <2>1, <2>2
<1>7. CASE MobjGet(t) \/ MobjPut(t) \/ SetReleaseFrees(t)
  <2>1. cur[t] \in Objs
    BY <1>7, <1>a DEF MobjGet, MobjPut, SetReleaseFrees
  <2>2. \/ mobj' = mobj
        \/ mobj' = [mobj EXCEPT ![cur[t]].refc = @ + 1]
        \/ mobj' = [mobj EXCEPT ![cur[t]].refc = @ - 1]
        \/ mobj' = [mobj EXCEPT ![cur[t]].release_frees = TRUE]
    BY <1>7 DEF MobjGet, MobjPut, SetReleaseFrees, Panic
  <2> QED
    BY <1>0, <1>b, <2>1, <2>2, GuardKept
<1>8. CASE IncMapFast(t) \/ IncMapLocked(t) \/ DecMapFast(t) \/ DecMapLocked(t)
  <2>1. cur[t] \in Objs
    BY <1>8, <1>a DEF IncMapFast, IncMapLocked, DecMapFast, DecMapLocked
  <2>2. \/ mobj' = mobj
        \/ mobj' = [mobj EXCEPT ![cur[t]].mapcount = @ + 1]
        \/ mobj' = [mobj EXCEPT ![cur[t]].mapcount = @ - 1]
        \/ mobj' = [mobj EXCEPT ![cur[t]].mm = NoMM]
        \/ \E m \in MMs : mobj' = [mobj EXCEPT ![cur[t]].mm = m, ![cur[t]].mapcount = 1]
    BY <1>8 DEF IncMapFast, IncMapLocked, MapPages, DecMapFast, DecMapLocked, Panic
  <2> QED
    BY <1>0, <1>b, <2>1, <2>2, GuardKept
<1>9. CASE \/ UseTemporary(t) \/ MobjMappedShmAlloc(t) \/ CopyInParam(t) \/ GetVa(t)
           \/ EndUse(t) \/ CleanupSkips(t) \/ MobjRegShmFree(t) \/ NotifyReleasers(t)
           \/ ReleaseLock(t) \/ ReleaseWait(t) \/ ReleaseWakes(t) \/ ReleaseDone(t)
  BY <1>9, <1>b DEF UseTemporary, MobjMappedShmAlloc, CopyInParam, GetVa, EndUse,
     CleanupSkips, MobjRegShmFree, NotifyReleasers, ReleaseLock, ReleaseWait,
     ReleaseWakes, ReleaseDone
<1> QED
  BY <1>1, <1>2, <1>3, <1>4, <1>5, <1>6, <1>7, <1>8, <1>9 DEF Calls, Steps

\* A step of t moves no other thread, except that releasers may be woken.
LEMMA OthersStay ==
    ASSUME TInv, NEW t \in Threads, Calls(t) \/ Steps(t), NEW u \in Threads \ {t}
    PROVE  /\ attr'[u] = attr[u] /\ cur'[u] = cur[u]
           /\ pc[u] # "rel_sleep" => pc'[u] = pc[u]
<1> USE DEF Goto, Return, PutReturns, Panic
<1>0. /\ attr \in [Threads -> {"rmem", "tmem", "cmd"}] /\ pc \in [Threads -> PCs]
      /\ cur \in [Threads -> Objs \cup {NoObj}]
  BY DEF TInv, TypeOK
<1>1. CASE Calls(t)
  BY <1>0, <1>1 DEF Calls, MobjRegShmAlloc, GetByCookie, ReleaseByCookie
<1>2. CASE \/ MobjRegShmUnguard(t) \/ UseTemporary(t) \/ MobjMappedShmAlloc(t)
           \/ MobjGet(t) \/ CopyInParam(t) \/ GetVa(t) \/ EndUse(t) \/ CleanupSkips(t)
  BY <1>0, <1>2 DEF MobjRegShmUnguard, UseTemporary, MobjMappedShmAlloc, MobjGet,
     CopyInParam, GetVa, EndUse, CleanupSkips
<1>3. CASE IncMapFast(t) \/ IncMapLocked(t) \/ DecMapFast(t) \/ DecMapLocked(t)
  BY <1>0, <1>3 DEF IncMapFast, IncMapLocked, MapPages, DecMapFast, DecMapLocked
<1>4. CASE MobjPut(t) \/ MobjRegShmFree(t) \/ FreeGuarded(t) \/ SetReleaseFrees(t)
  BY <1>0, <1>4 DEF MobjPut, MobjRegShmFree, FreeGuarded, SetReleaseFrees
<1>5. CASE \/ ReleaseLock(t) \/ ReleaseCheck(t) \/ ReleaseWait(t) \/ ReleaseWakes(t)
           \/ ReleaseDone(t)
  BY <1>0, <1>5 DEF ReleaseLock, ReleaseCheck, ReleaseWait, ReleaseWakes, ReleaseDone
<1>6. CASE NotifyReleasers(t)
  BY <1>0, <1>6 DEF NotifyReleasers, Woken
<1> QED
  BY <1>1, <1>2, <1>3, <1>4, <1>5, <1>6 DEF Steps

\* What a thread that has a noncontiguous parameter may do next.
LEMMA TmemMoves ==
    ASSUME TInv, RInv, TmemInv, NEW t \in Threads, Calls(t) \/ Steps(t),
           attr'[t] = "tmem"
    PROVE  pc'[t] \in HoldPCs /\ mobj'[cur'[t]].guarded
<1> USE DEF Goto
<1>0. /\ attr \in [Threads -> {"rmem", "tmem", "cmd"}] /\ pc \in [Threads -> PCs]
      /\ cur \in [Threads -> Objs \cup {NoObj}] /\ mobj \in [Objs -> MobjRec]
  BY DEF TInv, TypeOK
<1>a. pc[t] # "idle" => cur[t] \in Objs
  BY DEF TInv, CurInv
<1>b. attr[t] = "tmem" => pc[t] \in HoldPCs /\ mobj[cur[t]].guarded
  BY DEF TmemInv
<1>1. CASE UseTemporary(t)
  BY <1>0, <1>1 DEF UseTemporary, HoldPCs, RInv, PhaseInv, Phase
<1>2. CASE Calls(t)
  BY <1>0, <1>2, <1>b DEF Calls, MobjRegShmAlloc, GetByCookie, ReleaseByCookie, HoldPCs
<1>3. CASE MobjRegShmUnguard(t) \/ MobjMappedShmAlloc(t) \/ CleanupSkips(t)
  BY <1>0, <1>3 DEF MobjRegShmUnguard, MobjMappedShmAlloc, CleanupSkips, Return
<1>4. CASE \/ MobjGet(t) \/ MobjRegShmFree(t) \/ SetReleaseFrees(t)
           \/ ReleaseLock(t) \/ ReleaseCheck(t) \/ ReleaseWait(t) \/ ReleaseWakes(t)
  <2>1. pc[t] \notin HoldPCs /\ attr'[t] = attr[t]
    BY <1>4 DEF MobjGet, MobjRegShmFree, SetReleaseFrees, ReleaseLock, ReleaseCheck,
       ReleaseWait, ReleaseWakes, HoldPCs, Panic
  <2> QED
    BY <1>b, <2>1
<1>5. CASE FreeGuarded(t) \/ ReleaseDone(t) \/ NotifyReleasers(t)
  <2>1. pc[t] \notin HoldPCs /\ (attr'[t] = attr[t] \/ attr'[t] = "rmem")
    BY <1>0, <1>5 DEF FreeGuarded, ReleaseDone, NotifyReleasers, PutReturns, Return, HoldPCs
  <2> QED
    BY <1>b, <2>1
<1>6. CASE MobjPut(t)
  <2>1. attr[t] # "tmem" /\ (attr'[t] = attr[t] \/ attr'[t] = "rmem")
    BY <1>0, <1>6 DEF MobjPut, PutReturns, Return, Panic
  <2> QED
    BY <2>1
<1>7. CASE \/ CopyInParam(t) \/ GetVa(t) \/ EndUse(t)
           \/ IncMapFast(t) \/ IncMapLocked(t) \/ DecMapFast(t) \/ DecMapLocked(t)
  <2>1. cur[t] \in Objs /\ attr[t] = "tmem" /\ cur'[t] = cur[t]
    BY <1>7, <1>a DEF CopyInParam, GetVa, EndUse, IncMapFast, IncMapLocked, DecMapFast,
       DecMapLocked, Panic
  <2>2. pc'[t] \in HoldPCs
    BY <1>0, <1>7, <1>b, <2>1 DEF CopyInParam, GetVa, EndUse, IncMapFast, IncMapLocked,
       MapPages, DecMapFast, DecMapLocked, Panic, HoldPCs
  <2>3. \/ mobj' = mobj
        \/ mobj' = [mobj EXCEPT ![cur[t]].mapcount = @ + 1]
        \/ mobj' = [mobj EXCEPT ![cur[t]].mapcount = @ - 1]
        \/ mobj' = [mobj EXCEPT ![cur[t]].mm = NoMM]
        \/ \E m \in MMs : mobj' = [mobj EXCEPT ![cur[t]].mm = m, ![cur[t]].mapcount = 1]
    BY <1>7 DEF CopyInParam, GetVa, EndUse, IncMapFast, IncMapLocked, MapPages, DecMapFast,
       DecMapLocked, Panic
  <2>4. mobj'[cur[t]].guarded
    <3>1. PICK o \in Objs : o = cur[t]
      BY <2>1
    <3>2. mobj[o].guarded
      BY <1>b, <2>1, <3>1
    <3>3. /\ [mobj EXCEPT ![o].mapcount = @ + 1][o].guarded
          /\ [mobj EXCEPT ![o].mapcount = @ - 1][o].guarded
          /\ [mobj EXCEPT ![o].mm = NoMM][o].guarded
          /\ \A m \in MMs : [mobj EXCEPT ![o].mm = m, ![o].mapcount = 1][o].guarded
      BY <1>0, <3>2, GuardKept
    <3> QED
      BY <2>3, <3>1, <3>2, <3>3
  <2> QED
    BY <2>1, <2>2, <2>4
<1> QED
  BY <1>1, <1>2, <1>3, <1>4, <1>5, <1>6, <1>7 DEF Steps

\* Only its own call holds a noncontiguous parameter.
LEMMA TmemStep ==
    ASSUME TInv, RInv, TmemInv, NEW t \in Threads, Calls(t) \/ Steps(t)
    PROVE  TmemInv'
<1> SUFFICES ASSUME NEW u \in Threads, attr'[u] = "tmem"
             PROVE  pc'[u] \in HoldPCs /\ mobj'[cur'[u]].guarded
  BY DEF TmemInv
<1>1. CASE u = t
  BY <1>1, TmemMoves
<1>2. CASE u # t
  <2>1. attr[u] = "tmem" /\ cur'[u] = cur[u] /\ (pc[u] # "rel_sleep" => pc'[u] = pc[u])
    BY <1>2, OthersStay
  <2>2. pc[u] \in HoldPCs /\ mobj[cur[u]].guarded
    BY <2>1 DEF TmemInv
  <2>3. Touches(u) /\ pc'[u] = pc[u]
    BY <2>1, <2>2 DEF HoldPCs, Touches
  <2>4. mobj'[cur[u]].guarded
    BY <1>2, <2>2, <2>3, GuardStep
  <2> QED
    BY <2>1, <2>2, <2>3, <2>4
<1> QED
  BY <1>1, <1>2

\* No object, no holder.
LEMMA RInvInitially == Init => RInv
<1> SUFFICES ASSUME Init PROVE RInv
  OBVIOUS
<1>1. \A o \in Objs : ~mobj[o].live /\ ~mobj[o].guarded /\ ~mobj[o].releasing /\ ~mobj[o].release_frees
  BY DEF Init, FreeChunk
<1>2. shmList = {} /\ releaser = {} /\ \A t \in Threads : pc[t] = "idle" /\ ~Touches(t)
  BY DEF Init, Touches
<1> QED
  BY <1>1, <1>2 DEF RInv, UseInv, RefInv, FlagInv, PhaseInv, Phase, UniqueInv, FreePCs,
     RelPCs

\* RInv is a predicate of the variables.
LEMMA RInvStutter == RInv /\ UNCHANGED vars => RInv'
<1> SUFFICES ASSUME RInv, UNCHANGED vars PROVE RInv'
  OBVIOUS
<1>1. UNCHANGED <<mobj, shmList, pc, cur, releaser>>
  BY DEF vars
<1> QED
  BY <1>1 DEF RInv, UseInv, RefInv, Balanced, Owed, FlagInv, PhaseInv, Phase,
     UniqueInv, Holders, Registered, Touches

\* Who may still touch a buffer is what its counter says: refc of a registered
\* object is its holders plus the registration, so the thread that takes it to
\* 0 is alone, or alone with the releaser it notifies; a temporary buffer has at
\* least the references of its holders.
THEOREM RefCounted ==
    ASSUME NwPins
    PROVE  Spec => []RInv
<1>1. Init => RInv /\ TmemInv
  BY RInvInitially DEF Init, TmemInv
<1>2. RInv /\ TmemInv /\ TInv /\ [Next]_vars => (RInv /\ TmemInv)'
  <2> SUFFICES ASSUME RInv, TmemInv, TInv, [Next]_vars PROVE RInv' /\ TmemInv'
    OBVIOUS
  <2>1. CASE UNCHANGED vars
    BY <2>1, RInvStutter DEF vars, TmemInv
  <2>2. CASE Next
    BY <2>2, RInvStep, TmemStep DEF Next
  <2> QED
    BY <2>1, <2>2
<1> QED
  BY <1>1, <1>2, TypeInvariant, PTL DEF Spec

\* mobj_reg_shm_free() and mobj_reg_shm_release_by_cookie() free an object only
\* when no call can still reach it, for any number of calls and buffers, as
\* long as normal world looks up registered buffers only and does not unregister
\* one that is looked up.
THEOREM NeverUsedAfterFree ==
    ASSUME NwPins
    PROVE  Spec => []NoUseAfterFree
<1>1. RInv => NoUseAfterFree
  BY DEF RInv, UseInv, NoUseAfterFree
<1> QED
  BY <1>1, RefCounted, PTL

\* A step never gives back or takes a reference on a counter that is 0: the
\* counter counts the thread.
LEMMA CountersHold ==
    ASSUME TInv, RInv, NoPanic, NEW t \in Threads, Calls(t) \/ Steps(t)
    PROVE  NoPanic'
<1>0. panicked # "ref"
  BY DEF NoPanic
<1>a. pc[t] # "idle" => cur[t] \in Objs
  BY DEF TInv, CurInv
<1>1. CASE MobjGet(t)
  <2>1. PICK o \in Objs : o = cur[t]
    BY <1>a, <1>1 DEF MobjGet
  <2>2. Registered(o) /\ mobj[o].live /\ Holders(o) \in SUBSET Threads
    BY <1>1, <2>1 DEF MobjGet, RInv, PhaseInv, Phase, Registered, Holders
  <2>3. Cardinality(Holders(o)) \in Nat
    BY <2>2, Count
  <2>4. mobj[o].refc # 0
    BY <2>2, <2>3 DEF RInv, RefInv, Balanced, Owed
  <2> QED
    BY <1>0, <1>1, <2>1, <2>4 DEF MobjGet, NoPanic
<1>2. CASE MobjPut(t)
  <2>1. PICK o \in Objs : o = cur[t]
    BY <1>a, <1>2 DEF MobjPut
  <2>2. t \in Holders(o) /\ mobj[o].live /\ Holders(o) \in SUBSET Threads
    BY <1>2, <2>1 DEF MobjPut, RInv, UseInv, Holders, HoldPCs, Touches
  <2>3. Cardinality(Holders(o)) \in Nat /\ Cardinality(Holders(o)) # 0
    BY <2>2, Count
  <2>4. mobj[o].refc # 0
    BY <2>2, <2>3 DEF RInv, RefInv, Balanced, Owed
  <2> QED
    BY <1>0, <1>2, <2>1, <2>4 DEF MobjPut, NoPanic
<1>3. CASE DecMapFast(t) \/ DecMapLocked(t)
  BY <1>0, <1>3 DEF DecMapFast, DecMapLocked, Panic, NoPanic
<1>4. CASE Calls(t)
  BY <1>0, <1>4 DEF Calls, MobjRegShmAlloc, GetByCookie, ReleaseByCookie, NoPanic
<1>5. CASE \/ MobjRegShmUnguard(t) \/ UseTemporary(t) \/ MobjMappedShmAlloc(t)
           \/ CopyInParam(t) \/ IncMapFast(t) \/ IncMapLocked(t) \/ GetVa(t)
           \/ EndUse(t) \/ CleanupSkips(t)
  BY <1>0, <1>5 DEF MobjRegShmUnguard, UseTemporary, MobjMappedShmAlloc, CopyInParam,
     IncMapFast, IncMapLocked, GetVa, EndUse, CleanupSkips, NoPanic
<1>6. CASE \/ MobjRegShmFree(t) \/ FreeGuarded(t) \/ SetReleaseFrees(t)
           \/ NotifyReleasers(t) \/ ReleaseLock(t) \/ ReleaseCheck(t)
           \/ ReleaseWait(t) \/ ReleaseWakes(t) \/ ReleaseDone(t)
  BY <1>0, <1>6 DEF MobjRegShmFree, FreeGuarded, SetReleaseFrees, NotifyReleasers,
     ReleaseLock, ReleaseCheck, ReleaseWait, ReleaseWakes, ReleaseDone, NoPanic
<1> QED
  BY <1>1, <1>2, <1>3, <1>4, <1>5, <1>6 DEF Steps

\* No panic() of mobj_get() and no assert() of mobj_put() for any number of calls
\* and buffers, racing first mappings included, as long as normal world looks up
\* registered buffers only and does not unregister one that is looked up.
THEOREM NeverPanics ==
    ASSUME NwPins
    PROVE  Spec => []NoPanic
<1>1. Init => NoPanic
  BY DEF Init, NoPanic
<1>2. NoPanic /\ RInv /\ TInv /\ [Next]_vars => NoPanic'
  <2> SUFFICES ASSUME NoPanic, RInv, TInv, [Next]_vars PROVE NoPanic'
    OBVIOUS
  <2>1. CASE UNCHANGED vars
    BY <2>1 DEF vars, NoPanic
  <2>2. CASE Next
    BY <2>2, CountersHold DEF Next
  <2> QED
    BY <2>1, <2>2
<1> QED
  BY <1>1, <1>2, TypeInvariant, RefCounted, PTL DEF Spec
=============================================================================
