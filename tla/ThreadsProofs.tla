--------------------------- MODULE ThreadsProofs ---------------------------
(***************************************************************************)
(* What Threads guarantees for any number of cores, threads and buffers:   *)
(* its types, that a thread is on one core, that the user map follows the  *)
(* thread, that normal world writes to the registers of a thread only as   *)
(* the answer to an RPC, and that no shared buffer is lost.                *)
(*                                                                         *)
(* None of these is inductive alone.  That a resumed thread finds its own  *)
(* map needs the map saved while it was away (MapInv), which needs that a  *)
(* thread has left its TA by the end of its call, which needs to know      *)
(* where an RPC on the way out returns to (PcInv).                         *)
(* NoShmLeak needs that no buffer is in two places (OwnInv) and that a     *)
(* thread with a payload buffer has an argument buffer to free it with     *)
(* (CallOK).                                                               *)
(***************************************************************************)
EXTENDS Threads, TLAPS

\* Where the core and the call of a thread can be in each of its states.
PcInv ==
    /\ \A c \in Cores : curr[c] = NoThread \/ entering[c] = NoThread
    /\ \A t \in Threads :
        /\ state[t] = "FREE" <=> pc[t] = "idle"
        /\ state[t] = "SUSPENDED" => pc[t] \notin {"boot", "entry"}
        /\ pc[t] = "boot" => \A c \in Cores : entering[c] # t
        /\ intr[t] => pc[t] \notin {"idle", "boot", "entry"}
        /\ then[t] # "call" => pc[t] \in {"arg_alloc", "arg_bad", "pl_free"}
        /\ then[t] # "call" /\ pc[t] # "pl_free" => op[t] = "pl_free"

\* A thread leaves its TA before its call ends, and has its map saved while
\* no core runs it.
MapInv ==
    \A t \in Threads :
        /\ in_ta[t] => /\ pc[t] \in (Waits \ {"arg_put"}) \cup {"call"}
                       /\ then[t] # "exit_arg"
        /\ pc[t] \notin {"idle", "boot", "entry"} /\ (\A c \in Cores : curr[c] # t)
              => user_map[t] = IF in_ta[t] THEN t ELSE NoThread

\* A thread that waits for the arguments of normal world is in an RPC and not
\* running; one in an RPC that does not wait for them has them.
RegsInv ==
    \A t \in Threads :
        /\ regs[t] # Garbage
        /\ copy_args[t] => /\ pc[t] \in Waits /\ reply[t] # Garbage
                           /\ \A c \in Cores : curr[c] # t
        /\ pc[t] \in Waits /\ ~copy_args[t] => regs[t] # Pending
        /\ \A c \in Cores : entering[c] = t /\ copy_args[t] => reply[t] # Pending

\* All but the types.
PoolInv == OneCorePerThread /\ UserMapFollowsThread /\ PcInv /\ MapInv /\ RegsInv

IInv == TypeOK /\ PoolInv

-----------------------------------------------------------------------------

\* An RPC from a call that is under way keeps the invariant, if a thread with
\* a user map does not use it to end its call.
LEMMA RpcStep ==
    ASSUME IInv, NEW c \in Cores, NEW t \in Threads, NEW p \in Waits,
           NEW k \in Cookies \cup {NoCookie},
           curr[c] = t, pc[t] \notin {"idle", "boot", "entry"},
           Rpc(c, t, p, k), BufTypeOK',
           \A u \in Threads \ {t} : then'[u] = then[u] /\ op'[u] = op[u],
           then'[t] # "call" => p \in {"arg_alloc", "arg_bad", "pl_free"},
           then'[t] # "call" /\ p # "pl_free" => op'[t] = "pl_free",
           in_ta[t] => p # "arg_put" /\ then'[t] # "exit_arg"
    PROVE  IInv'
<1> USE DEF Rpc, Suspend, nwVars, coreVars
<1>0. t # NoThread /\ \A u \in Threads : u # NoThread
  BY ThreadsAssumption DEF Threads, NoThread
<1>1. PoolTypeOK'
  BY DEF IInv, TypeOK, PoolTypeOK, Pcs
<1>2. OneCorePerThread'
  BY <1>0 DEF IInv, PoolInv, TypeOK, PoolTypeOK, OneCorePerThread, On, PcInv
<1>3. UserMapFollowsThread'
  BY <1>0 DEF IInv, PoolInv, TypeOK, PoolTypeOK, UserMapFollowsThread, OneCorePerThread, On
<1>4. PcInv'
  BY <1>0 DEF IInv, PoolInv, TypeOK, PoolTypeOK, PcInv, Waits
<1>5. MapInv'
  <2>1. \A u \in Threads \ {t} : /\ pc'[u] = pc[u] /\ user_map'[u] = user_map[u]
                                 /\ in_ta'[u] = in_ta[u]
    BY DEF IInv, TypeOK, PoolTypeOK
  <2>2. \A u \in Threads \ {t} :
           (\A d \in Cores : curr'[d] # u) => (\A d \in Cores : curr[d] # u)
    BY <1>0 DEF IInv, TypeOK, PoolTypeOK
  <2>3. /\ pc'[t] = p /\ in_ta'[t] = in_ta[t]
        /\ user_map'[t] = IF in_ta[t] THEN t ELSE NoThread
    BY <1>0 DEF IInv, PoolInv, TypeOK, PoolTypeOK, UserMapFollowsThread
  <2> HIDE DEF Rpc, Suspend
  <2> QED
    BY <2>1, <2>2, <2>3 DEF IInv, PoolInv, MapInv, Waits
<1>6. RegsInv'
  <2>1. \A d \in Cores : curr'[d] # t /\ entering'[d] # t
    BY <1>0 DEF IInv, PoolInv, TypeOK, PoolTypeOK, OneCorePerThread, On
  <2>2. \A d \in Cores, u \in Threads \ {t} :
           entering'[d] = entering[d] /\ (curr'[d] = u <=> curr[d] = u)
    BY <1>0 DEF IInv, TypeOK, PoolTypeOK
  <2>3. copy_args'[t] /\ pc'[t] = p /\ regs'[t] = Pending /\ reply'[t] = Pending
    BY DEF IInv, TypeOK, PoolTypeOK
  <2>4. \A u \in Threads \ {t} : /\ copy_args'[u] = copy_args[u] /\ pc'[u] = pc[u]
                                 /\ regs'[u] = regs[u] /\ reply'[u] = reply[u]
    BY DEF IInv, TypeOK, PoolTypeOK
  <2> HIDE DEF Rpc, Suspend
  <2> QED
    BY <2>1, <2>2, <2>3, <2>4 DEF IInv, PoolInv, RegsInv, Pending, Garbage
<1> QED
  BY <1>1, <1>2, <1>3, <1>4, <1>5, <1>6 DEF IInv, TypeOK, PoolInv

\* A thread that goes on after an RPC or to the next part of its call.
LEMMA GotoStep ==
    ASSUME IInv, NEW c \in Cores, NEW t \in Threads,
           NEW p \in {"call", "exit", "exit_arg", "done"},
           curr[c] = t, pc[t] \notin {"idle", "boot"},
           Goto(t, p), BufTypeOK',
           \A u \in Threads \ {t} : then'[u] = then[u] /\ op'[u] = op[u],
           then'[t] = "call", in_ta[t] => p = "call"
    PROVE  IInv'
<1> USE DEF Goto, nwVars, coreVars
<1>0. t # NoThread /\ \A u \in Threads : u # NoThread
  BY ThreadsAssumption DEF Threads, NoThread
<1>1. PoolTypeOK'
  BY DEF IInv, TypeOK, PoolTypeOK, Pcs
<1>2. OneCorePerThread'
  BY DEF IInv, PoolInv, OneCorePerThread, On
<1>3. UserMapFollowsThread'
  BY DEF IInv, PoolInv, UserMapFollowsThread
<1>4. PcInv'
  BY <1>0 DEF IInv, PoolInv, TypeOK, PoolTypeOK, PcInv, OneCorePerThread, On
<1>5. MapInv'
  BY <1>0 DEF IInv, PoolInv, TypeOK, PoolTypeOK, MapInv, Waits
<1>6. RegsInv'
  BY <1>0 DEF IInv, PoolInv, TypeOK, PoolTypeOK, RegsInv, Pending, Garbage, Waits
<1> QED
  BY <1>1, <1>2, <1>3, <1>4, <1>5, <1>6 DEF IInv, TypeOK, PoolInv

\* get_rpc_arg goes to the RPC itself or to the one for its buffer.
LEMMA GetRpcArgStep ==
    ASSUME IInv, NEW c \in Cores, NEW t \in Threads, NEW o \in Ops,
           NEW k \in Cookies \cup {NoCookie},
           curr[c] = t, pc[t] \notin {"idle", "boot", "entry"},
           GetRpcArg(c, t, o, k), BufTypeOK',
           \A u \in Threads \ {t} : then'[u] = then[u],
           then'[t] # "call" => o = "pl_free",
           in_ta[t] => then'[t] # "exit_arg"
    PROVE  IInv'
<1>1. CASE rpc_arg[t]
  <2>1. Rpc(c, t, o, k) /\ op' = op /\ o \in Waits /\ o # "arg_put"
    BY <1>1 DEF GetRpcArg, Ops, Waits
  <2> QED
    BY <2>1, RpcStep
<1>2. CASE ~rpc_arg[t]
  <2>1. /\ Rpc(c, t, "arg_alloc", NoCookie) /\ "arg_alloc" \in Waits
        /\ op'[t] = o /\ \A u \in Threads \ {t} : op'[u] = op[u]
    BY <1>2 DEF GetRpcArg, Waits, IInv, TypeOK, BufTypeOK
  <2> QED
    BY <2>1, RpcStep
<1> QED
  BY <1>1, <1>2

\* tee_fs_rpc_cache_clear after its RPC.
LEMMA FreeDoneStep ==
    ASSUME IInv, NEW c \in Cores, NEW t \in Threads,
           curr[c] = t, pc[t] \in {"arg_alloc", "arg_bad", "pl_free"},
           FreeDone(c, t), UNCHANGED argVars
    PROVE  IInv'
<1>1. /\ then'[t] = "call" /\ \A u \in Threads \ {t} : then'[u] = then[u]
      /\ in_ta[t] => then[t] # "exit_arg"
      /\ then[t] \in Thens
  BY DEF FreeDone, IInv, PoolInv, MapInv, TypeOK, BufTypeOK
<1>2. BufTypeOK'
  BY DEF FreeDone, GetRpcArg, Goto, Rpc, argVars, IInv, TypeOK, BufTypeOK, Ops, Thens
<1>3. CASE then[t] = "realloc"
  <2>1. GetRpcArg(c, t, "pl_alloc", NoCookie) /\ "pl_alloc" \in Ops
    BY <1>3 DEF FreeDone, Ops
  <2> QED
    BY <1>1, <1>2, <2>1, GetRpcArgStep
<1>4. CASE then[t] # "realloc"
  <2>1. Goto(t, then[t]) /\ UNCHANGED op
    BY <1>4 DEF FreeDone
  <2>2. then[t] \in {"call", "exit", "exit_arg", "done"}
    BY <1>1, <1>4 DEF Thens
  <2>3. in_ta[t] => then[t] = "call"
    BY <1>1, <2>2 DEF Thens
  <2> QED
    BY <1>1, <1>2, <2>1, <2>2, <2>3, GotoStep
<1> QED
  BY <1>3, <1>4

\* get_rpc_arg fails and the call goes on without the RPC.
LEMMA NoArgStep ==
    ASSUME IInv, NEW c \in Cores, NEW t \in Threads,
           curr[c] = t, pc[t] \in {"arg_alloc", "arg_bad"},
           NoArg(c, t), UNCHANGED argVars
    PROVE  IInv'
<1>1. CASE op[t] = "pl_free"
  BY <1>1, FreeDoneStep DEF NoArg
<1>2. CASE op[t] # "pl_free"
  <2>1. Goto(t, "call") /\ UNCHANGED <<payload, op, then, cookie, rpc_arg, rpc_mobj>>
    BY <1>2 DEF NoArg, callVars, argVars
  <2>2. then[t] = "call"
    BY <1>2 DEF IInv, PoolInv, PcInv
  <2>3. BufTypeOK'
    BY <2>1 DEF IInv, TypeOK, BufTypeOK
  <2> QED
    BY <2>1, <2>2, <2>3, GotoStep
<1> QED
  BY <1>1, <1>2

-----------------------------------------------------------------------------

\* What a call does between its entry and its end.
CallStep(c, t) ==
    \/ EntryRefused(c, t) \/ EntryEnigma(c, t) \/ RpcCmd(c, t) \/ FsAlloc(c, t)
    \/ ArgAllocFails(c, t) \/ ArgUnusable(c, t) \/ ArgAllocated(c, t)
    \/ ArgBadFreed(c, t) \/ CmdDone(c, t) \/ PayloadAllocFails(c, t)
    \/ PayloadUnusable(c, t) \/ PayloadAllocated(c, t) \/ PayloadFreed(c, t)
    \/ CallReturns(c, t) \/ ClearFsCache(c, t) \/ FreeRpcArg(c, t)
    \/ RpcArgFreed(c, t) \/ ArgParamsRefused(c, t)

\* One step per action: each is a Goto, an RPC or one of the compound steps
\* above.
LEMMA CallStepInv ==
    ASSUME IInv, NEW c \in Cores, NEW t \in Threads, CallStep(c, t)
    PROVE  IInv'
<1> USE DEF argVars, callVars
<1>0. /\ BufTypeOK
      /\ then[t] # "call" => pc[t] \in {"arg_alloc", "arg_bad", "pl_free"}
      /\ then[t] # "call" /\ pc[t] # "pl_free" => op[t] = "pl_free"
      /\ in_ta[t] => /\ pc[t] \in (Waits \ {"arg_put"}) \cup {"call"}
                     /\ then[t] # "exit_arg"
  BY DEF IInv, TypeOK, PoolInv, PcInv, MapInv
<1>1. CASE EntryRefused(c, t) \/ EntryEnigma(c, t)
  <2>1. PICK p \in {"exit", "done"} : Goto(t, p)
    BY <1>1 DEF EntryRefused, EntryEnigma
  <2>2. /\ curr[c] = t /\ pc[t] = "entry"
        /\ UNCHANGED <<rpc_arg, rpc_mobj, payload, op, then, cookie>>
    BY <1>1 DEF EntryRefused, EntryEnigma
  <2>3. BufTypeOK' /\ then'[t] = "call" /\ ~in_ta[t]
    BY <1>0, <2>2 DEF BufTypeOK, Waits
  <2> QED
    BY <2>1, <2>2, <2>3, GotoStep
<1>2. CASE RpcCmd(c, t)
  <2>1. /\ curr[c] = t /\ pc[t] = "call" /\ GetRpcArg(c, t, "cmd", NoCookie)
        /\ UNCHANGED <<rpc_arg, rpc_mobj, payload, then, cookie>> /\ "cmd" \in Ops
    BY <1>2 DEF RpcCmd, Ops
  <2>2. BufTypeOK'
    BY <1>0, <2>1 DEF GetRpcArg, BufTypeOK, Ops
  <2> QED
    BY <1>0, <2>1, <2>2, GetRpcArgStep
<1>3. CASE FsAlloc(c, t)
  <2>1. curr[c] = t /\ pc[t] = "call" /\ UNCHANGED <<rpc_arg, rpc_mobj, payload>>
    BY <1>3 DEF FsAlloc
  <2>2. CASE payload[t] = NoCookie
    <3>1. /\ GetRpcArg(c, t, "pl_alloc", NoCookie) /\ UNCHANGED <<then, cookie>>
          /\ "pl_alloc" \in Ops
      BY <1>3, <2>2 DEF FsAlloc, Ops
    <3>2. BufTypeOK'
      BY <1>0, <2>1, <3>1 DEF GetRpcArg, BufTypeOK, Ops
    <3> QED
      BY <1>0, <2>1, <3>1, <3>2, GetRpcArgStep
  <2>3. CASE payload[t] # NoCookie
    <3>1. RpcFree(c, t, payload[t], "realloc")
      BY <1>3, <2>3 DEF FsAlloc
    <3>2. /\ GetRpcArg(c, t, "pl_free", payload[t]) /\ "pl_free" \in Ops
          /\ then'[t] = "realloc" /\ \A u \in Threads \ {t} : then'[u] = then[u]
      BY <1>0, <3>1 DEF RpcFree, BufTypeOK, Ops
    <3>3. BufTypeOK'
      BY <1>0, <2>1, <3>1 DEF RpcFree, GetRpcArg, BufTypeOK, Ops, Thens
    <3>4. payload[t] \in Cookies \cup {NoCookie}
      BY <1>0 DEF BufTypeOK
    <3> QED
      BY <2>1, <3>2, <3>3, <3>4, GetRpcArgStep
  <2> QED
    BY <2>2, <2>3
<1>4. CASE ArgAllocFails(c, t)
  BY <1>4, NoArgStep DEF ArgAllocFails
<1>5. CASE ArgUnusable(c, t)
  <2>1. /\ curr[c] = t /\ pc[t] = "arg_alloc" /\ regs[t] \in Cookies
        /\ Rpc(c, t, "arg_bad", regs[t]) /\ "arg_bad" \in Waits
        /\ UNCHANGED <<rpc_arg, rpc_mobj, payload, op, then, cookie>>
    BY <1>5 DEF ArgUnusable, Waits
  <2>2. BufTypeOK'
    BY <1>0, <2>1 DEF BufTypeOK
  <2> QED
    BY <1>0, <2>1, <2>2, RpcStep
<1>6. CASE ArgAllocated(c, t)
  <2> DEFINE k == IF op[t] = "pl_free" THEN cookie[t] ELSE NoCookie
  <2>1. /\ curr[c] = t /\ pc[t] = "arg_alloc" /\ Rpc(c, t, op[t], k)
        /\ UNCHANGED <<payload, op, then, cookie>>
    BY <1>6 DEF ArgAllocated
  <2>2. op[t] \in Waits /\ op[t] # "arg_put" /\ k \in Cookies \cup {NoCookie}
    BY <1>0 DEF BufTypeOK, Ops, Waits
  <2>3. BufTypeOK'
    BY <1>0, <1>6 DEF ArgAllocated, BufTypeOK
  <2> HIDE DEF k
  <2> QED
    BY <1>0, <2>1, <2>2, <2>3, RpcStep
<1>6a. CASE ArgParamsRefused(c, t)
  <2>1. /\ curr[c] = t /\ pc[t] = "arg_alloc" /\ op[t] = "cmd" /\ Goto(t, "call")
        /\ UNCHANGED <<payload, op, then, cookie>>
    BY <1>6a DEF ArgParamsRefused
  <2>2. BufTypeOK'
    BY <1>0, <1>6a DEF ArgParamsRefused, BufTypeOK
  <2> QED
    BY <1>0, <2>1, <2>2, GotoStep
<1>7. CASE ArgBadFreed(c, t)
  BY <1>7, NoArgStep DEF ArgBadFreed
<1>8. CASE CmdDone(c, t) \/ PayloadAllocFails(c, t) \/ PayloadAllocated(c, t)
  <2>1. /\ curr[c] = t /\ pc[t] \in {"cmd", "pl_alloc"} /\ Goto(t, "call")
        /\ UNCHANGED <<rpc_arg, rpc_mobj, op, then, cookie>>
    BY <1>8 DEF CmdDone, PayloadAllocFails, PayloadAllocated
  <2>2. BufTypeOK'
    BY <1>0, <1>8, <2>1 DEF CmdDone, PayloadAllocFails, PayloadAllocated, BufTypeOK
  <2> QED
    BY <1>0, <2>1, <2>2, GotoStep
<1>9. CASE PayloadUnusable(c, t)
  <2>1. /\ curr[c] = t /\ pc[t] = "pl_alloc" /\ regs[t] \in Cookies
        /\ RpcFree(c, t, regs[t], "call") /\ UNCHANGED <<rpc_arg, rpc_mobj, payload>>
    BY <1>9 DEF PayloadUnusable
  <2>2. /\ GetRpcArg(c, t, "pl_free", regs[t]) /\ "pl_free" \in Ops
        /\ then'[t] = "call" /\ \A u \in Threads \ {t} : then'[u] = then[u]
    BY <1>0, <2>1 DEF RpcFree, BufTypeOK, Ops
  <2>3. BufTypeOK'
    BY <1>0, <2>1 DEF RpcFree, GetRpcArg, BufTypeOK, Ops, Thens
  <2> QED
    BY <2>1, <2>2, <2>3, GetRpcArgStep
<1>10. CASE PayloadFreed(c, t)
  BY <1>10, FreeDoneStep DEF PayloadFreed
<1>11. CASE CallReturns(c, t)
  <2>1. /\ curr[c] = t /\ pc[t] = "call" /\ ~in_ta[t] /\ Goto(t, "exit")
        /\ UNCHANGED <<rpc_arg, rpc_mobj, payload, op, then, cookie>>
    BY <1>11 DEF CallReturns
  <2>2. BufTypeOK'
    BY <1>0, <2>1 DEF BufTypeOK
  <2> QED
    BY <1>0, <2>1, <2>2, GotoStep
<1>12. CASE ClearFsCache(c, t)
  <2>1. /\ curr[c] = t /\ pc[t] = "exit" /\ UNCHANGED <<rpc_arg, rpc_mobj, payload>>
        /\ ~in_ta[t]
    BY <1>0, <1>12 DEF ClearFsCache, Waits
  <2>2. CASE payload[t] = NoCookie
    <3>1. Goto(t, "exit_arg") /\ UNCHANGED <<op, then, cookie>>
      BY <1>12, <2>2 DEF ClearFsCache
    <3>2. BufTypeOK'
      BY <1>0, <2>1, <3>1 DEF BufTypeOK
    <3> QED
      BY <1>0, <2>1, <3>1, <3>2, GotoStep
  <2>3. CASE payload[t] # NoCookie
    <3>1. RpcFree(c, t, payload[t], "exit_arg")
      BY <1>12, <2>3 DEF ClearFsCache
    <3>2. /\ GetRpcArg(c, t, "pl_free", payload[t]) /\ "pl_free" \in Ops
          /\ then'[t] = "exit_arg" /\ \A u \in Threads \ {t} : then'[u] = then[u]
      BY <1>0, <3>1 DEF RpcFree, BufTypeOK, Ops
    <3>3. BufTypeOK'
      BY <1>0, <2>1, <3>1 DEF RpcFree, GetRpcArg, BufTypeOK, Ops, Thens
    <3>4. payload[t] \in Cookies \cup {NoCookie}
      BY <1>0 DEF BufTypeOK
    <3> QED
      BY <2>1, <3>2, <3>3, <3>4, GetRpcArgStep
  <2> QED
    BY <2>2, <2>3
<1>13. CASE FreeRpcArg(c, t)
  <2>1. /\ curr[c] = t /\ pc[t] = "exit_arg" /\ UNCHANGED <<rpc_mobj, payload, op, then, cookie>>
        /\ ~in_ta[t] /\ then[t] = "call"
    BY <1>0, <1>13 DEF FreeRpcArg, Waits
  <2>2. BufTypeOK'
    BY <1>0, <1>13 DEF FreeRpcArg, BufTypeOK
  <2>3. \/ Goto(t, "done")
        \/ Rpc(c, t, "arg_put", rpc_mobj[t]) /\ rpc_mobj[t] \in Cookies \cup {NoCookie}
    BY <1>0, <1>13 DEF FreeRpcArg, BufTypeOK
  <2>4. "arg_put" \in Waits
    BY DEF Waits
  <2> QED
    BY <2>1, <2>2, <2>3, <2>4, GotoStep, RpcStep
<1>14. CASE RpcArgFreed(c, t)
  <2>1. /\ curr[c] = t /\ pc[t] = "arg_put" /\ Goto(t, "done")
        /\ UNCHANGED <<payload, op, then, cookie>> /\ ~in_ta[t] /\ then[t] = "call"
    BY <1>0, <1>14 DEF RpcArgFreed
  <2>2. BufTypeOK'
    BY <1>0, <1>14 DEF RpcArgFreed, BufTypeOK
  <2> QED
    BY <2>1, <2>2, GotoStep
<1> QED
  BY <1>1, <1>2, <1>3, <1>4, <1>5, <1>6, <1>6a, <1>7, <1>8, <1>9, <1>10, <1>11,
     <1>12, <1>13, <1>14 DEF CallStep

-----------------------------------------------------------------------------
(* Steps of the pool itself.                                               *)

\* Threads are numbered from 0, so none is NoThread.
LEMMA ThreadNumbers == \A t \in Threads : t # NoThread
BY ThreadsAssumption DEF Threads, NoThread

\* thread_clr_boot_thread and thread_state_free: a thread becomes free.
LEMMA FreeStep ==
    ASSUME IInv, NEW c \in Cores, NEW t \in Threads,
           ClrBootThread(c, t) \/ StateFree(c, t)
    PROVE  IInv'
<1> USE ThreadNumbers DEF argVars, callVars, nwVars
<1>1. /\ curr[c] = t /\ pc[t] \in {"boot", "done"}
      /\ state' = [state EXCEPT ![t] = "FREE"]
      /\ curr' = [curr EXCEPT ![c] = NoThread]
      /\ pc' = [pc EXCEPT ![t] = "idle"]
      /\ copy_args' = [copy_args EXCEPT ![t] = FALSE] \/ UNCHANGED copy_args
      /\ intr' = [intr EXCEPT ![t] = FALSE] \/ UNCHANGED intr
      /\ UNCHANGED <<user_map, regs, entering, umap, rpc_arg, rpc_mobj, payload,
                     op, then, cookie, in_ta, cache, req, reply, shm, disabled>>
  BY DEF ClrBootThread, StateFree
<1>2. BufTypeOK' /\ PoolTypeOK'
  BY <1>1 DEF IInv, TypeOK, PoolTypeOK, BufTypeOK, Pcs
<1>3. OneCorePerThread'
  BY <1>1 DEF IInv, PoolInv, TypeOK, PoolTypeOK, OneCorePerThread, On, PcInv
<1>4. ~in_ta[t] /\ (pc[t] = "boot" => ~intr[t]) /\ then[t] = "call" /\ ~copy_args[t]
  BY <1>1 DEF IInv, PoolInv, MapInv, PcInv, RegsInv, Waits
<1>5. UserMapFollowsThread'
  BY <1>1, <1>4 DEF IInv, PoolInv, TypeOK, PoolTypeOK, UserMapFollowsThread, OneCorePerThread, On
<1>6. PcInv'
  <2>1. ~intr'[t]
    BY <1>1, <1>4 DEF StateFree, ClrBootThread, IInv, TypeOK, PoolTypeOK
  <2> QED
    BY <1>1, <1>4, <2>1 DEF IInv, PoolInv, TypeOK, PoolTypeOK, PcInv
<1>7. MapInv'
  BY <1>1, <1>4 DEF IInv, PoolInv, TypeOK, PoolTypeOK, MapInv, OneCorePerThread, On
<1>8. RegsInv'
  BY <1>1, <1>4 DEF IInv, PoolInv, TypeOK, PoolTypeOK, RegsInv, Waits
<1> QED
  BY <1>2, <1>3, <1>5, <1>6, <1>7, <1>8 DEF IInv, TypeOK, PoolInv

\* Under the lock a core takes a thread that is free or suspended.
LEMMA TakeStep ==
    ASSUME IInv, NEW c \in Cores, AllocAndRun(c) \/ (\E n \in 0..NumThreads : ResumeFromRpc(c, n))
    PROVE  IInv'
<1> USE ThreadNumbers DEF argVars, callVars, nwVars
<1>1. /\ curr[c] = NoThread /\ entering[c] = NoThread
      /\ UNCHANGED <<copy_args, user_map, regs, curr, umap, rpc_arg, rpc_mobj, payload,
                     op, then, cookie, in_ta, intr, cache, req, reply, shm, disabled>>
  BY DEF AllocAndRun, ResumeFromRpc, InNormalWorld
<1>2. CASE UNCHANGED <<state, entering, pc>>
  BY <1>1, <1>2 DEF IInv, TypeOK, PoolTypeOK, BufTypeOK, PoolInv, OneCorePerThread, On,
                    UserMapFollowsThread, PcInv, MapInv, RegsInv
<1>3. CASE ~UNCHANGED <<state, entering, pc>>
  <2>1. PICK n \in Threads :
           /\ state' = [state EXCEPT ![n] = "ACTIVE"]
           /\ entering' = [entering EXCEPT ![c] = n]
           /\ \/ state[n] = "FREE" /\ pc' = [pc EXCEPT ![n] = "entry"]
              \/ state[n] = "SUSPENDED" /\ reply[n] # Pending /\ UNCHANGED pc
    BY <1>3 DEF AllocAndRun, ResumeFromRpc
  <2>2. \A d \in Cores : curr[d] # n /\ entering[d] # n
    BY <2>1 DEF IInv, PoolInv, OneCorePerThread, On
  <2>3. BufTypeOK' /\ PoolTypeOK'
    BY <1>1, <2>1 DEF IInv, TypeOK, PoolTypeOK, BufTypeOK, Pcs
  <2>4. OneCorePerThread'
    BY <1>1, <2>1, <2>2 DEF IInv, PoolInv, TypeOK, PoolTypeOK, OneCorePerThread, On
  <2>5. UserMapFollowsThread'
    BY <1>1 DEF IInv, PoolInv, UserMapFollowsThread
  <2>6. PcInv'
    BY <1>1, <2>1 DEF IInv, PoolInv, TypeOK, PoolTypeOK, PcInv
  <2>7. MapInv'
    BY <1>1, <2>1 DEF IInv, PoolInv, TypeOK, PoolTypeOK, PcInv, MapInv, Waits
  <2>8. RegsInv'
    BY <1>1, <2>1, <2>2 DEF IInv, PoolInv, TypeOK, PoolTypeOK, PcInv, RegsInv, Waits
  <2> QED
    BY <2>3, <2>4, <2>5, <2>6, <2>7, <2>8 DEF IInv, TypeOK, PoolInv
<1> QED
  BY <1>2, <1>3

\* After the unlock the core makes the thread its current one.
LEMMA EnterStep ==
    ASSUME IInv, NEW c \in Cores, NEW t \in Threads,
           EnterNew(c, t) \/ EnterResumed(c, t)
    PROVE  IInv'
<1> USE ThreadNumbers DEF argVars, callVars, nwVars
<1>1. /\ entering[c] = t
      /\ curr' = [curr EXCEPT ![c] = t]
      /\ entering' = [entering EXCEPT ![c] = NoThread]
      /\ copy_args' = [copy_args EXCEPT ![t] = FALSE]
      /\ UNCHANGED <<state, user_map, pc, rpc_arg, rpc_mobj, payload, op, then,
                     cookie, in_ta, cache, req, shm, disabled>>
  BY DEF EnterNew, EnterResumed
<1>2. curr[c] = NoThread /\ umap[c] = NoThread /\ \A d \in Cores : curr[d] # t /\ (d # c => entering[d] # t)
  BY <1>1 DEF IInv, PoolInv, TypeOK, PoolTypeOK, PcInv, OneCorePerThread, On, UserMapFollowsThread
<1>3. OneCorePerThread'
  BY <1>1, <1>2 DEF IInv, PoolInv, TypeOK, PoolTypeOK, OneCorePerThread, On
<1>4. CASE EnterNew(c, t)
  <2>1. /\ pc[t] = "entry" /\ ~in_ta[t]
        /\ intr' = [intr EXCEPT ![t] = FALSE] /\ UNCHANGED <<regs, umap, reply>>
    BY <1>4 DEF EnterNew, IInv, PoolInv, MapInv, Waits
  <2>2. BufTypeOK' /\ PoolTypeOK'
    BY <1>1, <2>1 DEF IInv, TypeOK, PoolTypeOK, BufTypeOK
  <2>3. UserMapFollowsThread'
    BY <1>1, <1>2, <2>1 DEF IInv, PoolInv, TypeOK, PoolTypeOK, UserMapFollowsThread
  <2>4. PcInv'
    BY <1>1, <2>1 DEF IInv, PoolInv, TypeOK, PoolTypeOK, PcInv
  <2>5. MapInv'
    BY <1>1, <1>2, <2>1 DEF IInv, PoolInv, TypeOK, PoolTypeOK, MapInv
  <2>6. RegsInv'
    BY <1>1, <1>2, <2>1 DEF IInv, PoolInv, TypeOK, PoolTypeOK, RegsInv, Waits
  <2> QED
    BY <1>3, <2>2, <2>3, <2>4, <2>5, <2>6 DEF IInv, TypeOK, PoolInv
<1>5. CASE EnterResumed(c, t)
  <2>1. /\ pc[t] # "entry" /\ UNCHANGED intr
        /\ umap' = IF user_map[t] = NoThread THEN umap ELSE [umap EXCEPT ![c] = user_map[t]]
        /\ regs' = IF copy_args[t] THEN [regs EXCEPT ![t] = reply[t]] ELSE regs
        /\ reply' = [reply EXCEPT ![t] = Pending]
    BY <1>5 DEF EnterResumed
  <2>2. BufTypeOK' /\ PoolTypeOK'
    BY <1>1, <2>1 DEF IInv, TypeOK, PoolTypeOK, BufTypeOK
  <2>3. state[t] = "ACTIVE" /\ pc[t] \notin {"idle", "boot"}
    BY <1>1, <1>2 DEF IInv, PoolInv, OneCorePerThread, On, PcInv
  <2>4. user_map[t] = IF in_ta[t] THEN t ELSE NoThread
    BY <1>2, <2>1, <2>3 DEF IInv, PoolInv, MapInv
  <2>5. UserMapFollowsThread'
    BY <1>1, <1>2, <2>1, <2>4 DEF IInv, PoolInv, TypeOK, PoolTypeOK, UserMapFollowsThread
  <2>6. PcInv'
    BY <1>1, <2>1 DEF IInv, PoolInv, TypeOK, PoolTypeOK, PcInv
  <2>7. MapInv'
    BY <1>1, <1>2, <2>1 DEF IInv, PoolInv, TypeOK, PoolTypeOK, MapInv
  <2>8. RegsInv'
    BY <1>1, <1>2, <2>1 DEF IInv, PoolInv, TypeOK, PoolTypeOK, RegsInv
  <2> QED
    BY <1>3, <2>2, <2>5, <2>6, <2>7, <2>8 DEF IInv, TypeOK, PoolInv
<1> QED
  BY <1>4, <1>5

\* A foreign interrupt saves the map and leaves the registers alone.
LEMMA ForeignIntrStep ==
    ASSUME IInv, NEW c \in Cores, NEW t \in Threads, ForeignIntr(c, t)
    PROVE  IInv'
<1> USE ThreadNumbers DEF argVars, callVars, nwVars
<1>1. /\ curr[c] = t /\ intr[t]
      /\ state' = [state EXCEPT ![t] = "SUSPENDED"]
      /\ copy_args' = [copy_args EXCEPT ![t] = @ \/ FALSE]
      /\ user_map' = [user_map EXCEPT ![t] = umap[c]]
      /\ umap' = [umap EXCEPT ![c] = NoThread]
      /\ curr' = [curr EXCEPT ![c] = NoThread]
      /\ reply' = [reply EXCEPT ![t] = Garbage]
      /\ UNCHANGED <<entering, regs, rpc_arg, rpc_mobj, payload, pc, op, then, cookie,
                     in_ta, intr, cache, req, shm, disabled>>
  BY DEF ForeignIntr, Suspend
<1>2. /\ \A d \in Cores : entering[d] # t /\ curr'[d] # t
      /\ \A d \in Cores, u \in Threads \ {t} : curr'[d] = u <=> curr[d] = u
  BY <1>1 DEF IInv, PoolInv, TypeOK, PoolTypeOK, OneCorePerThread, On
<1>3. ~copy_args[t] /\ ~copy_args'[t] /\ pc[t] \notin {"idle", "boot", "entry"}
  BY <1>1 DEF IInv, PoolInv, TypeOK, PoolTypeOK, RegsInv, PcInv
<1>4. BufTypeOK' /\ PoolTypeOK'
  BY <1>1 DEF IInv, TypeOK, PoolTypeOK, BufTypeOK
<1>5. OneCorePerThread'
  BY <1>1, <1>2 DEF IInv, PoolInv, TypeOK, PoolTypeOK, OneCorePerThread, On
<1>6. UserMapFollowsThread'
  BY <1>1, <1>2 DEF IInv, PoolInv, TypeOK, PoolTypeOK, UserMapFollowsThread
<1>7. PcInv'
  BY <1>1, <1>3 DEF IInv, PoolInv, TypeOK, PoolTypeOK, PcInv
<1>8. MapInv'
  BY <1>1, <1>2 DEF IInv, PoolInv, TypeOK, PoolTypeOK, MapInv, UserMapFollowsThread
<1>9. RegsInv'
  <2>1. \A u \in Threads \ {t} : copy_args'[u] = copy_args[u] /\ reply'[u] = reply[u]
    BY <1>1 DEF IInv, TypeOK, PoolTypeOK
  <2> QED
    BY <1>1, <1>2, <1>3, <2>1 DEF IInv, PoolInv, RegsInv
<1> QED
  BY <1>4, <1>5, <1>6, <1>7, <1>8, <1>9 DEF IInv, TypeOK, PoolInv

\* The start of a call and the change of its user map.
LEMMA MapStep ==
    ASSUME IInv, NEW c \in Cores, NEW t \in Threads,
           EntryStd(c, t) \/ SetUserMap(c, t)
    PROVE  IInv'
<1> USE ThreadNumbers DEF argVars, callVars, nwVars, ctxVars, coreVars
<1>1. CASE EntryStd(c, t)
  <2>1. /\ curr[c] = t /\ pc[t] = "entry" /\ pc' = [pc EXCEPT ![t] = "call"]
        /\ intr' = [intr EXCEPT ![t] = TRUE]
        /\ UNCHANGED <<state, copy_args, user_map, regs, curr, entering, umap, rpc_arg,
                       rpc_mobj, payload, op, then, cookie, in_ta, cache, req, reply,
                       shm, disabled>>
    BY <1>1 DEF EntryStd
  <2>2. BufTypeOK' /\ PoolTypeOK'
    BY <2>1 DEF IInv, TypeOK, PoolTypeOK, BufTypeOK, Pcs
  <2>3. OneCorePerThread' /\ UserMapFollowsThread'
    BY <2>1 DEF IInv, PoolInv, OneCorePerThread, On, UserMapFollowsThread
  <2>4. PcInv'
    BY <2>1 DEF IInv, PoolInv, TypeOK, PoolTypeOK, PcInv, OneCorePerThread, On
  <2>5. MapInv'
    BY <2>1 DEF IInv, PoolInv, TypeOK, PoolTypeOK, MapInv, Waits
  <2>6. RegsInv'
    BY <2>1 DEF IInv, PoolInv, TypeOK, PoolTypeOK, RegsInv, Waits
  <2> QED
    BY <2>2, <2>3, <2>4, <2>5, <2>6 DEF IInv, TypeOK, PoolInv
<1>2. CASE SetUserMap(c, t)
  <2>1. /\ curr[c] = t /\ pc[t] = "call" /\ in_ta' = [in_ta EXCEPT ![t] = ~@]
        /\ umap' = [umap EXCEPT ![c] = IF in_ta[t] THEN NoThread ELSE t]
        /\ UNCHANGED <<state, copy_args, user_map, regs, curr, entering, rpc_arg,
                       rpc_mobj, payload, pc, op, then, cookie, intr, cache, req, reply,
                       shm, disabled>>
    BY <1>2 DEF SetUserMap
  <2>2. BufTypeOK' /\ PoolTypeOK'
    BY <2>1 DEF IInv, TypeOK, PoolTypeOK, BufTypeOK
  <2>3. OneCorePerThread' /\ PcInv' /\ RegsInv'
    BY <2>1 DEF IInv, PoolInv, OneCorePerThread, On, PcInv, RegsInv
  <2>4. UserMapFollowsThread'
    <3>1. \A d \in Cores : d # c => curr[d] # t /\ umap'[d] = umap[d]
      BY <2>1 DEF IInv, PoolInv, TypeOK, PoolTypeOK, OneCorePerThread, On
    <3>2. /\ umap'[c] = IF in_ta[t] THEN NoThread ELSE t
          /\ in_ta'[t] = ~in_ta[t] /\ in_ta[t] \in BOOLEAN
          /\ \A u \in Threads : u # t => in_ta'[u] = in_ta[u]
      BY <2>1 DEF IInv, TypeOK, PoolTypeOK
    <3>3. \A d \in Cores : curr'[d] = curr[d] /\ curr[d] \in Threads \cup {NoThread}
      BY <2>1 DEF IInv, TypeOK, PoolTypeOK
    <3> QED
      BY <2>1, <3>1, <3>2, <3>3 DEF IInv, PoolInv, UserMapFollowsThread
  <2>5. MapInv'
    BY <2>1 DEF IInv, PoolInv, TypeOK, PoolTypeOK, MapInv, PcInv
  <2> QED
    BY <2>2, <2>3, <2>4, <2>5 DEF IInv, TypeOK, PoolInv
<1> QED
  BY <1>1, <1>2

\* What normal world and the fast calls change is not part of the pool, but
\* for the answer to an RPC.
LEMMA NormalWorldStep ==
    ASSUME IInv, \/ \E c \in Cores : DisableCache(c) \/ EnableCache(c)
                 \/ \E t \in Threads : Serve(t)
    PROVE  IInv'
<1> USE ThreadNumbers DEF argVars, callVars, nwVars, ctxVars, coreVars
<1>1. CASE \E c \in Cores : DisableCache(c) \/ EnableCache(c)
  <2>1. UNCHANGED <<state, copy_args, user_map, regs, curr, entering, umap, payload,
                    pc, op, then, cookie, in_ta, intr, req, reply>>
    BY <1>1 DEF DisableCache, EnableCache
  <2>2. cache' \in BOOLEAN /\ disabled' \in BOOLEAN /\ shm' \subseteq Cookies
    BY <1>1 DEF DisableCache, EnableCache, IInv, TypeOK, PoolTypeOK
  <2>3. \/ UNCHANGED <<rpc_arg, rpc_mobj>>
        \/ \E n \in Threads : /\ rpc_arg' = [rpc_arg EXCEPT ![n] = FALSE]
                              /\ rpc_mobj' = [rpc_mobj EXCEPT ![n] = Dangling]
    BY <1>1 DEF DisableCache, EnableCache
  <2>4. BufTypeOK'
    BY <2>1, <2>3 DEF IInv, TypeOK, BufTypeOK
  <2>5. PoolTypeOK'
    BY <2>1, <2>2 DEF IInv, TypeOK, PoolTypeOK
  <2> QED
    BY <2>1, <2>4, <2>5 DEF IInv, TypeOK, PoolInv, OneCorePerThread, On, UserMapFollowsThread,
                PcInv, MapInv, RegsInv
<1>2. ASSUME NEW t \in Threads, Serve(t)
      PROVE  IInv'
  <2>1. /\ UNCHANGED <<state, copy_args, user_map, regs, curr, entering, umap, rpc_arg,
                       rpc_mobj, payload, pc, op, then, cookie, in_ta, intr>>
        /\ \E k \in Cookies \cup {NoCookie} : reply' = [reply EXCEPT ![t] = k]
    BY <1>2 DEF Serve
  <2>2. BufTypeOK' /\ PoolTypeOK'
    BY <1>2 DEF Serve, IInv, TypeOK, PoolTypeOK, BufTypeOK, NoCookie
  <2>3. OneCorePerThread' /\ UserMapFollowsThread' /\ PcInv' /\ MapInv'
    BY <2>1 DEF IInv, PoolInv, OneCorePerThread, On, UserMapFollowsThread, PcInv, MapInv
  <2>4. RegsInv'
    BY <2>1, ThreadsAssumption DEF IInv, PoolInv, TypeOK, PoolTypeOK, RegsInv,
                                   NoCookie, Pending, Garbage
  <2> QED
    BY <2>2, <2>3, <2>4 DEF IInv, TypeOK, PoolInv
<1> QED
  BY <1>1, <1>2

-----------------------------------------------------------------------------
(* The theorems.                                                           *)

\* IInv is an invariant of the pool.
THEOREM Invariance == Spec => []IInv
<1>1. Init => IInv
  <2> SUFFICES ASSUME Init PROVE IInv
    OBVIOUS
  <2>0. 0 \in Threads /\ (\A t \in Threads : t # NoThread)
    BY ThreadsAssumption, ThreadNumbers DEF Threads
  <2>1. PoolTypeOK /\ BufTypeOK
    BY <2>0 DEF Init, PoolTypeOK, BufTypeOK, Pcs, Ops, Thens
  <2>2. OneCorePerThread /\ UserMapFollowsThread
    BY <2>0 DEF Init, OneCorePerThread, On, UserMapFollowsThread
  <2>3. PcInv /\ MapInv
    BY <2>0 DEF Init, PcInv, MapInv
  <2>4. RegsInv
    BY <2>0 DEF Init, RegsInv, Pending, Garbage, Waits
  <2> QED
    BY <2>1, <2>2, <2>3, <2>4 DEF IInv, TypeOK, PoolInv
<1>2. IInv /\ [Next]_vars => IInv'
  <2> SUFFICES ASSUME IInv, [Next]_vars PROVE IInv'
    OBVIOUS
  <2>1. CASE UNCHANGED vars
    BY <2>1 DEF vars, ctxVars, coreVars, argVars, callVars, nwVars, IInv, TypeOK, PoolTypeOK,
                BufTypeOK, PoolInv, OneCorePerThread, On, UserMapFollowsThread, PcInv,
                MapInv, RegsInv
  <2>2. ASSUME NEW c \in Cores, NEW t \in Threads, Step(c, t)
        PROVE  IInv'
    BY <2>2, FreeStep, EnterStep, ForeignIntrStep, MapStep, CallStepInv DEF Step, CallStep
  <2>3. ASSUME NEW c \in Cores, AllocAndRun(c) \/ DisableCache(c) \/ EnableCache(c)
        PROVE  IInv'
    BY <2>3, TakeStep, NormalWorldStep
  <2>4. ASSUME NEW c \in Cores, NEW n \in 0..NumThreads, ResumeFromRpc(c, n)
        PROVE  IInv'
    BY <2>4, TakeStep
  <2>5. ASSUME NEW t \in Threads, Serve(t)
        PROVE  IInv'
    BY <2>5, NormalWorldStep
  <2> QED
    BY <2>1, <2>2, <2>3, <2>4, <2>5 DEF Next
<1> QED
  BY <1>1, <1>2, PTL DEF Spec

\* Every variable keeps its type, and rpc_arg its mobj, for any number of
\* cores, threads and buffers.
THEOREM TypeCorrect == Spec => []TypeOK
BY Invariance, PTL DEF IInv

\* However normal world starts and resumes threads, on however many cores,
\* no two cores run on the stack of one thread.
THEOREM ExclusiveThreads == Spec => []OneCorePerThread
<1>1. IInv => OneCorePerThread
  BY DEF IInv, PoolInv
<1> QED
  BY <1>1, Invariance, PTL

\* The user map of a thread goes with it from core to core, and is never left
\* active for another thread or for normal world.
THEOREM MapsFollowThreads == Spec => []UserMapFollowsThread
<1>1. IInv => UserMapFollowsThread
  BY DEF IInv, PoolInv
<1> QED
  BY <1>1, Invariance, PTL

\* Normal world writes to the registers of a thread only as the answer to an
\* RPC the thread made, and the thread goes on only with that answer.
THEOREM RegistersAreSafe == Spec => []RegsOnlyFromRpc
<1>1. IInv => RegsOnlyFromRpc
  BY DEF IInv, PoolInv, RegsInv, RegsOnlyFromRpc
<1> QED
  BY <1>1, Invariance, PTL

-----------------------------------------------------------------------------
(* The shared buffers.                                                     *)

\* The three places where a thread keeps a buffer that it must free or hand
\* out: its argument buffer until normal world has freed it, its payload
\* buffer (the one it asks to free, once it does), and the answer to an
\* allocation that it has not looked at, or found unusable.
ArgBuf(t) == IF rpc_arg[t] /\ ~(pc[t] = "arg_put" /\ req[t] = NoCookie)
             THEN rpc_mobj[t] ELSE NoCookie
PlBuf(t) == IF pc[t] = "pl_free" THEN req[t] ELSE payload[t]
ResBuf(t) == IF pc[t] \in {"arg_alloc", "pl_alloc"}
             THEN IF copy_args[t] THEN reply[t] ELSE regs[t]
             ELSE IF pc[t] = "arg_bad" THEN req[t] ELSE NoCookie

Places == {"arg", "pl", "res"}
At(t, p) == IF p = "arg" THEN ArgBuf(t) ELSE IF p = "pl" THEN PlBuf(t) ELSE ResBuf(t)

\* No buffer is in two places, and the allocated ones are those in a place.
OwnInv ==
    /\ \A t, u \in Threads, p, q \in Places :
          At(t, p) \in Cookies /\ At(t, p) = At(u, q) => t = u /\ p = q
    /\ \A k \in Cookies : k \in shm <=> \E t \in Threads, p \in Places : At(t, p) = k

\* A thread that waits for an answer has none in its registers; one that has
\* its answer asks for nothing any more.
AnswerOK(t) ==
    /\ req[t] # NoCookie => /\ copy_args[t] /\ reply[t] = Pending
                            /\ pc[t] \in {"arg_bad", "arg_put", "pl_free"}
    /\ pc[t] = "pl_free" /\ req[t] # NoCookie => req[t] = cookie[t]
    /\ pc[t] = "arg_put" /\ req[t] # NoCookie => req[t] = rpc_mobj[t]
    /\ reply[t] \in Cookies => copy_args[t]
    /\ copy_args[t] => regs[t] = Pending
    /\ state[t] = "SUSPENDED" /\ reply[t] = Pending => copy_args[t]

\* The argument buffer outlives the payload buffer, so that freeing the latter
\* never has to allocate the former, which might fail.
CallOK(t) ==
    /\ pc[t] \in {"arg_alloc", "arg_bad"} => ~rpc_arg[t] /\ op[t] # "pl_free"
    /\ pc[t] \in {"cmd", "pl_alloc", "pl_free", "arg_put"} => rpc_arg[t]
    /\ payload[t] # NoCookie =>
          rpc_arg[t] /\ pc[t] \in {"call", "cmd", "pl_free", "exit"}
    /\ rpc_mobj[t] \in Cookies => rpc_arg[t]

\* Without the cache no thread keeps an argument buffer after its call.
CacheOK(t) ==
    /\ disabled => ~cache
    /\ ~cache /\ pc[t] \in {"idle", "boot", "entry", "done"} => ~rpc_arg[t]

BufInv == OwnInv /\ \A t \in Threads : AnswerOK(t) /\ CallOK(t) /\ CacheOK(t)

-----------------------------------------------------------------------------

\* No marker is a buffer, nor one another.
LEMMA Markers ==
    /\ NoCookie \notin Cookies /\ Dangling \notin Cookies
    /\ Pending \notin Cookies /\ Garbage \notin Cookies
    /\ NoCookie # Pending /\ NoCookie # Garbage /\ Pending # Garbage
    /\ NoCookie # Dangling
BY ThreadsAssumption DEF NoCookie, Dangling, Pending, Garbage

\* The buffers of every thread but t are left alone.
Frame(t) ==
    \A u \in Threads \ {t} :
        /\ state'[u] = state[u] /\ copy_args'[u] = copy_args[u]
        /\ regs'[u] = regs[u] /\ reply'[u] = reply[u] /\ req'[u] = req[u]
        /\ rpc_arg'[u] = rpc_arg[u] /\ rpc_mobj'[u] = rpc_mobj[u]
        /\ payload'[u] = payload[u] /\ cookie'[u] = cookie[u]
        /\ pc'[u] = pc[u] /\ op'[u] = op[u]

\* The places of the other threads, and what the invariant says of them.
LEMMA OthersKeep ==
    ASSUME BufInv, NEW t \in Threads, Frame(t)
    PROVE  \A u \in Threads \ {t} :
              /\ \A p \in Places : At(u, p)' = At(u, p)
              /\ AnswerOK(u)' /\ CallOK(u)'
              /\ UNCHANGED <<cache, disabled>> => CacheOK(u)'
<1> TAKE u \in Threads \ {t}
<1>0. AnswerOK(u) /\ CallOK(u) /\ CacheOK(u)
  BY DEF BufInv
<1>1. \A p \in Places : At(u, p)' = At(u, p)
  BY DEF Frame, At, ArgBuf, PlBuf, ResBuf
<1>2. AnswerOK(u)'
  BY <1>0 DEF Frame, AnswerOK
<1>3. CallOK(u)'
  BY <1>0 DEF Frame, CallOK
<1>4. UNCHANGED <<cache, disabled>> => CacheOK(u)'
  BY <1>0 DEF Frame, CacheOK
<1> QED
  BY <1>1, <1>2, <1>3, <1>4

\* A buffer of t moves from the place p to the place q, or every buffer stays
\* where it is (p = q).
LEMMA MoveBuf ==
    ASSUME BufInv, NEW t \in Threads, Frame(t), shm' = shm,
           NEW p \in Places, NEW q \in Places,
           At(t, q)' \in Cookies \/ At(t, p) \in Cookies => At(t, q)' = At(t, p),
           p # q => At(t, q) \notin Cookies /\ At(t, p)' \notin Cookies,
           \A r \in Places \ {p, q} :
              At(t, r)' \in Cookies \/ At(t, r) \in Cookies => At(t, r)' = At(t, r)
    PROVE  OwnInv'
<1> DEFINE back(r) == IF r = q THEN p ELSE r
<1>0. OwnInv
  BY DEF BufInv
<1>1. \A u \in Threads \ {t}, r \in Places : At(u, r)' = At(u, r)
  BY OthersKeep
<1>2. \A r \in Places : At(t, r)' \in Cookies =>
                          back(r) \in Places /\ At(t, r)' = At(t, back(r))
  OBVIOUS
<1>3. \A r, s \in Places : At(t, r)' \in Cookies /\ At(t, s)' \in Cookies
                             /\ back(r) = back(s) => r = s
  OBVIOUS
<1>4. \A r \in Places : At(t, r) \in Cookies => \E s \in Places : At(t, s)' = At(t, r)
  OBVIOUS
<1> HIDE DEF back
<1>5. ASSUME NEW u \in Threads, NEW v \in Threads, NEW r \in Places, NEW s \in Places,
             At(u, r)' \in Cookies, At(u, r)' = At(v, s)'
      PROVE  u = v /\ r = s
  <2>1. CASE u = t /\ v = t
    BY <1>0, <1>2, <1>3, <1>5, <2>1 DEF OwnInv
  <2>2. CASE u = t /\ v # t
    BY <1>0, <1>1, <1>2, <1>5, <2>2 DEF OwnInv
  <2>3. CASE u # t /\ v = t
    BY <1>0, <1>1, <1>2, <1>5, <2>3 DEF OwnInv
  <2>4. CASE u # t /\ v # t
    BY <1>0, <1>1, <1>5, <2>4 DEF OwnInv
  <2> QED
    BY <2>1, <2>2, <2>3, <2>4
<1>6. ASSUME NEW k \in Cookies
      PROVE  k \in shm' <=> \E u \in Threads, r \in Places : At(u, r)' = k
  <2>1. (\E u \in Threads, r \in Places : At(u, r)' = k)
           <=> (\E u \in Threads, r \in Places : At(u, r) = k)
    BY <1>1, <1>2, <1>4
  <2> QED
    BY <1>0, <2>1 DEF OwnInv
<1> QED
  BY <1>5, <1>6 DEF OwnInv

\* Normal world frees the buffer in the place p of t.
LEMMA DropBuf ==
    ASSUME BufInv, NEW t \in Threads, Frame(t), NEW p \in Places,
           At(t, p) \in Cookies, shm' = shm \ {At(t, p)},
           At(t, p)' \notin Cookies,
           \A r \in Places \ {p} :
              At(t, r)' \in Cookies \/ At(t, r) \in Cookies => At(t, r)' = At(t, r)
    PROVE  OwnInv'
<1>0. OwnInv
  BY DEF BufInv
<1>1. \A u \in Threads \ {t}, r \in Places : At(u, r)' = At(u, r)
  BY OthersKeep
<1>2. \A u \in Threads, r \in Places : At(u, r)' \in Cookies =>
         At(u, r)' = At(u, r) /\ At(u, r) # At(t, p)
  BY <1>0, <1>1 DEF OwnInv
<1>3. \A u \in Threads, r \in Places :
         At(u, r) \in Cookies /\ At(u, r) # At(t, p) => At(u, r)' = At(u, r)
  BY <1>1
<1>4. ASSUME NEW k \in Cookies
      PROVE  k \in shm' <=> \E u \in Threads, r \in Places : At(u, r)' = k
  BY <1>0, <1>2, <1>3 DEF OwnInv
<1>5. \A u, v \in Threads, r, s \in Places :
         At(u, r)' \in Cookies /\ At(u, r)' = At(v, s)' => u = v /\ r = s
  BY <1>0, <1>2 DEF OwnInv
<1> QED
  BY <1>4, <1>5 DEF OwnInv

\* Normal world answers with a buffer that it has just allocated.
LEMMA NewBuf ==
    ASSUME BufInv, NEW t \in Threads, Frame(t), NEW p \in Places,
           NEW k \in Cookies, k \notin shm, shm' = shm \cup {k},
           At(t, p) \notin Cookies, At(t, p)' = k,
           \A r \in Places \ {p} :
              At(t, r)' \in Cookies \/ At(t, r) \in Cookies => At(t, r)' = At(t, r)
    PROVE  OwnInv'
<1>0. OwnInv
  BY DEF BufInv
<1>1. \A u \in Threads \ {t}, r \in Places : At(u, r)' = At(u, r)
  BY OthersKeep
<1>2. \A u \in Threads, r \in Places :
         (u # t \/ r # p) /\ At(u, r)' \in Cookies => At(u, r)' = At(u, r) /\ At(u, r) # k
  BY <1>0, <1>1 DEF OwnInv
<1>3. \A u \in Threads, r \in Places :
         At(u, r) \in Cookies => At(u, r)' = At(u, r) /\ (u # t \/ r # p)
  BY <1>1
<1>4. ASSUME NEW m \in Cookies
      PROVE  m \in shm' <=> \E u \in Threads, r \in Places : At(u, r)' = m
  BY <1>0, <1>2, <1>3 DEF OwnInv
<1>5. \A u, v \in Threads, r, s \in Places :
         At(u, r)' \in Cookies /\ At(u, r)' = At(v, s)' => u = v /\ r = s
  BY <1>0, <1>2 DEF OwnInv
<1> QED
  BY <1>4, <1>5 DEF OwnInv

\* What is left to show of a step of t.
LEMMA OwnStep ==
    ASSUME BufInv, NEW t \in Threads, Frame(t), OwnInv', UNCHANGED <<cache, disabled>>,
           AnswerOK(t)', CallOK(t)', CacheOK(t)'
    PROVE  BufInv'
  BY OthersKeep DEF BufInv

\* A step of t that leaves its buffers where they are.
LEMMA KeepBuf ==
    ASSUME BufInv, NEW t \in Threads, Frame(t), UNCHANGED <<shm, cache, disabled>>,
           ArgBuf(t)' = ArgBuf(t), PlBuf(t)' = PlBuf(t),
           ResBuf(t)' = ResBuf(t) \/ (ResBuf(t) \notin Cookies /\ ResBuf(t)' \notin Cookies),
           AnswerOK(t)', CallOK(t)', CacheOK(t)'
    PROVE  BufInv'
<1>1. "res" \in Places /\ At(t, "arg")' = At(t, "arg") /\ At(t, "pl")' = At(t, "pl")
      /\ (At(t, "res")' \in Cookies \/ At(t, "res") \in Cookies
             => At(t, "res")' = At(t, "res"))
  BY DEF At, Places
<1>2. \A r \in Places \ {"res"} : r = "arg" \/ r = "pl"
  BY DEF Places
<1>3. OwnInv'
  BY <1>1, <1>2, MoveBuf
<1> QED
  BY <1>3, OwnStep

\* The registers and the request of a thread that makes an RPC.
LEMMA RpcBuf ==
    ASSUME IInv, NEW c \in Cores, NEW t \in Threads, NEW p, NEW k, Rpc(c, t, p, k)
    PROVE  /\ pc'[t] = p /\ regs'[t] = Pending /\ req'[t] = k /\ reply'[t] = Pending
           /\ copy_args'[t] /\ state'[t] = "SUSPENDED"
           /\ UNCHANGED <<shm, cache, disabled>>
           /\ \A u \in Threads \ {t} :
                 /\ state'[u] = state[u] /\ copy_args'[u] = copy_args[u]
                 /\ regs'[u] = regs[u] /\ reply'[u] = reply[u] /\ req'[u] = req[u]
                 /\ pc'[u] = pc[u]
  BY DEF Rpc, Suspend, nwVars, IInv, TypeOK, PoolTypeOK

\* ... and of one that goes on.
LEMMA GotoBuf ==
    ASSUME IInv, NEW t \in Threads, NEW p, Goto(t, p)
    PROVE  /\ pc'[t] = p /\ regs'[t] = Pending
           /\ UNCHANGED <<shm, cache, disabled, state, copy_args, req, reply>>
           /\ \A u \in Threads \ {t} : regs'[u] = regs[u] /\ pc'[u] = pc[u]
  BY DEF Goto, nwVars, coreVars, IInv, TypeOK, PoolTypeOK

\* A thread that runs has its answer: it asks for nothing.
LEMMA Running ==
    ASSUME IInv, BufInv, NEW c \in Cores, NEW t \in Threads, curr[c] = t
    PROVE  /\ ~copy_args[t] /\ req[t] = NoCookie /\ reply[t] \notin Cookies
           /\ state[t] = "ACTIVE"
           /\ AnswerOK(t) /\ CallOK(t) /\ CacheOK(t)
<1>1. ~copy_args[t] /\ state[t] = "ACTIVE"
  BY DEF IInv, PoolInv, RegsInv, OneCorePerThread, On
<1> QED
  BY <1>1 DEF BufInv, AnswerOK

\* The call of t goes on without a buffer changing its place.
LEMMA GotoKeeps ==
    ASSUME IInv, BufInv, NEW c \in Cores, NEW t \in Threads, curr[c] = t,
           NEW p \in {"call", "exit", "exit_arg", "done"}, Goto(t, p),
           UNCHANGED <<rpc_arg, rpc_mobj, payload, op, cookie>>,
           pc[t] # "arg_put", pc[t] # "pl_free", ResBuf(t) \notin Cookies,
           payload[t] # NoCookie => p \in {"call", "exit"},
           ~cache /\ p = "done" => ~rpc_arg[t]
    PROVE  BufInv'
<1>0. /\ ~copy_args[t] /\ req[t] = NoCookie /\ reply[t] \notin Cookies
      /\ state[t] = "ACTIVE" /\ AnswerOK(t) /\ CallOK(t) /\ CacheOK(t)
  BY Running
<1>1. /\ pc'[t] = p /\ regs'[t] = Pending
      /\ UNCHANGED <<shm, cache, disabled, state, copy_args, req, reply>>
      /\ \A u \in Threads \ {t} : regs'[u] = regs[u] /\ pc'[u] = pc[u]
  BY GotoBuf
<1>2. Frame(t)
  BY <1>1 DEF Frame
<1>3. /\ ArgBuf(t)' = ArgBuf(t) /\ PlBuf(t)' = PlBuf(t) /\ ResBuf(t)' = NoCookie
  BY <1>1 DEF ArgBuf, PlBuf, ResBuf
<1>4. AnswerOK(t)' /\ CallOK(t)' /\ CacheOK(t)'
  BY <1>0, <1>1 DEF AnswerOK, CallOK, CacheOK
<1> QED
  BY <1>1, <1>2, <1>3, <1>4, Markers, KeepBuf

\* get_rpc_arg for an RPC that frees nothing: no buffer changes its place.
LEMMA GetRpcArgKeeps ==
    ASSUME IInv, BufInv, NEW c \in Cores, NEW t \in Threads, curr[c] = t,
           NEW o \in {"cmd", "pl_alloc"}, GetRpcArg(c, t, o, NoCookie),
           UNCHANGED <<rpc_arg, rpc_mobj>>,
           \A u \in Threads \ {t} : payload'[u] = payload[u] /\ cookie'[u] = cookie[u],
           pc[t] \in {"call", "pl_free"},
           pc[t] = "call" => payload'[t] = payload[t],
           pc[t] = "pl_free" => payload'[t] = NoCookie,
           o = "pl_alloc" => payload'[t] = NoCookie
    PROVE  BufInv'
<1>0. /\ ~copy_args[t] /\ req[t] = NoCookie /\ reply[t] \notin Cookies
      /\ state[t] = "ACTIVE" /\ AnswerOK(t) /\ CallOK(t) /\ CacheOK(t)
  BY Running
<1>1. PICK p \in {o, "arg_alloc"} :
         /\ Rpc(c, t, p, NoCookie)
         /\ p = "arg_alloc" => ~rpc_arg[t] /\ op'[t] = o
         /\ p # "arg_alloc" => rpc_arg[t]
         /\ \A u \in Threads \ {t} : op'[u] = op[u]
  <2>1. CASE rpc_arg[t]
    BY <2>1 DEF GetRpcArg
  <2>2. CASE ~rpc_arg[t]
    BY <2>2 DEF GetRpcArg, IInv, TypeOK, BufTypeOK
  <2> QED
    BY <2>1, <2>2
<1>2. /\ pc'[t] = p /\ regs'[t] = Pending /\ req'[t] = NoCookie /\ reply'[t] = Pending
      /\ copy_args'[t] /\ state'[t] = "SUSPENDED"
      /\ UNCHANGED <<shm, cache, disabled>>
      /\ \A u \in Threads \ {t} :
            /\ state'[u] = state[u] /\ copy_args'[u] = copy_args[u]
            /\ regs'[u] = regs[u] /\ reply'[u] = reply[u] /\ req'[u] = req[u]
            /\ pc'[u] = pc[u]
  BY <1>1, RpcBuf
<1>3. Frame(t)
  BY <1>1, <1>2 DEF Frame
<1>4. p \in {"cmd", "pl_alloc", "arg_alloc"}
  OBVIOUS
<1>5. /\ ArgBuf(t)' = ArgBuf(t) /\ PlBuf(t)' = PlBuf(t)
      /\ ResBuf(t) \notin Cookies /\ ResBuf(t)' \notin Cookies
  BY <1>0, <1>2, <1>4, Markers DEF ArgBuf, PlBuf, ResBuf
<1>6. AnswerOK(t)' /\ CacheOK(t)'
  BY <1>0, <1>2, <1>4, Markers DEF AnswerOK, CacheOK
<1>7. CallOK(t)'
  BY <1>0, <1>1, <1>2, <1>4 DEF CallOK
<1> QED
  BY <1>2, <1>3, <1>5, <1>6, <1>7, KeepBuf

\* thread_rpc_free: the payload buffer, or the answer that is of no use, is
\* the buffer that t asks to free; t has an argument buffer to ask with.
LEMMA RpcFreeBuf ==
    ASSUME IInv, BufInv, NEW c \in Cores, NEW t \in Threads, curr[c] = t,
           NEW k \in Cookies, NEW p, RpcFree(c, t, k, p),
           UNCHANGED <<rpc_arg, rpc_mobj, payload>>,
           \/ pc[t] \in {"call", "exit"} /\ k = payload[t]
           \/ pc[t] = "pl_alloc" /\ k = regs[t]
    PROVE  BufInv'
<1>0. /\ ~copy_args[t] /\ req[t] = NoCookie /\ reply[t] \notin Cookies
      /\ state[t] = "ACTIVE" /\ AnswerOK(t) /\ CallOK(t) /\ CacheOK(t)
  BY Running
<1>1. rpc_arg[t] /\ (pc[t] = "pl_alloc" => payload[t] = NoCookie) /\ k # NoCookie
  BY <1>0, Markers DEF CallOK
<1>2. Rpc(c, t, "pl_free", k) /\ UNCHANGED op /\ cookie' = [cookie EXCEPT ![t] = k]
  BY <1>1 DEF RpcFree, GetRpcArg
<1>3. /\ pc'[t] = "pl_free" /\ regs'[t] = Pending /\ req'[t] = k /\ reply'[t] = Pending
      /\ copy_args'[t] /\ state'[t] = "SUSPENDED"
      /\ UNCHANGED <<shm, cache, disabled>>
      /\ \A u \in Threads \ {t} :
            /\ state'[u] = state[u] /\ copy_args'[u] = copy_args[u]
            /\ regs'[u] = regs[u] /\ reply'[u] = reply[u] /\ req'[u] = req[u]
            /\ pc'[u] = pc[u]
  BY <1>2, RpcBuf
<1>4. cookie'[t] = k /\ \A u \in Threads \ {t} : cookie'[u] = cookie[u]
  BY <1>2 DEF IInv, TypeOK, BufTypeOK
<1>5. Frame(t)
  BY <1>2, <1>3, <1>4 DEF Frame
<1>6. AnswerOK(t)' /\ CallOK(t)' /\ CacheOK(t)'
  BY <1>0, <1>1, <1>2, <1>3, <1>4, Markers DEF AnswerOK, CallOK, CacheOK
<1>7. ArgBuf(t)' = ArgBuf(t) /\ PlBuf(t)' = k /\ ResBuf(t)' = NoCookie
  BY <1>1, <1>3 DEF ArgBuf, PlBuf, ResBuf
<1>8. CASE pc[t] \in {"call", "exit"} /\ k = payload[t]
  <2>1. PlBuf(t) = k /\ ResBuf(t) = NoCookie
    BY <1>8 DEF PlBuf, ResBuf
  <2> QED
    BY <1>3, <1>5, <1>6, <1>7, <2>1, KeepBuf
<1>9. CASE pc[t] = "pl_alloc" /\ k = regs[t]
  <2>1. PlBuf(t) = NoCookie /\ ResBuf(t) = k
    BY <1>0, <1>1, <1>9 DEF PlBuf, ResBuf
  <2>2. OwnInv'
    <3>1. /\ At(t, "pl")' = At(t, "res") /\ At(t, "arg")' = At(t, "arg")
          /\ At(t, "pl") \notin Cookies /\ At(t, "res")' \notin Cookies
          /\ "pl" \in Places /\ "res" \in Places
          /\ \A r \in Places \ {"res", "pl"} : r = "arg"
      BY <1>7, <2>1, Markers DEF At, Places
    <3> QED
      BY <1>3, <1>5, <3>1, MoveBuf
  <2> QED
    BY <1>3, <1>5, <1>6, <2>2, OwnStep
<1> QED
  BY <1>8, <1>9

\* tee_fs_rpc_cache_clear after normal world has freed the payload buffer.
LEMMA FreeDoneBuf ==
    ASSUME IInv, BufInv, NEW c \in Cores, NEW t \in Threads, curr[c] = t,
           pc[t] = "pl_free", FreeDone(c, t), UNCHANGED <<rpc_arg, rpc_mobj>>
    PROVE  BufInv'
<1>0. /\ ~copy_args[t] /\ req[t] = NoCookie /\ reply[t] \notin Cookies
      /\ state[t] = "ACTIVE" /\ AnswerOK(t) /\ CallOK(t) /\ CacheOK(t)
  BY Running
<1>1. /\ payload'[t] = NoCookie /\ cookie'[t] = NoCookie
      /\ \A u \in Threads \ {t} : payload'[u] = payload[u] /\ cookie'[u] = cookie[u]
  BY DEF FreeDone, IInv, TypeOK, BufTypeOK
<1>2. CASE then[t] = "realloc"
  <2>1. GetRpcArg(c, t, "pl_alloc", NoCookie)
    BY <1>2 DEF FreeDone
  <2> QED
    BY <1>1, <2>1, GetRpcArgKeeps
<1>3. CASE then[t] # "realloc"
  <2>1. Goto(t, then[t]) /\ UNCHANGED op /\ then[t] \in {"call", "exit_arg"}
    BY <1>3 DEF FreeDone, IInv, TypeOK, BufTypeOK, Thens
  <2>2. /\ pc'[t] \in {"call", "exit_arg"} /\ regs'[t] = Pending
        /\ UNCHANGED <<shm, cache, disabled, state, copy_args, req, reply>>
        /\ \A u \in Threads \ {t} : regs'[u] = regs[u] /\ pc'[u] = pc[u]
    BY <2>1, GotoBuf
  <2>3. Frame(t)
    BY <1>1, <2>1, <2>2 DEF Frame
  <2>4. ArgBuf(t)' = ArgBuf(t) /\ PlBuf(t)' = PlBuf(t) /\ ResBuf(t)' = ResBuf(t)
    BY <1>0, <1>1, <2>2 DEF ArgBuf, PlBuf, ResBuf
  <2>5. AnswerOK(t)' /\ CallOK(t)' /\ CacheOK(t)'
    BY <1>0, <1>1, <2>2 DEF AnswerOK, CallOK, CacheOK
  <2> QED
    BY <2>2, <2>3, <2>4, <2>5, KeepBuf
<1> QED
  BY <1>2, <1>3

\* get_rpc_arg fails: nothing was to be freed, so nothing is forgotten.
LEMMA NoArgBuf ==
    ASSUME IInv, BufInv, NEW c \in Cores, NEW t \in Threads, curr[c] = t,
           pc[t] = "arg_bad" \/ (pc[t] = "arg_alloc" /\ regs[t] = NoCookie),
           NoArg(c, t), UNCHANGED argVars
    PROVE  BufInv'
<1>0. ~copy_args[t] /\ req[t] = NoCookie /\ CallOK(t)
  BY Running
<1>1. Goto(t, "call") /\ UNCHANGED <<payload, op, cookie, rpc_arg, rpc_mobj>>
  BY <1>0 DEF CallOK, NoArg, callVars, argVars
<1>2. ResBuf(t) \notin Cookies
  BY <1>0, Markers DEF ResBuf
<1> QED
  BY <1>1, <1>2, GotoKeeps

\* The steps of a call, one by one.
LEMMA CallStepBuf ==
    ASSUME IInv, BufInv, NEW c \in Cores, NEW t \in Threads, CallStep(c, t)
    PROVE  BufInv'
<1> USE DEF argVars, callVars
<1>t. BufTypeOK /\ curr[c] = t
  BY DEF CallStep, EntryRefused, EntryEnigma, RpcCmd, FsAlloc, ArgAllocFails,
     ArgUnusable, ArgAllocated, ArgBadFreed, CmdDone, PayloadAllocFails,
     PayloadUnusable, PayloadAllocated, PayloadFreed, CallReturns, ClearFsCache,
     FreeRpcArg, RpcArgFreed, ArgParamsRefused, IInv, TypeOK
<1>0. /\ ~copy_args[t] /\ req[t] = NoCookie /\ reply[t] \notin Cookies
      /\ state[t] = "ACTIVE" /\ AnswerOK(t) /\ CallOK(t) /\ CacheOK(t)
  BY <1>t, Running
<1>1. CASE EntryRefused(c, t) \/ EntryEnigma(c, t)
  <2>1. PICK p \in {"exit", "done"} : Goto(t, p)
    BY <1>1 DEF EntryRefused, EntryEnigma
  <2>2. pc[t] = "entry" /\ UNCHANGED <<rpc_arg, rpc_mobj, payload, op, cookie>>
    BY <1>1 DEF EntryRefused, EntryEnigma
  <2>3. /\ payload[t] = NoCookie /\ ResBuf(t) \notin Cookies
        /\ ~cache => ~rpc_arg[t]
    BY <1>0, <2>2, Markers DEF CallOK, CacheOK, ResBuf
  <2> QED
    BY <1>t, <2>1, <2>2, <2>3, GotoKeeps
<1>2. CASE RpcCmd(c, t)
  <2>1. /\ pc[t] = "call" /\ GetRpcArg(c, t, "cmd", NoCookie)
        /\ UNCHANGED <<rpc_arg, rpc_mobj, payload, cookie>>
    BY <1>2 DEF RpcCmd
  <2> QED
    BY <1>t, <2>1, GetRpcArgKeeps
<1>3. CASE FsAlloc(c, t)
  <2>1. pc[t] = "call" /\ UNCHANGED <<rpc_arg, rpc_mobj, payload>>
    BY <1>3 DEF FsAlloc
  <2>2. CASE payload[t] = NoCookie
    <3>1. GetRpcArg(c, t, "pl_alloc", NoCookie) /\ UNCHANGED cookie
      BY <1>3, <2>2 DEF FsAlloc
    <3> QED
      BY <1>t, <2>1, <2>2, <3>1, GetRpcArgKeeps
  <2>3. CASE payload[t] # NoCookie
    <3>1. RpcFree(c, t, payload[t], "realloc") /\ payload[t] \in Cookies
      BY <1>3, <1>t, <2>3 DEF FsAlloc, BufTypeOK
    <3> QED
      BY <1>t, <2>1, <3>1, RpcFreeBuf
  <2> QED
    BY <2>2, <2>3
<1>4. CASE ArgAllocFails(c, t) \/ ArgBadFreed(c, t)
  <2>1. /\ NoArg(c, t) /\ UNCHANGED argVars
        /\ pc[t] = "arg_bad" \/ (pc[t] = "arg_alloc" /\ regs[t] = NoCookie)
    BY <1>4 DEF ArgAllocFails, ArgBadFreed
  <2> QED
    BY <1>t, <2>1, NoArgBuf
<1>5. CASE ArgUnusable(c, t)
  <2>1. /\ pc[t] = "arg_alloc" /\ regs[t] \in Cookies
        /\ Rpc(c, t, "arg_bad", regs[t])
        /\ UNCHANGED <<rpc_arg, rpc_mobj, payload, op, cookie>>
    BY <1>5 DEF ArgUnusable
  <2>2. /\ pc'[t] = "arg_bad" /\ regs'[t] = Pending /\ req'[t] = regs[t]
        /\ reply'[t] = Pending /\ copy_args'[t] /\ state'[t] = "SUSPENDED"
        /\ UNCHANGED <<shm, cache, disabled>>
        /\ \A u \in Threads \ {t} :
              /\ state'[u] = state[u] /\ copy_args'[u] = copy_args[u]
              /\ regs'[u] = regs[u] /\ reply'[u] = reply[u] /\ req'[u] = req[u]
              /\ pc'[u] = pc[u]
    BY <2>1, RpcBuf
  <2>3. Frame(t)
    BY <2>1, <2>2 DEF Frame
  <2>4. ArgBuf(t)' = ArgBuf(t) /\ PlBuf(t)' = PlBuf(t) /\ ResBuf(t)' = ResBuf(t)
    BY <1>0, <2>1, <2>2 DEF ArgBuf, PlBuf, ResBuf
  <2>5. AnswerOK(t)' /\ CallOK(t)' /\ CacheOK(t)'
    BY <1>0, <2>1, <2>2, Markers DEF AnswerOK, CallOK, CacheOK
  <2> QED
    BY <2>2, <2>3, <2>4, <2>5, KeepBuf
<1>6. CASE ArgAllocated(c, t)
  <2>1. /\ pc[t] = "arg_alloc" /\ regs[t] \in Cookies
        /\ rpc_arg' = [rpc_arg EXCEPT ![t] = TRUE]
        /\ rpc_mobj' = [rpc_mobj EXCEPT ![t] = regs[t]]
        /\ UNCHANGED <<payload, op, cookie>>
    BY <1>6 DEF ArgAllocated
  <2>2. op[t] \in {"cmd", "pl_alloc"} /\ ~rpc_arg[t] /\ payload[t] = NoCookie
    BY <1>0, <1>t, <2>1 DEF CallOK, BufTypeOK, Ops
  <2>3. Rpc(c, t, op[t], NoCookie)
    BY <1>6, <2>2 DEF ArgAllocated
  <2>4. /\ pc'[t] = op[t] /\ regs'[t] = Pending /\ req'[t] = NoCookie
        /\ reply'[t] = Pending /\ copy_args'[t] /\ state'[t] = "SUSPENDED"
        /\ UNCHANGED <<shm, cache, disabled>>
        /\ \A u \in Threads \ {t} :
              /\ state'[u] = state[u] /\ copy_args'[u] = copy_args[u]
              /\ regs'[u] = regs[u] /\ reply'[u] = reply[u] /\ req'[u] = req[u]
              /\ pc'[u] = pc[u]
    BY <2>3, RpcBuf
  <2>5. /\ rpc_arg'[t] /\ rpc_mobj'[t] = regs[t]
        /\ \A u \in Threads \ {t} : rpc_arg'[u] = rpc_arg[u] /\ rpc_mobj'[u] = rpc_mobj[u]
    BY <1>t, <2>1 DEF BufTypeOK
  <2>6. Frame(t)
    BY <2>1, <2>4, <2>5 DEF Frame
  <2>7. /\ ArgBuf(t) = NoCookie /\ PlBuf(t)' = PlBuf(t)
        /\ ArgBuf(t)' = ResBuf(t) /\ ResBuf(t)' \notin Cookies
    BY <1>0, <2>1, <2>2, <2>4, <2>5, Markers DEF ArgBuf, PlBuf, ResBuf
  <2>8. OwnInv'
    <3>1. /\ At(t, "arg")' = At(t, "res") /\ At(t, "pl")' = At(t, "pl")
          /\ At(t, "arg") \notin Cookies /\ At(t, "res")' \notin Cookies
          /\ "arg" \in Places /\ "res" \in Places
          /\ \A r \in Places \ {"res", "arg"} : r = "pl"
      BY <2>7, Markers DEF At, Places
    <3> QED
      BY <2>4, <2>6, <3>1, MoveBuf
  <2>9. AnswerOK(t)' /\ CallOK(t)' /\ CacheOK(t)'
    BY <1>0, <2>1, <2>2, <2>4, <2>5, Markers DEF AnswerOK, CallOK, CacheOK
  <2> QED
    BY <2>4, <2>6, <2>8, <2>9, OwnStep
<1>7. CASE CmdDone(c, t) \/ PayloadAllocFails(c, t) \/ CallReturns(c, t)
  <2>1. PICK p \in {"call", "exit"} : Goto(t, p)
    BY <1>7 DEF CmdDone, PayloadAllocFails, CallReturns
  <2>2. /\ pc[t] \in {"cmd", "pl_alloc", "call"} /\ (pc[t] = "pl_alloc" => regs[t] = NoCookie)
        /\ UNCHANGED <<rpc_arg, rpc_mobj, payload, op, cookie>>
    BY <1>7 DEF CmdDone, PayloadAllocFails, CallReturns
  <2>3. ResBuf(t) \notin Cookies
    BY <1>0, <2>2, Markers DEF ResBuf
  <2> QED
    BY <1>t, <2>1, <2>2, <2>3, GotoKeeps
<1>8. CASE PayloadUnusable(c, t)
  <2>1. /\ pc[t] = "pl_alloc" /\ regs[t] \in Cookies
        /\ RpcFree(c, t, regs[t], "call") /\ UNCHANGED <<rpc_arg, rpc_mobj, payload>>
    BY <1>8 DEF PayloadUnusable
  <2> QED
    BY <1>t, <2>1, RpcFreeBuf
<1>9. CASE PayloadAllocated(c, t)
  <2>1. /\ pc[t] = "pl_alloc" /\ regs[t] \in Cookies /\ Goto(t, "call")
        /\ payload' = [payload EXCEPT ![t] = regs[t]]
        /\ UNCHANGED <<rpc_arg, rpc_mobj, op, cookie>>
    BY <1>9 DEF PayloadAllocated
  <2>2. /\ pc'[t] = "call" /\ regs'[t] = Pending
        /\ UNCHANGED <<shm, cache, disabled, state, copy_args, req, reply>>
        /\ \A u \in Threads \ {t} : regs'[u] = regs[u] /\ pc'[u] = pc[u]
    BY <2>1, GotoBuf
  <2>3. payload'[t] = regs[t] /\ \A u \in Threads \ {t} : payload'[u] = payload[u]
    BY <1>t, <2>1 DEF BufTypeOK
  <2>4. Frame(t)
    BY <2>1, <2>2, <2>3 DEF Frame
  <2>5. payload[t] = NoCookie /\ rpc_arg[t]
    BY <1>0, <2>1 DEF CallOK
  <2>6. /\ ArgBuf(t)' = ArgBuf(t) /\ PlBuf(t) = NoCookie
        /\ PlBuf(t)' = ResBuf(t) /\ ResBuf(t)' = NoCookie
    BY <1>0, <2>1, <2>2, <2>3, <2>5 DEF ArgBuf, PlBuf, ResBuf
  <2>7. OwnInv'
    <3>1. /\ At(t, "pl")' = At(t, "res") /\ At(t, "arg")' = At(t, "arg")
          /\ At(t, "pl") \notin Cookies /\ At(t, "res")' \notin Cookies
          /\ "pl" \in Places /\ "res" \in Places
          /\ \A r \in Places \ {"res", "pl"} : r = "arg"
      BY <2>6, Markers DEF At, Places
    <3> QED
      BY <2>2, <2>4, <3>1, MoveBuf
  <2>8. AnswerOK(t)' /\ CallOK(t)' /\ CacheOK(t)'
    BY <1>0, <2>1, <2>2, <2>3, <2>5 DEF AnswerOK, CallOK, CacheOK
  <2> QED
    BY <2>2, <2>4, <2>7, <2>8, OwnStep
<1>10. CASE PayloadFreed(c, t)
  BY <1>10, FreeDoneBuf DEF PayloadFreed
<1>11. CASE ClearFsCache(c, t)
  <2>1. pc[t] = "exit" /\ UNCHANGED <<rpc_arg, rpc_mobj, payload>>
    BY <1>11 DEF ClearFsCache
  <2>2. CASE payload[t] = NoCookie
    <3>1. Goto(t, "exit_arg") /\ UNCHANGED <<op, cookie>> /\ ResBuf(t) \notin Cookies
      BY <1>11, <2>1, <2>2, Markers DEF ClearFsCache, ResBuf
    <3> QED
      BY <1>t, <2>1, <2>2, <3>1, GotoKeeps
  <2>3. CASE payload[t] # NoCookie
    <3>1. RpcFree(c, t, payload[t], "exit_arg") /\ payload[t] \in Cookies
      BY <1>11, <1>t, <2>3 DEF ClearFsCache, BufTypeOK
    <3> QED
      BY <1>t, <2>1, <3>1, RpcFreeBuf
  <2> QED
    BY <2>2, <2>3
<1>12. CASE FreeRpcArg(c, t)
  <2>1. /\ pc[t] = "exit_arg" /\ (cache \/ rpc_mobj[t] # Dangling)
        /\ UNCHANGED <<rpc_mobj, payload, op, cookie>> /\ payload[t] = NoCookie
        /\ ResBuf(t) \notin Cookies
    BY <1>0, <1>12, Markers DEF FreeRpcArg, CallOK, ResBuf
  <2>2. CASE cache
    <3>1. Goto(t, "done") /\ UNCHANGED rpc_arg
      BY <1>12, <2>2 DEF FreeRpcArg
    <3> QED
      BY <1>t, <2>1, <2>2, <3>1, GotoKeeps
  <2>3. CASE ~cache /\ rpc_mobj[t] = NoCookie
    <3>1. ~rpc_arg[t]
      BY <1>t, <2>3, Markers DEF BufTypeOK
    <3>2. Goto(t, "done") /\ rpc_arg' = [rpc_arg EXCEPT ![t] = FALSE]
      BY <1>12, <2>3 DEF FreeRpcArg
    <3>3. UNCHANGED rpc_arg
      BY <1>t, <3>1, <3>2 DEF BufTypeOK
    <3> QED
      BY <1>t, <2>1, <3>1, <3>2, <3>3, GotoKeeps
  <2>4. CASE ~cache /\ rpc_mobj[t] # NoCookie
    <3>1. Rpc(c, t, "arg_put", rpc_mobj[t]) /\ UNCHANGED rpc_arg
      BY <1>12, <2>4 DEF FreeRpcArg
    <3>2. rpc_mobj[t] \in Cookies /\ rpc_arg[t]
      BY <1>0, <1>t, <2>1, <2>4 DEF BufTypeOK, CallOK
    <3>3. /\ pc'[t] = "arg_put" /\ regs'[t] = Pending /\ req'[t] = rpc_mobj[t]
          /\ reply'[t] = Pending /\ copy_args'[t] /\ state'[t] = "SUSPENDED"
          /\ UNCHANGED <<shm, cache, disabled>>
          /\ \A u \in Threads \ {t} :
                /\ state'[u] = state[u] /\ copy_args'[u] = copy_args[u]
                /\ regs'[u] = regs[u] /\ reply'[u] = reply[u] /\ req'[u] = req[u]
                /\ pc'[u] = pc[u]
      BY <3>1, RpcBuf
    <3>4. Frame(t)
      BY <2>1, <3>1, <3>3 DEF Frame
    <3>5. ArgBuf(t)' = ArgBuf(t) /\ PlBuf(t)' = PlBuf(t) /\ ResBuf(t)' = ResBuf(t)
      BY <2>1, <2>4, <3>1, <3>3 DEF ArgBuf, PlBuf, ResBuf
    <3>6. AnswerOK(t)' /\ CallOK(t)' /\ CacheOK(t)'
      BY <1>0, <2>1, <3>1, <3>2, <3>3, Markers DEF AnswerOK, CallOK, CacheOK
    <3> QED
      BY <3>3, <3>4, <3>5, <3>6, KeepBuf
  <2> QED
    BY <2>2, <2>3, <2>4
<1>13. CASE RpcArgFreed(c, t)
  <2>1. /\ pc[t] = "arg_put" /\ Goto(t, "done")
        /\ rpc_arg' = [rpc_arg EXCEPT ![t] = FALSE]
        /\ rpc_mobj' = [rpc_mobj EXCEPT ![t] = NoCookie]
        /\ UNCHANGED <<payload, op, cookie>>
    BY <1>13 DEF RpcArgFreed
  <2>2. /\ pc'[t] = "done" /\ regs'[t] = Pending
        /\ UNCHANGED <<shm, cache, disabled, state, copy_args, req, reply>>
        /\ \A u \in Threads \ {t} : regs'[u] = regs[u] /\ pc'[u] = pc[u]
    BY <2>1, GotoBuf
  <2>3. /\ ~rpc_arg'[t] /\ rpc_mobj'[t] = NoCookie
        /\ \A u \in Threads \ {t} : rpc_arg'[u] = rpc_arg[u] /\ rpc_mobj'[u] = rpc_mobj[u]
    BY <1>t, <2>1 DEF BufTypeOK
  <2>4. Frame(t)
    BY <2>1, <2>2, <2>3 DEF Frame
  <2>5. ArgBuf(t)' = ArgBuf(t) /\ PlBuf(t)' = PlBuf(t) /\ ResBuf(t)' = ResBuf(t)
    BY <1>0, <2>1, <2>2, <2>3 DEF ArgBuf, PlBuf, ResBuf
  <2>6. AnswerOK(t)' /\ CallOK(t)' /\ CacheOK(t)'
    BY <1>0, <2>1, <2>2, <2>3, Markers DEF AnswerOK, CallOK, CacheOK
  <2> QED
    BY <2>2, <2>4, <2>5, <2>6, KeepBuf
<1>14. CASE ArgParamsRefused(c, t)
  <2>1. /\ pc[t] = "arg_alloc" /\ regs[t] \in Cookies /\ op[t] = "cmd"
        /\ rpc_arg' = [rpc_arg EXCEPT ![t] = TRUE]
        /\ rpc_mobj' = [rpc_mobj EXCEPT ![t] = regs[t]]
        /\ Goto(t, "call") /\ UNCHANGED <<payload, op, cookie>>
    BY <1>14 DEF ArgParamsRefused
  <2>2. ~rpc_arg[t] /\ payload[t] = NoCookie
    BY <1>0, <2>1 DEF CallOK
  <2>3. /\ pc'[t] = "call" /\ regs'[t] = Pending
        /\ UNCHANGED <<shm, cache, disabled, state, copy_args, req, reply>>
        /\ \A u \in Threads \ {t} : regs'[u] = regs[u] /\ pc'[u] = pc[u]
    BY <2>1, GotoBuf
  <2>4. /\ rpc_arg'[t] /\ rpc_mobj'[t] = regs[t]
        /\ \A u \in Threads \ {t} : rpc_arg'[u] = rpc_arg[u] /\ rpc_mobj'[u] = rpc_mobj[u]
    BY <1>t, <2>1 DEF BufTypeOK
  <2>5. Frame(t)
    BY <2>1, <2>3, <2>4 DEF Frame
  <2>6. /\ ArgBuf(t) = NoCookie /\ PlBuf(t)' = PlBuf(t)
        /\ ArgBuf(t)' = ResBuf(t) /\ ResBuf(t)' \notin Cookies
    BY <1>0, <2>1, <2>2, <2>3, <2>4, Markers DEF ArgBuf, PlBuf, ResBuf
  <2>7. OwnInv'
    <3>1. /\ At(t, "arg")' = At(t, "res") /\ At(t, "pl")' = At(t, "pl")
          /\ At(t, "arg") \notin Cookies /\ At(t, "res")' \notin Cookies
          /\ "arg" \in Places /\ "res" \in Places
          /\ \A r \in Places \ {"res", "arg"} : r = "pl"
      BY <2>6, Markers DEF At, Places
    <3> QED
      BY <2>3, <2>5, <3>1, MoveBuf
  <2>8. AnswerOK(t)' /\ CallOK(t)' /\ CacheOK(t)'
    BY <1>0, <2>1, <2>2, <2>3, <2>4, Markers DEF AnswerOK, CallOK, CacheOK
  <2> QED
    BY <2>3, <2>5, <2>7, <2>8, OwnStep
<1> QED
  BY <1>1, <1>2, <1>3, <1>4, <1>5, <1>6, <1>7, <1>8, <1>9, <1>10, <1>11,
     <1>12, <1>13, <1>14 DEF CallStep

\* Threads that start, stop, are interrupted or resumed keep their buffers; a
\* thread that is resumed with an answer finds it in its registers.
LEMMA PoolStepBuf ==
    ASSUME IInv, BufInv, NEW c \in Cores, NEW t \in Threads,
           \/ ClrBootThread(c, t) \/ StateFree(c, t) \/ EnterNew(c, t)
           \/ EnterResumed(c, t) \/ ForeignIntr(c, t) \/ EntryStd(c, t)
           \/ SetUserMap(c, t)
    PROVE  BufInv'
<1> USE DEF argVars, callVars, nwVars, ctxVars, coreVars
<1>t. PoolTypeOK
  BY DEF IInv, TypeOK
<1>v. UNCHANGED <<rpc_arg, rpc_mobj, payload, op, cookie, req, shm, cache, disabled>>
  BY DEF ClrBootThread, StateFree, EnterNew, EnterResumed, ForeignIntr, EntryStd, SetUserMap
<1>i. AnswerOK(t) /\ CallOK(t) /\ CacheOK(t)
  BY DEF BufInv
\* It is enough to look at t's own registers.
<1>k. ASSUME \A u \in Threads \ {t} : /\ state'[u] = state[u] /\ copy_args'[u] = copy_args[u]
                                      /\ regs'[u] = regs[u] /\ reply'[u] = reply[u]
                                      /\ pc'[u] = pc[u],
             (pc[t] \in Waits \/ pc'[t] \in Waits) => pc'[t] = pc[t],
             ResBuf(t)' = ResBuf(t) \/ (ResBuf(t) \notin Cookies /\ ResBuf(t)' \notin Cookies),
             AnswerOK(t)', CallOK(t)', CacheOK(t)'
      PROVE  BufInv'
  <2>1. Frame(t)
    BY <1>k, <1>v DEF Frame
  <2>2. ArgBuf(t)' = ArgBuf(t) /\ PlBuf(t)' = PlBuf(t)
    BY <1>k, <1>v DEF ArgBuf, PlBuf, Waits
  <2> QED
    BY <1>k, <1>v, <2>1, <2>2, KeepBuf
<1>1. CASE ClrBootThread(c, t) \/ StateFree(c, t)
  <2>1. /\ curr[c] = t /\ pc[t] \in {"boot", "done"}
        /\ state' = [state EXCEPT ![t] = "FREE"]
        /\ pc' = [pc EXCEPT ![t] = "idle"] /\ UNCHANGED <<regs, reply>>
        /\ UNCHANGED copy_args \/ copy_args' = [copy_args EXCEPT ![t] = FALSE]
    BY <1>1 DEF ClrBootThread, StateFree
  <2>2. ~copy_args[t] /\ req[t] = NoCookie /\ reply[t] \notin Cookies
    BY <2>1, Running
  <2>3. /\ state'[t] = "FREE" /\ pc'[t] = "idle" /\ ~copy_args'[t]
        /\ \A u \in Threads \ {t} : /\ state'[u] = state[u] /\ copy_args'[u] = copy_args[u]
                                    /\ pc'[u] = pc[u]
    BY <1>t, <2>1, <2>2 DEF PoolTypeOK
  <2>4. ResBuf(t) = NoCookie /\ ResBuf(t)' = NoCookie
    BY <2>1, <2>3 DEF ResBuf
  <2>5. AnswerOK(t)' /\ CallOK(t)' /\ CacheOK(t)'
    BY <1>i, <1>v, <2>1, <2>2, <2>3 DEF AnswerOK, CallOK, CacheOK
  <2> QED
    BY <1>k, <2>1, <2>3, <2>4, <2>5 DEF Waits
<1>2. CASE EnterNew(c, t)
  <2>1. /\ pc[t] = "entry" /\ UNCHANGED <<state, regs, pc, reply>>
        /\ copy_args' = [copy_args EXCEPT ![t] = FALSE]
    BY <1>2 DEF EnterNew
  <2>2. ~copy_args[t]
    BY <2>1 DEF IInv, PoolInv, RegsInv, Waits
  <2>3. UNCHANGED copy_args
    BY <1>t, <2>1, <2>2 DEF PoolTypeOK
  <2>4. ResBuf(t)' = ResBuf(t)
    BY <1>v, <2>1, <2>3 DEF ResBuf
  <2>5. AnswerOK(t)' /\ CallOK(t)' /\ CacheOK(t)'
    BY <1>i, <1>v, <2>1, <2>3 DEF AnswerOK, CallOK, CacheOK
  <2> QED
    BY <1>k, <2>1, <2>3, <2>4, <2>5
<1>3. CASE EnterResumed(c, t)
  <2>1. /\ entering[c] = t /\ UNCHANGED <<state, pc>>
        /\ regs' = IF copy_args[t] THEN [regs EXCEPT ![t] = reply[t]] ELSE regs
        /\ copy_args' = [copy_args EXCEPT ![t] = FALSE]
        /\ reply' = [reply EXCEPT ![t] = Pending]
    BY <1>3 DEF EnterResumed
  <2>2. state[t] = "ACTIVE" /\ (copy_args[t] => reply[t] # Pending)
    BY <2>1 DEF IInv, PoolInv, OneCorePerThread, On, RegsInv
  <2>3. /\ ~copy_args'[t] /\ reply'[t] = Pending
        /\ regs'[t] = IF copy_args[t] THEN reply[t] ELSE regs[t]
        /\ \A u \in Threads \ {t} : /\ copy_args'[u] = copy_args[u]
                                    /\ regs'[u] = regs[u] /\ reply'[u] = reply[u]
    BY <1>t, <2>1 DEF PoolTypeOK
  <2>4. ResBuf(t)' = ResBuf(t)
    BY <1>v, <2>1, <2>3 DEF ResBuf
  <2>5. AnswerOK(t)' /\ CallOK(t)' /\ CacheOK(t)'
    BY <1>i, <1>v, <2>1, <2>2, <2>3, Markers DEF AnswerOK, CallOK, CacheOK
  <2> QED
    BY <1>k, <2>1, <2>3, <2>4, <2>5
<1>4. CASE ForeignIntr(c, t)
  <2>1. /\ curr[c] = t /\ UNCHANGED <<regs, pc>>
        /\ state' = [state EXCEPT ![t] = "SUSPENDED"]
        /\ copy_args' = [copy_args EXCEPT ![t] = @ \/ FALSE]
        /\ reply' = [reply EXCEPT ![t] = Garbage]
    BY <1>4 DEF ForeignIntr, Suspend
  <2>2. ~copy_args[t] /\ req[t] = NoCookie
    BY <2>1, Running
  <2>3. /\ ~copy_args'[t] /\ reply'[t] = Garbage
        /\ \A u \in Threads \ {t} : /\ copy_args'[u] = copy_args[u] /\ state'[u] = state[u]
                                    /\ reply'[u] = reply[u]
    BY <1>t, <2>1, <2>2 DEF PoolTypeOK
  <2>4. ResBuf(t)' = ResBuf(t)
    BY <1>v, <2>1, <2>2, <2>3 DEF ResBuf
  <2>5. AnswerOK(t)' /\ CallOK(t)' /\ CacheOK(t)'
    BY <1>i, <1>v, <2>1, <2>2, <2>3, Markers DEF AnswerOK, CallOK, CacheOK
  <2> QED
    BY <1>k, <2>1, <2>3, <2>4, <2>5
<1>5. CASE EntryStd(c, t)
  <2>1. /\ pc[t] = "entry" /\ pc' = [pc EXCEPT ![t] = "call"]
        /\ UNCHANGED <<state, copy_args, regs, reply>>
    BY <1>5 DEF EntryStd
  <2>2. pc'[t] = "call" /\ \A u \in Threads \ {t} : pc'[u] = pc[u]
    BY <1>t, <2>1 DEF PoolTypeOK
  <2>3. ResBuf(t) = NoCookie /\ ResBuf(t)' = NoCookie
    BY <2>1, <2>2 DEF ResBuf
  <2>4. AnswerOK(t)' /\ CallOK(t)' /\ CacheOK(t)'
    BY <1>i, <1>v, <2>1, <2>2 DEF AnswerOK, CallOK, CacheOK
  <2> QED
    BY <1>k, <2>1, <2>2, <2>3, <2>4 DEF Waits
<1>6. CASE SetUserMap(c, t)
  <2>1. UNCHANGED <<state, copy_args, regs, reply, pc>>
    BY <1>6 DEF SetUserMap
  <2>2. ResBuf(t)' = ResBuf(t)
    BY <1>v, <2>1 DEF ResBuf
  <2>3. AnswerOK(t)' /\ CallOK(t)' /\ CacheOK(t)'
    BY <1>i, <1>v, <2>1 DEF AnswerOK, CallOK, CacheOK
  <2> QED
    BY <1>k, <2>1, <2>2, <2>3
<1> QED
  BY <1>1, <1>2, <1>3, <1>4, <1>5, <1>6

\* A core takes a thread under the lock.
LEMMA TakeBuf ==
    ASSUME IInv, BufInv, NEW c \in Cores,
           AllocAndRun(c) \/ (\E n \in 0..NumThreads : ResumeFromRpc(c, n))
    PROVE  BufInv'
<1> USE DEF argVars, callVars, nwVars
<1>v. UNCHANGED <<copy_args, regs, rpc_arg, rpc_mobj, payload, op, cookie, req, reply, shm,
                  cache, disabled>>
  BY DEF AllocAndRun, ResumeFromRpc
<1>1. CASE UNCHANGED <<state, pc>>
  BY <1>1, <1>v DEF BufInv, OwnInv, AnswerOK, CallOK, CacheOK, At, ArgBuf, PlBuf, ResBuf
<1>2. CASE ~UNCHANGED <<state, pc>>
  <2>1. PICK n \in Threads :
           /\ state' = [state EXCEPT ![n] = "ACTIVE"]
           /\ \/ state[n] = "FREE" /\ pc' = [pc EXCEPT ![n] = "entry"]
              \/ UNCHANGED pc
    BY <1>2 DEF AllocAndRun, ResumeFromRpc
  <2>2. /\ state'[n] = "ACTIVE"
        /\ \/ pc[n] = "idle" /\ pc'[n] = "entry"
           \/ pc'[n] = pc[n]
        /\ \A u \in Threads \ {n} : state'[u] = state[u] /\ pc'[u] = pc[u]
    BY <2>1 DEF IInv, PoolInv, PcInv, TypeOK, PoolTypeOK
  <2>3. Frame(n)
    BY <1>v, <2>2 DEF Frame
  <2>4. ArgBuf(n)' = ArgBuf(n) /\ PlBuf(n)' = PlBuf(n) /\ ResBuf(n)' = ResBuf(n)
    BY <1>v, <2>2 DEF ArgBuf, PlBuf, ResBuf
  <2>5. AnswerOK(n) /\ CallOK(n) /\ CacheOK(n)
    BY DEF BufInv
  <2>6. AnswerOK(n)' /\ CallOK(n)' /\ CacheOK(n)'
    BY <1>v, <2>2, <2>5 DEF AnswerOK, CallOK, CacheOK
  <2> QED
    BY <1>v, <2>3, <2>4, <2>6, KeepBuf
<1> QED
  BY <1>1, <1>2

\* Normal world answers an RPC: it allocates the buffer that is asked for,
\* frees the one that is named, or neither.
LEMMA ServeBuf ==
    ASSUME IInv, BufInv, NEW t \in Threads, Serve(t)
    PROVE  BufInv'
<1> USE DEF argVars, callVars, nwVars, ctxVars, coreVars
<1>v. UNCHANGED <<state, copy_args, regs, rpc_arg, rpc_mobj, payload, op, cookie, pc, cache,
                  disabled>>
  BY DEF Serve
<1>i. AnswerOK(t) /\ CallOK(t) /\ CacheOK(t)
  BY DEF BufInv
<1>0. copy_args[t] /\ pc[t] \in Waits /\ reply[t] = Pending /\ regs[t] = Pending
  BY <1>i DEF Serve, AnswerOK, IInv, PoolInv, RegsInv
<1>1. PICK k \in Cookies \cup {NoCookie} :
         /\ k \in Cookies => pc[t] \in {"arg_alloc", "pl_alloc"} /\ k \notin shm
         /\ reply' = [reply EXCEPT ![t] = k]
         /\ shm' = (shm \cup ({k} \ {NoCookie})) \ {req[t]}
         /\ req' = [req EXCEPT ![t] = NoCookie]
  BY DEF Serve
<1>2. /\ reply'[t] = k /\ req'[t] = NoCookie
      /\ \A u \in Threads \ {t} : reply'[u] = reply[u] /\ req'[u] = req[u]
  BY <1>1 DEF IInv, TypeOK, PoolTypeOK
<1>3. Frame(t)
  BY <1>2, <1>v DEF Frame
<1>4. AnswerOK(t)' /\ CallOK(t)' /\ CacheOK(t)'
  BY <1>0, <1>2, <1>i, <1>v, Markers DEF AnswerOK, CallOK, CacheOK
<1>5. shm \subseteq Cookies /\ req[t] \in Cookies \cup {NoCookie}
  BY DEF IInv, TypeOK, PoolTypeOK
<1>6. CASE pc[t] \in {"arg_alloc", "pl_alloc"}
  <2>2. /\ ResBuf(t) = Pending /\ ResBuf(t)' = k
        /\ ArgBuf(t)' = ArgBuf(t) /\ PlBuf(t)' = PlBuf(t)
    BY <1>0, <1>2, <1>6, <1>v DEF ArgBuf, PlBuf, ResBuf
  <2>3. At(t, "res") \notin Cookies /\ At(t, "res")' = k /\ "res" \in Places
        /\ \A r \in Places \ {"res"} : At(t, r)' = At(t, r)
    BY <2>2, Markers DEF At, Places
  <2>4. req[t] = NoCookie \/ req[t] \in Cookies
    BY <1>5
  <2>5. CASE req[t] = NoCookie /\ k \in Cookies
    <3>1. shm' = shm \cup {k} /\ k \notin shm
      BY <1>1, <1>5, <2>5, Markers
    <3>2. OwnInv'
      BY <1>3, <2>3, <2>5, <3>1, NewBuf
    <3> QED
      BY <1>3, <1>4, <1>v, <3>2, OwnStep
  <2>6. CASE req[t] = NoCookie /\ k = NoCookie
    <3>1. shm' = shm /\ ResBuf(t) \notin Cookies /\ ResBuf(t)' \notin Cookies
      BY <1>1, <1>5, <2>2, <2>6, Markers
    <3> QED
      BY <1>3, <1>4, <1>v, <2>2, <3>1, KeepBuf
  <2>7. CASE req[t] \in Cookies
    \* An allocation names no buffer.
    <3>1. FALSE
      BY <1>6, <2>7, <1>i, Markers DEF AnswerOK
    <3> QED
      BY <3>1
  <2> QED
    BY <2>4, <2>5, <2>6, <2>7
<1>7. CASE pc[t] \notin {"arg_alloc", "pl_alloc"}
  <2>1. k = NoCookie /\ shm' = shm \ {req[t]}
    BY <1>1, <1>7, Markers
  <2>2. CASE req[t] = NoCookie
    <3>1. shm' = shm
      BY <1>5, <2>1, <2>2, Markers
    <3>2. ArgBuf(t)' = ArgBuf(t) /\ PlBuf(t)' = PlBuf(t) /\ ResBuf(t)' = ResBuf(t)
      BY <1>2, <1>7, <1>v, <2>2 DEF ArgBuf, PlBuf, ResBuf
    <3> QED
      BY <1>3, <1>4, <1>v, <3>1, <3>2, KeepBuf
  <2>3. CASE req[t] # NoCookie
    <3>1. req[t] \in Cookies /\ pc[t] \in {"arg_bad", "arg_put", "pl_free"}
      BY <1>5, <1>i, <2>3 DEF AnswerOK
    <3>2. CASE pc[t] = "pl_free"
      <4>1. /\ PlBuf(t) = req[t] /\ PlBuf(t)' = NoCookie
            /\ ArgBuf(t)' = ArgBuf(t) /\ ResBuf(t)' = ResBuf(t)
        BY <1>2, <1>v, <3>2 DEF ArgBuf, PlBuf, ResBuf
      <4>2. /\ At(t, "pl") = req[t] /\ At(t, "pl")' \notin Cookies /\ "pl" \in Places
            /\ \A r \in Places \ {"pl"} : At(t, r)' = At(t, r)
        BY <4>1, Markers DEF At, Places
      <4>3. OwnInv'
        BY <1>3, <2>1, <3>1, <4>2, DropBuf
      <4> QED
        BY <1>3, <1>4, <1>v, <4>3, OwnStep
    <3>3. CASE pc[t] = "arg_put"
      <4>1. rpc_arg[t] /\ req[t] = rpc_mobj[t]
        BY <1>i, <2>3, <3>3 DEF AnswerOK, CallOK
      <4>2. /\ ArgBuf(t) = req[t] /\ ArgBuf(t)' = NoCookie
            /\ PlBuf(t)' = PlBuf(t) /\ ResBuf(t)' = ResBuf(t)
        BY <1>2, <1>v, <2>3, <3>3, <4>1 DEF ArgBuf, PlBuf, ResBuf
      <4>3. /\ At(t, "arg") = req[t] /\ At(t, "arg")' \notin Cookies /\ "arg" \in Places
            /\ \A r \in Places \ {"arg"} : At(t, r)' = At(t, r)
        BY <4>2, Markers DEF At, Places
      <4>4. OwnInv'
        BY <1>3, <2>1, <3>1, <4>3, DropBuf
      <4> QED
        BY <1>3, <1>4, <1>v, <4>4, OwnStep
    <3>4. CASE pc[t] = "arg_bad"
      <4>1. /\ ResBuf(t) = req[t] /\ ResBuf(t)' = NoCookie
            /\ ArgBuf(t)' = ArgBuf(t) /\ PlBuf(t)' = PlBuf(t)
        BY <1>2, <1>v, <3>4 DEF ArgBuf, PlBuf, ResBuf
      <4>2. /\ At(t, "res") = req[t] /\ At(t, "res")' \notin Cookies /\ "res" \in Places
            /\ \A r \in Places \ {"res"} : At(t, r)' = At(t, r)
        BY <4>1, Markers DEF At, Places
      <4>3. OwnInv'
        BY <1>3, <2>1, <3>1, <4>2, DropBuf
      <4> QED
        BY <1>3, <1>4, <1>v, <4>3, OwnStep
    <3> QED
      BY <3>1, <3>2, <3>3, <3>4
  <2> QED
    BY <2>2, <2>3
<1> QED
  BY <1>6, <1>7

\* OPTEE_SMC_DISABLE_SHM_CACHE and OPTEE_SMC_ENABLE_SHM_CACHE, taken when
\* every thread is free: the buffer that is handed out is one that no RPC
\* names.
LEMMA CacheBuf ==
    ASSUME IInv, BufInv, NEW c \in Cores, DisableCache(c) \/ EnableCache(c)
    PROVE  BufInv'
<1> USE DEF argVars, callVars, nwVars, ctxVars, coreVars
<1>v. UNCHANGED <<state, copy_args, regs, payload, op, cookie, pc, req, reply>>
  BY DEF DisableCache, EnableCache
<1>f. \A t \in Threads : pc[t] = "idle"
  BY DEF DisableCache, EnableCache, AllFree, IInv, PoolInv, PcInv
<1>i. \A t \in Threads : AnswerOK(t) /\ CallOK(t) /\ CacheOK(t)
  BY DEF BufInv
<1>1. CASE UNCHANGED <<rpc_arg, rpc_mobj, shm>>
  <2>1. /\ disabled' => ~cache'
        /\ ~cache' => \A t \in Threads : ~rpc_arg[t]
    BY <1>1, <1>f, <1>i DEF DisableCache, EnableCache, CacheOK, IInv, TypeOK, BufTypeOK
  <2>2. OwnInv'
    BY <1>1, <1>v DEF BufInv, OwnInv, At, ArgBuf, PlBuf, ResBuf
  <2>3. \A t \in Threads : AnswerOK(t)' /\ CallOK(t)' /\ CacheOK(t)'
    BY <1>1, <1>i, <1>v, <2>1 DEF AnswerOK, CallOK, CacheOK
  <2> QED
    BY <2>2, <2>3 DEF BufInv
<1>2. CASE ~UNCHANGED <<rpc_arg, rpc_mobj, shm>>
  <2>1. PICK n \in Threads :
           /\ rpc_arg[n] /\ shm' = shm \ {rpc_mobj[n]}
           /\ rpc_arg' = [rpc_arg EXCEPT ![n] = FALSE]
           /\ rpc_mobj' = [rpc_mobj EXCEPT ![n] = Dangling]
           /\ UNCHANGED <<cache, disabled>>
    BY <1>2 DEF DisableCache, EnableCache
  <2>2. /\ ~rpc_arg'[n] /\ rpc_mobj'[n] = Dangling /\ rpc_mobj[n] \in Cookies
        /\ \A u \in Threads \ {n} : rpc_arg'[u] = rpc_arg[u] /\ rpc_mobj'[u] = rpc_mobj[u]
    BY <2>1 DEF IInv, TypeOK, BufTypeOK
  <2>3. Frame(n)
    BY <1>v, <2>2 DEF Frame
  <2>4. /\ ArgBuf(n) = rpc_mobj[n] /\ ArgBuf(n)' = NoCookie
        /\ PlBuf(n)' = PlBuf(n) /\ ResBuf(n)' = ResBuf(n)
    BY <1>f, <1>v, <2>1, <2>2 DEF ArgBuf, PlBuf, ResBuf
  <2>5. /\ At(n, "arg") = rpc_mobj[n] /\ At(n, "arg")' \notin Cookies /\ "arg" \in Places
        /\ \A r \in Places \ {"arg"} : At(n, r)' = At(n, r)
    BY <2>4, Markers DEF At, Places
  <2>6. OwnInv'
    BY <2>1, <2>2, <2>3, <2>5, DropBuf
  <2>7. AnswerOK(n)' /\ CallOK(n)' /\ CacheOK(n)'
    BY <1>f, <1>i, <1>v, <2>1, <2>2, Markers DEF AnswerOK, CallOK, CacheOK
  <2> QED
    BY <2>1, <2>3, <2>6, <2>7, OwnStep
<1> QED
  BY <1>1, <1>2

\* Every step keeps the account of the buffers.
LEMMA NextBufInv == IInv /\ BufInv /\ [Next]_vars => BufInv'
<1> SUFFICES ASSUME IInv, BufInv, [Next]_vars PROVE BufInv'
  OBVIOUS
<1>1. CASE UNCHANGED vars
  BY <1>1 DEF vars, ctxVars, coreVars, argVars, callVars, nwVars, BufInv, OwnInv, AnswerOK,
     CallOK, CacheOK, At, ArgBuf, PlBuf, ResBuf
<1>2. ASSUME NEW c \in Cores, NEW t \in Threads, Step(c, t) PROVE BufInv'
  BY <1>2, PoolStepBuf, CallStepBuf DEF Step, CallStep
<1>3. ASSUME NEW c \in Cores, AllocAndRun(c) \/ DisableCache(c) \/ EnableCache(c)
      PROVE  BufInv'
  BY <1>3, TakeBuf, CacheBuf
<1>4. ASSUME NEW c \in Cores, NEW n \in 0..NumThreads, ResumeFromRpc(c, n) PROVE BufInv'
  BY <1>4, TakeBuf
<1>5. ASSUME NEW t \in Threads, Serve(t) PROVE BufInv'
  BY <1>5, ServeBuf
<1> QED
  BY <1>1, <1>2, <1>3, <1>4, <1>5 DEF Next

\* Nothing is allocated at boot.
LEMMA InitBufInv == Init => BufInv
<1> SUFFICES ASSUME Init PROVE BufInv
  OBVIOUS
<1>1. \A t \in Threads : AnswerOK(t) /\ CallOK(t) /\ CacheOK(t)
  BY Markers DEF Init, AnswerOK, CallOK, CacheOK
<1>2. \A t \in Threads, p \in Places : At(t, p) \notin Cookies
  BY Markers DEF Init, At, ArgBuf, PlBuf, ResBuf
<1> QED
  BY <1>1, <1>2 DEF Init, BufInv, OwnInv

\* The account of the buffers is what NoShmLeak says.
LEMMA BufInvNoLeak == IInv /\ BufInv => NoShmLeak
<1> SUFFICES ASSUME IInv, BufInv PROVE NoShmLeak
  OBVIOUS
<1>i. OwnInv /\ \A t \in Threads : AnswerOK(t) /\ CallOK(t) /\ CacheOK(t)
  BY DEF BufInv
<1>t. shm \subseteq Cookies /\ \A t \in Threads : rpc_arg[t] => rpc_mobj[t] \in Cookies
  BY DEF IInv, TypeOK, PoolTypeOK, BufTypeOK
<1>1. ASSUME NEW k \in shm PROVE \E t \in Threads : k \in Held(t)
  <2>1. PICK t \in Threads, p \in Places : At(t, p) = k
    BY <1>i, <1>t DEF OwnInv
  <2>2. k \in Cookies /\ k # NoCookie
    BY <1>t, Markers
  <2>3. CASE p = "arg"
    BY <2>1, <2>2, <2>3 DEF At, ArgBuf, Held
  <2>4. CASE p = "pl"
    BY <1>i, <2>1, <2>2, <2>4 DEF At, PlBuf, Held, AnswerOK
  <2>5. CASE p = "res"
    BY <2>1, <2>2, <2>5 DEF At, ResBuf, Held
  <2> QED
    BY <2>3, <2>4, <2>5 DEF Places
<1>2. ASSUME NEW t \in Threads, UsesArg(t)
      PROVE  /\ rpc_mobj[t] \in shm
             /\ \A u \in Threads \ {t} : UsesArg(u) => rpc_mobj[u] # rpc_mobj[t]
  <2>1. \A u \in Threads : UsesArg(u) => At(u, "arg") = rpc_mobj[u] /\ rpc_mobj[u] \in Cookies
    BY <1>t DEF UsesArg, At, ArgBuf
  <2>2. "arg" \in Places
    BY DEF Places
  <2> QED
    BY <1>2, <1>i, <2>1, <2>2 DEF OwnInv
<1>3. ASSUME disabled, AllFree PROVE shm = {}
  <2>1. \A t \in Threads : pc[t] = "idle"
    BY <1>3 DEF AllFree, IInv, PoolInv, PcInv
  <2>2. \A t \in Threads : ~rpc_arg[t] /\ payload[t] = NoCookie
    BY <1>3, <1>i, <2>1 DEF CacheOK, CallOK
  <2>3. \A t \in Threads, p \in Places : At(t, p) \notin Cookies
    BY <2>1, <2>2, Markers DEF At, ArgBuf, PlBuf, ResBuf
  <2> QED
    BY <1>i, <1>t, <2>3 DEF OwnInv
<1> QED
  BY <1>1, <1>2, <1>3 DEF NoShmLeak

\* Every buffer that normal world allocates for secure world is accounted for
\* by some thread, the argument buffers that threads use are allocated and
\* their own, and none is left when the cache has been disabled: whatever
\* normal world answers, and whether or not it makes calls after it has
\* disabled the cache.
THEOREM NoBufferIsLost == Spec => []NoShmLeak
  BY Invariance, InitBufInv, NextBufInv, BufInvNoLeak, PTL DEF Spec
=============================================================================
