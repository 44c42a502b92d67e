------------------------------ MODULE Threads ------------------------------
(***************************************************************************)
(* The thread pool (core/arch/arm/kernel/thread.c) and the standard calls  *)
(* that run on it (thread_optee_smc.c, tee_fs_rpc_cache.c).  A core that   *)
(* takes an SMC from normal world allocates a free thread, or resumes one  *)
(* that left by an RPC or for a foreign interrupt; a thread may be resumed *)
(* on another core than it left.  Each thread may keep a buffer in shared  *)
(* memory for the arguments of its RPCs (rpc_arg, rpc_mobj), which is      *)
(* cached from one call to the next when normal world enabled that, and a  *)
(* payload buffer for file-system RPCs, which is not.                      *)
(*                                                                         *)
(* thread_global_lock is held for the part of an SMC that looks at thread  *)
(* states: that part is one step, and what a core does after the unlock    *)
(* (Enter) is another.  Normal world answers each RPC once, frees what it  *)
(* is asked to free, and resumes any thread it likes, also twice.          *)
(***************************************************************************)
EXTENDS Integers

CONSTANTS Cores,
          NumThreads,       \* CFG_NUM_THREADS
          Cookies           \* shared memory buffers of normal world

ASSUME ThreadsAssumption ==
    /\ Cores # {} /\ NumThreads \in Nat \ {0}
    /\ {-1, -2, -3, -4} \cap Cookies = {}

Threads == 0..(NumThreads - 1)

NoThread == -1      \* curr_thread of a core in normal world
NoCookie == -1      \* cookie 0, and a NULL mobj
Dangling == -2      \* a pointer to a mobj that was freed
Pending == -3       \* an RPC that normal world has not answered
Garbage == -4       \* whatever is in the registers of normal world

VARIABLES
    \* struct thread_ctx
    state, copy_args, user_map, rpc_arg, rpc_mobj, payload,
    regs,           \* what an RPC returned, Pending when there is none
    \* struct thread_core_local
    curr,
    entering,       \* the thread a core is about to make its current one
    umap,           \* owner of the user map that is active on a core
    \* the standard call of a thread
    pc,
    op,             \* the RPC that needs the argument buffer
    then,           \* where a freed payload buffer leads to
    cookie,         \* the buffer thread_rpc_free was called for
    in_ta,          \* whether the thread has set a user map
    intr,           \* whether foreign interrupts are unmasked
    \* shared
    cache,          \* thread_prealloc_rpc_cache
    req,            \* normal world: the buffer that an RPC asks to free
    reply,          \* normal world: what a thread will be resumed with
    shm,            \* normal world: buffers allocated for secure world
    disabled        \* normal world: the cache was disabled, and not enabled since

ctxVars == <<state, copy_args, user_map, regs>>
coreVars == <<curr, entering, umap>>
argVars == <<rpc_arg, rpc_mobj>>
callVars == <<op, then, cookie>>
nwVars == <<shm, disabled>>
vars == <<ctxVars, argVars, payload, coreVars, pc, callVars, in_ta, intr,
          cache, req, reply, nwVars>>

\* Where the call of a thread is.  In Waits it is in thread_rpc.
Waits == {"arg_alloc", "arg_bad", "arg_put", "cmd", "pl_alloc", "pl_free"}
Pcs == Waits \cup {"idle", "boot", "entry", "call", "exit", "exit_arg", "done"}
Ops == {"cmd", "pl_alloc", "pl_free"}
Thens == {"call", "realloc", "exit_arg"}

\* thread_init_boot_thread: the boot core runs on thread 0.
Init ==
    /\ state = [t \in Threads |-> IF t = 0 THEN "ACTIVE" ELSE "FREE"]
    /\ \E c \in Cores : curr = [d \in Cores |-> IF d = c THEN 0 ELSE NoThread]
    /\ entering = [c \in Cores |-> NoThread]
    /\ umap = [c \in Cores |-> NoThread]
    /\ copy_args = [t \in Threads |-> FALSE]
    /\ user_map = [t \in Threads |-> NoThread]
    /\ regs = [t \in Threads |-> Pending]
    /\ rpc_arg = [t \in Threads |-> FALSE]
    /\ rpc_mobj = [t \in Threads |-> NoCookie]
    /\ payload = [t \in Threads |-> NoCookie]
    /\ pc = [t \in Threads |-> IF t = 0 THEN "boot" ELSE "idle"]
    /\ op = [t \in Threads |-> "cmd"]
    /\ then = [t \in Threads |-> "call"]
    /\ cookie = [t \in Threads |-> NoCookie]
    /\ in_ta = [t \in Threads |-> FALSE]
    /\ intr = [t \in Threads |-> FALSE]
    /\ cache = FALSE
    /\ req = [t \in Threads |-> NoCookie]
    /\ reply = [t \in Threads |-> Pending]
    /\ shm = {} /\ disabled = FALSE

-----------------------------------------------------------------------------
(* Entering and leaving secure world.                                      *)

AllFree == \A t \in Threads : state[t] = "FREE"
Booting == \E t \in Threads : pc[t] = "boot"

\* A core executes normal world and may take an SMC.
InNormalWorld(c) == curr[c] = NoThread /\ entering[c] = NoThread /\ ~Booting

\* thread_clr_boot_thread
ClrBootThread(c, t) ==
    /\ curr[c] = t /\ pc[t] = "boot"
    /\ state' = [state EXCEPT ![t] = "FREE"]
    /\ curr' = [curr EXCEPT ![c] = NoThread]
    /\ pc' = [pc EXCEPT ![t] = "idle"]
    /\ UNCHANGED <<copy_args, user_map, regs, entering, umap, argVars, payload,
                   callVars, in_ta, intr, cache, req, reply, nwVars>>

\* thread_alloc_and_run under the lock: the first free thread, if any.
AllocAndRun(c) ==
    /\ InNormalWorld(c)
    /\ \/ \E n \in Threads :
             /\ state[n] = "FREE" /\ \A u \in 0..(n - 1) : state[u] # "FREE"
             /\ state' = [state EXCEPT ![n] = "ACTIVE"]
             /\ entering' = [entering EXCEPT ![c] = n]
             /\ pc' = [pc EXCEPT ![n] = "entry"]
       \/ /\ \A t \in Threads : state[t] # "FREE"
          /\ UNCHANGED <<state, entering, pc>>
    /\ UNCHANGED <<copy_args, user_map, regs, curr, umap, argVars, payload,
                   callVars, in_ta, intr, cache, req, reply, nwVars>>

\* Mutant: the state of the thread is not looked at.
ResumeFromRpc_any_state(c, n) ==
    /\ InNormalWorld(c)
    /\ n \in Threads /\ state[n] = "SUSPENDED" => reply[n] # Pending
    /\ IF n \in Threads
       THEN /\ state' = [state EXCEPT ![n] = "ACTIVE"]
            /\ entering' = [entering EXCEPT ![c] = n]
       ELSE UNCHANGED <<state, entering>>
    /\ UNCHANGED <<copy_args, user_map, regs, curr, umap, argVars, payload, pc,
                   callVars, in_ta, intr, cache, req, reply, nwVars>>

\* thread_resume_from_rpc under the lock.  Normal world supplies the thread
\* id and answers an RPC before it resumes the thread.
ResumeFromRpc(c, n) ==
    /\ InNormalWorld(c)
    /\ n \in Threads /\ state[n] = "SUSPENDED" => reply[n] # Pending
    /\ IF n \in Threads /\ state[n] = "SUSPENDED"
       THEN /\ state' = [state EXCEPT ![n] = "ACTIVE"]
            /\ entering' = [entering EXCEPT ![c] = n]
       ELSE UNCHANGED <<state, entering>>
    /\ UNCHANGED <<copy_args, user_map, regs, curr, umap, argVars, payload, pc,
                   callVars, in_ta, intr, cache, req, reply, nwVars>>

\* The rest of thread_alloc_and_run.
EnterNew(c, t) ==
    /\ entering[c] = t /\ pc[t] = "entry"
    /\ curr' = [curr EXCEPT ![c] = t]
    /\ entering' = [entering EXCEPT ![c] = NoThread]
    /\ copy_args' = [copy_args EXCEPT ![t] = FALSE]
    /\ intr' = [intr EXCEPT ![t] = FALSE]
    /\ UNCHANGED <<state, user_map, regs, umap, argVars, payload, pc, callVars,
                   in_ta, cache, req, reply, nwVars>>

\* Mutant: COPY_ARGS_ON_RETURN stays set.
EnterResumed_keeps_flag(c, t) ==
    /\ entering[c] = t /\ pc[t] # "entry"
    /\ curr' = [curr EXCEPT ![c] = t]
    /\ entering' = [entering EXCEPT ![c] = NoThread]
    /\ umap' = IF user_map[t] = NoThread THEN umap
               ELSE [umap EXCEPT ![c] = user_map[t]]
    /\ regs' = IF copy_args[t] THEN [regs EXCEPT ![t] = reply[t]] ELSE regs
    /\ UNCHANGED copy_args
    /\ reply' = [reply EXCEPT ![t] = Pending]
    /\ UNCHANGED <<state, user_map, argVars, payload, pc, callVars, in_ta, intr,
                   cache, req, nwVars>>

\* The rest of thread_resume_from_rpc.
EnterResumed(c, t) ==
    /\ entering[c] = t /\ pc[t] # "entry"
    /\ curr' = [curr EXCEPT ![c] = t]
    /\ entering' = [entering EXCEPT ![c] = NoThread]
    /\ umap' = IF user_map[t] = NoThread THEN umap
               ELSE [umap EXCEPT ![c] = user_map[t]]
    /\ regs' = IF copy_args[t] THEN [regs EXCEPT ![t] = reply[t]] ELSE regs
    /\ copy_args' = [copy_args EXCEPT ![t] = FALSE]
    /\ reply' = [reply EXCEPT ![t] = Pending]
    /\ UNCHANGED <<state, user_map, argVars, payload, pc, callVars, in_ta, intr,
                   cache, req, nwVars>>

\* Mutant: core_mmu_set_user_map(NULL) is left out.
Suspend_keeps_map(c, t, copy) ==
    /\ state' = [state EXCEPT ![t] = "SUSPENDED"]
    /\ copy_args' = [copy_args EXCEPT ![t] = @ \/ copy]
    /\ user_map' = [user_map EXCEPT ![t] = umap[c]]
    /\ UNCHANGED umap
    /\ curr' = [curr EXCEPT ![c] = NoThread]
    /\ UNCHANGED entering

\* thread_state_suspend; copy is whether flags has COPY_ARGS_ON_RETURN.
Suspend(c, t, copy) ==
    /\ state' = [state EXCEPT ![t] = "SUSPENDED"]
    /\ copy_args' = [copy_args EXCEPT ![t] = @ \/ copy]
    /\ user_map' = [user_map EXCEPT ![t] = umap[c]]
    /\ umap' = [umap EXCEPT ![c] = NoThread]
    /\ curr' = [curr EXCEPT ![c] = NoThread]
    /\ UNCHANGED entering

\* A foreign interrupt: the thread will continue where it is.
ForeignIntr(c, t) ==
    /\ curr[c] = t /\ intr[t]
    /\ Suspend(c, t, FALSE)
    /\ reply' = [reply EXCEPT ![t] = Garbage]
    /\ UNCHANGED <<regs, argVars, payload, pc, callVars, in_ta, intr, cache, req, nwVars>>

\* thread_rpc: the thread waits at p for the answer of normal world; k is the
\* buffer the request names.
Rpc(c, t, p, k) ==
    /\ Suspend(c, t, TRUE)
    /\ pc' = [pc EXCEPT ![t] = p]
    /\ regs' = [regs EXCEPT ![t] = Pending]
    /\ req' = [req EXCEPT ![t] = k]
    /\ reply' = [reply EXCEPT ![t] = Pending]
    /\ UNCHANGED <<in_ta, intr, cache, nwVars>>

\* The thread goes on at p.
Goto(t, p) ==
    /\ pc' = [pc EXCEPT ![t] = p]
    /\ regs' = [regs EXCEPT ![t] = Pending]
    /\ UNCHANGED <<state, copy_args, user_map, coreVars, in_ta, intr, cache,
                   req, reply, nwVars>>

\* thread_state_free
StateFree(c, t) ==
    /\ curr[c] = t /\ pc[t] = "done"
    /\ state' = [state EXCEPT ![t] = "FREE"]
    /\ copy_args' = [copy_args EXCEPT ![t] = FALSE]
    /\ curr' = [curr EXCEPT ![c] = NoThread]
    /\ pc' = [pc EXCEPT ![t] = "idle"]
    /\ intr' = [intr EXCEPT ![t] = FALSE]
    /\ UNCHANGED <<user_map, regs, entering, umap, argVars, payload, callVars,
                   in_ta, cache, req, reply, nwVars>>

-----------------------------------------------------------------------------
(* The standard call.                                                      *)

\* get_rpc_arg for the RPC o on the buffer k: with no argument buffer, one is asked for
\* first.
GetRpcArg(c, t, o, k) ==
    IF rpc_arg[t] THEN Rpc(c, t, o, k) /\ UNCHANGED op
    ELSE Rpc(c, t, "arg_alloc", NoCookie) /\ op' = [op EXCEPT ![t] = o]

\* std_smc_entry: a call that is refused, one that enigma_entry handles, and
\* one that tee_entry_std handles, with foreign interrupts unmasked.
EntryRefused(c, t) ==
    /\ curr[c] = t /\ pc[t] = "entry"
    /\ Goto(t, "done")
    /\ UNCHANGED <<argVars, payload, callVars>>

EntryEnigma(c, t) ==
    /\ curr[c] = t /\ pc[t] = "entry"
    /\ Goto(t, "exit")
    /\ UNCHANGED <<argVars, payload, callVars>>

EntryStd(c, t) ==
    /\ curr[c] = t /\ pc[t] = "entry"
    /\ pc' = [pc EXCEPT ![t] = "call"]
    /\ intr' = [intr EXCEPT ![t] = TRUE]
    /\ UNCHANGED <<ctxVars, coreVars, argVars, payload, callVars, in_ta, cache,
                   req, reply, nwVars>>

\* tee_mmu_set_ctx for a TA, and back to none.
SetUserMap(c, t) ==
    /\ curr[c] = t /\ pc[t] = "call"
    /\ in_ta' = [in_ta EXCEPT ![t] = ~@]
    /\ umap' = [umap EXCEPT ![c] = IF in_ta[t] THEN NoThread ELSE t]
    /\ UNCHANGED <<ctxVars, curr, entering, argVars, payload, pc, callVars, intr,
                   cache, req, reply, nwVars>>

\* thread_rpc_cmd
RpcCmd(c, t) ==
    /\ curr[c] = t /\ pc[t] = "call"
    /\ GetRpcArg(c, t, "cmd", NoCookie)
    /\ UNCHANGED <<argVars, payload, then, cookie>>

\* thread_rpc_free of the buffer k, after which the thread goes on at p.
RpcFree(c, t, k, p) ==
    /\ cookie' = [cookie EXCEPT ![t] = k]
    /\ then' = [then EXCEPT ![t] = p]
    /\ GetRpcArg(c, t, "pl_free", k)

\* tee_fs_rpc_cache_alloc of more than the thread has.
FsAlloc(c, t) ==
    /\ curr[c] = t /\ pc[t] = "call"
    /\ IF payload[t] = NoCookie
       THEN GetRpcArg(c, t, "pl_alloc", NoCookie) /\ UNCHANGED <<then, cookie>>
       ELSE RpcFree(c, t, payload[t], "realloc")
    /\ UNCHANGED <<argVars, payload>>

\* tee_fs_rpc_cache_clear after the buffer is freed, or could not be.
FreeDone(c, t) ==
    /\ payload' = [payload EXCEPT ![t] = NoCookie]
    /\ cookie' = [cookie EXCEPT ![t] = NoCookie]
    /\ then' = [then EXCEPT ![t] = "call"]
    /\ IF then[t] = "realloc" THEN GetRpcArg(c, t, "pl_alloc", NoCookie)
       ELSE Goto(t, then[t]) /\ UNCHANGED op

\* get_rpc_arg returns an error.
NoArg(c, t) ==
    IF op[t] = "pl_free" THEN FreeDone(c, t)
    ELSE Goto(t, "call") /\ UNCHANGED <<payload, callVars>>

\* thread_rpc_alloc_arg returns: no buffer, a buffer that has to be given
\* back, or one to do the RPC with.
ArgAllocFails(c, t) ==
    /\ curr[c] = t /\ pc[t] = "arg_alloc" /\ regs[t] = NoCookie
    /\ NoArg(c, t)
    /\ UNCHANGED argVars

\* Mutant: the error path does not free the buffer.
ArgUnusable_kept(c, t) ==
    /\ curr[c] = t /\ pc[t] = "arg_alloc" /\ regs[t] \in Cookies
    /\ NoArg(c, t)
    /\ UNCHANGED argVars

ArgUnusable(c, t) ==
    /\ curr[c] = t /\ pc[t] = "arg_alloc" /\ regs[t] \in Cookies
    /\ Rpc(c, t, "arg_bad", regs[t])
    /\ UNCHANGED <<argVars, payload, callVars>>

ArgAllocated(c, t) ==
    /\ curr[c] = t /\ pc[t] = "arg_alloc" /\ regs[t] \in Cookies
    /\ rpc_arg' = [rpc_arg EXCEPT ![t] = TRUE]
    /\ rpc_mobj' = [rpc_mobj EXCEPT ![t] = regs[t]]
    /\ Rpc(c, t, op[t], IF op[t] = "pl_free" THEN cookie[t] ELSE NoCookie)
    /\ UNCHANGED <<payload, callVars>>

\* The RPC has a parameter that cannot be passed on: get_rpc_arg returns
\* TEE_ERROR_BAD_PARAMETERS and the thread keeps its new buffer.  (The RPCs
\* that allocate and free buffers have values as parameters only.)
ArgParamsRefused(c, t) ==
    /\ curr[c] = t /\ pc[t] = "arg_alloc" /\ regs[t] \in Cookies /\ op[t] = "cmd"
    /\ rpc_arg' = [rpc_arg EXCEPT ![t] = TRUE]
    /\ rpc_mobj' = [rpc_mobj EXCEPT ![t] = regs[t]]
    /\ Goto(t, "call")
    /\ UNCHANGED <<payload, callVars>>

ArgBadFreed(c, t) ==
    /\ curr[c] = t /\ pc[t] = "arg_bad"
    /\ NoArg(c, t)
    /\ UNCHANGED argVars

\* thread_rpc_cmd returns.
CmdDone(c, t) ==
    /\ curr[c] = t /\ pc[t] = "cmd"
    /\ Goto(t, "call")
    /\ UNCHANGED <<argVars, payload, callVars>>

\* thread_rpc_alloc returns in tee_fs_rpc_cache_alloc.
PayloadAllocFails(c, t) ==
    /\ curr[c] = t /\ pc[t] = "pl_alloc" /\ regs[t] = NoCookie
    /\ Goto(t, "call")
    /\ UNCHANGED <<argVars, payload, callVars>>

PayloadUnusable(c, t) ==
    /\ curr[c] = t /\ pc[t] = "pl_alloc" /\ regs[t] \in Cookies
    /\ RpcFree(c, t, regs[t], "call")
    /\ UNCHANGED <<argVars, payload>>

PayloadAllocated(c, t) ==
    /\ curr[c] = t /\ pc[t] = "pl_alloc" /\ regs[t] \in Cookies
    /\ payload' = [payload EXCEPT ![t] = regs[t]]
    /\ Goto(t, "call")
    /\ UNCHANGED <<argVars, callVars>>

PayloadFreed(c, t) ==
    /\ curr[c] = t /\ pc[t] = "pl_free"
    /\ FreeDone(c, t)
    /\ UNCHANGED argVars

\* __tee_entry_std returns; the TA has been left.
CallReturns(c, t) ==
    /\ curr[c] = t /\ pc[t] = "call" /\ ~in_ta[t]
    /\ Goto(t, "exit")
    /\ UNCHANGED <<argVars, payload, callVars>>

\* __thread_std_smc_entry after OPTEE_SMC_RETURN_OK: the payload buffer is
\* freed, then, without the cache, the argument buffer.
ClearFsCache(c, t) ==
    /\ curr[c] = t /\ pc[t] = "exit"
    /\ IF payload[t] = NoCookie
       THEN Goto(t, "exit_arg") /\ UNCHANGED callVars
       ELSE RpcFree(c, t, payload[t], "exit_arg")
    /\ UNCHANGED <<argVars, payload>>

\* Nothing is modelled of a call that uses a freed mobj.
FreeRpcArg(c, t) ==
    /\ curr[c] = t /\ pc[t] = "exit_arg" /\ (cache \/ rpc_mobj[t] # Dangling)
    /\ IF cache THEN Goto(t, "done") /\ UNCHANGED rpc_arg
       ELSE IF rpc_mobj[t] = NoCookie
       THEN Goto(t, "done") /\ rpc_arg' = [rpc_arg EXCEPT ![t] = FALSE]
       ELSE Rpc(c, t, "arg_put", rpc_mobj[t]) /\ UNCHANGED rpc_arg
    /\ UNCHANGED <<rpc_mobj, payload, callVars>>

RpcArgFreed(c, t) ==
    /\ curr[c] = t /\ pc[t] = "arg_put"
    /\ rpc_arg' = [rpc_arg EXCEPT ![t] = FALSE]
    /\ rpc_mobj' = [rpc_mobj EXCEPT ![t] = NoCookie]
    /\ Goto(t, "done")
    /\ UNCHANGED <<payload, callVars>>

-----------------------------------------------------------------------------
(* Fast calls, and normal world.                                           *)

\* Mutant: rpc_arg is not reset.
DisableCache_keeps_arg(c) ==
    LET Cached == {t \in Threads : rpc_arg[t]}
    IN  /\ InNormalWorld(c) /\ AllFree
        /\ \/ \E n \in Cached :
                 /\ \A u \in Cached : n <= u
                 /\ shm' = shm \ {rpc_mobj[n]}
                 /\ UNCHANGED rpc_arg
                 /\ rpc_mobj' = [rpc_mobj EXCEPT ![n] = Dangling]
                 /\ UNCHANGED <<cache, disabled>>
           \/ /\ Cached = {}
              /\ cache' = FALSE /\ disabled' = TRUE
              /\ UNCHANGED <<shm, argVars>>
        /\ UNCHANGED <<ctxVars, payload, coreVars, pc, callVars, in_ta, intr, req,
                       reply>>

\* thread_disable_prealloc_rpc_cache.  Normal world frees the buffer it gets.
DisableCache(c) ==
    LET Cached == {t \in Threads : rpc_arg[t]}
    IN  /\ InNormalWorld(c) /\ AllFree
        /\ \/ \E n \in Cached :
                 /\ \A u \in Cached : n <= u
                 /\ shm' = shm \ {rpc_mobj[n]}
                 /\ rpc_arg' = [rpc_arg EXCEPT ![n] = FALSE]
                 /\ rpc_mobj' = [rpc_mobj EXCEPT ![n] = Dangling]
                 /\ UNCHANGED <<cache, disabled>>
           \/ /\ Cached = {}
              /\ cache' = FALSE /\ disabled' = TRUE
              /\ UNCHANGED <<shm, argVars>>
        /\ UNCHANGED <<ctxVars, payload, coreVars, pc, callVars, in_ta, intr, req,
                       reply>>

\* thread_enable_prealloc_rpc_cache
EnableCache(c) ==
    /\ InNormalWorld(c) /\ AllFree
    /\ cache' = TRUE /\ disabled' = FALSE
    /\ UNCHANGED <<ctxVars, argVars, payload, coreVars, pc, callVars, in_ta, intr,
                   req, reply, shm>>

\* Normal world answers the RPC of thread t: it allocates a buffer or cannot,
\* frees one, or does something else.
Serve(t) ==
    /\ state[t] = "SUSPENDED" /\ reply[t] = Pending
    /\ \E k \in Cookies \cup {NoCookie} :
          /\ k \in Cookies => pc[t] \in {"arg_alloc", "pl_alloc"} /\ k \notin shm
          /\ reply' = [reply EXCEPT ![t] = k]
          /\ shm' = (shm \cup ({k} \ {NoCookie})) \ {req[t]}
    /\ req' = [req EXCEPT ![t] = NoCookie]
    /\ UNCHANGED <<ctxVars, argVars, payload, coreVars, pc, callVars, in_ta, intr,
                   cache, disabled>>

\* What thread t does on core c.
Step(c, t) ==
    \/ ClrBootThread(c, t) \/ EnterNew(c, t) \/ EnterResumed(c, t)
    \/ ForeignIntr(c, t) \/ StateFree(c, t)
    \/ EntryRefused(c, t) \/ EntryEnigma(c, t) \/ EntryStd(c, t)
    \/ SetUserMap(c, t) \/ RpcCmd(c, t) \/ FsAlloc(c, t)
    \/ ArgAllocFails(c, t) \/ ArgUnusable(c, t) \/ ArgAllocated(c, t)
    \/ ArgBadFreed(c, t) \/ CmdDone(c, t) \/ PayloadAllocFails(c, t)
    \/ PayloadUnusable(c, t) \/ PayloadAllocated(c, t) \/ PayloadFreed(c, t)
    \/ CallReturns(c, t) \/ ClearFsCache(c, t) \/ FreeRpcArg(c, t)
    \/ RpcArgFreed(c, t) \/ ArgParamsRefused(c, t)

Next ==
    \/ \E c \in Cores, t \in Threads : Step(c, t)
    \/ \E c \in Cores : AllocAndRun(c) \/ DisableCache(c) \/ EnableCache(c)
    \/ \E c \in Cores, n \in 0..NumThreads : ResumeFromRpc(c, n)
    \/ \E t \in Threads : Serve(t)

Spec == Init /\ [][Next]_vars

-----------------------------------------------------------------------------
(* Properties.                                                             *)

\* The pool, the cores and normal world.
PoolTypeOK ==
    /\ state \in [Threads -> {"FREE", "ACTIVE", "SUSPENDED"}]
    /\ copy_args \in [Threads -> BOOLEAN]
    /\ user_map \in [Threads -> Threads \cup {NoThread}]
    /\ regs \in [Threads -> Cookies \cup {NoCookie, Pending, Garbage}]
    /\ curr \in [Cores -> Threads \cup {NoThread}]
    /\ entering \in [Cores -> Threads \cup {NoThread}]
    /\ umap \in [Cores -> Threads \cup {NoThread}]
    /\ pc \in [Threads -> Pcs]
    /\ in_ta \in [Threads -> BOOLEAN] /\ intr \in [Threads -> BOOLEAN]
    /\ cache \in BOOLEAN /\ disabled \in BOOLEAN
    /\ req \in [Threads -> Cookies \cup {NoCookie}]
    /\ reply \in [Threads -> Cookies \cup {NoCookie, Pending, Garbage}]
    /\ shm \subseteq Cookies

\* The buffers of the threads: rpc_arg points into rpc_mobj.
BufTypeOK ==
    /\ rpc_arg \in [Threads -> BOOLEAN]
    /\ rpc_mobj \in [Threads -> Cookies \cup {NoCookie, Dangling}]
    /\ payload \in [Threads -> Cookies \cup {NoCookie}]
    /\ op \in [Threads -> Ops] /\ then \in [Threads -> Thens]
    /\ cookie \in [Threads -> Cookies \cup {NoCookie}]
    /\ \A t \in Threads : rpc_arg[t] => rpc_mobj[t] \in Cookies

TypeOK == PoolTypeOK /\ BufTypeOK

\* The core a thread runs on, or is about to.
On(c, t) == curr[c] = t \/ entering[c] = t

\* A thread is active exactly when some core has it, and only one has: two
\* SMCs never run on the same stack, whatever thread id normal world resumes.
OneCorePerThread ==
    \A t \in Threads :
        /\ state[t] = "ACTIVE" <=> \E c \in Cores : On(c, t)
        /\ \A c, d \in Cores : On(c, t) /\ On(d, t) => c = d
        /\ \A c \in Cores : ~(curr[c] = t /\ entering[c] = t)

\* The user map that is active on a core is the one its thread has set, also
\* when the thread was suspended and resumed on another core; a core in
\* normal world has none.
UserMapFollowsThread ==
    \A c \in Cores :
        umap[c] = IF curr[c] # NoThread /\ in_ta[curr[c]] THEN curr[c] ELSE NoThread

\* A thread that returns from an RPC has the answer of normal world in its
\* registers, and normal world never writes to the registers of a thread
\* that a foreign interrupt suspended.
RegsOnlyFromRpc ==
    \A t \in Threads :
        /\ regs[t] # Garbage
        /\ (\E c \in Cores : curr[c] = t) /\ pc[t] \in Waits => regs[t] # Pending

\* The buffers thread t answers for.
Held(t) ==
    (IF rpc_arg[t] THEN {rpc_mobj[t]} ELSE {}) \cup {payload[t], cookie[t]}
       \cup (IF pc[t] \in {"arg_alloc", "pl_alloc"} THEN {regs[t], reply[t]} ELSE {})
       \cup (IF pc[t] = "arg_bad" THEN {req[t]} ELSE {})

\* The thread may use its argument buffer: it has not asked to free it.
UsesArg(t) == rpc_arg[t] /\ pc[t] # "arg_put"

\* The shared buffers are accounted for.  None is forgotten: what normal world
\* has allocated some thread will free or hand out.  The argument buffer a
\* thread uses for its RPCs is allocated, and no other thread's.  And once
\* OPTEE_SMC_DISABLE_SHM_CACHE has returned ENOTAVAIL, secure world holds none.
NoShmLeak ==
    /\ \A k \in shm : \E t \in Threads : k \in Held(t)
    /\ \A t \in Threads : UsesArg(t) =>
          /\ rpc_mobj[t] \in shm
          /\ \A u \in Threads \ {t} : UsesArg(u) => rpc_mobj[u] # rpc_mobj[t]
    /\ disabled /\ AllFree => shm = {}

\* What a call that ends passes to mobj_get_cookie and mobj_put is, as mobj.h
\* says of mobj_put, "Pointer to a MOBJ or NULL": never a mobj that was freed
\* when thread_disable_prealloc_rpc_cache emptied the cache.
NoStaleMobj ==
    \A t \in Threads : pc[t] = "exit_arg" /\ ~cache => rpc_mobj[t] # Dangling
=============================================================================
