# OP-TEE core: TLA+ models and proofs

OP-TEE OS is the secure-world kernel of a trusted execution environment. Normal
world enters it with an SMC, is given a thread and runs a standard call on it:
open a session, invoke a command, register shared memory. A thread leaves secure
world for an RPC or for a foreign interrupt and comes back later, perhaps on
another core. Threads are scheduled by normal world only, so every wait in
secure world is an RPC that asks normal world to put the calling thread to sleep.

This directory holds models of the parts of the core where interleavings,
failures and crashes matter, the TLC configurations that check them, and TLAPS
proofs. File names below are relative to `src/`.

## 1. Inventory

| part | source | state it keeps | operations | uses | what is hard |
|---|---|---|---|---|---|
| mutex, condvar, wait queue | core/arch/arm/kernel/mutex.c, wait_queue.c | state word, queue of stack-allocated elements | lock, read lock, try, unlock, wait, signal, broadcast, destroy | sleep and wake-up RPCs | lost and spurious wakeups; the queue lock is dropped for each RPC |
| thread pool | core/arch/arm/kernel/thread.c, thread\_a64.S, thread\_optee\_smc\_a64.S | state, flags, saved registers and user map of each thread, current thread of each core | allocate, suspend, resume, free, foreign interrupt | thread\_global\_lock | resumes of any thread id on any core, stale registers |
| standard calls and RPC buffers | core/arch/arm/kernel/thread\_optee\_smc.c, core/tee/tee\_fs\_rpc\_cache.c | argument buffer and payload buffer of each thread, the cache flag | std\_smc\_entry, thread\_rpc\_cmd, alloc, free, enable and disable of the cache | thread pool | buffers belong to normal world, each RPC can fail, freeing one needs another |
| TA manager | core/kernel/tee\_ta\_manager.c (callers entry\_std.c, tee\_svc.c, user\_ta.c, pseudo\_ta.c) | sessions, contexts, reference counts, busy flags, single-instance lock | open, invoke, close, cancel, destroy | mutex, condvar | five critical sections in a call, TAs that call TAs, panics at any point |
| hash-tree file | core/tee/fs\_htree.c | head, nodes and blocks, each in two versions; the tree in memory | open, read, write, truncate, sync, close | RPC to the file in normal world | crash or error between any two writes |
| REE file system, directory file | core/tee/tee\_ree\_fs.c, fs\_dirfile.c | directory handle and its count, table of files and their root hashes, open files | create, open, write, truncate, rename, remove, list | hash-tree file, mutex | two files committed one after the other; a failed operation closes the directory under its other users |
| persistent objects | core/tee/tee\_pobj.c, tee\_obj.c, tee\_svc\_storage.c | open objects, sharing flags, counts | get, release, rename, storage system calls | file systems | a system call works in several critical sections |
| RPMB storage | core/tee/tee\_rpmb\_fs.c | write counter, FAT cache | read, write, FAT updates | device through RPC | lost answers, counter |
| TA database | core/tee/tadb.c | shared directory handle, table | create, commit, delete, open | file system | reference count of the handle |
| registered shared memory | core/arch/arm/mm/mobj\_dyn\_shm.c | list of mobjs, reference and map counts | register, get, put, release by cookie, guard | condvar, refcount | release races with users |
| page-table cache | core/arch/arm/mm/pgt\_cache.c | free tables, tables of each thread, cached tables | allocate, free, flush | mutex, condvar | threads that wait for each other's tables |
| pager, MMU, address spaces | core/arch/arm/mm/tee\_pager.c, core\_mmu\*.c, tee\_mmu.c | translation tables, regions | map, unmap, fault | fobj | hardware state |
| enigma | core/tee/enigma.c | block index, counts of shared blocks | allocate, share, look up | standard calls | its initialisation is commented out (core/arch/arm/tee/init.c:76), so nothing of it runs |
| lockdep | core/kernel/lockdep.c | lock-order graph | lock, try, unlock | mutex | cycle search |
| allocators and tables | core/arch/arm/mm/tee\_mm.c, core/kernel/handle.c | entry list, pointer array | alloc, free, get, put | - | sequential |
| virtualization | core/arch/arm/kernel/virtualization.c | guest partitions, counts | create, destroy, set, unset | thread entry | destroy while in use |
| boot, monitor, drivers, platforms | generic\_boot.c, core/arch/arm/sm, core/drivers, plat-\* | devices | - | - | not concurrent, or hardware only |
| crypto, TAs, ldelf, libraries | core/crypto, ta, ldelf, lib | - | - | - | vendored code or data |

`PROJECT.json` has the complete list of components and, under "hazards", the
places that tests hardly reach.

What makes each part correct:

* mutex: readers and the writer exclude each other; a wakeup is neither lost nor
  invented; writers are woken in the order in which they queue;
* threads: a thread runs on one core; its user map and its registers are its own
  when it comes back; no shared buffer is forgotten, freed twice or used after
  it is freed;
* TA manager: counts equal what they count; no one goes through a destroyed
  context; locks are balanced; no set of threads waits for itself; nothing is
  left behind when the last call returns;
* hash-tree file: at every crash point the file opens and has the contents of
  the last commit or of the one being made;
* storage: the store as a whole changes by complete operations, whatever fails;
  every committed object can be opened; the open-object table and the directory
  count are right; what the assertions say of entries and references holds;
* registered shared memory: no reference is given back twice, nobody touches a
  freed buffer or an address that is not mapped any more; a release is answered once the last user is gone;
* page-table cache: a table has one owner; a TA runs on its own tables; a cached
  table does not outlive what it translates; who waits for tables is served;
* the parts not modelled: section 7.

How they interact. `Threads` is below everything: each standard call is a
thread, each wait an RPC of it. `Mutex` is the lock of `TaManager` (and of the
file system); `TaManager` uses what `Mutex` shows and takes a section under
`tee_ta_mutex` as one step and a condvar wait as membership in a queue.
`FsHtree` is used under `ree_fs_mutex` and therefore has one thread. `Storage` is
above it and takes from it that a file has a current and a next version and that
the commit of the directory is atomic (`ImplementsAtomicFile`). `MobjRegShm` and
`PgtCache` take from `Mutex` that a condvar waiter leaves the mutex and falls
asleep in one step, and `PgtCache` from `TaManager` that a context runs on one
thread (`OneThreadPerTa`).

## 2. Modules

| module | what it is |
|---|---|
| `RWLock` | abstract readers-writer lock |
| `Mutex` | mutex, wait queue and condition variables; implements `RWLock` |
| `MutexProofs` | theorems about `Mutex` |
| `Threads` | thread pool, standard calls, RPC buffers |
| `ThreadsProofs` | theorems about `Threads` |
| `TaManager` | sessions and contexts |
| `TaManagerProofs` | theorems about `TaManager`, for any clients |
| `TaDisciplineProofs` | theorems about `TaManager`, for disciplined clients |
| `AtomicFile` | abstract file whose updates are atomic |
| `FsHtree` | hash-tree file; implements `AtomicFile` |
| `FsHtreeProofs` | theorems about `FsHtree` |
| `AtomicStore` | abstract store: a map from names to contents |
| `Storage` | persistent objects, REE file system and directory; implements `AtomicStore` |
| `StorageProofs` | theorems about `Storage` |
| `MobjRegShm` | registered shared memory and its users |
| `MobjRegShmProofs` | theorems about `MobjRegShm` |
| `PgtCache` | pool of translation tables and its users |
| `PgtCacheProofs` | theorems about `PgtCache` |
| `MCMutex`, `MCThreads`, `MCTaManager`, `MCFsHtree`, `MCStorage`, `MCMobjRegShm`, `MCPgtCache` | symmetry sets and constant values for TLC |

A definition whose name has a lower-case suffix (`ClearBusy_not_recursive`) is a
faulty variant of the definition with that name. It is not part of any
specification: each property is known to fail on one of them.

### Mutex

`mstate` is `m->state`, `wq` the queue, `wqe[t]` the queue element on the stack
of thread t, `rpcWake` the wake-ups that normal world has not delivered. The
other variables are program counters and locals. An action is one critical
section: testing the state and queueing the element is one step because
`m->spin_lock` is held over both; `wq_wake_next` takes the queue lock again for
each thread it wakes, so it is one step for each iteration and one for each RPC.
`SleepReturnsEarly` is a sleep RPC that returns without a wake-up, and `WakeRpc` may
fail to deliver one: `__wq_rpc` logs either and goes on. A failed wake-up is not
repeated (section 6). `held` is a history variable: the lock each thread was granted.

### Threads

`state`, `copy_args`, `user_map`, `regs`, `rpc_arg`, `rpc_mobj` and `payload` are
the fields of `struct thread_ctx`; `curr` and `umap` belong to a core;
`entering[c]` is a core between the unlock of `thread_global_lock` and the
assignment of `curr_thread`. `pc`, `op`, `then` and `cookie` say where the
standard call of a thread is. `shm`, `req`, `reply` and `disabled` are normal
world: the buffers it has allocated for secure world, the request and the answer
of each RPC, and whether it has been told that the cache is disabled. Normal
world may resume any id, also one that is running, free or out of range, and
with any registers if the thread was suspended by an interrupt. It answers an RPC once and
frees what it is asked to.

`Rpc` is `thread_rpc` up to the return to normal world; each return from an RPC
is an action of its own (`ArgAllocated`, `CmdDone`, `PayloadFreed`, ...) with one
action for each way it can fail. Payload and argument buffers are cookies; the
contents and attributes of an RPC are left out.

### TaManager

`sess`, `ctx`, `ctxes` and `lists` are the structs and the lists they are in, `si`
the single-instance lock, `waitq` the threads in a condvar wait, `stack[t]` the
calls thread t is in: a TA that runs may call another one on the same thread. A
call is a frame with a program counter; an action is one section under
`tee_ta_mutex`, or the code between two. `fault` records a `panic()` or a failed
`assert()`, after which nothing happens. A structure is never reused once freed,
so a thread about to go through one that was is visible (`NoDanglingCtx`).
`CFG_CONCURRENT_SINGLE_INSTANCE_TA` is off: no build file sets it. `SecureDataPath` is
`CFG_SECURE_DATA_PATH`, with which `check_params` may refuse an open or an invoke
(`CheckParamsFails`). Clients use a session
between the return of its open and its close; with `CloseRaces` they also close
it while calls on it are in flight. `TaExclusive` is the half of `OneThreadPerTa`
that is about the busy flag; the other half, that no thread runs in a TA that
panicked, rests on what clients do.

### FsHtree

`disk` is the file in normal world with its two versions of each element, `ht` the
tree in memory, `anchor` the root hash kept by the directory file, `todo` the
nodes the post-order traversal has still to write. Every write to the file is a
step, and `Close` (a crash or a failed RPC drops the handle too) can come
between any two. Hashing and encryption are ideal: a hash is the tuple of what is
hashed, the tag of a block is its contents. `Images` are the nodes that opening
reads, from the root down, and `Loaded(d, idx)` the tree it builds from disk `d`
with head `idx`. With `useHash` a file is opened by
`anchor`; without it, as the directory file is, by the counters of its heads.

### Storage

`dir` and `file` are the disk: the committed directory, and for each file number
the two versions of a file. `dirh` and `dirhRef` are `ree_fs_dirh` and its count,
`pobj` the table of open objects, `cl[c]` the system call a session is in and its
`struct tee_obj`, `en[c]` its enumerator. An operation of the file system holds
`ree_fs_mutex` throughout, so a step of it goes to the next point where a crash or
a failed request leaves a different disk: the write of the blocks (which tears
the version that is not current), the sync of the file, the commit of the
directory, and after it the removal of a replaced or removed file (`FsSetNameUnlink`,
`FsRemoveUnlink`). The system calls of tee\_svc\_storage.c release
everything between two such operations and interleave there. Each step that asks
normal world for something has a failing twin with the error path of the code:
`put_dirh_primitive` with `close` set, the entry taken back or not, the object
released or deleted. A block of the directory that cannot be read costs it its tree
(`FailedDirh`, from `tee_fs_htree_read_block`): operations that keep the directory go
on with it, `dirh.tree` is then false, and the next one that reads it stops the core
(`NullTree`). `halted` says why the core stopped: an assertion of a file operation, a
directory without a tree, or an enumerator with a directory that was closed. `Crash`
keeps the disk only. A hash is the content it stands
for.

The refinement maps `store` to the committed directory: each name with the content
its hash stands for. `Recoverable` says that the file has that content.

### MobjRegShm

`mobj[o]` is a `struct mobj_reg_shm` at heap address o, which is reused after it is
freed; `shmList` is the list, `mmUsed` the virtual ranges given out, `shmMu` and
`waiters` the release mutex and `shm_release_waiters`. A step is one critical
section or one atomic operation on a counter: `mobj_get` after the lookup,
`mobj_put`, the reading of the flags, the free, the notification are all
separate. `mobj_inc_map` and `mobj_dec_map` have a fast path and a locked path, as
in the code, with `copy_in_param` of pseudo\_ta.c, which maps a buffer only when it has
no address, and `mobj_mapped_shm_alloc` as callers; mappings race freely. `panicked`
tells the reference counter from the map counter. `attr` is what the object is to a
call: `cleanup_shm_refs` compares the whole attribute word, so a noncontiguous
parameter is not given back (`CleanupSkips`). `NwPins` is what normal world is asked
to do: section 6.

### PgtCache

`pgt`, `freeList`, `cacheList` and `tbls[t]` are the pool and its lists, `regions[c]`
the regions of a context, `asleep` the waiters. All of `pgt_alloc` up to its
`condvar_wait` is one step because `pgt_mu` is held: the tables it collects, and
gives back when they are too few, are computed by a recursion over the addresses
needed (`PopTables`). Units of half a table let two regions share one, which is the case
`maybe_free_pgt` is about. A region is paged or not. `used` are
the entries of a table that the pager made (`PagerFault`, `PagerEvict`): their number is
what the pool looks at when it decides what to keep. `fixed` are those of unpaged
regions, written by `core_mmu_populate_user_map` when a context is set (`Populate`) and
cleared only when the table is zeroed; `vm_unmap` takes out the entries of paged
regions only.

## 3. Runs

| run | bounds | shows |
|---|---|---|
| `mutex_safety` | 3 threads, 1 condvar, every operation | `HoldersMatchState`, `NoPanic`, `NoLostWakeup`, `NoSpuriousCondvarWakeup`, `WritersWokenInOrder`, and that `Mutex` implements `RWLock` |
| `threads` | 2 cores, 2 threads, 3 buffers | `OneCorePerThread`, `UserMapFollowsThread`, `RegsOnlyFromRpc`, `NoShmLeak` |
| `threads_disabled` | the same | `NoStaleMobj` is violated |
| `ta_sessions` | 2 threads, 3 sessions, 2 ids, a shared TA, a TA with an instance per session and a pseudo TA | `CtxRefsMatchSessions`, `NoHang` |
| `ta_nested` | 2 threads, 3 sessions, a TA that calls itself and another one, which may panic | `SiCountMatches`, `OneThreadPerTa`, `NoDanglingCtx`, `NothingLeftBehind` |
| `ta_races` | 3 threads, 1 session, closed while in use | `NoHang`, `UnlinkCompletes` under fairness |
| `fs_htree` | 3 nodes, 5 writes, 5 commits | `Recoverable`, and that `FsHtree` implements `AtomicFile` |
| `fs_htree_truncate` | 4 nodes | `Recoverable` is violated |
| `storage` | 2 sessions, 2 names, 2 contents, 2 file numbers | `NoHalt`, `Recoverable`, `DirhRefsMatch`, and that `Storage` implements `AtomicStore` |
| `reg_shm` | 3 calls, 1 cookie, 2 buffers, 1 range | `NoPanic`, `NoUseAfterFree`, `ReleaseAnswered` under fairness |
| `reg_shm_map` | 2 calls, 1 buffer, 2 ranges | `MapKept` is violated |
| `pgt_cache` | 2 threads, 2 contexts, 3 tables, a paged and an unpaged region that share a table | `RunsOnOwnTables`, `NoStaleTable`, `UnpagedEntriesConfined`, `WaiterServed` under fairness |

Each module's `TypeOK` is checked too; where a structure has an invariant of its
own (session ids are unique, the tables of the pool are shared out without loss,
the open-object table counts its users) `TypeOK` says it. `NoHang` says that no
`panic()` or `assert()` was reached and that no set of threads waits only for
itself; it is checked without nested calls and without panics (section 6). `NoHalt` is
about the assertions of file operations on the directory's entries, numbers and
references, and about no other way for the core to stop (section 6).

Why the bounds are enough.

* Mutex. With three threads one holds, one waits and one queues between the
  wake-ups of `wq_wake_next`; two readers and a writer can overlap; a condvar
  waiter, a signaller and a third thread can interleave. One condvar suffices
  because the elements of other condvars are only skipped.
* Threads. Two cores race for a thread and a thread changes core; the pool can be
  exhausted; three buffers let both threads hold an argument buffer while one
  holds a payload buffer as well.
* TaManager. Three sessions let two threads share a context while one of them
  opens or closes; two ids for three sessions make ids wrap. `ta_sessions` is built with
  `CFG_SECURE_DATA_PATH`, the other two without. `ta_races` adds a
  third thread so that an invoke runs, another waits for the session lock and a
  close waits for both.
* FsHtree. Three nodes are a root with two children, which is every relation of
  parent and child; five writes and commits flip each version more than once
  (two would already show the old version being overwritten). Truncations cut
  one block: section 6 says why no other. The tree of four nodes of
  `fs_htree_truncate` is the smallest with a parent below the root.
* Storage. Two names and two sessions let one session rename, replace or remove
  what the other has open or is opening; two file numbers make a create fail
  for lack of one while an old file is still to be removed; sessions and
  enumerators in any mix share the directory handle.
* MobjRegShm. Three calls are a user, a second user and a releaser; two objects
  let a cookie be registered again while its old object is being released, and
  the memory of a freed one be reused under a late waiter. One range for two
  buffers makes mappings fail.
* PgtCache. A context with both regions needs two tables, two contexts four: with
  three, one thread waits, cached tables are taken away, and tables of a context
  that left come back. The paged region has a table of its own and one that it shares
  with the unpaged region, so unmapping either leaves the other's entries.

Deadlock is checked in every run but `ta_nested`, where the core may stop (section
6, TA manager), the two of `MobjRegShm`, where normal world may register every
buffer it has and call no more, `threads`, whose threads stop
where they would use a freed mobj (`threads_disabled`), and the two of `FsHtree`, whose
writes and commits are bounded and so used up. Symmetry is over threads (Mutex, TaManager), cores and
buffers (Threads), sessions, names and contents (Storage), and only in runs without
liveness.

### Fairness

* `Mutex`: none. That a woken thread runs depends on a wake-up request which can fail
  without being repeated, so no eventual wake-up is claimed; `NoLostWakeup` says that
  secure world has done its part.
* `TaManager`: weak fairness of each step of a thread, because normal world schedules
  each of its threads again and again (and delivers wake-ups); strong fairness of a
  TA returning from an entry: a TA that never returns holds its context for ever,
  which the code allows.
* `MobjRegShm`: weak fairness of the steps of a call that was accepted, none for
  new calls. `ReleaseAnswered` is about executions in which new calls stop:
  normal world can keep a buffer in use for ever.
* `PgtCache`: weak fairness, per thread, of what comes next of the pool's steps and of
  leaving a context that was entered (`GoesOn`). `WaiterServed` is about executions in
  which no further context is entered or enlarged; without that condition two threads can keep each other
  short of tables, which the comment at pgt\_cache.c:28-34 does not exclude:
  threads get their tables "in turn" when others leave.

The three liveness properties take from normal world that it delivers the wake-ups of
condvars; `Mutex` shows what the core does when one is not delivered.

`SleepReturnsEarly`, crashes, panics and failing RPCs have no fairness.

## 4. Proofs

### MutexProofs

For every finite set of threads and any condvars:

* `TypeCorrect`, `HoldersCounted`, `NeverPanics`, `OnlySignalsWakeCondvars`:
  `TypeOK`, `HoldersMatchState`, `NoPanic` and `NoSpuriousCondvarWakeup` are
  invariants;
* `NoWakeupIsLost`: `NoLostWakeup` is one too, and `FirstComeFirstWoken`: writers
  are woken in the order in which they queued (`WritersWokenInOrder`);
* `Refinement`: `Mutex` implements `RWLock`.

Assumption: `MutexAssumption` (threads finite, the null values are not members).
The inductive invariant is `MInv == TypeOK /\ HoldersMatchState /\ PcInv /\ CvInv
/\ NoPanic`. `HoldersMatchState` alone is not inductive: an unlock from the
condition wait gives back the lock that `held` names, so `PcInv` has to say that
a thread about to queue itself on a condvar holds one, and that a thread waiting
to acquire holds none. `CvInv` is `NoSpuriousCondvarWakeup` for all elements,
queued or not, since an element is queued after it is initialised. The counting
of readers rests on `CountReaders`, from the theorems on finite sets. The
refinement needs the invariant for two facts: a writer is granted the lock only
when `Readers` and `Writers` are empty, and a step on `mstate` changes them as
`RWLock` does.

`NoLostWakeup` says that a queued thread that could have the lock will be woken; a
thread between the unlock and its next look at the queue is what carries that
promise, and it may lose it on the way to another thread. `WInv` says who has it:
`WakePcInv` what a waking thread knows, `QueueMatchesWaiters` that the queue holds
exactly the waiting threads, each once, and `WakeupComing` that some thread is still
going to look at the queue, or a woken one has yet to look at the lock. The order
of the queue is followed through `Append` and removal by `AppendToQueue` and the
lemmas next to it.

### ThreadsProofs

For any number of threads, any cores and any buffers, calls while the cache is
disabled included:

* `TypeCorrect`, `ExclusiveThreads`, `MapsFollowThreads`, `RegistersAreSafe`:
  `TypeOK`, `OneCorePerThread`, `UserMapFollowsThread` and `RegsOnlyFromRpc` are
  invariants;
* `NoBufferIsLost`: `NoShmLeak` is one, so each buffer that normal world allocated
  is held in exactly one place, through every error path.

`NoStaleMobj` is not a theorem: `threads_disabled` violates it.

Assumption: `ThreadsAssumption`. The inductive invariant is
`IInv == TypeOK /\ OneCorePerThread /\ UserMapFollowsThread /\ PcInv /\ MapInv /\
RegsInv`. `UserMapFollowsThread` is about threads that run; a thread resumed on
another core brings its map from `user_map`, so `MapInv` says what that holds while
no core runs it, and that a thread leaves its TA before its call ends. The
registers of a resumed thread depend on `copy_args`, which `RegsInv` ties to being
in an RPC. `PcInv` relates thread states and program counters, so that the steps
of a call are known to be of an active thread. Each of the many ways out of an
RPC is an instance of a few lemmas (`RpcStep`, `GotoStep`, `CallStepInv`), and
the pool is handled by `TakeStep`, `EnterStep`, `FreeStep`, `ForeignIntrStep`.

For the buffers `BufInv` adds an account: a thread has three places where a cookie
can be (its argument buffer, its payload, the answer of an RPC that is on its way or
about to be freed), `OwnInv` says that no cookie is in two places and that those in
a place are the allocated ones, and `AnswerOK`, `CallOK` and `CacheOK` say which
places are filled at which point of a call. `OwnStep` reduces an action to the
places it fills and empties. A
`rpc_mobj` that dangles is in no place.

### MobjRegShmProofs

For any finite set of calls and of objects, any cookies and any address ranges:

* `TypeCorrect`: `TypeOK` is an invariant. In particular `shm_release_waiters` stays
  a natural number, because it is the number of releasers between their first and
  last section under `shm_mu` (`WaitInv`);
* `RefCounted`, `NeverUsedAfterFree`, `NeverPanics`: under `NwPins`, `RInv`,
  `NoUseAfterFree` and `NoPanic` are invariants, whatever racing calls do to the
  mappings.

`NwPins` is needed: section 6 says what happens without it. Of the mappings nothing is
proved, as `reg_shm_map` violates what one would like to prove: the map counter and
the addresses are free to go wrong in these theorems, and do. The other assumption is
`MobjAssumption`.

`NoUseAfterFree` is not inductive: nothing in it says that the thread that frees an
object is the last one to reach it. `RInv` says so by counting. `RefInv` is the
equation "`refc` of a live object is the number of threads that hold it, plus one while
it is registered" (of a temporary buffer: at least that number, since the reference of
a noncontiguous parameter is never given back, `TmemInv`); so the thread that takes `refc` to 0 leaves no holder behind, and
no registration that a lookup could find. Who is left are the thread that got to 0
and the releaser, and `PhaseInv`, `FlagInv` and `UniqueInv` settle between these
two: there is one of each, a guarded object has no releaser, and a releaser frees
only after the other set `release_frees`, its last access (`FreeGuardedAlone`,
`ReleaserAlone`). The steps that do not change a reference are instances of
`MoveStep`; those about one object use `RefStep` and the cardinality facts of `Count`.

`NoPanic` follows step by step (`CountersHold`): who calls `mobj_get` found a registered
object, who calls `mobj_put` is counted.

### FsHtreeProofs

For every bound on writes and commits, with or without a root hash in the
directory:

* `TypeCorrect`: `TypeOK` is an invariant, for every number of nodes and any
  truncations;
* `FileIsRecoverable` and `UpdatesAreAtomic`: under `CutsAreSmall`, `Recoverable` is
  an invariant and `FsHtree` implements `AtomicFile`.

`CutsAreSmall` covers a file that is only written, for every number of nodes, and a
file that is also truncated as long as it is cut by one block at a time and has at
most three nodes. That is not for want of a proof: in a larger tree, and for
larger cuts, the code does not keep the file readable (`fs_htree_truncate`, and
section 6). The other assumption is `FsHtreeAssumption`.

The inductive invariant `HInv` says what the disk holds at each point. There is
one head that a reader would take (`CommitInv`); what it names, down to the blocks,
is complete on the disk, and a sync only writes the versions that it does not name.
The memory follows it: with nothing to write, `ht` is what `Loaded` would build
again; during a sync (`SyncOK`) each node that still differs lies ahead in `todo`,
and because a parent comes after its children in post-order, a node is written
only when the hashes in it are final. After the head is written (`Done`), the new
one verifies, and the old one stays good until the directory has the new root
hash. Two versions suffice because the head's counter and the version bits flip
together.

The tree is a binary heap of any size, and `PostOrder` and `Images` are recursive
functions over it. What they compute is shown by taking the least node that violates
the claim (`LeastNat`), since the library's induction theorems cannot be used here.
`CommitKept` is the lemma most steps need: a write that leaves the elements named by
the head alone changes neither what a reader takes nor what it finds.

### StorageProofs

For any finite number of sessions and names, any contents and any number of file
numbers:

* `TypeCorrect`: `TypeOK` is an invariant, so `tee_pobjs` has exactly the objects in
  use, each with the count of its users;
* `NeverHalts`, `ObjectsAreRecoverable`, `DirectoryRefsCounted`: `NoHalt`,
  `Recoverable` and `DirhRefsMatch` are invariants;
* `StoreIsAtomic`: `Storage` implements `AtomicStore`.

Assumption: `StorageAssumption`. It leaves objects shared for writing out, as the
model does (a flag set has no `SW`); and the model's sessions close a handle after a
failed call: section 6 says what happens otherwise. With that the four
results need each other, and the inductive invariant `SInv` has all of them in it.
`FsWriteCommit` finds its own entry (`NoHalt`) because nobody moved or removed the
object between two calls of the writer: `PobjInv` says that an object open with `W`
or `META`, or reserved by a rename, has one user, in the terms of
`tee_pobj_check_access`. `FilesInv` says what that buys: a writer's handle and its
directory entry name the same file and version, except that after the
synchronisation the file has both the version of the handle and the one of the entry
(`HandleOK`), and a create's file is complete under a number that no entry has
(`NewFileOK`), and a file about to be removed is named by no entry (`UnlinkOK`). A
failed write may leave the handle ahead of the directory; it is then only closed, or
its object removed, and the invariant promises nothing more about it. `DirhOK` says that
the directory in memory, whenever it is open, is the one on the disk: a failed
commit leaves them different only inside the operation that closes it again. It says
nothing of the tree: a directory that lost it is read by nobody, because the core stops
in `NullTree`. `NoHalt` does not count that stop, nor that of an enumerator, so
`NeverHalts` is about the assertions only.
`DirInv` says that no two entries share a name or a file, so that
`tee_fs_dirfile_find` finds the one entry, `DirfileOpen` drops none, and there is a
free entry for a new name (`RoomForName`, by counting names).

The steps are reduced by `QuietStep` (the disk stays), `DiskStep` (one session changes
the disk, and what other writers depend on stays) and `HaltStep`; the references are
followed by `Held`, the number that one session has (`RefsStep`). For the refinement,
each object's content is that of the one entry with its name (`ContentOf`), four
actions change the directory on the disk (`DirectoryKept`), and each of them changes
one entry (`PutStep`, `RemoveStep`, `RenameStep`).

### PgtCacheProofs

For any finite number of threads, of regions and of units a TA touches, any contexts
and any number of tables:

* `TypeCorrect`: `TypeOK` is an invariant, so the free list, the cache list and the
  lists of the threads share out the tables;
* `TasRunOnOwnTables`: `RunsOnOwnTables` is an invariant;
* `NoTableIsStale`: `NoStaleTable`, which is about the pager's entries, is an invariant.

Assumption: `PgtAssumption`. The finiteness of `Regions` and `Touched` is that of the
address space; `LastTable` and `LeastUsed` take a maximum and a count.

The inductive invariant is `PInv == Shape /\ ShareInv /\ CtxInv /\ OwnInv /\
NoStaleTable /\ RunsOnOwnTables`. `NoStaleTable` alone is not inductive:
`pop_from_some_list` looks for the context's table on the cache list only and takes
another one if it is not there, so that a second table for the address could arise if
the first were on some thread's list. `OwnInv` (a thread's tables are those of the
context it has) and `CtxInv` (no two threads have or change to one context) exclude
that: `AllocStart` shows that outside the free list, the cache list and the thread's
own list no table is of the context to allocate for. `RunsOnOwnTables` follows for the
thread itself from `LinkFacts`, whether the table was found, free or stolen, and for
the others because a step only touches tables on the pool's lists and its own
(`PoolIs`, `PoolStep`). A wait in `pgt_alloc` gives all tables back first, which
is what `FreeUnlockedFacts` and `LinkGood` have to say together (`AllocWaits`).

Most actions go through `PoolKeeps`, a step of one thread that moves tables between
its list and the pool's; all go through `Frame`. What `Without` and `PopTables`
compute is shown as in `FsHtreeProofs`, by a least counterexample (`LeftDef`,
`PoppedDef`). The count in `TypeOK` comes from a bijection between the places on the
threads' lists and the tables there (`Counted`).

### TaManagerProofs

For any number of threads, TAs, sessions and contexts, any flags, nested calls and
panics, and clients that close sessions with calls in flight or not:

* `TypeCorrect`: `TypeOK` is an invariant. The reference counts of sessions and
  contexts are naturals in it, so no put and no close comes once too often; and the
  ids in a list of sessions are different and not 0, also after they wrapped around;
* `CtxRefsMatch`: `CtxRefsMatchSessions` is an invariant;
* `OneThreadInTa`: `TaExclusive` is an invariant.

Assumption: `TaManagerAssumption`.

The calls a thread is in are looked at through `fr`, the frame at each place
<<thread, depth>>, with `Null` where there is none: a step moves one place and leaves
the others alone (`Moved`, `MoveSet`, `MovePush`, `MovePop`). The inductive invariant
is `AInv == TypeOK /\ HoldInv /\ (fault = "none" => Good)`. `HoldInv` (a call into a TA
that is not concurrent has its busy flag, alone) is what `TaExclusive` needs, and it
holds after a fault too. `Good` relates calls, sessions and contexts:

* `ShapeInv` and `StackInv`: which fields of a frame are set where, and who called it;
* `HomeInv`: a session somebody refers to is in the list of its owner, and in no other;
* `RefInv`: `sess->ref_count` is at least the number of frames with a reference;
* `GripInv`: one frame at most has a session for itself, by its lock or because it
  freed it;
* `LinkInv` and `UsedInv`: the context a call works with is the one of its session,
  unless a panic took it away, and nothing on `tee_ctxes` is freed or being destroyed;
* `CountInv`: `ref_count` of a context is the number of sessions that count for it
  (`ClaimsOn`): the live ones, and those a close has freed and not yet given up;
* `LoadInv`: the flags of a concurrent TA are known from the start.

`CtxRefsMatchSessions` alone is not inductive. A close frees its session, clears the
busy flag and drops the context's reference in three critical sections; that the count
goes down once for it depends on no other call having the session (`GripInv`), on the
close still naming the context its session had (`LinkInv`), and on the session being
the one `RefInv` lets it free: with a reference of another thread left, it waits.
`ClaimsOn` counts sessions, not frames, so that a close passing from "my session is
live" to "I freed it" changes nothing (`FreeSessionIs`, `ReleaseClaims`). A panic takes
all sessions of the context at once and takes it off `tee_ctxes`, where `CountInv` asks
for "at least" only. Each action has a lemma for `AInv`; those that only move the
program counter share `StepOK` and `GripOK`. What `Without`, `Signal` and `Broadcast`
compute is shown by a least counterexample, as in `FsHtreeProofs`.

### TaDisciplineProofs

These theorems are about clients and TAs that are `Disciplined`: clients close a
session only after their calls on it have returned, as the TEE client API asks
(`CloseRaces = FALSE`), the TAs that panic take one session at a time, and the core is
built without `CFG_SECURE_DATA_PATH` (`SecureDataPath = FALSE`, the default).

* `NoneDangles`: `NoDanglingCtx` is an invariant;
* `OneThreadRuns`: `OneThreadPerTa` is an invariant;
* `SiLockCounts`: `SiCountMatches` is an invariant;
* `NothingStays`: `NothingLeftBehind` is an invariant.

The discipline is needed, not convenient: section 6 names the behaviour of the code
without it. The inductive invariant is `AInv` with `CoreInv`, which says `Core` until a
fault:

* `ActInv`: whom calls are for. A call on a session names, by owner and id, a session
  that exists and whose open has returned (`Stake`); a close is the only call on its
  session; a session being opened has one opener, and its client cannot use it yet;
* `OnceInv`: a context that is not shared, or not loaded yet, has one reference at most;
* `PanicInv`: the call that found the panic destroys the context, and no other call is
  in the TA or about to enter it;
* `WholeInv`: a context stays on `tee_ctxes` as long as a call uses it; one call destroys
  it; a session has a context on `tee_ctxes`, none, or the one that the call on this very
  session destroys.

`NoDanglingCtx` follows from `WholeInv`, `LinkInv` and `UsedInv`. What makes it hard is
that `tee_ta_close_session` and `tee_ta_invoke_command` read `sess->ctx` once and use it
over several critical sections: the context survives because the reference of their
session is still counted (`CountInv`), and after a panic because the only session of
that context is theirs (`PanicsAlone`, `Alone`). That a session cannot be closed from
under a call rests on `ActInv`, which needs the ids of a list to be different
(`TypeOK`), since calls name sessions by ids that are used again.

`SiCountMatches` needs `Turn` on top of it. The single-instance lock is taken on the
flags of the TA, and these are not known until `ldelf` has run: the open that loads a TA
enters it without the lock, and `tee_ta_clear_busy` must not give back what was never
taken.

* `BegunInv`: an open on its way into a TA finds its flags set or the context still
  marked as initializing;
* `QueueInv`: a thread waits for the lock for single-instance TAs only, and for the
  busy flag alone for others only, so a wake-up acts on the flags it queued for;
* `FirstInv`: a TA that is loaded and still initializing is busy, so nobody passes "wait
  until it's initialized" before the first open is back;
* `SiInv`: the lock counts the calls of its thread into single-instance TAs (`Holders`),
  and has no thread exactly when it counts none.

When the flags of a TA appear (`EnterTa`) or the initializing mark goes (`ClearBusy`),
who is counted must not change: the one call in the TA is the first open, by `HoldInv`
and `FirstInv`.

`NothingLeftBehind` speaks of states without calls only, so its induction must say of
every other state which call will tidy up. `TidyInv` says so, until a fault: threads
wait in calls only (`WaitInv`), and `Neat`, on top of `Core`:

* `LiveInv`: every live session is in the hands of its client, of its opener or of a
  call that closes it, so that a failed open (`InsteadTidy`), a close and the end of a
  TA (`CloseTidy`) pass it on and never drop it;
* `UnlinkInv`: a session is marked as unlinking only while its close waits for the last
  reference, so a close is not turned away by its own mark (`CloseFinds`);
* `ExactInv`: while a session can be used, `ref_count` is the number of the calls with
  a reference: `RefInv` with equality, which a close that is waiting does not need;
* `LockInv`: a locked session is locked by a call that has a reference to it;
* `FlagInv`: a busy context has a call in it, and a concurrent one is never busy;
* `KeptInv`: a live context is on `tee_ctxes` or being destroyed, and on `tee_ctxes`
  without a session only if it is to be kept alive;
* `EndInv`: a context that is being destroyed is not freed yet, and a freed one has no
  sessions: a TA opens none any more once it is gone (`OwnerLives`).

### Model-checked only

Liveness, because the prover does not handle fairness or `ENABLED`. Of `PgtCache`:
`UnpagedEntriesConfined`, not yet proved. Of `TaManager`:
`NoHang`, whose second half is about every set of waiting threads at once and amounts
to a progress argument over the wait-for graph.

## 5. Findings

* **A truncated file may not open again** (`fs_htree_truncate`, fs\_htree.c:922).
  Truncation unhooks a node and does not mark its parent as dirty; if the
  parent is not the root, its stored hash still covers the removed child.
* **A call uses a mobj freed with the cache** (`threads_disabled`,
  thread\_optee\_smc.c:288). `thread_disable_prealloc_rpc_cache` puts `rpc_mobj` and clears
  `rpc_arg` only. With the cache disabled, the next call on that thread that makes no
  RPC with arguments ends by passing the old pointer to `mobj_get_cookie` and
  `mobj_put`, which take a "Pointer to a MOBJ or NULL" (mobj.h:95). Nothing in
  optee\_smc.h:286-313 or thread.h:567-574 asks normal world not to call then.
* **Two first mappings of a buffer count once** (`reg_shm_map`,
  mobj\_dyn\_shm.c:369). Of two calls that map a registered buffer for the first time
  at the same moment both are told that it is mapped and one is counted; both call
  `mobj_dec_map`, and the counter is decremented at 0 (refcount.h:19-20 says that
  this should never happen).
* **`mobj_dec_map` tests the wrong way round** (`reg_shm_map`, mobj\_dyn\_shm.c:407). Under
  the lock it unmaps when the count is *not* 0, the reverse of mobj.h:199-200 and of
  the pattern in refcount.h:40-42. A buffer whose count reached 0 stays mapped; and
  if another call mapped it again between the decrement and the lock, the end of the
  first call takes the address away from the second, and the range of the first
  mapping is lost. `MapKept` says what should hold; TLC reports the shortest of its
  violations.

## 6. Behaviour the passing runs leave out

These were met while choosing the bounds and restrict what the passing runs say.
Each can be reproduced with the constants given.

Mutex:

* A failed WAKEUP request is logged and not repeated (wait\_queue.c:42-44). The element is
  marked done, and its thread goes on when its SLEEP request returns, which is then up to
  normal world. No run claims that a waiter is woken in the end.
* `condvar_destroy` of a condvar with waiters panics (mutex.c:274). In the model that is a
  guard of `CondvarDestroy`: callers destroy no condvar that is in use, and `NoPanic` does
  not cover it.

TA manager:

* A TA that opens a session to itself panics the core (tee\_ta\_manager.c:709). The
  open is refused because the context is busy ("Deadlock avoided"); the half-open
  session is then closed, and the close sets the same context busy, is refused
  and panics. (`Uuids = {Shared}`, `MayCall <- SharedCallsItself`, `NoHang`.)
* An open that finds its context panicked never returns (tee\_ta\_manager.c:695): the
  close it makes waits for the reference the open itself holds. (`Uuids = {Kept}`,
  `MayPanic = {Kept}`, two sessions, `NoHang`.)
* A single-instance TA opened twice before it is loaded gets two instances: its
  flags are 0 until ldelf has run, so the second open does not see that the
  first can be shared (tee\_ta\_manager.c:563). `OneThreadPerTa` is therefore about contexts.
* A TA with several sessions that panics while another thread is between
  unlinking a session and dropping its reference fails the assertion that counts
  sessions (tee\_ta\_manager.c:354). The TA that may panic in `ta_nested` has one session.
* A session opened by a TA to itself while that TA is in its own first open
  waits for its own initialisation.
* With `CFG_SECURE_DATA_PATH`, an open whose parameters `check_params` refuses
  (tee\_ta\_manager.c:688) returns an error and leaves its session linked, with the
  opener's reference, so its context is never destroyed; and when the client is a TA,
  the close of its sessions at its own end waits for that reference for ever.
  (`SecureDataPath = TRUE`, `NothingLeftBehind`; the last part needs a TA that calls.)
  `ta_sessions` has these refusals; `ta_nested` and `TaDisciplineProofs` do not.
* Calls that race with the close of their session name it by its id. With a second
  session the id can be used again in between, and an invoke can act on a session that
  another call is about to free; with two sessions `ta_races` would find the assertion in
  `tee_ta_clear_busy` (`NumSessions = 2`, `CloseRaces = TRUE`, `NoHang`).

Storage:

* A truncation by two blocks or more cuts the file in normal world before it is
  committed (tee\_ree\_fs.c:285): a crash in between loses committed blocks. (`FsHtree`,
  `Shrinks = {2}`.)
* A truncation to the same length commits an unchanged root hash: after a crash
  before its head is written, the older head is taken (fs\_htree.c:332). (`Shrinks = {0}`.)
* A crash while `dirf.db` is created for the first time leaves a file that can
  neither be opened nor created (tee\_ree\_fs.c:530). The models start after that
  creation.
* A directory block that cannot be read costs the directory its tree
  (fs\_htree.c:901-903). `ree_fs_open` and `opendir` then keep the directory if others use it
  (tee\_ree\_fs.c:626-628), and `set_name` and `ree_fs_rename` take the failure of their
  first search for a name not found (642-656, 798-805): the next read follows a NULL
  pointer (307-310). The comment at tee\_ree\_fs.c:567-579 has the directory closed on
  every error. `Storage` reaches this (`halted = "tree"`) and restarts there; `NoHalt`
  does not count it.
* An enumerator keeps the directory pointer it got from `opendir`. A failed operation
  of another session frees the directory; `readdir` then goes through the old pointer
  (tee\_ree\_fs.c:960), and `closedir` fails the assertion `dirh == ree_fs_dirh` (line 590).
  `Storage` reaches this (`halted = "enum"`) and restarts there; `NoHalt` does not count it.
* A rename that finds no memory for the new name, or another user of the object
  (tee\_pobj.c:151-161), comes after the directory was changed: the open object keeps a name
  that the directory no longer has. The model has this step.
* Temporary blocks of the hash tree come from a pool that one thread owns at a time
  (lib/libutils/ext/mempool.c), so `get_tmp_block` does not run out and is no failure
  of its own in the models.
* A failed `opendir` leaves the enumerator with `fops` set and no directory; asking it
  for the next object goes through the null pointer, which the model has as
  `halted = "enum"` too.
* A handle used again after a failed write or commit writes into the version
  the directory vouches for, or through a tree that is NULL (tee\_ree\_fs.c:774). The
  model's sessions close the handle after an error.
* A request that fails while the attributes are read counts as corruption and
  deletes the object (tee\_svc\_storage.c:233). The model has this step: `AtomicStore`
  allows it as a removal.
* Overwriting an object leaves the bit of the old file's number set until the
  directory is opened again, so numbers can run out before files do.
* Objects shared for writing (each handle has its own tree) are not modelled, and a
  request that fails is taken to have changed nothing.

Shared memory and translation tables:

* The list lock is dropped before `mobj_get` (mobj\_dyn\_shm.c:294): an unregistration
  in between panics the core or uses freed memory. (`NwPins = FALSE`.) With `NwPins` the
  calls of normal world look up registered buffers only, neither temporary ones nor one
  that is being unregistered, and none is unregistered between its lookup and
  `mobj_get`. A lookup that finds a temporary or a releasing buffer is then not made,
  also where another object has the same cookie.
* The reference of a noncontiguous parameter is never given back: `cleanup_shm_refs`
  compares the attribute word with `OPTEE_MSG_ATTR_NONCONTIG` still set
  (entry\_std.c:216-229). The model has this (`CleanupSkips`); no property asks that
  temporary buffers are freed.
* `maybe_free_pgt` works out the tables that no neighbour shares and then flushes
  those of the whole region (tee\_mmu.c:191); the `tee_mmu_set_ctx` that follows deals
  the context its tables afresh, so it runs on the right ones again, with
  entries to be faulted in again.
* When `tee_pager_add_um_area` fails after `alloc_pgt`, the error path of
  `vm_map_pad` does not set the context again (tee\_mmu.c:297). `PgtCache` has no such
  failure: the first-level table is not part of its state.
* `vm_unmap` and `tee_mmu_clean_param` clear the entries of paged regions only
  (tee\_mmu.c:739, 808). Those of an unpaged region stay in a table that is kept for the
  entries of a paged neighbour, cached or in use, and is popped again without being
  zeroed (pgt\_cache.c:189-203, 247). `UnpagedEntriesConfined` says how far they get:
  no table of another context, and no table without a paged neighbour. `NoStaleTable`
  is about the pager's entries. A paged region mapped later at such an address would
  find the old entry instead of faulting; the instance of `pgt_cache` has no two regions
  at one address. `tee_mmu_clean_param` is not a separate action: it is what `VmUnmap`
  does, just before the context is left.

## 7. Not modelled, and the plan

Left out for good: cryptography, drivers, platforms, boot, the monitor's assembly,
MMU tables, parsing of parameters, vendored libraries, TAs and the loader. They
are data, hardware, or sequential code; `PROJECT.json` gives the reason for each.
Inside the modelled parts: stacks, canaries, VFP state, cancellation flags, client
identities, profiling, and the marshalling of parameters.

To prove next: `UnpagedEntriesConfined`, from `PInv` and the same account for `fixed`.
Not modelled though within reach, in the order of their worth:

1. `Rpmb`: the write counter and its synchronisation over an unreliable channel,
   and the order in which data and FAT entry are written.
2. `Tadb` over `AtomicStore`: the counted directory handle, and the order in which
   a TA's file and its database entry are committed and removed.
3. The list of shared files in core/mm/file.c, whose lookup races with the last put.
4. `Lockdep` and `TeeMm` as algorithms against a reference definition;
   virtualization.

The sybil block table is left out because its initialisation is commented out
(core/arch/arm/tee/init.c:76): its table is never allocated and no caller gets past
that.
