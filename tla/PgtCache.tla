------------------------------ MODULE PgtCache ------------------------------
(***************************************************************************)
(* The pool of translation tables for user mode (core/arch/arm/mm/         *)
(* pgt_cache.c, built with CFG_PAGED_USER_TA) and its callers: switching   *)
(* the user context, mapping and unmapping regions (tee_mmu.c), the end of *)
(* a context, and the pager filling and emptying table entries.            *)
(*                                                                         *)
(* A table holds two kinds of valid entries.  Those of paged regions are   *)
(* written and cleared by the pager, which counts them.  Those of unpaged  *)
(* regions are written each time the context is set, and nothing clears    *)
(* them: they go with the content of the table.                            *)
(*                                                                         *)
(* Every function of the pool runs under pgt_mu from start to end, or to   *)
(* the condvar_wait() that gives it up, so it is one step.                 *)
(*                                                                         *)
(* Addresses are counted in units of half a table: table base b covers the *)
(* units 2b and 2b + 1, so that two regions can share a table.             *)
(***************************************************************************)
EXTENDS Naturals, Sequences, FiniteSets, SequencesExt

CONSTANTS Threads,
          Ctxs,          \* user TA contexts
          NumPgts,       \* PGT_CACHE_SIZE
          Regions,       \* the regions a context may map: units lo to hi, paged or not
          Touched,       \* the units a TA ever touches, to bound the model
          NoCtx

ASSUME PgtAssumption ==
    /\ IsFiniteSet(Threads) /\ NoCtx \notin Ctxs
    /\ NumPgts \in Nat \ {0}
    /\ IsFiniteSet(Regions)
    /\ \A r \in Regions : /\ r.lo \in Nat /\ r.hi \in Nat /\ r.lo <= r.hi
                            /\ r.paged \in BOOLEAN     \* mobj_is_paged()
    /\ Touched \subseteq Nat /\ IsFiniteSet(Touched)

VARIABLES
    pgt,        \* pgt[p]: ctx, vabase, the units with an entry of the pager
                \* (num_used_entries) and those with an entry it does not know
    freeList,   \* pgt_free_list
    cacheList,  \* pgt_cache_list, first element first
    tbls,       \* tbls[t]: tsd->pgt_cache, by rising address
    tsdCtx,     \* tsdCtx[t]: tsd->ctx
    target,     \* target[t]: argument of tee_mmu_set_ctx()
    pc,
    asleep,     \* the threads in condvar_wait(&pgt_cv, &pgt_mu)
    regions,    \* regions[c]: vm_info.regions of c
    live        \* the contexts that exist

vars == <<pgt, freeList, cacheList, tbls, tsdCtx, target, pc, asleep, regions, live>>

Pgts == 1..NumPgts
Unused == [ctx |-> NoCtx, vabase |-> 0, used |-> {}, fixed |-> {}]

Units(r) == r.lo .. r.hi
TableOf(u) == u \div 2

\* The units of the paged regions in rs, and those of the others.
PagedUnits(rs) == UNION {Units(r) : r \in {q \in rs : q.paged}}
FixedUnits(rs) == UNION {Units(r) : r \in {q \in rs : ~q.paged}}

\* get_num_req_pgts(): all tables from the first to the last region.
FirstTable(rs) == TableOf(Min({r.lo : r \in rs}))
LastTable(rs) == TableOf(Max({r.hi : r \in rs}))
NumReqPgts(rs) == IF rs = {} THEN 0 ELSE LastTable(rs) - FirstTable(rs) + 1

Init ==
    /\ pgt = [p \in Pgts |-> Unused]
    /\ freeList = Pgts
    /\ cacheList = <<>>
    /\ tbls = [t \in Threads |-> <<>>]
    /\ tsdCtx = [t \in Threads |-> NoCtx]
    /\ target = [t \in Threads |-> NoCtx]
    /\ pc = [t \in Threads |-> "run"]
    /\ asleep = {}
    /\ regions = [c \in Ctxs |-> {}]
    /\ live = {}

-----------------------------------------------------------------------------
(* The static functions, on the pool s = [pgt, free, cache, own], own the   *)
(* list of the calling thread.                                              *)

\* List s with the tables of S taken out (SLIST_REMOVE).
Without(s, S) ==
    LET Left[i \in 0..Len(s)] ==
          IF i = 0 THEN <<>>
          ELSE IF s[i] \in S THEN Left[i - 1] ELSE Append(Left[i - 1], s[i])
    IN  Left[Len(s)]

Pool(t) == [pgt |-> pgt, free |-> freeList, cache |-> cacheList, own |-> tbls[t]]

\* Mutant: every table of a user TA is kept.
PgtFreeUnlocked_keeps_all(s) ==
    [s EXCEPT !.cache = Reverse(s.own) \o @, !.own = <<>>]

\* pgt_free_unlocked(): tables with entries of the pager are kept for their
\* context as they are, pushed one by one in front of the cache list; the
\* others become free, to be zeroed when they are popped again.
PgtFreeUnlocked(s) ==
    LET gone == {p \in Range(s.own) : s.pgt[p].used = {}}
    IN  [pgt |-> [p \in Pgts |-> IF p \in gone THEN Unused ELSE s.pgt[p]],
         free |-> s.free \cup gone,
         cache |-> Reverse(Without(s.own, gone)) \o s.cache,
         own |-> <<>>]

MatchPgt(e, vabase, ctx) == e.ctx = ctx /\ e.vabase = vabase

\* pop_least_used_from_cache_list(): a first element without valid entries, or
\* else the last one of those with the fewest.
LeastUsed(table, cache) ==
    LET n(i) == Cardinality(table[cache[i]].used)
        idx == DOMAIN cache
    IN  IF n(1) = 0 THEN cache[1]
        ELSE cache[Max({i \in idx : \A j \in idx : n(i) <= n(j)})]

\* pop_from_some_list(): the context's cached table for the address, a free
\* table or the least used cached one; got are the tables popped before it.
PopFromSomeList(s, got, vabase, ctx) ==
    LET cached == {i \in DOMAIN s.cache : s.cache[i] \notin Range(got)}
        hits == {i \in cached : MatchPgt(s.pgt[s.cache[i]], vabase, ctx)}
        free == s.free \ Range(got)
    IN  IF hits # {} THEN <<s.cache[Min(hits)]>>
        ELSE IF free # {} THEN <<Min(free)>>
        ELSE IF cached # {} THEN <<LeastUsed(s.pgt, Without(s.cache, Range(got)))>>
        ELSE <<>>

Bases(rs) == [i \in 1..NumReqPgts(rs) |-> FirstTable(rs) + i - 1]

\* One turn of the loop of pgt_alloc_unlocked(), for the i-th address.
PopNext(s, ctx, i) ==
    [got \in Seq(Pgts) |-> got \o PopFromSomeList(s, got, Bases(regions[ctx])[i], ctx)]

\* The loop: the tables it popped.
PopTables(s, ctx) ==
    LET n == NumReqPgts(regions[ctx])
        Popped[i \in 0..n] == IF i = 0 THEN <<>> ELSE PopNext(s, ctx, i)[Popped[i - 1]]
    IN  Popped[n]

\* Mutant: a table that did not match keeps its entries and its owner.
LinkTables_keeps_owner(s, got, ctx) ==
    [pgt |-> s.pgt,
     free |-> s.free \ Range(got),
     cache |-> Without(s.cache, Range(got)),
     own |-> got]

\* The pool with the popped tables linked to the thread's list; a table that
\* did not match was emptied and given to ctx.
LinkTables(s, got, ctx) ==
    [pgt |-> [p \in Pgts |->
                IF \E i \in DOMAIN got :
                      got[i] = p /\ ~MatchPgt(s.pgt[p], Bases(regions[ctx])[i], ctx)
                THEN [ctx |-> ctx, used |-> {}, fixed |-> {}, vabase |->
                        Bases(regions[ctx])[CHOOSE i \in DOMAIN got : got[i] = p]]
                ELSE s.pgt[p]],
     free |-> s.free \ Range(got),
     cache |-> Without(s.cache, Range(got)),
     own |-> got]

\* core_mmu_populate_user_map(): the entries of the context's unpaged regions
\* are written in the thread's tables.
Populate(s, ctx) ==
    LET mapped(b) == {u \in FixedUnits(regions[ctx]) : TableOf(u) = b}
    IN  [pgt |-> [p \in Pgts |->
                    IF p \in Range(s.own)
                    THEN [s.pgt[p] EXCEPT !.fixed = @ \cup mapped(s.pgt[p].vabase)]
                    ELSE s.pgt[p]],
         free |-> s.free, cache |-> s.cache, own |-> s.own]

\* pgt_entry_matches() for the address range of region r.
PgtEntryMatches(e, ctx, r) == e.ctx = ctx /\ 2 * e.vabase \in Units(r)

\* Mutant: the tables are put on the free list and not taken off the others.
FlushRange_not_unlinked(s, ctx, r) ==
    LET hit == {p \in Range(s.own) \cup Range(s.cache) :
                    PgtEntryMatches(s.pgt[p], ctx, r)}
    IN  [s EXCEPT !.pgt = [p \in Pgts |-> IF p \in hit THEN Unused ELSE s.pgt[p]],
                  !.free = @ \cup hit]

\* flush_ctx_range_from_list() for the thread's list and the cache list.
FlushRange(s, ctx, r) ==
    LET hit == {p \in Range(s.own) \cup Range(s.cache) :
                    PgtEntryMatches(s.pgt[p], ctx, r)}
    IN  [pgt |-> [p \in Pgts |-> IF p \in hit THEN Unused ELSE s.pgt[p]],
         free |-> s.free \cup hit,
         cache |-> Without(s.cache, hit),
         own |-> Without(s.own, hit)]

SetPool(t, s) ==
    /\ pgt' = s.pgt
    /\ freeList' = s.free
    /\ cacheList' = s.cache
    /\ tbls' = [tbls EXCEPT ![t] = s.own]

-----------------------------------------------------------------------------
(* tee_mmu_set_ctx().                                                       *)

\* The caller: a session is pushed or popped.  A context runs on one thread
\* at a time (OneThreadPerTa in TaManager.tla).
SetCtx(t, c) ==
    /\ pc[t] = "run" /\ c # tsdCtx[t]
    /\ c # NoCtx => /\ c \in live
                    /\ \A u \in Threads : c \notin {tsdCtx[u], target[u]}
    /\ target' = [target EXCEPT ![t] = c]
    /\ pc' = [pc EXCEPT ![t] = "free"]
    /\ UNCHANGED <<pgt, freeList, cacheList, tbls, tsdCtx, asleep, regions, live>>

\* Mutant: pgt_free() does not broadcast.
PgtFree_no_broadcast(t) ==
    /\ pc[t] = "free"
    /\ \E s \in {PgtFreeUnlocked(Pool(t))} : SetPool(t, s)
    /\ LET c == target[t] IN
       IF c = NoCtx \/ (c # NoCtx /\ regions[c] = {})
       THEN /\ tsdCtx' = [tsdCtx EXCEPT ![t] = c]
            /\ pc' = [pc EXCEPT ![t] = "run"]
       ELSE pc' = [pc EXCEPT ![t] = "alloc"] /\ UNCHANGED tsdCtx
    /\ UNCHANGED <<target, asleep, regions, live>>

\* pgt_free(), and the end of the function when nothing is to be mapped.
PgtFree(t) ==
    /\ pc[t] = "free"
    /\ \E s \in {PgtFreeUnlocked(Pool(t))} : SetPool(t, s)
    /\ asleep' = IF tbls[t] = <<>> THEN asleep ELSE {}
    /\ LET c == target[t] IN
       IF c = NoCtx \/ (c # NoCtx /\ regions[c] = {})
       THEN /\ tsdCtx' = [tsdCtx EXCEPT ![t] = c]
            /\ pc' = [pc EXCEPT ![t] = "run"]
       ELSE pc' = [pc EXCEPT ![t] = "alloc"] /\ UNCHANGED tsdCtx
    /\ UNCHANGED <<target, regions, live>>

\* One turn of the loop of pgt_alloc(), up to the unlock or condvar_wait():
\* pc "alloc" in tee_mmu_set_ctx(), which then writes the unpaged entries,
\* "grow" in alloc_pgt() of vm_map(), which sets the context again.
PgtAlloc(t) ==
    /\ pc[t] \in {"alloc", "grow"} /\ t \notin asleep
    /\ \E s \in {PgtFreeUnlocked(Pool(t))}, c \in {target[t]} :
       \E got \in {PopTables(s, c)} :
       \E linked \in {LinkTables(s, got, c)} :
           IF Len(got) = NumReqPgts(regions[c])
           THEN /\ \E done \in {IF pc[t] = "alloc" THEN Populate(linked, c) ELSE linked} :
                      SetPool(t, done)
                /\ tsdCtx' = [tsdCtx EXCEPT ![t] = c]
                /\ pc' = [pc EXCEPT ![t] = IF @ = "grow" THEN "free" ELSE "run"]
                /\ UNCHANGED asleep
           ELSE /\ \E left \in {PgtFreeUnlocked(linked)} : SetPool(t, left)
                /\ asleep' = {t}
                /\ UNCHANGED <<tsdCtx, pc>>
    /\ UNCHANGED <<target, regions, live>>

-----------------------------------------------------------------------------
(* vm_map_pad(), vm_unmap().                                                *)

VmMap(t, r) ==
    /\ pc[t] = "run" /\ tsdCtx[t] # NoCtx
    /\ LET c == tsdCtx[t] IN
       /\ \A q \in regions[c] : Units(q) \cap Units(r) = {}  \* umap_add_region()
       /\ NumReqPgts(regions[c] \cup {r}) <= NumPgts       \* pgt_check_avail()
       /\ regions' = [regions EXCEPT ![c] = @ \cup {r}]
    /\ pc' = [pc EXCEPT ![t] = "grow"]
    /\ UNCHANGED <<pgt, freeList, cacheList, tbls, tsdCtx, target, asleep, live>>

\* maybe_free_pgt(): the tables that no neighbour of r uses.
NoNeighbour(rs, r) ==
    LET prev == {q \in rs : q.hi < r.lo}
        next == {q \in rs : q.lo > r.hi}
        begin == IF prev = {} THEN TableOf(r.lo)
                 ELSE Max({TableOf(r.lo), TableOf(Max({q.hi : q \in prev})) + 1})
        last == IF next = {} THEN TableOf(r.hi) + 1
                ELSE Min({TableOf(r.hi) + 1, TableOf(Min({q.lo : q \in next}))})
    IN  begin < last

\* tee_pager_rem_um_region(): the pager's entries of r become invalid.
RemUmRegion(ctx, r) ==
    [p \in Pgts |-> IF pgt[p].ctx = ctx
                    THEN [pgt[p] EXCEPT !.used = @ \ Units(r)] ELSE pgt[p]]

\* Only the pager takes its entries out; the context is then set again.
\* tee_mmu_clean_param() does the same for the parameters of a call.
VmUnmap(t, r) ==
    /\ pc[t] = "run" /\ tsdCtx[t] # NoCtx
    /\ LET c == tsdCtx[t]
           s == IF r.paged THEN [Pool(t) EXCEPT !.pgt = RemUmRegion(c, r)]
                ELSE Pool(t)
       IN  /\ r \in regions[c]
           /\ IF NoNeighbour(regions[c], r)
              THEN SetPool(t, FlushRange(s, c, r)) /\ asleep' = {}
              ELSE SetPool(t, s) /\ UNCHANGED asleep
           /\ regions' = [regions EXCEPT ![c] = @ \ {r}]
    /\ pc' = [pc EXCEPT ![t] = "free"]
    /\ UNCHANGED <<tsdCtx, target, live>>

-----------------------------------------------------------------------------
(* The life of a context, and the pager.                                    *)

CreateCtx(c) ==
    /\ c \notin live
    /\ live' = live \cup {c}
    /\ UNCHANGED <<pgt, freeList, cacheList, tbls, tsdCtx, target, pc, asleep, regions>>

\* Mutant: destroy_context() leaves the cached tables.
PgtFlushCtx_skipped(c) ==
    /\ c \in live /\ \A t \in Threads : c \notin {tsdCtx[t], target[t]}
    /\ regions' = [regions EXCEPT ![c] = {}]
    /\ live' = live \ {c}
    /\ UNCHANGED <<pgt, freeList, cacheList, tbls, tsdCtx, target, pc, asleep>>

\* pgt_flush_ctx() of destroy_context(); no one is told of the free tables.
PgtFlushCtx(c) ==
    /\ c \in live /\ \A t \in Threads : c \notin {tsdCtx[t], target[t]}
    /\ LET hit == {p \in Range(cacheList) : pgt[p].ctx = c}
       IN  /\ pgt' = [p \in Pgts |-> IF p \in hit THEN Unused ELSE pgt[p]]
           /\ freeList' = freeList \cup hit
           /\ cacheList' = Without(cacheList, hit)
    /\ regions' = [regions EXCEPT ![c] = {}]
    /\ live' = live \ {c}
    /\ UNCHANGED <<tbls, tsdCtx, target, pc, asleep>>

\* tee_pager_handle_fault(): the running TA touches a page that has no entry.
PagerFault(t, u) ==
    /\ pc[t] = "run" /\ tsdCtx[t] # NoCtx
    /\ u \in PagedUnits(regions[tsdCtx[t]])
    /\ \E p \in Range(tbls[t]) :
          /\ pgt[p].vabase = TableOf(u) /\ u \notin pgt[p].used \cup pgt[p].fixed
          /\ pgt' = [pgt EXCEPT ![p].used = @ \cup {u}]
    /\ UNCHANGED <<freeList, cacheList, tbls, tsdCtx, target, pc, asleep, regions, live>>

\* The pager needs the page for somebody else.
PagerEvict(p, u) ==
    /\ u \in pgt[p].used
    /\ pgt' = [pgt EXCEPT ![p].used = @ \ {u}]
    /\ UNCHANGED <<freeList, cacheList, tbls, tsdCtx, target, pc, asleep, regions, live>>

Next ==
    \/ \E t \in Threads :
          \/ \E c \in Ctxs \cup {NoCtx} : SetCtx(t, c)
          \/ PgtFree(t) \/ PgtAlloc(t)
          \/ \E r \in Regions : VmMap(t, r) \/ VmUnmap(t, r)
          \/ \E u \in Touched : PagerFault(t, u)
    \/ \E c \in Ctxs : CreateCtx(c) \/ PgtFlushCtx(c)
    \/ \E p \in Pgts, u \in Touched : PagerEvict(p, u)

Spec == Init /\ [][Next]_vars

\* A thread inside the pool is scheduled, and a TA that was entered is left;
\* pc[t] tells the three apart, and only t changes it.
GoesOn(t) == PgtFree(t) \/ PgtAlloc(t) \/ SetCtx(t, NoCtx)

FairSpec == Spec /\ \A t \in Threads : WF_vars(GoesOn(t))

-----------------------------------------------------------------------------
(* Properties.                                                              *)

\* Types, and the pool is shared out: no table is lost and none is given to
\* two users by the free list, the cache list and the lists of the threads.
TypeOK ==
    /\ pgt \in [Pgts -> [ctx : Ctxs \cup {NoCtx}, vabase : Nat,
                         used : SUBSET Touched, fixed : SUBSET Nat]]
    /\ freeList \subseteq Pgts
    /\ cacheList \in Seq(Pgts)
    /\ tbls \in [Threads -> Seq(Pgts)]
    /\ tsdCtx \in [Threads -> Ctxs \cup {NoCtx}]
    /\ target \in [Threads -> Ctxs \cup {NoCtx}]
    /\ pc \in [Threads -> {"run", "free", "alloc", "grow"}]
    /\ asleep \subseteq Threads
    /\ regions \in [Ctxs -> SUBSET Regions]
    /\ live \subseteq Ctxs
    /\ Cardinality(Pgts) = Cardinality(freeList) + Len(cacheList)
          + Cardinality({x \in Threads \X Pgts : x[2] <= Len(tbls[x[1]])})
    /\ Pgts = freeList \cup Range(cacheList)
                 \cup UNION {Range(tbls[t]) : t \in Threads}

\* set_pg_region() walks the thread's list and the regions side by side: while
\* a TA runs, the list holds the context's own tables, one for each address
\* from the first to the last region, in that order.
RunsOnOwnTables ==
    \A t \in Threads : pc[t] = "run" /\ tsdCtx[t] # NoCtx =>
        LET c == tsdCtx[t] IN
        /\ Len(tbls[t]) = NumReqPgts(regions[c])
        /\ \A i \in DOMAIN tbls[t] :
              MatchPgt(pgt[tbls[t][i]], Bases(regions[c])[i], c)

\* A table that is kept for a context never outlives what the pager knows of
\* it: its context exists, the pager's entries are of regions that are mapped
\* there, and the context has no second table for the address.  A table on
\* the free list has none (the assert(!p->num_used_entries) of
\* pop_from_some_list()).  Of the entries of unpaged regions it says nothing.
NoStaleTable ==
    /\ \A p \in freeList : pgt[p] = Unused
    /\ \A p \in Pgts \ freeList :
          /\ pgt[p].ctx \in live
          /\ pgt[p].used \subseteq PagedUnits(regions[pgt[p].ctx])
          /\ \A q \in Pgts \ freeList : p # q =>
                ~MatchPgt(pgt[q], pgt[p].vabase, pgt[p].ctx)

\* Some paged region in rs has a part in the table of address b.
PagerShares(rs, b) == \E u \in PagedUnits(rs) : TableOf(u) = b

\* vm_unmap() does not clear the entries of an unpaged region.  They are left
\* behind in no other tables than those that a mapped paged region shares,
\* cached or in use, and until the tee_mmu_set_ctx() at the end of vm_unmap().
UnpagedEntriesConfined ==
    \A p \in Pgts \ freeList :
        \/ pgt[p].fixed \subseteq FixedUnits(regions[pgt[p].ctx])
        \/ PagerShares(regions[pgt[p].ctx], pgt[p].vabase)
        \/ \E t \in Threads : pc[t] = "free" /\ p \in Range(tbls[t])

\* "each thread should be able to allocate the needed tables in turn": when no
\* further context is entered or enlarged, each thread that waits is served.
WaiterServed ==
    <>[][\A t \in Threads : pc[t] = "run" /\ pc'[t] # "run" => target'[t] = NoCtx]_vars
        => \A t \in Threads : (t \in asleep) ~> (pc[t] = "run")
=============================================================================
