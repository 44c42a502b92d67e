------------------------------ MODULE TaManager ------------------------------
(***************************************************************************)
(* Sessions and TA contexts (core/kernel/tee_ta_manager.c) with their      *)
(* callers: the standard calls of normal world (entry_std.c), the session  *)
(* system calls of user TAs (tee_svc.c) and the entries into a TA          *)
(* (user_ta.c, pseudo_ta.c).                                               *)
(*                                                                         *)
(* A step is a section under tee_ta_mutex, a piece of code between two of  *)
(* them, or a step of a TA.  Mutex shows that such sections exclude each   *)
(* other and that a condvar wait ends only by a signal; so a wait is       *)
(* membership in waitq.  Each thread has a stack of calls: a TA that runs  *)
(* may call another TA on the same thread.                                 *)
(*                                                                         *)
(* Clients use a session only between the return of its open and their     *)
(* close of it, and close it once; unless CloseRaces, they close it only   *)
(* after their calls on it have returned, as the TEE client API asks.      *)
(* (The ids of closed sessions are used again.)  A panic() or a failed     *)
(* assert() sets fault, and the system stops; a thread stops where it      *)
(* would go through a freed context.                                       *)
(***************************************************************************)
EXTENDS Integers, Sequences, FiniteSets, FiniteSetsExt, SequencesExt

CONSTANTS Threads,      \* OP-TEE threads
          Uuids,        \* the TAs that exist
          Pseudo,       \* those that are pseudo TAs
          Flags,        \* Flags[u]: the TA_FLAG_ values in the header of u
          MayCall,      \* <<u, v>>: TA u opens sessions to TA v
          MayPanic,     \* the user TAs that may panic
          NumSessions,  \* how many sessions are opened at most
          NumCtxs,      \* how many contexts are loaded at most
          MaxId,        \* UINT32_MAX of the session ids
          CloseRaces,   \* clients close sessions that have calls in flight
          SecureDataPath, \* CFG_SECURE_DATA_PATH: check_params may refuse
          NoThread, NoCtx, NoSess

TaFlags == {"single", "multi", "keep", "concurrent"}

ASSUME TaManagerAssumption ==
    /\ IsFiniteSet(Threads) /\ NoThread \notin Threads
    /\ Uuids # {}
    /\ Pseudo \subseteq Uuids /\ MayPanic \subseteq Uuids \ Pseudo
    /\ MayCall \subseteq (Uuids \ Pseudo) \X Uuids
    /\ Flags \in [Uuids -> SUBSET TaFlags]
    /\ \A u \in Pseudo : {"single", "multi"} \subseteq Flags[u]
    /\ \A u \in Uuids \ Pseudo : "concurrent" \notin Flags[u]
    /\ NumSessions \in Nat /\ NumCtxs \in Nat
    /\ MaxId \in Nat \ {0}
    /\ CloseRaces \in BOOLEAN /\ SecureDataPath \in BOOLEAN
    /\ NoCtx \notin 1..NumCtxs /\ NoSess \notin 1..NumSessions

Sessions == 1..NumSessions      \* the session structs, in order of allocation
Ctxs == 1..NumCtxs              \* the context structs

VARIABLES
    sess,       \* sess[s]: struct tee_ta_session
    ctx,        \* ctx[c]: struct tee_ta_ctx
    ctxes,      \* tee_ctxes
    lists,      \* lists[o]: the open_sessions of owner o
    si,         \* tee_ta_single_instance_thread and _count
    waitq,      \* the threads in condvar_wait, oldest first
    stack,      \* stack[t]: the calls thread t is in, innermost last
    usable,     \* sessions their client may use
    fault       \* what stopped the core

vars == <<sess, ctx, ctxes, lists, si, waitq, stack, usable, fault>>

NW == 0                         \* owner of tee_open_sessions: normal world
Owners == {NW} \cup Ctxs

Session == [state : {"unused", "live", "freed"}, id : 0..MaxId,
            ctx : Ctxs \cup {NoCtx}, ref : Nat,
            lock : Threads \cup {NoThread}, unlink : BOOLEAN]

\* loaded stands for !is_initializing: ldelf has stored the flags.
Context == [state : {"unused", "live", "freed"}, u : Uuids, loaded : BOOLEAN,
            initializing : BOOLEAN, busy : BOOLEAN, panicked : BOOLEAN,
            ref : Nat]

\* The condition variables: tee_ta_cv and those inside the structs.
SiCv == <<"si", 0>>
BusyCv(c) == <<"busy", c>>
LockCv(s) == <<"lock", s>>
RefcCv(s) == <<"refc", s>>
Cvs == {SiCv} \cup ({"busy"} \X Ctxs) \cup ({"lock", "refc"} \X Sessions)

\* Where a call can be: the critical section or the piece of code that is next.
Pcs == {"open_init", "open_chk", "open_put", "find", "get", "wait_lock", "put",
        "inv_chk", "inv_post", "inv_destroy", "close_chk", "unlink",
        "wait_refc", "release", "busy", "wait_init", "wait_si", "wait_busy",
        "enter", "in_ta", "clear", "destroy", "drain"}

\* One call.  via tells how tee_ta_close_session treats the context.
Frame == [op : {"open", "invoke", "close", "cancel"}, pc : Pcs,
          own : Owners, u : Uuids, id : 0..MaxId,
          s : Sessions \cup {NoSess}, c : Ctxs \cup {NoCtx},
          via : {"null", "dead", "live"}, res : {"ok", "err"}]

Faults == {"none", "panic", "assert"}

AnyUuid == CHOOSE u \in Uuids : TRUE

NullSession == [state |-> "unused", id |-> 0, ctx |-> NoCtx, ref |-> 0,
                lock |-> NoThread, unlink |-> FALSE]

NullContext == [state |-> "unused", u |-> AnyUuid, loaded |-> FALSE,
                initializing |-> FALSE, busy |-> FALSE,
                panicked |-> FALSE, ref |-> 0]

Init ==
    /\ sess = [s \in Sessions |-> NullSession]
    /\ ctx = [c \in Ctxs |-> NullContext]
    /\ ctxes = <<>>
    /\ lists = [o \in Owners |-> <<>>]
    /\ si = [thread |-> NoThread, count |-> 0]
    /\ waitq = <<>>
    /\ stack = [t \in Threads |-> <<>>]
    /\ usable = {}
    /\ fault = "none"

-----------------------------------------------------------------------------
(* Helpers.                                                                *)

\* ctx->flags: 0 until ldelf has run.
CtxFlags(c) == IF ctx[c].loaded THEN Flags[ctx[c].u] ELSE {}

Top(t) == stack[t][Len(stack[t])]

Waiting(t) == \E i \in 1..Len(waitq) : waitq[i].t = t

\* t runs the call whose innermost frame is at pc.
At(t, pc) ==
    /\ fault = "none" /\ stack[t] # <<>> /\ ~Waiting(t)
    /\ Top(t).pc = pc

SetTop(t, f) == stack' = [stack EXCEPT ![t] = [@ EXCEPT ![Len(@)] = f]]
Goto(t, pc) == SetTop(t, [Top(t) EXCEPT !.pc = pc])

\* The call returns; a TA learns, or normal world learns, the outcome.
Return(t) == stack' = [stack EXCEPT ![t] = Front(@)]

\* assert(P)
CAssert(P) == fault' = IF P THEN fault ELSE "assert"

Wait(q, t, cv) == Append(q, [t |-> t, cv |-> cv])

\* List s with the elements of S taken out (TAILQ_REMOVE).
Without(s, S) ==
    LET Left[i \in 0..Len(s)] ==
          IF i = 0 THEN <<>>
          ELSE IF s[i] \in S THEN Left[i - 1] ELSE Append(Left[i - 1], s[i])
    IN  Left[Len(s)]

\* condvar_signal promotes the oldest waiter, condvar_broadcast all of them.
Signal(q, cv) ==
    IF \E i \in 1..Len(q) : q[i].cv = cv
    THEN RemoveAt(q, CHOOSE i \in 1..Len(q) :
                        q[i].cv = cv /\ \A j \in 1..(i - 1) : q[j].cv # cv)
    ELSE q

Broadcast(q, cv) == Without(q, {w \in Range(q) : w.cv = cv})

\* tee_ta_find_session_nolock: the first session of the list with that id.
FindIn(list, id) ==
    IF \E i \in 1..Len(list) : sess[list[i]].id = id
    THEN list[CHOOSE i \in 1..Len(list) :
                 /\ sess[list[i]].id = id
                 /\ \A j \in 1..(i - 1) : sess[list[j]].id # id]
    ELSE NoSess

SessRef(s, n) == [sess EXCEPT ![s].ref = @ + n]

\* dec_session_ref_count signals refc_cv when one reference is left.
SignalRefc(q, s) == IF sess[s].ref - 1 = 1 THEN Signal(q, RefcCv(s)) ELSE q

\* Where the frame dereferences a context, and which one: the local ctx of
\* tee_ta_open_session and tee_ta_close_session, or sess->ctx read anew.
Deref(f) ==
    IF f.pc = "enter" \/ (f.op = "invoke" /\ f.pc \in {"clear", "inv_post",
                                                        "inv_destroy"})
    THEN sess[f.s].ctx
    ELSE f.c

DerefPcs == {"busy", "wait_init", "wait_si", "wait_busy", "enter", "clear",
             "inv_post", "inv_destroy", "open_put", "release"}

Valid(t) == Top(t).pc \in DerefPcs =>
               Deref(Top(t)) # NoCtx /\ ctx[Deref(Top(t))].state = "live"

-----------------------------------------------------------------------------
(* Calls by clients: normal world on an idle thread, or a TA that runs.    *)

CanCall(t) ==
    /\ fault = "none" /\ ~Waiting(t)
    /\ stack[t] # <<>> => Top(t).pc = "in_ta"

Caller(t) == IF stack[t] = <<>> THEN NW ELSE Top(t).c

Call(op, own, u, id) ==
    [op |-> op, pc |-> CASE op = "open" -> "open_init"
                         [] op = "close" -> "find"
                         [] OTHER -> "get",
     own |-> own, u |-> u, id |-> id, s |-> NoSess, c |-> NoCtx,
     via |-> "null", res |-> "ok"]

Push(t, f) == stack' = [stack EXCEPT ![t] = Append(@, f)]

\* entry_open_session, syscall_open_ta_session
CallOpen(t) ==
    /\ CanCall(t)
    /\ \E u \in Uuids :
          /\ Caller(t) # NW => <<ctx[Caller(t)].u, u>> \in MayCall
          /\ Push(t, Call("open", Caller(t), u, 0))
    /\ UNCHANGED <<sess, ctx, ctxes, lists, si, waitq, usable, fault>>

\* entry_invoke_command, entry_cancel, syscall_invoke_ta_command
CallInvoke(t) ==
    /\ CanCall(t)
    /\ \E s \in usable, op \in {"invoke", "cancel"} :
          /\ s \in Range(lists[Caller(t)])
          /\ op = "cancel" => Caller(t) = NW
          /\ Push(t, Call(op, Caller(t), AnyUuid, sess[s].id))
    /\ UNCHANGED <<sess, ctx, ctxes, lists, si, waitq, usable, fault>>

\* entry_close_session, syscall_close_ta_session
CallClose(t) ==
    /\ CanCall(t)
    /\ \E s \in usable :
          /\ s \in Range(lists[Caller(t)])
          /\ CloseRaces \/ \A v \in Threads : \A i \in 1..Len(stack[v]) :
                \/ stack[v][i].op = "open"
                \/ stack[v][i].own # Caller(t) \/ stack[v][i].id # sess[s].id
          /\ Push(t, Call("close", Caller(t), AnyUuid, sess[s].id))
          /\ usable' = usable \ {s}
    /\ UNCHANGED <<sess, ctx, ctxes, lists, si, waitq, fault>>

-----------------------------------------------------------------------------
(* tee_ta_init_session and the rest of tee_ta_open_session.                *)

\* new_session_id: the first free id from the last one on, never 0.
NewId(list) ==
    LET last == IF list = <<>> THEN 0 ELSE sess[Last(list)].id
        start == IF last = MaxId THEN 0 ELSE last
        id(k) == IF start + k < MaxId THEN start + k + 1
                                      ELSE start + k + 1 - MaxId
        free == {k \in 0..(MaxId - 1) : FindIn(list, id(k)) = NoSess}
    IN  IF free = {} THEN 0 ELSE id(Min(free))

\* tee_ta_context_find
CtxFind(u) ==
    LET found == {i \in 1..Len(ctxes) : ctx[ctxes[i]].u = u}
    IN  IF found = {} THEN NoCtx ELSE ctxes[Min(found)]

\* tee_ta_init_session_with_context refuses a context it cannot share.
Shareable(c) == c # NoCtx /\ "single" \in CtxFlags(c)

UnusedSess == {s \in Sessions : sess[s].state = "unused"}
UnusedCtx == {c \in Ctxs : ctx[c].state = "unused"}

\* A new session on context c, linked last in the list of its owner.
NewSession(t, c) ==
    LET f == Top(t)
        s == Min(UnusedSess)
    IN  /\ UnusedSess # {} /\ NewId(lists[f.own]) # 0
        /\ sess' = [sess EXCEPT ![s] = [NullSession EXCEPT !.state = "live",
                                          !.id = NewId(lists[f.own]),
                                          !.ctx = c, !.ref = 1]]
        /\ lists' = [lists EXCEPT ![f.own] = Append(@, s)]
        /\ SetTop(t, [f EXCEPT !.s = s, !.pc = "open_chk"])

\* Mutant: ref_count is not incremented.
OpenReuse_no_ref(t) ==
    /\ At(t, "open_init")
    /\ LET c == CtxFind(Top(t).u)
       IN  /\ Shareable(c)
           /\ "multi" \in CtxFlags(c) \/ ctx[c].ref = 0
           /\ UNCHANGED ctx
           /\ NewSession(t, c)
    /\ UNCHANGED <<ctxes, si, waitq, usable, fault>>

OpenReuse(t) ==
    /\ At(t, "open_init")
    /\ LET c == CtxFind(Top(t).u)
       IN  /\ Shareable(c)
           /\ "multi" \in CtxFlags(c) \/ ctx[c].ref = 0
           /\ ctx' = [ctx EXCEPT ![c].ref = @ + 1]
           /\ NewSession(t, c)
    /\ UNCHANGED <<ctxes, si, waitq, usable, fault>>

\* tee_ta_init_pseudo_ta_session, tee_ta_init_user_ta_session
OpenLoad(t) ==
    /\ At(t, "open_init") /\ ~Shareable(CtxFind(Top(t).u)) /\ UnusedCtx # {}
    /\ LET c == Min(UnusedCtx)
           u == Top(t).u
       IN  /\ ctx' = [ctx EXCEPT ![c] = [NullContext EXCEPT !.state = "live",
                                            !.u = u, !.ref = 1,
                                            !.loaded = (u \in Pseudo),
                                            !.initializing = (u \notin Pseudo)]]
           /\ ctxes' = Append(ctxes, c)
           /\ NewSession(t, c)
    /\ UNCHANGED <<si, waitq, usable, fault>>

\* No memory, no id, no such TA, or TEE_ERROR_BUSY: s is unlinked and freed
\* before the mutex is released.
OpenFails(t) ==
    /\ At(t, "open_init")
    /\ Return(t)
    /\ UNCHANGED <<sess, ctx, ctxes, lists, si, waitq, usable, fault>>

\* The frame of tee_ta_close_session(s, list, KERN_IDENTITY) called last.
CloseInstead(f) ==
    [f EXCEPT !.op = "close", !.pc = "get", !.id = sess[f.s].id, !.res = "err"]

OpenChk(t) ==
    /\ At(t, "open_chk")
    /\ LET f == Top(t)
           c == sess[f.s].ctx
       IN  IF c = NoCtx \/ ctx[c].panicked
           THEN SetTop(t, CloseInstead(f))
           ELSE SetTop(t, [f EXCEPT !.c = c, !.pc = "busy"])
    /\ UNCHANGED <<sess, ctx, ctxes, lists, si, waitq, usable, fault>>

\* check_params refuses a secure buffer: tee_ta_open_session returns, and the
\* session it has made stays linked and referenced; an invoke puts its session.
CheckParamsFails(t) ==
    /\ SecureDataPath
    /\ \/ At(t, "open_chk") /\ Return(t)
       \/ At(t, "inv_chk") /\ Goto(t, "put")
    /\ UNCHANGED <<sess, ctx, ctxes, lists, si, waitq, usable, fault>>

\* tee_ta_put_session of the opener, then success or the close.
OpenPut(t) ==
    /\ At(t, "open_put") /\ Valid(t)
    /\ LET f == Top(t)
       IN  /\ sess' = SessRef(f.s, -1)
           /\ waitq' = SignalRefc(waitq, f.s)
           /\ IF ctx[f.c].panicked \/ f.res = "err"
              THEN SetTop(t, CloseInstead(f)) /\ UNCHANGED usable
              ELSE Return(t) /\ usable' = usable \cup {f.s}
    /\ UNCHANGED <<ctx, ctxes, lists, si, fault>>

-----------------------------------------------------------------------------
(* tee_ta_try_set_busy and tee_ta_clear_busy.                              *)

Single(c) == "single" \in CtxFlags(c)

\* t is past "wait until it's initialized".
PastInit(t) ==
    LET c == Top(t).c
    IN  \/ At(t, "busy") /\ ~(ctx[c].initializing /\ ctx[c].busy)
        \/ At(t, "wait_init") /\ ~ctx[c].busy

WaitOn(t, pc, cv) ==
    /\ Goto(t, pc)
    /\ waitq' = Wait(waitq, t, cv)
    /\ UNCHANGED <<sess, ctx, ctxes, lists, si, usable, fault>>

\* TA_FLAG_CONCURRENT: there is nothing to set.
BusyConcurrent(t) ==
    /\ At(t, "busy") /\ Valid(t) /\ "concurrent" \in CtxFlags(Top(t).c)
    /\ Goto(t, "enter")
    /\ UNCHANGED <<sess, ctx, ctxes, lists, si, waitq, usable, fault>>

Exclusive(t) ==
    /\ \E pc \in {"busy", "wait_init", "wait_si", "wait_busy"} : At(t, pc)
    /\ Valid(t) /\ "concurrent" \notin CtxFlags(Top(t).c)

BusyWait(t) ==
    LET c == Top(t).c
    IN  /\ Exclusive(t) /\ ctx[c].busy
        /\ \/ /\ \/ At(t, "busy") /\ ctx[c].initializing
                 \/ At(t, "wait_init")
              /\ WaitOn(t, "wait_init", BusyCv(c))
           \/ /\ \/ PastInit(t) /\ ~Single(c) /\ si.thread # t
                 \/ At(t, "wait_busy")
              /\ WaitOn(t, "wait_busy", BusyCv(c))

SiWait(t) ==
    LET c == Top(t).c
    IN  /\ Exclusive(t)
        /\ (PastInit(t) /\ Single(c)) \/ At(t, "wait_si")
        /\ si.thread \notin {NoThread, t}
        /\ WaitOn(t, "wait_si", SiCv)

\* The single-instance lock is free, or t has it already.
SiReady(t) ==
    /\ (PastInit(t) /\ Single(Top(t).c)) \/ At(t, "wait_si")
    /\ si.thread \in {NoThread, t}

\* Mutant: ctx->busy is not set.
BusyGranted_not_marked(t) ==
    LET c == Top(t).c
    IN  /\ Exclusive(t) /\ ~ctx[c].busy
        /\ \/ SiReady(t) /\ si' = [thread |-> t, count |-> si.count + 1]
           \/ PastInit(t) /\ ~Single(c) /\ UNCHANGED si
           \/ At(t, "wait_busy") /\ UNCHANGED si
        /\ UNCHANGED ctx
        /\ Goto(t, "enter")
        /\ UNCHANGED <<sess, ctxes, lists, waitq, usable, fault>>

BusyGranted(t) ==
    LET c == Top(t).c
    IN  /\ Exclusive(t) /\ ~ctx[c].busy
        /\ \/ SiReady(t) /\ si' = [thread |-> t, count |-> si.count + 1]
           \/ PastInit(t) /\ ~Single(c) /\ UNCHANGED si
           \/ At(t, "wait_busy") /\ UNCHANGED si
        /\ ctx' = [ctx EXCEPT ![c].busy = TRUE]
        /\ Goto(t, "enter")
        /\ UNCHANGED <<sess, ctxes, lists, waitq, usable, fault>>

\* t has the single-instance lock and the TA is busy: waiting would be a
\* dead-lock.  tee_ta_open_session goes on, tee_ta_set_busy panics.
BusyRefused(t) ==
    LET c == Top(t).c
    IN  /\ Exclusive(t) /\ ctx[c].busy
        /\ SiReady(t) \/ (PastInit(t) /\ ~Single(c) /\ si.thread = t)
        /\ IF si.thread = NoThread      \* locked and unlocked again
           THEN waitq' = Signal(waitq, SiCv)
           ELSE UNCHANGED waitq
        /\ fault' = IF Top(t).op = "open" THEN fault ELSE "panic"
        /\ SetTop(t, [Top(t) EXCEPT !.pc = "open_put", !.res = "err"])
        /\ UNCHANGED <<sess, ctx, ctxes, lists, si, usable>>

\* After tee_ta_clear_busy each function goes on by itself.
AfterClear(op) == CASE op = "open" -> "open_put"
                    [] op = "invoke" -> "inv_post"
                    [] op = "close" -> "release"

ClearConcurrent(t) ==
    /\ At(t, "clear") /\ Valid(t) /\ "concurrent" \in CtxFlags(Deref(Top(t)))
    /\ Goto(t, AfterClear(Top(t).op))
    /\ UNCHANGED <<sess, ctx, ctxes, lists, si, waitq, usable, fault>>

\* Mutant: the first unlock_single_instance frees the lock.
ClearBusy_not_recursive(t) ==
    /\ At(t, "clear") /\ Valid(t)
    /\ LET c == Deref(Top(t))
           unlock == ~ctx[c].initializing /\ Single(c)
           last == unlock
           q == Signal(waitq, BusyCv(c))
       IN  /\ "concurrent" \notin CtxFlags(c)
           /\ CAssert(ctx[c].busy /\ (unlock => si.thread = t /\ si.count > 0))
           /\ ctx' = [ctx EXCEPT ![c].busy = FALSE, ![c].initializing = FALSE]
           /\ si' = [thread |-> IF last THEN NoThread ELSE si.thread,
                     count |-> IF unlock THEN 0 ELSE si.count]
           /\ waitq' = IF last THEN Signal(q, SiCv) ELSE q
    /\ Goto(t, AfterClear(Top(t).op))
    /\ UNCHANGED <<sess, ctxes, lists, usable>>

\* Mutant: tee_ta_cv is not signalled.
ClearBusy_no_si_signal(t) ==
    /\ At(t, "clear") /\ Valid(t)
    /\ LET c == Deref(Top(t))
           unlock == ~ctx[c].initializing /\ Single(c)
           last == unlock /\ si.count = 1
           q == Signal(waitq, BusyCv(c))
       IN  /\ "concurrent" \notin CtxFlags(c)
           /\ CAssert(ctx[c].busy /\ (unlock => si.thread = t /\ si.count > 0))
           /\ ctx' = [ctx EXCEPT ![c].busy = FALSE, ![c].initializing = FALSE]
           /\ si' = [thread |-> IF last THEN NoThread ELSE si.thread,
                     count |-> IF unlock /\ si.count > 0 THEN si.count - 1
                                                       ELSE si.count]
           /\ waitq' = q
    /\ Goto(t, AfterClear(Top(t).op))
    /\ UNCHANGED <<sess, ctxes, lists, usable>>

ClearBusy(t) ==
    /\ At(t, "clear") /\ Valid(t)
    /\ LET c == Deref(Top(t))
           unlock == ~ctx[c].initializing /\ Single(c)
           last == unlock /\ si.count = 1
           q == Signal(waitq, BusyCv(c))
       IN  /\ "concurrent" \notin CtxFlags(c)
           /\ CAssert(ctx[c].busy /\ (unlock => si.thread = t /\ si.count > 0))
           /\ ctx' = [ctx EXCEPT ![c].busy = FALSE, ![c].initializing = FALSE]
           /\ si' = [thread |-> IF last THEN NoThread ELSE si.thread,
                     count |-> IF unlock /\ si.count > 0 THEN si.count - 1
                                                       ELSE si.count]
           /\ waitq' = IF last THEN Signal(q, SiCv) ELSE q
    /\ Goto(t, AfterClear(Top(t).op))
    /\ UNCHANGED <<sess, ctxes, lists, usable>>

-----------------------------------------------------------------------------
(* Running a TA: ops->enter_open_session, enter_invoke_cmd and             *)
(* enter_close_session, user or pseudo.                                    *)

LeaveTa(f) == IF f.op = "close" THEN "unlink" ELSE "clear"

\* An open of a TA that is not loaded runs ldelf first; a close skips it.
EnterTa(t) ==
    /\ At(t, "enter") /\ Valid(t)
    /\ LET f == Top(t)
           c == sess[f.s].ctx
       IN  \/ /\ ctx[c].loaded \/ f.op = "open"
              /\ ctx' = [ctx EXCEPT ![c].loaded = TRUE]
              /\ Goto(t, "in_ta")
           \/ /\ ~ctx[c].loaded        \* ldelf fails, or nothing to close
              /\ SetTop(t, [f EXCEPT !.pc = LeaveTa(f), !.res = "err"])
              /\ UNCHANGED ctx
    /\ UNCHANGED <<sess, ctxes, lists, si, waitq, usable, fault>>

\* The TA returns success or an error, or it panics.
TaReturn(t) ==
    /\ At(t, "in_ta")
    /\ \E res \in {"ok", "err"} :
          SetTop(t, [Top(t) EXCEPT !.pc = LeaveTa(Top(t)),
                                   !.res = IF Top(t).op = "open" THEN res ELSE @])
    /\ UNCHANGED <<sess, ctx, ctxes, lists, si, waitq, usable, fault>>

TaPanic(t) ==
    /\ At(t, "in_ta") /\ ctx[Top(t).c].u \in MayPanic
    /\ ctx' = [ctx EXCEPT ![Top(t).c].panicked = TRUE]
    /\ SetTop(t, [Top(t) EXCEPT !.pc = LeaveTa(Top(t)), !.res = "err"])
    /\ UNCHANGED <<sess, ctxes, lists, si, waitq, usable, fault>>

-----------------------------------------------------------------------------
(* References to sessions.                                                 *)

\* entry_close_session looks the session up before it closes it.
Find(t) ==
    /\ At(t, "find")
    /\ IF FindIn(lists[Top(t).own], Top(t).id) = NoSess
       THEN Return(t)
       ELSE Goto(t, "get")
    /\ UNCHANGED <<sess, ctx, ctxes, lists, si, waitq, usable, fault>>

AfterGet(op) == CASE op = "invoke" -> "inv_chk"
                  [] op = "close" -> "close_chk"
                  [] op = "cancel" -> "put"

\* tee_ta_get_session: not there or being unlinked ...
GetNothing(t) ==
    /\ At(t, "get")
    /\ LET s == FindIn(lists[Top(t).own], Top(t).id)
       IN  s # NoSess => sess[s].unlink
    /\ Return(t)
    /\ UNCHANGED <<sess, ctx, ctxes, lists, si, waitq, usable, fault>>

\* Mutant: the lock of another thread is taken over.
Get_ignores_lock(t) ==
    /\ At(t, "get")
    /\ LET f == Top(t)
           s == FindIn(lists[f.own], f.id)
           exclusive == f.op # "cancel"
       IN  /\ s # NoSess /\ ~sess[s].unlink
           /\ CAssert(exclusive => sess[s].lock # t)
           /\ IF exclusive /\ FALSE
              THEN /\ sess' = SessRef(s, 1)
                   /\ waitq' = Wait(waitq, t, LockCv(s))
                   /\ SetTop(t, [f EXCEPT !.s = s, !.pc = "wait_lock"])
              ELSE /\ sess' = [sess EXCEPT ![s].ref = @ + 1,
                                  ![s].lock = IF exclusive THEN t ELSE @]
                   /\ SetTop(t, [f EXCEPT !.s = s, !.pc = AfterGet(f.op)])
                   /\ UNCHANGED waitq
    /\ UNCHANGED <<ctx, ctxes, lists, si, usable>>

\* ... or a reference is taken, and with exclusive the lock, or the thread
\* waits for it.
Get(t) ==
    /\ At(t, "get")
    /\ LET f == Top(t)
           s == FindIn(lists[f.own], f.id)
           exclusive == f.op # "cancel"
       IN  /\ s # NoSess /\ ~sess[s].unlink
           /\ CAssert(exclusive => sess[s].lock # t)
           /\ IF exclusive /\ sess[s].lock # NoThread
              THEN /\ sess' = SessRef(s, 1)
                   /\ waitq' = Wait(waitq, t, LockCv(s))
                   /\ SetTop(t, [f EXCEPT !.s = s, !.pc = "wait_lock"])
              ELSE /\ sess' = [sess EXCEPT ![s].ref = @ + 1,
                                  ![s].lock = IF exclusive THEN t ELSE @]
                   /\ SetTop(t, [f EXCEPT !.s = s, !.pc = AfterGet(f.op)])
                   /\ UNCHANGED waitq
    /\ UNCHANGED <<ctx, ctxes, lists, si, usable>>

\* Mutant: a thread turned away keeps its reference.
GetWoken_keeps_ref(t) ==
    /\ At(t, "wait_lock")
    /\ LET f == Top(t)
           s == f.s
       IN  CASE sess[s].unlink ->
                   /\ UNCHANGED sess
                   /\ UNCHANGED waitq
                   /\ Return(t)
             [] ~sess[s].unlink /\ sess[s].lock # NoThread ->
                   /\ waitq' = Wait(waitq, t, LockCv(s))
                   /\ UNCHANGED <<sess, stack>>
             [] OTHER ->
                   /\ sess' = [sess EXCEPT ![s].lock = t]
                   /\ Goto(t, AfterGet(f.op))
                   /\ UNCHANGED waitq
    /\ UNCHANGED <<ctx, ctxes, lists, si, usable, fault>>

\* The thread that waited for the lock was signalled.
GetWoken(t) ==
    /\ At(t, "wait_lock")
    /\ LET f == Top(t)
           s == f.s
       IN  CASE sess[s].unlink ->
                   /\ sess' = SessRef(s, -1)
                   /\ waitq' = SignalRefc(waitq, s)
                   /\ Return(t)
             [] ~sess[s].unlink /\ sess[s].lock # NoThread ->
                   /\ waitq' = Wait(waitq, t, LockCv(s))
                   /\ UNCHANGED <<sess, stack>>
             [] OTHER ->
                   /\ sess' = [sess EXCEPT ![s].lock = t]
                   /\ Goto(t, AfterGet(f.op))
                   /\ UNCHANGED waitq
    /\ UNCHANGED <<ctx, ctxes, lists, si, usable, fault>>

\* Mutant: the session is put twice.
Put_twice(t) ==
    /\ At(t, "put")
    /\ LET s == Top(t).s
           mine == sess[s].lock = t
       IN  /\ sess' = [sess EXCEPT ![s].ref = @ - 2,
                                   ![s].lock = IF mine THEN NoThread ELSE @]
           /\ waitq' = SignalRefc(IF mine THEN Signal(waitq, LockCv(s))
                                          ELSE waitq, s)
    /\ Return(t)
    /\ UNCHANGED <<ctx, ctxes, lists, si, usable, fault>>

\* tee_ta_put_session of an invoke or a cancel.
Put(t) ==
    /\ At(t, "put")
    /\ LET s == Top(t).s
           mine == sess[s].lock = t
       IN  /\ sess' = [sess EXCEPT ![s].ref = @ - 1,
                                   ![s].lock = IF mine THEN NoThread ELSE @]
           /\ waitq' = SignalRefc(IF mine THEN Signal(waitq, LockCv(s))
                                          ELSE waitq, s)
    /\ Return(t)
    /\ UNCHANGED <<ctx, ctxes, lists, si, usable, fault>>

-----------------------------------------------------------------------------
(* tee_ta_invoke_command.                                                  *)

InvChk(t) ==
    /\ At(t, "inv_chk")
    /\ LET f == Top(t)
           c == sess[f.s].ctx
       IN  SetTop(t, [f EXCEPT !.c = c,
                        !.pc = CASE c = NoCtx -> "put"
                                 [] c # NoCtx /\ ctx[c].panicked -> "inv_destroy"
                                 [] OTHER -> "busy"])
    /\ UNCHANGED <<sess, ctx, ctxes, lists, si, waitq, usable, fault>>

InvPost(t) ==
    /\ At(t, "inv_post") /\ Valid(t)
    /\ Goto(t, IF ctx[Deref(Top(t))].panicked THEN "inv_destroy" ELSE "put")
    /\ UNCHANGED <<sess, ctx, ctxes, lists, si, waitq, usable, fault>>

\* The sessions of normal world and of the TAs that refer to context c.
Referring(c) ==
    {s \in Sessions : sess[s].ctx = c /\
        \E o \in {NW} \cup Range(ctxes) : s \in Range(lists[o])}

\* destroy_ta_ctx_from_session under the mutex.
DestroyTaCtx(t) ==
    /\ At(t, "inv_destroy") /\ Valid(t)
    /\ LET s == Top(t).s
           c == sess[s].ctx
           others == Referring(c) \ {s}
       IN  /\ CAssert(Cardinality(others) + 1 = ctx[c].ref)
           /\ sess' = [r \in Sessions |-> IF r \in others
                          THEN [sess[r] EXCEPT !.ctx = NoCtx] ELSE sess[r]]
           /\ ctxes' = Without(ctxes, {c})
           /\ SetTop(t, [Top(t) EXCEPT !.c = c, !.pc = "destroy"])
    /\ UNCHANGED <<ctx, lists, si, waitq, usable>>

-----------------------------------------------------------------------------
(* tee_ta_close_session.                                                   *)

CloseChk(t) ==
    /\ At(t, "close_chk")
    /\ LET f == Top(t)
           c == sess[f.s].ctx
           via == CASE c = NoCtx -> "null"
                    [] c # NoCtx /\ ctx[c].panicked -> "dead"
                    [] OTHER -> "live"
       IN  SetTop(t, [f EXCEPT !.c = c, !.via = via,
                        !.pc = IF via = "live" THEN "busy" ELSE "unlink"])
    /\ UNCHANGED <<sess, ctx, ctxes, lists, si, waitq, usable, fault>>

\* Take the session off its list and free it.
FreeSession(t) ==
    LET f == Top(t)
    IN  /\ lists' = [lists EXCEPT ![f.own] = Without(@, {f.s})]
        /\ IF f.via = "null"
           THEN Return(t)
           ELSE Goto(t, IF f.via = "live" THEN "clear" ELSE "release")

\* tee_ta_unlink_session: turn the waiters away, wait for the last reference.
Unlink(t) ==
    /\ At(t, "unlink")
    /\ LET s == Top(t).s
           q == Broadcast(waitq, LockCv(s))
           unlinked == [sess EXCEPT ![s].unlink = TRUE]
       IN  /\ CAssert(sess[s].ref >= 1 /\ sess[s].lock = t /\ ~sess[s].unlink)
           /\ IF sess[s].ref > 1
              THEN /\ sess' = unlinked
                   /\ waitq' = Wait(q, t, RefcCv(s))
                   /\ Goto(t, "wait_refc")
                   /\ UNCHANGED lists
              ELSE /\ sess' = [unlinked EXCEPT ![s].state = "freed"]
                   /\ waitq' = q
                   /\ FreeSession(t)
    /\ UNCHANGED <<ctx, ctxes, si, usable>>

UnlinkWoken(t) ==
    /\ At(t, "wait_refc")
    /\ LET s == Top(t).s
       IN  IF sess[s].ref # 1
           THEN waitq' = Wait(waitq, t, RefcCv(s)) /\ UNCHANGED <<sess, lists, stack>>
           ELSE /\ sess' = [sess EXCEPT ![s].state = "freed"]
                /\ FreeSession(t)
                /\ UNCHANGED waitq
    /\ UNCHANGED <<ctx, ctxes, si, usable, fault>>

\* The context loses a reference and goes with the last one.
Release(t) ==
    /\ At(t, "release") /\ Valid(t)
    /\ LET c == Top(t).c
           keep_alive == {"keep", "single"} \subseteq CtxFlags(c)
       IN  /\ fault' = IF ctx[c].ref = 0 THEN "panic" ELSE fault
           /\ ctx' = [ctx EXCEPT ![c].ref = @ - 1]
           /\ IF ctx[c].ref = 1 /\ ~keep_alive
              THEN /\ ctxes' = Without(ctxes, {c})
                   /\ Goto(t, "destroy")
              ELSE Return(t) /\ UNCHANGED ctxes
    /\ UNCHANGED <<sess, lists, si, waitq, usable>>

-----------------------------------------------------------------------------
(* destroy_context: condvar_destroy, then ops->destroy.                    *)

Destroy(t) ==
    /\ At(t, "destroy")
    /\ fault' = IF \E w \in Range(waitq) : w.cv = BusyCv(Top(t).c)
                THEN "panic" ELSE fault
    /\ Goto(t, "drain")
    /\ UNCHANGED <<sess, ctx, ctxes, lists, si, waitq, usable>>

\* free_utc closes the sessions the TA has opened, one after the other ...
Drain(t) ==
    /\ At(t, "drain") /\ lists[Top(t).c] # <<>>
    /\ LET c == Top(t).c
           s == Head(lists[c])
       IN  /\ Push(t, [Call("close", c, ctx[c].u, sess[s].id) EXCEPT !.pc = "get"])
           /\ usable' = usable \ {s}
    /\ UNCHANGED <<sess, ctx, ctxes, lists, si, waitq, fault>>

\* Mutant: free_utc does not close the sessions of the TA.
FreeCtx_leaks_sessions(t) ==
    /\ At(t, "drain")
    /\ ctx' = [ctx EXCEPT ![Top(t).c].state = "freed"]
    /\ IF Top(t).op = "invoke"
       THEN Goto(t, "put") /\ sess' = [sess EXCEPT ![Top(t).s].ctx = NoCtx]
       ELSE Return(t) /\ UNCHANGED sess
    /\ UNCHANGED <<ctxes, lists, si, waitq, usable, fault>>

\* Mutant: s->ctx is not cleared.
FreeCtx_keeps_pointer(t) ==
    /\ At(t, "drain") /\ lists[Top(t).c] = <<>>
    /\ ctx' = [ctx EXCEPT ![Top(t).c].state = "freed"]
    /\ IF Top(t).op = "invoke"
       THEN Goto(t, "put") /\ UNCHANGED sess
       ELSE Return(t) /\ UNCHANGED sess
    /\ UNCHANGED <<ctxes, lists, si, waitq, usable, fault>>

\* ... and frees the context.  destroy_ta_ctx_from_session clears s->ctx last.
FreeCtx(t) ==
    /\ At(t, "drain") /\ lists[Top(t).c] = <<>>
    /\ ctx' = [ctx EXCEPT ![Top(t).c].state = "freed"]
    /\ IF Top(t).op = "invoke"
       THEN Goto(t, "put") /\ sess' = [sess EXCEPT ![Top(t).s].ctx = NoCtx]
       ELSE Return(t) /\ UNCHANGED sess
    /\ UNCHANGED <<ctxes, lists, si, waitq, usable, fault>>

-----------------------------------------------------------------------------

Step(t) ==
    \/ OpenReuse(t) \/ OpenLoad(t) \/ OpenFails(t) \/ OpenChk(t) \/ OpenPut(t)
    \/ BusyConcurrent(t) \/ BusyWait(t) \/ SiWait(t) \/ BusyGranted(t)
    \/ BusyRefused(t) \/ ClearConcurrent(t) \/ ClearBusy(t)
    \/ EnterTa(t) \/ TaReturn(t) \/ TaPanic(t)
    \/ Find(t) \/ GetNothing(t) \/ Get(t) \/ GetWoken(t) \/ Put(t)
    \/ InvChk(t) \/ InvPost(t) \/ DestroyTaCtx(t)
    \/ CloseChk(t) \/ Unlink(t) \/ UnlinkWoken(t) \/ Release(t)
    \/ Destroy(t) \/ Drain(t) \/ FreeCtx(t) \/ CheckParamsFails(t)

Next == \E t \in Threads :
    Step(t) \/ CallOpen(t) \/ CallInvoke(t) \/ CallClose(t)

Spec == Init /\ [][Next]_vars

\* Normal world resumes every thread again and again, so a thread that can
\* run does; a TA that is entered returns in the end.
Fairness == \A t \in Threads : WF_vars(Step(t)) /\ SF_vars(TaReturn(t))

FairSpec == Spec /\ Fairness

-----------------------------------------------------------------------------
(* Properties.                                                             *)

\* Types, and the ids by which sessions are looked up: those in a list are
\* different, none of them 0.
TypeOK ==
    /\ sess \in [Sessions -> Session]
    /\ ctx \in [Ctxs -> Context]
    /\ ctxes \in Seq(Ctxs)
    /\ lists \in [Owners -> Seq(Sessions)]
    /\ si \in [thread : Threads \cup {NoThread}, count : Nat]
    /\ waitq \in Seq([t : Threads, cv : Cvs])
    /\ stack \in [Threads -> Seq(Frame)]
    /\ usable \subseteq Sessions
    /\ fault \in Faults
    /\ \A o \in Owners : \A i, j \in 1..Len(lists[o]) :
          /\ sess[lists[o][i]].id # 0
          /\ sess[lists[o][i]].id = sess[lists[o][j]].id => i = j

\* No thread is about to go through a context another one has destroyed.
NoDanglingCtx ==
    fault = "none" => \A t \in Threads :
        stack[t] # <<>> /\ ~Waiting(t) => Valid(t)

Frames(t) == {stack[t][i] : i \in 1..Len(stack[t])}

\* The frames <<t, i>> for which P holds.
FramesWith(P(_)) ==
    UNION {{<<t, i>> : i \in {j \in 1..Len(stack[t]) : P(stack[t][j])}}
              : t \in Threads}

\* f has set the busy flag of its context and not cleared it yet.
HoldsBusy(f) ==
    \/ f.pc \in {"enter", "in_ta", "clear"}
    \/ f.pc \in {"unlink", "wait_refc"} /\ f.via = "live"

\* ctx->ref_count of a loaded context is the number of sessions on it, those
\* included that tee_ta_close_session freed before it drops their reference.
\* destroy_ta_ctx_from_session and the last close rely on it.
CtxRefsMatchSessions ==
    fault = "none" => \A c \in Range(ctxes) :
        ctx[c].ref =
            Cardinality({s \in Sessions : sess[s].state = "live" /\ sess[s].ctx = c})
            + Cardinality(FramesWith(LAMBDA f :
                 f.op = "close" /\ f.c = c /\ f.pc \in {"clear", "release"}))

\* At most one thread at a time runs in a TA that is not concurrent:
\* tee_ta_try_set_busy lets one call in, tee_ta_clear_busy lets it out.
TaExclusive ==
    \A t \in Threads : \A f \in Frames(t) :
        f.pc = "in_ta" /\ "concurrent" \notin CtxFlags(f.c) =>
            \A v \in Threads \ {t} : \A g \in Frames(v) :
                g.pc = "in_ta" => g.c # f.c

\* That, and no thread runs in a TA that panicked.
OneThreadPerTa ==
    /\ TaExclusive
    /\ fault = "none" => \A t \in Threads : \A f \in Frames(t) :
          f.pc = "in_ta" => ~ctx[f.c].panicked

\* The single-instance lock is recursive: its count is the number of calls of
\* its thread into single-instance TAs, and no other thread is in one, the
\* first open of a TA excepted (its flags are not known yet).
SiCountMatches ==
    LET inSingle(f) == /\ HoldsBusy(f) /\ Single(f.c)
                       /\ ~ctx[f.c].initializing
                       /\ "concurrent" \notin CtxFlags(f.c)
        holders == FramesWith(inSingle)
    IN  fault = "none" =>
           /\ Cardinality(holders) = si.count
           /\ \A x \in holders : x[1] = si.thread

\* f holds a reference to its session.
HasRef(f) ==
    \/ f.op = "open" /\ f.pc # "open_init"
    \/ f.op # "open" /\ f.pc \notin {"find", "get", "release"} /\
       ~(f.op = "close" /\ f.pc \in {"clear", "destroy", "drain"})

WaitingThreads == {t \in Threads : Waiting(t)}

CvOf(t) == (CHOOSE w \in Range(waitq) : w.t = t).cv

\* The threads that can end the wait of t: the holder of what it waits for,
\* or a thread signalled before it that has yet to run.
WaitsFor(t) ==
    LET cv == CvOf(t)
        signalled(pcs) == {v \in Threads : stack[v] # <<>> /\ ~Waiting(v) /\
                              Top(v).pc \in pcs}
    IN  CASE cv = SiCv -> {si.thread} \cup signalled({"wait_si"})
          [] cv[1] = "busy" ->
                {x[1] : x \in FramesWith(LAMBDA f : f.c = cv[2] /\ HoldsBusy(f))}
                \cup signalled({"wait_init", "wait_busy", "wait_si"})
          [] cv[1] = "lock" -> {sess[cv[2]].lock} \cup signalled({"wait_lock"})
          [] cv[1] = "refc" ->
                {x[1] : x \in FramesWith(LAMBDA f : f.s = cv[2] /\ HasRef(f))}

\* The core keeps going.  No panic() and no assert() is reached: tee_ta_set_busy
\* is never refused, the busy flag, the single-instance lock and a session are
\* given back by the thread that took them, no condvar with waiters is
\* destroyed, no count of references is exceeded.  And no set of threads waits
\* for nobody but each other: no dead-lock, no lost signal, no thread that
\* waits for a reference it holds itself.
NoHang ==
    /\ fault = "none"
    /\ \A W \in SUBSET WaitingThreads : W # {} =>
          \E t \in W : (WaitsFor(t) \cap Threads) \ W # {}

\* When no call is in progress nothing is left behind: no lock, no waiter, no
\* busy flag, no session nobody can close (the sessions of a destroyed TA
\* included), no context without a session unless it is to be kept alive.  This
\* is the promise of a core without CFG_SECURE_DATA_PATH: with it, an open that
\* check_params refuses leaves its session behind.
NothingLeftBehind ==
    (fault = "none" /\ \A t \in Threads : stack[t] = <<>>) =>
        /\ waitq = <<>> /\ si.thread = NoThread
        /\ \A s \in Sessions : sess[s].state = "live" =>
              s \in usable /\ sess[s].ref = 0 /\ sess[s].lock = NoThread
        /\ \A c \in Ctxs : ctx[c].state = "live" =>
              /\ ~ctx[c].busy
              /\ ctx[c].ref = 0 => {"keep", "single"} \subseteq CtxFlags(c)
        /\ \A c \in Ctxs : ctx[c].state = "freed" => lists[c] = <<>>

\* tee_ta_close_session ends: the threads that wait for the session or hold a
\* reference to it let go, however many there are.
UnlinkCompletes ==
    \A t \in Threads :
        (stack[t] # <<>> /\ Top(t).pc = "wait_refc")
            ~> (stack[t] = <<>> \/ Top(t).pc # "wait_refc")

=============================================================================
