---------------------------- MODULE TaManagerProofs ----------------------------
(***************************************************************************)
(* Proofs about sessions and TA contexts, for any number of threads, TAs,  *)
(* sessions and contexts and any flags, and also for clients that close    *)
(* sessions with calls in flight.                                          *)
(*                                                                         *)
(* The calls a thread is in are looked at through fr: the frame at each    *)
(* place <<thread, depth>>, Null where there is none, so that a step moves *)
(* one place and leaves the others alone (Moved).  What is proved of fr is *)
(* AInv: the types, that a call into a TA that is not concurrent has its   *)
(* busy flag alone (HoldInv), and until a fault how calls, sessions and    *)
(* contexts refer to each other (Good).  The heart of Good is CountInv: a  *)
(* context has as many references as sessions, where a session freed by a  *)
(* close that has yet to drop its reference counts, and GripInv, by which  *)
(* such a close is alone with its session.                                 *)
(*                                                                         *)
(* The first part is about lists and wait queues, the second about frames  *)
(* and what steps of a kind keep.  Then one lemma per action shows that it *)
(* keeps AInv, and the first theorems follow.                              *)
(***************************************************************************)
EXTENDS TaManager, FiniteSetTheorems, SequenceTheorems, WellFoundedInduction,
        TLAPS

\* The places <<t, i>> of frames: thread t, i-th from the outermost.
Depth == Nat \ {0}
\* Threads and depths.
Pl == Threads \X Depth

\* What is at a place where there is no frame.
Null == [op |-> "none", pc |-> "none", own |-> NW, u |-> AnyUuid, id |-> 0,
         s |-> NoSess, c |-> NoCtx, via |-> "null", res |-> "ok"]

\* The frames by place.
fr == [x \in Pl |-> IF x[2] <= Len(stack[x[1]]) THEN stack[x[1]][x[2]] ELSE Null]

\* TopP(t) is the place of the innermost frame of t.
TopP(t) == <<t, Len(stack[t])>>

\* In tee_ta_try_set_busy.
BusyPcs == {"busy", "wait_init", "wait_si", "wait_busy"}
\* In tee_ta_try_set_busy or in the TA.
LivePcs == BusyPcs \cup {"enter", "in_ta"}
\* In destroy_context.
EndPcs == {"destroy", "drain"}

\* Which fields of a frame are set where, by operation.
OpenShape(f) ==
    /\ f.pc \in LivePcs \cup {"open_init", "open_chk", "clear", "open_put"}
    /\ f.pc # "open_init" => f.s \in Sessions
    /\ f.pc \notin {"open_init", "open_chk"} => f.c \in Ctxs
    /\ f.via = "null"

\* tee_ta_invoke_command
InvokeShape(f) ==
    /\ f.pc \in LivePcs \cup EndPcs \cup {"get", "wait_lock", "inv_chk", "clear", "inv_post", "inv_destroy", "put"}
    /\ f.pc # "get" => f.s \in Sessions
    /\ f.pc \notin {"get", "wait_lock", "inv_chk", "put"} => f.c \in Ctxs
    /\ f.via = "null"

\* tee_ta_close_session
CloseShape(f) ==
    /\ f.pc \in LivePcs \cup EndPcs \cup {"find", "get", "wait_lock", "close_chk", "clear", "unlink", "wait_refc", "release"}
    /\ f.pc \notin {"find", "get"} => f.s \in Sessions
    /\ f.pc \in LivePcs \cup {"clear"} => f.via = "live"
    /\ f.pc \in EndPcs \cup {"release"} => f.via # "null"
    /\ f.pc \in {"find", "get", "wait_lock", "close_chk"} => f.via = "null"
    /\ f.via # "null" => f.c \in Ctxs

\* All of them; a cancel only gets and puts its session.
Shape(f) ==
    /\ f \in Frame \cup {Null}
    /\ f.op = "open" => OpenShape(f)
    /\ f.op = "invoke" => InvokeShape(f)
    /\ f.op = "close" => CloseShape(f)
    /\ f.op = "cancel" => /\ f.pc \in {"get", "put"} /\ f.via = "null"
                          /\ f.pc = "put" => f.s \in Sessions

\* f has a reference to its session.
Ref(f) ==
    \/ f.op = "open" /\ f.pc # "open_init"
    \/ f.op = "invoke" /\ f.pc # "get"
    \/ f.op = "cancel" /\ f.pc = "put"
    \/ f.op = "close" /\ f.pc \notin {"find", "get", "clear", "release", "destroy", "drain"}

\* f has its session for itself: by the lock, or because it has freed it.
Grip(f) ==
    \/ f.op = "invoke" /\ f.pc \notin {"get", "wait_lock"}
    \/ f.op = "close" /\ f.pc \notin {"find", "get", "wait_lock", "destroy", "drain"}

\* f has freed its session and has yet to give up the context.
Gone(f) == f.op = "close" /\ f.pc \in {"clear", "release"}

\* f uses the context its session has or had.
Past(f) ==
    \/ f.op = "open" /\ f.pc \notin {"open_init", "open_chk"}
    \/ f.op = "invoke" /\ f.pc \notin {"get", "wait_lock", "inv_chk", "put"}
    \/ f.op = "close" /\ f.via # "null" /\ f.pc \in LivePcs \cup {"unlink", "wait_refc"}

\* f will give up a reference to its context.
Claims(f) ==
    f.op = "close" /\ f.via # "null" /\ f.pc \in LivePcs \cup {"clear", "unlink", "wait_refc", "release"}

\* f destroys its context.
Ending(f) == f.pc \in EndPcs

\* f is busy with its context.
Uses(f) == Past(f) \/ Claims(f) \/ Ending(f)

\* e is on list l.
On(e, l) == \E i \in 1..Len(l) : l[i] = e

\* f closes a session that had no context any more.
NullEnd(f) == f.op = "close" /\ f.via = "null" /\ f.pc \in {"unlink", "wait_refc"}

\* In frames F: those with a reference to session s.
Refs(F, s) == {x \in Pl : Ref(F[x]) /\ F[x].s = s}

\* The sessions in S and frames in F that count for context c.
ClaimsOn(S, F, c) ==
    {s \in Sessions :
        \/ S[s].state = "live" /\ S[s].ctx = c
        \/ \E x \in Pl : Claims(F[x]) /\ F[x].s = s /\ F[x].c = c}

\* The flags of a context e ...
FlagsIn(e) == IF e.loaded THEN Flags[e.u] ELSE {}
\* ... and what they say.
NonConc(e) == "concurrent" \notin FlagsIn(e)
\* ... and what they say.
SingleIn(e) == "single" \in FlagsIn(e)

-----------------------------------------------------------------------------
(* The inductive invariant.                                                *)

\* Frames have the fields their place in the code says.
ShapeInv == \A x \in Pl : Shape(fr[x])

\* Normal world makes the outermost call of a thread, the TA or the context
\* below a frame every other one.
StackInv == \A x \in Pl : fr[x] # Null =>
    \/ x[2] = 1 /\ fr[x].own = NW
    \/ /\ x[2] > 1 /\ fr[<<x[1], x[2] - 1>>].pc \in {"in_ta", "drain"}
       /\ fr[x].op # "cancel"
       /\ fr[<<x[1], x[2] - 1>>].c = fr[x].own /\ fr[x].own \in Ctxs

\* A session somebody refers to is in the list of its owner; what is in a list
\* is live, and in no other list.
HomeInv ==
    /\ \A x \in Pl : Ref(fr[x]) => On(fr[x].s, lists[fr[x].own])
    /\ \A o \in Owners : \A s \in Sessions : On(s, lists[o]) => sess[s].state = "live"
    /\ \A o, q \in Owners : \A s \in Sessions : On(s, lists[o]) /\ On(s, lists[q]) => o = q

\* A session has at least as many references as frames that hold one.
RefInv == \A s \in Sessions : IsFiniteSet(Refs(fr, s)) /\ Cardinality(Refs(fr, s)) <= sess[s].ref

\* One frame at most has a session for itself, and its thread has the lock.
GripInv ==
    /\ \A x, y \in Pl : Grip(fr[x]) /\ Grip(fr[y]) /\ fr[x].s = fr[y].s => x = y
    /\ \A x \in Pl : Grip(fr[x]) /\ Ref(fr[x]) => sess[fr[x].s].lock = x[1]
    /\ \A x \in Pl : Gone(fr[x]) => sess[fr[x].s].state = "freed"

\* The context a frame uses is the one of its session, unless a panic took it.
LinkInv ==
    /\ \A x \in Pl : Past(fr[x]) => \/ sess[fr[x].s].ctx = fr[x].c
                                    \/ sess[fr[x].s].ctx = NoCtx /\ ~On(fr[x].c, ctxes)
    /\ \A x \in Pl : NullEnd(fr[x]) => sess[fr[x].s].ctx = NoCtx

\* What is used has been allocated; what is on tee_ctxes is not freed, nor
\* about to be.
UsedInv ==
    /\ \A x \in Pl : Uses(fr[x]) => ctx[fr[x].c].state # "unused"
    /\ \A s \in Sessions : sess[s].state = "live" /\ sess[s].ctx # NoCtx => ctx[sess[s].ctx].state # "unused"
    /\ \A c \in Ctxs : On(c, ctxes) => ctx[c].state = "live"
    /\ \A x \in Pl : Ending(fr[x]) => ~On(fr[x].c, ctxes)

\* ref_count is the number of sessions, closed ones included that have yet to
\* drop their reference; off tee_ctxes it is at least that.
CountInv == \A c \in Ctxs : /\ Cardinality(ClaimsOn(sess, fr, c)) <= ctx[c].ref
                            /\ On(c, ctxes) => Cardinality(ClaimsOn(sess, fr, c)) = ctx[c].ref

\* The flags of a concurrent TA are known from the start.
LoadInv == \A c \in Ctxs : ctx[c].state # "unused" /\ "concurrent" \in Flags[ctx[c].u] => ctx[c].loaded

\* A call into a TA that is not concurrent has its busy flag, alone.
HoldInv ==
    /\ \A x \in Pl : HoldsBusy(fr[x]) /\ NonConc(ctx[fr[x].c]) => ctx[fr[x].c].busy
    /\ \A x, y \in Pl : HoldsBusy(fr[x]) /\ HoldsBusy(fr[y]) /\ fr[x].c = fr[y].c /\ NonConc(ctx[fr[x].c]) => x = y

\* What is true of sessions, contexts and calls until a fault.
Good == ShapeInv /\ StackInv /\ HomeInv /\ RefInv /\ GripInv /\ LinkInv /\ UsedInv /\ CountInv /\ LoadInv

\* The inductive invariant.
AInv == TypeOK /\ HoldInv /\ (fault = "none" => Good)

\* No element of list s is on it twice.
Once(s) == \A i, j \in DOMAIN s : s[i] = s[j] => i = j

\* Every non-empty set of numbers has a least element.
LEMMA LeastNat ==
    ASSUME NEW T \in SUBSET Nat, T # {}
    PROVE  \E m \in T : \A y \in T : m <= y
<1> DEFINE R == OpToRel(<, Nat)
<1>1. IsWellFoundedOn(R, Nat)
  BY NatLessThanWellFounded
<1>2. \A x, y \in Nat : x < y => <<x, y>> \in R
  BY DEF OpToRel
<1> HIDE DEF R
<1>3. PICK m \in T : \A y \in T : ~(<<y, m>> \in R)
  BY <1>1, WFMin
<1>4. \A y \in T : m <= y
  <2> TAKE y \in T
  <2>1. y \in Nat /\ m \in Nat
    OBVIOUS
  <2>2. ~(<<y, m>> \in R) /\ (y < m => <<y, m>> \in R)
    BY <1>2, <1>3, <2>1, Zenon
  <2> QED BY <2>1, <2>2
<1> QED BY <1>4

\* Min is the least element.
LEMMA MinIs ==
    ASSUME NEW T \in SUBSET Nat, T # {}
    PROVE  Min(T) \in T /\ \A y \in T : Min(T) <= y
<1>1. \E m \in T : \A y \in T : m <= y
  BY LeastNat
<1> QED BY <1>1, Zenon DEF Min

\* One unfolding of the recursion in Without.
LeftBody(f, s, S, i) ==
    IF i = 0 THEN <<>> ELSE IF s[i] \in S THEN f[i - 1] ELSE Append(f[i - 1], s[i])

\* What is left of the first i elements of list s without S.
LeftOK(l, s, S, i, P) ==
    /\ l \in Seq(P)
    /\ \A p \in P : (\E k \in 1..Len(l) : l[k] = p) <=> (p \notin S /\ \E k \in 1..i : s[k] = p)
    /\ Once(s) => Once(l)

\* One more element.
LEMMA LeftStep ==
    ASSUME NEW P, NEW s \in Seq(P), NEW S, NEW i \in 1..Len(s), NEW l, NEW m,
           LeftOK(l, s, S, i - 1, P), m = IF s[i] \in S THEN l ELSE Append(l, s[i])
    PROVE  LeftOK(m, s, S, i, P)
<1>1. /\ l \in Seq(P) /\ s[i] \in P /\ i \in Nat /\ i >= 1 /\ Len(l) \in Nat
      /\ \A p \in P : (\E k \in 1..Len(l) : l[k] = p)
                         <=> (p \notin S /\ \E k \in 1..(i - 1) : s[k] = p)
  BY DEF LeftOK
<1>2. \A k : k \in 1..i <=> k \in 1..(i - 1) \/ k = i
  BY <1>1
<1>3. CASE s[i] \in S
  BY <1>1, <1>2, <1>3 DEF LeftOK
<1>4. CASE s[i] \notin S
  <2>1. /\ m \in Seq(P) /\ Len(m) = Len(l) + 1 /\ m[Len(l) + 1] = s[i]
        /\ \A k \in 1..Len(l) : m[k] = l[k]
    BY <1>1, <1>4
  <2>2. \A k : k \in 1..Len(m) <=> k \in 1..Len(l) \/ k = Len(l) + 1
    BY <1>1, <2>1
  <2>3. ASSUME NEW p \in P
        PROVE  (\E k \in 1..Len(m) : m[k] = p) <=> (p \notin S /\ \E k \in 1..i : s[k] = p)
    BY <1>1, <1>2, <1>4, <2>1, <2>2
  <2>4. ASSUME Once(s) PROVE Once(m)
    <3> SUFFICES ASSUME NEW a \in 1..Len(m), NEW b \in 1..Len(m), m[a] = m[b] PROVE a = b
      BY <2>1 DEF Once
    <3>1. Once(l) /\ \A x, y \in 1..Len(l) : l[x] = l[y] => x = y
      BY <1>1, <2>4 DEF LeftOK, Once
    <3>2. ASSUME NEW x \in 1..Len(l) PROVE l[x] # s[i]
      <4>1. l[x] \in P
        BY <1>1
      <4>2. l[x] = s[i] => \E k \in 1..(i - 1) : s[k] = s[i]
        BY <1>1, <4>1
      <4>3. \A k \in 1..(i - 1) : s[k] # s[i]
        BY <1>1, <2>4 DEF Once
      <4> QED BY <4>2, <4>3
    <3> QED BY <2>1, <2>2, <3>1, <3>2
  <2> QED BY <2>1, <2>3, <2>4 DEF LeftOK
<1> QED BY <1>3, <1>4

\* The recursion in Without has a solution.
LEMMA LeftDef ==
    ASSUME NEW s, Len(s) \in Nat, NEW S
    PROVE  \E f : /\ f = [i \in 0..Len(s) |-> LeftBody(f, s, S, i)]
                  /\ Without(s, S) = f[Len(s)]
<1> DEFINE D == 0..Len(s)
           Upto(k, g) == /\ g = [i \in D |-> g[i]]
                         /\ \A i \in 0..k : g[i] = LeftBody(g, s, S, i)
           T == {k \in D : ~ \E g : Upto(k, g)}
<1>1. T = {}
  <2> SUFFICES ASSUME T # {} PROVE FALSE
    OBVIOUS
  <2>1. PICK k \in T : \A y \in T : k <= y
    <3>1. T \in SUBSET Nat
      OBVIOUS
    <3> HIDE DEF T
    <3> QED BY <3>1, LeastNat
  <2>2. k \in D /\ k \in Nat /\ ~ \E g : Upto(k, g)
    BY <2>1
  <2>3. k # 0
    <3> DEFINE g == [i \in D |-> <<>>]
    <3>1. g = [i \in D |-> g[i]] /\ \A i \in 0..0 : g[i] = LeftBody(g, s, S, i)
      BY DEF LeftBody
    <3> HIDE DEF g
    <3> QED BY <2>2, <3>1
  <2>4. k - 1 \in D /\ k - 1 \in Nat /\ ~(k <= k - 1)
    BY <2>2, <2>3
  <2>5. PICK g : Upto(k - 1, g)
    <3>1. k - 1 \notin T
      BY <2>1, <2>4
    <3> QED BY <2>4, <3>1
  <2> DEFINE h == [g EXCEPT ![k] = LeftBody(g, s, S, k)]
  <2>6. h = [i \in D |-> h[i]] /\ h[k] = LeftBody(g, s, S, k) /\ \A i \in D : i # k => h[i] = g[i]
    BY <2>2, <2>5
  <2> HIDE DEF h
  <2>7. ASSUME NEW i \in 0..k PROVE h[i] = LeftBody(h, s, S, i)
    <3>1. i \in D /\ i \in Nat /\ (i # 0 => i - 1 \in D /\ i - 1 # k) /\ (i # k => i \in 0..(k - 1))
      BY <2>2
    <3>2. LeftBody(h, s, S, i) = LeftBody(g, s, S, i)
      <4>1. i # 0 => h[i - 1] = g[i - 1]
        BY <2>6, <3>1
      <4> QED BY <4>1 DEF LeftBody
    <3> QED BY <2>5, <2>6, <3>1, <3>2
  <2>8. Upto(k, h)
    BY <2>6, <2>7
  <2> QED BY <2>2, <2>8
<1>2. PICK g : Upto(Len(s), g)
  <2>1. Len(s) \in D
    OBVIOUS
  <2> QED BY <1>1, <2>1
<1>3. g = [i \in D |-> LeftBody(g, s, S, i)]
  BY <1>2
<1> DEFINE F == CHOOSE f : f = [i \in 0..Len(s) |-> LeftBody(f, s, S, i)]
<1>4. F = [i \in 0..Len(s) |-> LeftBody(F, s, S, i)]
  BY <1>3, Zenon
<1>5. Without(s, S) = F[Len(s)]
  BY Zenon DEF Without, LeftBody
<1> QED BY <1>4, <1>5

\* Without takes the elements of S out and keeps the others.
LEMMA WithoutFacts ==
    ASSUME NEW P, NEW s \in Seq(P), NEW S
    PROVE  /\ Without(s, S) \in Seq(P)
           /\ Once(s) => Once(Without(s, S))
           /\ \A e \in P : (\E k \in 1..Len(Without(s, S)) : Without(s, S)[k] = e)
                            <=> (e \notin S /\ \E k \in 1..Len(s) : s[k] = e)
<1>1. Len(s) \in Nat
  OBVIOUS
<1>2. PICK f : /\ f = [i \in 0..Len(s) |-> LeftBody(f, s, S, i)]
               /\ Without(s, S) = f[Len(s)]
  BY <1>1, LeftDef
<1> DEFINE T == {i \in 0..Len(s) : ~LeftOK(f[i], s, S, i, P)}
<1>3. T = {}
  <2> SUFFICES ASSUME T # {} PROVE FALSE
    OBVIOUS
  <2>1. PICK k \in T : \A y \in T : k <= y
    <3>1. T \in SUBSET Nat
      OBVIOUS
    <3> HIDE DEF T
    <3> QED BY <3>1, LeastNat
  <2>2. k \in 0..Len(s) /\ k \in Nat /\ ~LeftOK(f[k], s, S, k, P) /\ f[k] = LeftBody(f, s, S, k)
    BY <1>2, <2>1
  <2>3. CASE k = 0
    <3>1. f[k] = <<>>
      BY <2>2, <2>3 DEF LeftBody
    <3>2. 1..0 = {} /\ Len(<<>>) = 0 /\ <<>> \in Seq(P) /\ DOMAIN <<>> = {}
      OBVIOUS
    <3>3. LeftOK(<<>>, s, S, 0, P)
      BY <3>2 DEF LeftOK, Once
    <3> QED BY <2>2, <2>3, <3>1, <3>3
  <2>4. CASE k # 0
    <3>1. k \in 1..Len(s) /\ k - 1 \in 0..Len(s) /\ ~(k <= k - 1)
      BY <1>1, <2>2, <2>4
    <3>2. LeftOK(f[k - 1], s, S, k - 1, P)
      BY <2>1, <3>1
    <3>3. f[k] = IF s[k] \in S THEN f[k - 1] ELSE Append(f[k - 1], s[k])
      BY <2>2, <2>4 DEF LeftBody
    <3> HIDE DEF T
    <3> QED BY <2>2, <3>1, <3>2, <3>3, LeftStep
  <2> QED BY <2>3, <2>4
<1>4. LeftOK(Without(s, S), s, S, Len(s), P)
  BY <1>1, <1>2, <1>3
<1> QED BY <1>4 DEF LeftOK

\* The elements of a list, by their indices.
LEMMA RangeIs ==
    ASSUME NEW P, NEW s \in Seq(P)
    PROVE  \A e : e \in Range(s) <=> \E k \in 1..Len(s) : s[k] = e
<1>1. DOMAIN s = 1..Len(s)
  OBVIOUS
<1> QED BY <1>1 DEF Range

\* One element is taken out of a list.
LEMMA RemoveAtFacts ==
    ASSUME NEW P, NEW s \in Seq(P), NEW i \in 1..Len(s)
    PROVE  /\ RemoveAt(s, i) \in Seq(P)
           /\ \A k \in 1..Len(RemoveAt(s, i)) : \E j \in 1..Len(s) : RemoveAt(s, i)[k] = s[j]
<1>1. Len(s) \in Nat /\ i \in Nat /\ 1 <= i /\ i <= Len(s)
  OBVIOUS
<1>2. PICK a : a = SubSeq(s, 1, i - 1)
  OBVIOUS
<1>3. PICK b : b = SubSeq(s, i + 1, Len(s))
  OBVIOUS
<1>4. a \in Seq(P) /\ Len(a) = i - 1 /\ \A k \in 1..(i - 1) : a[k] = s[k]
  BY <1>1, <1>2
<1>5. b \in Seq(P) /\ Len(b) = Len(s) - i /\ \A k \in 1..(Len(s) - i) : b[k] = s[k + i]
  BY <1>1, <1>3
<1>6. PICK r : r = a \o b
  OBVIOUS
<1>7. /\ r \in Seq(P) /\ Len(r) = Len(s) - 1
      /\ \A k \in 1..(Len(s) - 1) : r[k] = IF k < i THEN a[k] ELSE b[k - (i - 1)]
  <2>1. r \in Seq(P) /\ Len(r) = Len(a) + Len(b)
    BY <1>4, <1>5, <1>6, ConcatProperties, Zenon
  <2>2. \A k \in 1..(Len(a) + Len(b)) : r[k] = IF k <= Len(a) THEN a[k] ELSE b[k - Len(a)]
    BY <1>4, <1>5, <1>6, ConcatProperties, Zenon
  <2>3. Len(a) + Len(b) = Len(s) - 1
    BY <1>1, <1>4, <1>5
  <2>4. \A k \in 1..(Len(s) - 1) : k <= Len(a) <=> k < i
    BY <1>1, <1>4
  <2> QED BY <1>4, <2>1, <2>2, <2>3, <2>4
<1>8. ASSUME NEW k \in 1..Len(r) PROVE \E j \in 1..Len(s) : r[k] = s[j]
  <2>1. CASE k < i
    <3>1. k \in 1..(i - 1) /\ k \in 1..Len(s) /\ k \in 1..(Len(s) - 1)
      BY <1>1, <1>7, <2>1
    <3> QED BY <1>4, <1>7, <2>1, <3>1
  <2>2. CASE ~(k < i)
    <3>1. /\ k - (i - 1) \in 1..(Len(s) - i) /\ k + 1 \in 1..Len(s) /\ k \in 1..(Len(s) - 1)
          /\ (k - (i - 1)) + i = k + 1
      BY <1>1, <1>7, <2>2
    <3>2. r[k] = b[k - (i - 1)]
      BY <1>7, <2>2, <3>1
    <3>3. b[k - (i - 1)] = s[k + 1]
      BY <1>5, <3>1
    <3> QED BY <3>1, <3>2, <3>3
  <2> QED BY <2>1, <2>2
<1>9. RemoveAt(s, i) = r
  BY <1>2, <1>3, <1>6 DEF RemoveAt
<1> QED BY <1>7, <1>8, <1>9

\* A signal takes at most one waiter off, a broadcast those of its condvar.
LEMMA SignalFacts ==
    ASSUME NEW P, NEW q \in Seq(P), NEW cv
    PROVE  /\ Signal(q, cv) \in Seq(P)
           /\ \A k \in 1..Len(Signal(q, cv)) : \E j \in 1..Len(q) : Signal(q, cv)[k] = q[j]
<1>1. CASE ~ \E i \in 1..Len(q) : q[i].cv = cv
  <2>1. Signal(q, cv) = q
    BY <1>1 DEF Signal
  <2> QED BY <2>1
<1>2. CASE \E i \in 1..Len(q) : q[i].cv = cv
  <2> DEFINE T == {i \in 1..Len(q) : q[i].cv = cv}
             First(i) == q[i].cv = cv /\ \A j \in 1..(i - 1) : q[j].cv # cv
  <2>1. T \in SUBSET Nat /\ T # {} /\ Len(q) \in Nat
    BY <1>2
  <2>2. PICK m \in T : \A y \in T : m <= y
    <3> HIDE DEF T
    <3> QED BY <2>1, LeastNat
  <2>3. \A j \in 1..(m - 1) : q[j].cv # cv
    <3> SUFFICES ASSUME NEW j \in 1..(m - 1), q[j].cv = cv PROVE FALSE
      OBVIOUS
    <3>1. m \in Nat /\ m \in 1..Len(q) /\ j \in 1..Len(q) /\ ~(m <= j)
      BY <2>1, <2>2
    <3>2. j \in T
      BY <3>1
    <3> QED BY <2>2, <3>1, <3>2
  <2>4. \E i \in 1..Len(q) : First(i)
    BY <2>2, <2>3
  <2>5. PICK i \in 1..Len(q) : i = CHOOSE k \in 1..Len(q) : First(k)
    <3> HIDE DEF First
    <3> QED BY <2>4
  <2>6. Signal(q, cv) = RemoveAt(q, i)
    BY <1>2, <2>5, Zenon DEF Signal
  <2>7. PICK r : r = RemoveAt(q, i)
    OBVIOUS
  <2>8. r \in Seq(P) /\ \A k \in 1..Len(r) : \E j \in 1..Len(q) : r[k] = q[j]
    BY <2>7, RemoveAtFacts
  <2> QED BY <2>6, <2>7, <2>8
<1> QED BY <1>1, <1>2

\* condvar_broadcast takes threads out of the queue and adds none.
LEMMA BroadcastFacts ==
    ASSUME NEW P, NEW q \in Seq(P), NEW cv
    PROVE  /\ Broadcast(q, cv) \in Seq(P)
           /\ \A k \in 1..Len(Broadcast(q, cv)) : \E j \in 1..Len(q) : Broadcast(q, cv)[k] = q[j]
<1>1. PICK S : S = {w \in Range(q) : w.cv = cv}
  OBVIOUS
<1>2. PICK l : l = Without(q, S)
  OBVIOUS
<1>3. /\ l \in Seq(P)
      /\ \A e \in P : (\E k \in 1..Len(l) : l[k] = e) <=> (e \notin S /\ \E k \in 1..Len(q) : q[k] = e)
  BY <1>2, WithoutFacts
<1>4. \A k \in 1..Len(l) : \E j \in 1..Len(q) : l[k] = q[j]
  <2> TAKE k \in 1..Len(l)
  <2>1. l[k] \in P
    BY <1>3
  <2> QED BY <1>3, <2>1
<1>5. Broadcast(q, cv) = l
  BY <1>1, <1>2, Zenon DEF Broadcast
<1> QED BY <1>3, <1>4, <1>5

USE DEF Depth, Pl

\* Function f with the value g at x.
Upd(f, x, g) == [f EXCEPT ![x] = g]

\* The frames, by place.
LEMMA FrIs ==
    ASSUME stack \in [Threads -> Seq(Frame)]
    PROVE  /\ fr \in [Pl -> Frame \cup {Null}] /\ Null \notin Frame
           /\ \A t \in Threads, i \in Depth :
                 fr[<<t, i>>] = IF i <= Len(stack[t]) THEN stack[t][i] ELSE Null
           /\ \A t \in Threads, i \in Depth : i <= Len(stack[t]) => fr[<<t, i>>] \in Frame
<1>1. \A t \in Threads, i \in Depth : /\ <<t, i>> \in Pl /\ <<t, i>>[1] = t /\ <<t, i>>[2] = i
  OBVIOUS
<1>2. \A t \in Threads, i \in Depth :
         fr[<<t, i>>] = IF i <= Len(stack[t]) THEN stack[t][i] ELSE Null
  BY <1>1 DEF fr
<1>3. \A t \in Threads, i \in Depth : i <= Len(stack[t]) => stack[t][i] \in Frame
  OBVIOUS
<1>4. \A x \in Pl : x[1] \in Threads /\ x[2] \in Depth /\ x = <<x[1], x[2]>>
  OBVIOUS
<1>5. \A x \in Pl : fr[x] \in Frame \cup {Null}
  BY <1>2, <1>3, <1>4
<1>6. fr = [x \in Pl |-> fr[x]]
  BY DEF fr
<1>7. Null \notin Frame
  <2>1. Null.op = "none" /\ \A f \in Frame : f.op # "none"
    BY DEF Null, Frame
  <2> QED BY <2>1
<1> QED BY <1>2, <1>3, <1>5, <1>6, <1>7

\* The innermost call of a thread.
LEMMA TopIs ==
    ASSUME stack \in [Threads -> Seq(Frame)], NEW t \in Threads, stack[t] # <<>>
    PROVE  /\ TopP(t) \in Pl /\ TopP(t)[1] = t /\ TopP(t)[2] = Len(stack[t])
           /\ Len(stack[t]) \in Nat \ {0}
           /\ fr[TopP(t)] = Top(t) /\ Top(t) \in Frame
           /\ fr[<<t, Len(stack[t]) + 1>>] = Null
<1>1. Len(stack[t]) \in Nat \ {0}
  BY EmptySeq
<1>2. TopP(t) = <<t, Len(stack[t])>> /\ TopP(t) \in Pl /\ Top(t) = stack[t][Len(stack[t])]
  BY <1>1 DEF TopP, Top
<1>3. fr[<<t, Len(stack[t])>>] = stack[t][Len(stack[t])] /\ fr[<<t, Len(stack[t])>>] \in Frame
  BY <1>1, FrIs
<1>4. fr[<<t, Len(stack[t]) + 1>>] = Null
  BY <1>1, FrIs
<1> QED BY <1>1, <1>2, <1>3, <1>4

\* Lists l and m differ in place n only.
SameBut(l, m, n) ==
    /\ \A i \in Depth : i # n => (i <= Len(l) <=> i <= Len(m))
    /\ \A i \in Depth : i # n /\ i <= Len(l) => l[i] = m[i]

\* The frame at depth n of l.
At0(l, n) == IF n <= Len(l) THEN l[n] ELSE Null

\* One thread's stack changes at one place.
LEMMA FrStep ==
    ASSUME NEW t \in Threads, NEW l \in Seq(Frame), NEW n \in Depth, NEW g,
           stack \in [Threads -> Seq(Frame)], stack' = Upd(stack, t, l),
           g = At0(l, n), SameBut(l, stack[t], n)
    PROVE  fr' = Upd(fr, <<t, n>>, g) /\ stack' \in [Threads -> Seq(Frame)]
<1>1. stack' \in [Threads -> Seq(Frame)] /\ stack'[t] = l /\ \A v \in Threads : v # t => stack'[v] = stack[v]
  BY DEF Upd
<1>2. \A v \in Threads, i \in Depth :
         fr[<<v, i>>] = IF i <= Len(stack[v]) THEN stack[v][i] ELSE Null
  BY FrIs
<1>3. fr' = [x \in Pl |-> IF x[2] <= Len(stack'[x[1]]) THEN stack'[x[1]][x[2]] ELSE Null]
  BY DEF fr
<1>4. \A x \in Pl : x[1] \in Threads /\ x[2] \in Depth /\ x = <<x[1], x[2]>>
  OBVIOUS
<1>5. fr = [x \in Pl |-> fr[x]] /\ <<t, n>> \in Pl
  BY DEF fr
<1>6. ASSUME NEW x \in Pl PROVE fr'[x] = IF x = <<t, n>> THEN g ELSE fr[x]
  <2>1. CASE x[1] # t
    BY <1>1, <1>2, <1>3, <1>4, <2>1
  <2>2. CASE x[1] = t /\ x[2] # n
    <3>1. fr'[x] = IF x[2] <= Len(l) THEN l[x[2]] ELSE Null
      BY <1>1, <1>3, <2>2
    <3>2. fr[x] = IF x[2] <= Len(stack[t]) THEN stack[t][x[2]] ELSE Null
      BY <1>2, <1>4, <2>2
    <3>3. x # <<t, n>>
      BY <2>2
    <3> QED BY <1>4, <2>2, <3>1, <3>2, <3>3 DEF SameBut
  <2>3. CASE x[1] = t /\ x[2] = n
    <3>1. x = <<t, n>>
      BY <1>4, <2>3
    <3>2. fr'[x] = IF n <= Len(l) THEN l[n] ELSE Null
      BY <1>1, <1>3, <2>3
    <3> QED BY <3>1, <3>2 DEF At0
  <2> QED BY <2>1, <2>2, <2>3
<1>7. fr' = [x \in Pl |-> IF x = <<t, n>> THEN g ELSE fr[x]]
  BY <1>3, <1>6
<1> QED BY <1>1, <1>5, <1>7 DEF Upd

\* fr after the innermost frame of a thread is replaced ...
LEMMA FrSet ==
    ASSUME stack \in [Threads -> Seq(Frame)], NEW t \in Threads, stack[t] # <<>>,
           NEW g \in Frame, SetTop(t, g)
    PROVE  /\ fr' = Upd(fr, TopP(t), g) /\ stack' \in [Threads -> Seq(Frame)]
           /\ \A v \in Threads \ {t} : stack'[v] = stack[v]
           /\ stack'[t] # <<>>
<1>1. Len(stack[t]) \in Nat \ {0}
  BY EmptySeq
<1>2. PICK n : n = Len(stack[t])
  OBVIOUS
<1>3. PICK l : l = [stack[t] EXCEPT ![n] = g]
  OBVIOUS
<1>4. l \in Seq(Frame) /\ Len(l) = n /\ l[n] = g /\ \A i \in 1..n : i # n => l[i] = stack[t][i]
  BY <1>1, <1>2, <1>3
<1>5. stack' = Upd(stack, t, l)
  BY <1>2, <1>3 DEF SetTop, Upd
<1>6. /\ fr' = Upd(fr, <<t, n>>, g) /\ stack' \in [Threads -> Seq(Frame)]
  <2>1. n \in Depth /\ g = At0(l, n) /\ SameBut(l, stack[t], n)
    BY <1>1, <1>2, <1>4 DEF At0, SameBut
  <2>2. l \in Seq(Frame)
    BY <1>4
  <2> HIDE DEF Depth, Pl
  <2> QED BY <1>5, <2>1, <2>2, FrStep
<1>7. stack'[t] = l /\ l # <<>> /\ \A v \in Threads \ {t} : stack'[v] = stack[v]
  BY <1>1, <1>2, <1>4, <1>5 DEF Upd
<1> QED BY <1>2, <1>6, <1>7 DEF TopP

\* ... after a call returns ...
LEMMA FrPop ==
    ASSUME stack \in [Threads -> Seq(Frame)], NEW t \in Threads, stack[t] # <<>>, Return(t)
    PROVE  /\ fr' = Upd(fr, TopP(t), Null) /\ stack' \in [Threads -> Seq(Frame)]
           /\ \A v \in Threads \ {t} : stack'[v] = stack[v]
<1>1. Len(stack[t]) \in Nat \ {0}
  BY EmptySeq
<1>2. PICK n : n = Len(stack[t])
  OBVIOUS
<1>3. PICK l : l = SubSeq(stack[t], 1, n - 1)
  OBVIOUS
<1>4. l \in Seq(Frame) /\ Len(l) = n - 1 /\ \A i \in 1..(n - 1) : l[i] = stack[t][i]
  BY <1>1, <1>2, <1>3
<1>5. stack' = Upd(stack, t, l)
  BY <1>2, <1>3 DEF Return, Front, Upd
<1>6. /\ fr' = Upd(fr, <<t, n>>, Null) /\ stack' \in [Threads -> Seq(Frame)]
  <2>1. n \in Depth /\ Null = At0(l, n) /\ SameBut(l, stack[t], n)
    BY <1>1, <1>2, <1>4 DEF At0, SameBut
  <2>2. l \in Seq(Frame)
    BY <1>4
  <2> HIDE DEF Depth, Pl
  <2> QED BY <1>5, <2>1, <2>2, FrStep
<1> QED BY <1>2, <1>5, <1>6 DEF TopP, Upd

\* ... and after a call is made.
LEMMA FrPush ==
    ASSUME stack \in [Threads -> Seq(Frame)], NEW t \in Threads, NEW g \in Frame, Push(t, g)
    PROVE  /\ fr' = Upd(fr, <<t, Len(stack[t]) + 1>>, g) /\ stack' \in [Threads -> Seq(Frame)]
           /\ <<t, Len(stack[t]) + 1>> \in Pl /\ fr[<<t, Len(stack[t]) + 1>>] = Null
           /\ Len(stack[t]) \in Nat
           /\ fr[<<t, Len(stack[t]) + 2>>] = Null
           /\ \A v \in Threads \ {t} : stack'[v] = stack[v]
<1>1. Len(stack[t]) \in Nat
  OBVIOUS
<1>2. PICK n : n = Len(stack[t]) + 1
  OBVIOUS
<1>3. PICK l : l = Append(stack[t], g)
  OBVIOUS
<1>4. l \in Seq(Frame) /\ Len(l) = n /\ l[n] = g /\ \A i \in 1..(n - 1) : l[i] = stack[t][i]
  BY <1>1, <1>2, <1>3
<1>5. stack' = Upd(stack, t, l)
  BY <1>3 DEF Push, Upd
<1>6. /\ fr' = Upd(fr, <<t, n>>, g) /\ stack' \in [Threads -> Seq(Frame)]
  <2>1. n \in Depth /\ g = At0(l, n) /\ SameBut(l, stack[t], n)
    BY <1>1, <1>2, <1>4 DEF At0, SameBut
  <2>2. l \in Seq(Frame)
    BY <1>4
  <2> HIDE DEF Depth, Pl
  <2> QED BY <1>5, <2>1, <2>2, FrStep
<1>7. /\ <<t, Len(stack[t]) + 1>> \in Pl /\ fr[<<t, Len(stack[t]) + 1>>] = Null
      /\ fr[<<t, Len(stack[t]) + 2>>] = Null
  BY <1>1, FrIs
<1> QED BY <1>1, <1>2, <1>5, <1>6, <1>7 DEF Upd

\* Only the frame at place p changes, and becomes g.
Moved(p, g) ==
    /\ p \in Pl /\ fr'[p] = g
    /\ \A x \in Pl : x # p => fr'[x] = fr[x]

\* The innermost call goes on.
LEMMA MoveSet ==
    ASSUME stack \in [Threads -> Seq(Frame)], NEW t \in Threads, stack[t] # <<>>,
           NEW g \in Frame, SetTop(t, g)
    PROVE  /\ Moved(TopP(t), g) /\ stack' \in [Threads -> Seq(Frame)]
           /\ \A v \in Threads \ {t} : stack'[v] = stack[v]
           /\ stack'[t] # <<>>
<1>1. /\ fr' = Upd(fr, TopP(t), g) /\ stack' \in [Threads -> Seq(Frame)] /\ stack'[t] # <<>>
      /\ \A v \in Threads \ {t} : stack'[v] = stack[v]
  BY FrSet
<1>2. fr \in [Pl -> Frame \cup {Null}] /\ TopP(t) \in Pl
  BY FrIs, TopIs
<1> QED BY <1>1, <1>2 DEF Moved, Upd

\* The innermost call returns.
LEMMA MovePop ==
    ASSUME stack \in [Threads -> Seq(Frame)], NEW t \in Threads, stack[t] # <<>>, Return(t)
    PROVE  /\ Moved(TopP(t), Null) /\ stack' \in [Threads -> Seq(Frame)]
           /\ \A v \in Threads \ {t} : stack'[v] = stack[v]
<1>1. /\ fr' = Upd(fr, TopP(t), Null) /\ stack' \in [Threads -> Seq(Frame)]
      /\ \A v \in Threads \ {t} : stack'[v] = stack[v]
  BY FrPop
<1>2. fr \in [Pl -> Frame \cup {Null}] /\ TopP(t) \in Pl
  BY FrIs, TopIs
<1> QED BY <1>1, <1>2 DEF Moved, Upd

\* A call is made.
LEMMA MovePush ==
    ASSUME stack \in [Threads -> Seq(Frame)], NEW t \in Threads, NEW g \in Frame, Push(t, g)
    PROVE  \E p \in Pl :
              /\ Moved(p, g) /\ fr[p] = Null
              /\ p = <<t, Len(stack[t]) + 1>> /\ fr[<<t, Len(stack[t]) + 2>>] = Null
              /\ Len(stack[t]) \in Nat
              /\ stack' \in [Threads -> Seq(Frame)]
              /\ \A v \in Threads \ {t} : stack'[v] = stack[v]
<1>1. PICK p : p = <<t, Len(stack[t]) + 1>>
  OBVIOUS
<1>2. /\ fr' = Upd(fr, p, g) /\ stack' \in [Threads -> Seq(Frame)] /\ p \in Pl /\ fr[p] = Null
      /\ Len(stack[t]) \in Nat /\ fr[<<t, Len(stack[t]) + 2>>] = Null
      /\ \A v \in Threads \ {t} : stack'[v] = stack[v]
  BY <1>1, FrPush
<1>3. fr \in [Pl -> Frame \cup {Null}]
  BY FrIs
<1>4. Moved(p, g)
  BY <1>2, <1>3 DEF Moved, Upd
<1> QED BY <1>1, <1>2, <1>4

HIDE DEF Depth, Pl

\* Sessions keep their state, id and context.
SessLike == \A s \in Sessions : /\ sess'[s].state = sess[s].state
                                /\ sess'[s].id = sess[s].id /\ sess'[s].ctx = sess[s].ctx
\* Contexts keep their state, TA and references.
CtxLike == \A c \in Ctxs : /\ ctx'[c].state = ctx[c].state /\ ctx'[c].u = ctx[c].u
                           /\ ctx'[c].ref = ctx[c].ref /\ (ctx[c].loaded => ctx'[c].loaded)

\* Frame f may become g and leave the relations to sessions and contexts as they are.
LinkOK(f, g) ==
    /\ Shape(g)
    /\ Ref(g) => (Ref(f) /\ g.s = f.s /\ g.own = f.own) \/ On(g.s, lists[g.own])
    /\ Past(g) => g.s = f.s /\ ((Past(f) /\ g.c = f.c) \/ (Ref(f) /\ sess[f.s].ctx = g.c))
    /\ Claims(g) => g.s = f.s /\ ((Claims(f) /\ g.c = f.c) \/ (Ref(f) /\ sess[f.s].ctx = g.c))
    /\ Claims(f) => Claims(g) /\ g.s = f.s /\ g.c = f.c
    /\ Ending(g) => Ending(f) /\ g.c = f.c
    /\ NullEnd(g) => sess[g.s].ctx = NoCtx

USE DEF Moved
HIDE DEF Depth, Pl

\* What a shape says of the session and the context of a frame.
LEMMA ShapeSays ==
    ASSUME NEW f, Shape(f)
    PROVE  /\ Ref(f) => f.s \in Sessions
           /\ f.own \in Owners
           /\ Grip(f) => f.s \in Sessions
           /\ Claims(f) => Grip(f) /\ f.s \in Sessions /\ (Past(f) \/ Gone(f))
           /\ Past(f) => Ref(f)
           /\ NullEnd(f) => Ref(f)
           /\ Uses(f) => f.c \in Ctxs
           /\ HoldsBusy(f) => Past(f) \/ Claims(f)
           /\ Gone(f) => Claims(f)
           /\ Gone(f) => ~Ref(f)
           /\ f = Null => ~Ref(f) /\ ~Uses(f) /\ ~Grip(f) /\ ~HoldsBusy(f) /\ ~NullEnd(f)
           /\ f # Null => f \in Frame
<1>1. f.op \in {"open", "invoke", "close", "cancel", "none"} /\ (f.op = "none" <=> f = Null) /\ f.pc \in Pcs \cup {"none"}
      /\ f.own \in Owners /\ (f.op = "none" => f.pc = "none") /\ (f # Null => f \in Frame)
  <2>1. f \in Frame => f.op \in {"open", "invoke", "close", "cancel"} /\ f.pc \in Pcs /\ f.own \in Owners
    BY DEF Frame
  <2>2. Null.op = "none" /\ Null.pc = "none" /\ Null.own \in Owners
    BY DEF Null, Owners
  <2> QED BY <2>1, <2>2 DEF Shape
<1> QED BY <1>1 DEF Shape, OpenShape, InvokeShape, CloseShape, Ref, Grip, Claims, Past, Gone, Uses, Ending,
           HoldsBusy, LivePcs, BusyPcs, EndPcs, NullEnd

\* The same for every frame there is.
LEMMA FrameSays ==
    ASSUME ShapeInv, HomeInv, NEW x \in Pl
    PROVE  /\ Shape(fr[x])
           /\ Ref(fr[x]) => fr[x].s \in Sessions /\ sess[fr[x].s].state = "live"
           /\ fr[x].own \in Owners
           /\ Grip(fr[x]) => fr[x].s \in Sessions
           /\ Claims(fr[x]) => Grip(fr[x]) /\ fr[x].s \in Sessions /\ (Past(fr[x]) \/ Gone(fr[x]))
           /\ Past(fr[x]) => Ref(fr[x])
           /\ NullEnd(fr[x]) => Ref(fr[x])
           /\ Uses(fr[x]) => fr[x].c \in Ctxs
           /\ HoldsBusy(fr[x]) => Past(fr[x]) \/ Claims(fr[x])
           /\ Gone(fr[x]) => Claims(fr[x])
           /\ Gone(fr[x]) => ~Ref(fr[x])
<1>1. Shape(fr[x])
  BY DEF ShapeInv
<1>2. PICK f : f = fr[x]
  OBVIOUS
<1>3. Shape(f) /\ (Ref(f) => f.s \in Sessions) /\ f.own \in Owners
  BY <1>1, <1>2, ShapeSays
<1>4. Ref(f) => sess[f.s].state = "live"
  BY <1>2, <1>3 DEF HomeInv
<1> QED BY <1>2, <1>3, <1>4, ShapeSays

\* The sessions that count for a context stay the same.
LEMMA ClaimsSame ==
    ASSUME TypeOK, ShapeInv, HomeInv, NEW p, NEW g, Moved(p, g), SessLike, LinkOK(fr[p], g)
    PROVE  \A c \in Ctxs : ClaimsOn(sess', fr', c) = ClaimsOn(sess, fr, c)
<1> DEFINE f == fr[p]
<1>1. Shape(f) /\ Shape(g) /\ p \in Pl
  BY DEF ShapeInv, LinkOK
<1>2. Ref(f) => sess[f.s].state = "live" /\ f.s \in Sessions
  BY <1>1, FrameSays
<1>3. TAKE c \in Ctxs
<1>4. ASSUME NEW s \in Sessions
      PROVE  s \in ClaimsOn(sess', fr', c) <=> s \in ClaimsOn(sess, fr, c)
  <2>1. sess'[s].state = sess[s].state /\ sess'[s].ctx = sess[s].ctx
    BY DEF SessLike
  <2>2. /\ s \in ClaimsOn(sess', fr', c) <=> \/ sess'[s].state = "live" /\ sess'[s].ctx = c
                                             \/ \E x \in Pl : Claims(fr'[x]) /\ fr'[x].s = s /\ fr'[x].c = c
        /\ s \in ClaimsOn(sess, fr, c) <=> \/ sess[s].state = "live" /\ sess[s].ctx = c
                                           \/ \E x \in Pl : Claims(fr[x]) /\ fr[x].s = s /\ fr[x].c = c
    BY DEF ClaimsOn
  <2>3. ASSUME NEW x \in Pl, Claims(fr'[x]), fr'[x].s = s, fr'[x].c = c PROVE s \in ClaimsOn(sess, fr, c)
    <3>1. CASE x # p
      BY <2>2, <2>3, <3>1
    <3>2. CASE x = p
      BY <1>1, <1>2, <2>2, <2>3, <3>2 DEF LinkOK
    <3> QED BY <3>1, <3>2
  <2>4. ASSUME NEW x \in Pl, Claims(fr[x]), fr[x].s = s, fr[x].c = c PROVE s \in ClaimsOn(sess', fr', c)
    BY <1>1, <2>2, <2>4 DEF LinkOK
  <2> QED BY <2>1, <2>2, <2>3, <2>4
<1>5. ClaimsOn(sess, fr, c) \subseteq Sessions /\ ClaimsOn(sess', fr', c) \subseteq Sessions
  BY DEF ClaimsOn
<1> QED BY <1>4, <1>5

\* The parts of Good that relate frames, sessions and contexts are kept.
LEMMA LinksMove ==
    ASSUME TypeOK, ShapeInv, HomeInv, LinkInv, UsedInv, CountInv, LoadInv,
           NEW p, NEW g, Moved(p, g), SessLike, CtxLike, UNCHANGED <<lists, ctxes>>,
           LinkOK(fr[p], g)
    PROVE  ShapeInv' /\ HomeInv' /\ LinkInv' /\ UsedInv' /\ CountInv' /\ LoadInv'
<1> DEFINE f == fr[p]
<1>1. Shape(f) /\ Shape(g) /\ p \in Pl /\ \A x \in Pl : Shape(fr[x])
  BY DEF ShapeInv, LinkOK
<1>2. /\ Ref(f) => sess[f.s].state = "live" /\ f.s \in Sessions
      /\ \A x \in Pl : Past(fr[x]) \/ NullEnd(fr[x]) => fr[x].s \in Sessions
      /\ Past(g) \/ NullEnd(g) => g.s \in Sessions
  <2>1. \A x \in Pl : /\ Past(fr[x]) \/ NullEnd(fr[x]) => fr[x].s \in Sessions
                      /\ Ref(fr[x]) => fr[x].s \in Sessions /\ sess[fr[x].s].state = "live"
    BY FrameSays
  <2>2. Past(g) \/ NullEnd(g) => g.s \in Sessions
    BY <1>1, ShapeSays
  <2> QED BY <1>1, <2>1, <2>2
<1>5. ShapeInv'
  BY <1>1 DEF ShapeInv
<1>6. HomeInv'
  <2>1. \A x \in Pl : Ref(fr'[x]) => On(fr'[x].s, lists'[fr'[x].own])
    BY <1>1 DEF HomeInv, LinkOK
  <2>2. \A o \in Owners : \A s \in Sessions : On(s, lists'[o]) => sess'[s].state = "live"
    BY DEF HomeInv, SessLike
  <2>3. \A o, q \in Owners : \A s \in Sessions : On(s, lists'[o]) /\ On(s, lists'[q]) => o = q
    BY DEF HomeInv
  <2> QED BY <2>1, <2>2, <2>3 DEF HomeInv
<1>7. LinkInv'
  <2>1. ASSUME NEW x \in Pl, Past(fr'[x])
        PROVE  \/ sess'[fr'[x].s].ctx = fr'[x].c
               \/ sess'[fr'[x].s].ctx = NoCtx /\ ~On(fr'[x].c, ctxes')
    <3>1. CASE x # p
      BY <1>2, <2>1, <3>1 DEF LinkInv, SessLike
    <3>2. CASE x = p
      <4>1. /\ fr'[x] = g /\ g.s = f.s /\ g.s \in Sessions
            /\ ((Past(f) /\ g.c = f.c) \/ (Ref(f) /\ sess[f.s].ctx = g.c))
        BY <1>1, <1>2, <2>1, <3>2 DEF LinkOK
      <4>2. CASE Ref(f) /\ sess[f.s].ctx = g.c
        BY <4>1, <4>2 DEF SessLike
      <4>3. CASE Past(f) /\ g.c = f.c
        <5>1. sess[f.s].ctx = f.c \/ (sess[f.s].ctx = NoCtx /\ ~On(f.c, ctxes))
          BY <1>1, <4>3 DEF LinkInv
        <5> QED BY <4>1, <4>3, <5>1 DEF SessLike
      <4> QED BY <4>1, <4>2, <4>3
    <3> QED BY <3>1, <3>2
  <2>2. ASSUME NEW x \in Pl, NullEnd(fr'[x]) PROVE sess'[fr'[x].s].ctx = NoCtx
    <3>1. CASE x # p
      BY <1>2, <2>2, <3>1 DEF LinkInv, SessLike
    <3>2. CASE x = p
      BY <1>2, <2>2, <3>2 DEF LinkOK, SessLike
    <3> QED BY <3>1, <3>2
  <2> QED BY <2>1, <2>2 DEF LinkInv
<1>8. UsedInv'
  <2>1. ASSUME NEW x \in Pl, Uses(fr'[x]) PROVE ctx'[fr'[x].c].state # "unused"
    <3>1. Shape(fr'[x])
      BY <1>1
    <3>2. fr'[x].c \in Ctxs
      BY <2>1, <3>1, ShapeSays
    <3>3. CASE x # p
      BY <2>1, <3>2, <3>3 DEF UsedInv, CtxLike
    <3>4. CASE x = p
      <4>1. fr'[x] = g /\ Uses(g) /\ g.c \in Ctxs
        BY <2>1, <3>2, <3>4
      <4>2. CASE Uses(f) /\ g.c = f.c
        BY <1>1, <4>1, <4>2 DEF UsedInv, CtxLike
      <4>3. CASE Ref(f) /\ sess[f.s].ctx = g.c
        <5>1. NoCtx \notin Ctxs
          BY TaManagerAssumption DEF Ctxs
        <5>2. ctx[g.c].state # "unused"
          BY <1>2, <4>1, <4>3, <5>1 DEF UsedInv
        <5> QED BY <4>1, <5>2 DEF CtxLike
      <4> QED BY <4>1, <4>2, <4>3 DEF LinkOK, Uses
    <3> QED BY <3>3, <3>4
  <2>2. ASSUME NEW s \in Sessions, sess'[s].state = "live", sess'[s].ctx # NoCtx
        PROVE  ctx'[sess'[s].ctx].state # "unused"
    <3>1. sess[s].state = "live" /\ sess[s].ctx # NoCtx /\ sess'[s].ctx = sess[s].ctx
      BY <2>2 DEF SessLike
    <3>2. sess[s].ctx \in Ctxs
      BY <3>1 DEF TypeOK, Session
    <3> QED BY <3>1, <3>2 DEF UsedInv, CtxLike
  <2>3. \A c \in Ctxs : On(c, ctxes') => ctx'[c].state = "live"
    BY DEF UsedInv, CtxLike
  <2>4. ASSUME NEW x \in Pl, Ending(fr'[x]) PROVE ~On(fr'[x].c, ctxes')
    BY <1>1, <2>4 DEF UsedInv, LinkOK
  <2> QED BY <2>1, <2>2, <2>3, <2>4 DEF UsedInv
<1>9. CountInv'
  <2>1. \A c \in Ctxs : ClaimsOn(sess', fr', c) = ClaimsOn(sess, fr, c)
    BY ClaimsSame
  <2> SUFFICES ASSUME NEW c \in Ctxs
               PROVE  /\ Cardinality(ClaimsOn(sess', fr', c)) <= ctx'[c].ref
                      /\ On(c, ctxes') => Cardinality(ClaimsOn(sess', fr', c)) = ctx'[c].ref
    BY DEF CountInv
  <2>2. ctx'[c].ref = ctx[c].ref
    BY DEF CtxLike
  <2> QED BY <2>1, <2>2 DEF CountInv
<1>10. LoadInv'
  BY DEF LoadInv, CtxLike
<1> QED BY <1>5, <1>6, <1>7, <1>8, <1>9, <1>10

USE DEF Moved

\* The references to session s that frame f holds.
Has(f, s) == IF Ref(f) /\ f.s = s THEN 1 ELSE 0

\* References come and go one at a time.
LEMMA RefsCard ==
    ASSUME NEW p, NEW g, Moved(p, g), NEW s, IsFiniteSet(Refs(fr, s))
    PROVE  /\ IsFiniteSet(Refs(fr', s))
           /\ Cardinality(Refs(fr, s)) \in Nat /\ Cardinality(Refs(fr', s)) \in Nat
           /\ Cardinality(Refs(fr', s)) + Has(fr[p], s) = Cardinality(Refs(fr, s)) + Has(g, s)
<1>1. PICK R : R = Refs(fr, s)
  OBVIOUS
<1>2. PICK Q : Q = Refs(fr', s)
  OBVIOUS
<1>3. /\ p \in R <=> Ref(fr[p]) /\ fr[p].s = s
      /\ p \in Q <=> Ref(g) /\ g.s = s
      /\ Q \ {p} = R \ {p}
  BY <1>1, <1>2 DEF Refs
<1>4. IsFiniteSet(R) /\ IsFiniteSet(R \ {p}) /\ Cardinality(R) \in Nat /\ Cardinality(R \ {p}) \in Nat
      /\ Cardinality(R \ {p}) = IF p \in R THEN Cardinality(R) - 1 ELSE Cardinality(R)
  BY <1>1, FS_RemoveElement, FS_CardinalityType
<1>5. PICK M : M = R \ {p}
  OBVIOUS
<1>6. IsFiniteSet(Q) /\ Cardinality(Q) \in Nat /\ Cardinality(Q) = IF p \in Q THEN Cardinality(M) + 1 ELSE Cardinality(M)
  <2>1. IsFiniteSet(M) /\ Cardinality(M) \in Nat /\ p \notin M /\ Q \ {p} = M
    BY <1>3, <1>4, <1>5
  <2>2. CASE p \in Q
    <3>1. Q = M \cup {p}
      BY <2>1, <2>2
    <3> QED BY <2>1, <2>2, <3>1, FS_AddElement
  <2>3. CASE p \notin Q
    <3>1. Q = M
      BY <2>1, <2>3
    <3> QED BY <2>1, <2>3, <3>1
  <2> QED BY <2>2, <2>3
<1> QED BY <1>1, <1>2, <1>3, <1>4, <1>5, <1>6 DEF Has

\* The counts of references are kept.
LEMMA RefsKeep ==
    ASSUME TypeOK, RefInv, NEW p, NEW g, Moved(p, g),
           \A s \in Sessions : /\ sess'[s].ref \in Nat
                               /\ sess'[s].ref + Has(fr[p], s) >= sess[s].ref + Has(g, s)
    PROVE  RefInv'
<1> SUFFICES ASSUME NEW s \in Sessions
             PROVE  IsFiniteSet(Refs(fr', s)) /\ Cardinality(Refs(fr', s)) <= sess'[s].ref
  BY DEF RefInv
<1>1. IsFiniteSet(Refs(fr, s)) /\ Cardinality(Refs(fr, s)) <= sess[s].ref /\ sess[s].ref \in Nat
  BY DEF RefInv, TypeOK, Session
<1>2. /\ IsFiniteSet(Refs(fr', s))
      /\ Cardinality(Refs(fr, s)) \in Nat /\ Cardinality(Refs(fr', s)) \in Nat
      /\ Cardinality(Refs(fr', s)) + Has(fr[p], s) = Cardinality(Refs(fr, s)) + Has(g, s)
  BY <1>1, RefsCard
<1>3. Has(fr[p], s) \in 0..1 /\ Has(g, s) \in 0..1
  BY DEF Has
<1>4. sess'[s].ref \in Nat /\ sess'[s].ref + Has(fr[p], s) >= sess[s].ref + Has(g, s)
  OBVIOUS
<1> QED BY <1>1, <1>2, <1>3, <1>4

\* A frame that has a reference: there is one to give up.
LEMMA RefHeld ==
    ASSUME TypeOK, RefInv, NEW x \in Pl, Ref(fr[x]), fr[x].s \in Sessions
    PROVE  /\ sess[fr[x].s].ref >= 1 /\ sess[fr[x].s].ref \in Nat
           /\ sess[fr[x].s].ref = 1 => \A y \in Pl : Ref(fr[y]) /\ fr[y].s = fr[x].s => y = x
<1>1. PICK s : s = fr[x].s
  OBVIOUS
<1>2. PICK R : R = Refs(fr, s)
  OBVIOUS
<1>3. IsFiniteSet(R) /\ Cardinality(R) <= sess[s].ref /\ sess[s].ref \in Nat /\ x \in R
  BY <1>1, <1>2 DEF RefInv, TypeOK, Session, Refs
<1>4. /\ Cardinality(R) \in Nat /\ IsFiniteSet(R \ {x}) /\ Cardinality(R \ {x}) = Cardinality(R) - 1
      /\ Cardinality(R \ {x}) \in Nat
  BY <1>3, FS_RemoveElement, FS_CardinalityType
<1>5. ASSUME sess[s].ref = 1, NEW y \in Pl, Ref(fr[y]), fr[y].s = s PROVE y = x
  <2>1. Cardinality(R \ {x}) = 0
    BY <1>3, <1>4, <1>5
  <2>2. R \ {x} = {}
    BY <1>4, <2>1, FS_EmptySet
  <2>3. y \in R
    BY <1>2, <1>5 DEF Refs
  <2> QED BY <2>2, <2>3
<1> QED BY <1>1, <1>3, <1>4, <1>5

\* One frame at a time has the session for itself.
LEMMA GripKeep ==
    ASSUME GripInv, NEW p, NEW g, Moved(p, g),
           Grip(g) => \/ Grip(fr[p]) /\ g.s = fr[p].s
                      \/ \A y \in Pl : y # p /\ Grip(fr[y]) => fr[y].s # g.s,
           Grip(g) /\ Ref(g) => sess'[g.s].lock = p[1],
           Gone(g) => sess'[g.s].state = "freed",
           \A y \in Pl : y # p /\ Grip(fr[y]) /\ Ref(fr[y]) => sess'[fr[y].s].lock = sess[fr[y].s].lock,
           \A y \in Pl : y # p /\ Gone(fr[y]) => sess'[fr[y].s].state = "freed"
    PROVE  GripInv'
<1>1. \A x, y \in Pl : Grip(fr'[x]) /\ Grip(fr'[y]) /\ fr'[x].s = fr'[y].s => x = y
  <2> SUFFICES ASSUME NEW x \in Pl, NEW y \in Pl, Grip(fr'[x]), Grip(fr'[y]), fr'[x].s = fr'[y].s,
                      x # y
               PROVE  FALSE
    OBVIOUS
  <2>1. CASE x # p /\ y # p
    BY <2>1 DEF GripInv
  <2>2. CASE x = p
    BY <2>2 DEF GripInv
  <2>3. CASE y = p
    BY <2>3 DEF GripInv
  <2> QED BY <2>1, <2>2, <2>3
<1>2. \A x \in Pl : Grip(fr'[x]) /\ Ref(fr'[x]) => sess'[fr'[x].s].lock = x[1]
  BY DEF GripInv
<1>3. \A x \in Pl : Gone(fr'[x]) => sess'[fr'[x].s].state = "freed"
  OBVIOUS
<1> QED BY <1>1, <1>2, <1>3 DEF GripInv

\* Frame f may become g and no session is taken.
GripOK(f, g) ==
    /\ Ref(g) => Ref(f) /\ g.s = f.s
    /\ Grip(g) => Grip(f) /\ g.s = f.s
    /\ Gone(g) => Gone(f)

\* A step that takes and gives up no reference.
LEMMA GripQuiet ==
    ASSUME TypeOK, ShapeInv, RefInv, GripInv, NEW p, NEW g, Moved(p, g), UNCHANGED sess, GripOK(fr[p], g)
    PROVE  RefInv' /\ GripInv'
<1>1. \A s \in Sessions : sess[s].ref \in Nat
  BY DEF TypeOK, Session
<1>2. \A s \in Sessions : /\ sess'[s].ref \in Nat
                          /\ sess'[s].ref + Has(fr[p], s) >= sess[s].ref + Has(g, s)
  BY <1>1 DEF Has, GripOK
<1>3. RefInv'
  BY <1>2, RefsKeep
<1>4. GripInv'
  <2>1. /\ Grip(g) => Grip(fr[p]) /\ g.s = fr[p].s
        /\ Grip(g) /\ Ref(g) => sess'[g.s].lock = p[1]
        /\ Gone(g) => sess'[g.s].state = "freed"
    <3>1. Gone(g) => Grip(g)
      BY DEF Gone, Grip
    <3> QED BY <3>1 DEF GripOK, GripInv
  <2>2. \A y \in Pl : y # p /\ Gone(fr[y]) => sess'[fr[y].s].state = "freed"
    BY DEF GripInv
  <2> QED BY <2>1, <2>2, GripKeep
<1> QED BY <1>3, <1>4

\* The stacks.
LEMMA StackSet ==
    ASSUME StackInv, NEW p, NEW g, Moved(p, g), fr[p] # Null, fr[<<p[1], p[2] + 1>>] = Null,
           g # Null => g.own = fr[p].own /\ (g.op = "cancel" => fr[p].op = "cancel")
    PROVE  StackInv'
<1> SUFFICES ASSUME NEW x \in Pl, fr'[x] # Null
             PROVE  \/ x[2] = 1 /\ fr'[x].own = NW
                    \/ /\ x[2] > 1 /\ fr'[<<x[1], x[2] - 1>>].pc \in {"in_ta", "drain"}
                       /\ fr'[x].op # "cancel"
                       /\ fr'[<<x[1], x[2] - 1>>].c = fr'[x].own /\ fr'[x].own \in Ctxs
  BY DEF StackInv
<1>1. fr[x] # Null /\ fr'[x].own = fr[x].own /\ (fr'[x].op = "cancel" => fr[x].op = "cancel")
  BY DEF StackInv
<1>2. \/ x[2] = 1 /\ fr[x].own = NW
      \/ /\ x[2] > 1 /\ fr[<<x[1], x[2] - 1>>].pc \in {"in_ta", "drain"}
         /\ fr[x].op # "cancel"
         /\ fr[<<x[1], x[2] - 1>>].c = fr[x].own /\ fr[x].own \in Ctxs
  BY <1>1 DEF StackInv
<1>3. ASSUME x[2] > 1 PROVE <<x[1], x[2] - 1>> \in Pl /\ <<x[1], x[2] - 1>> # p
  <2>1. x[1] \in Threads /\ x[2] \in Nat /\ x = <<x[1], x[2]>>
    BY DEF Pl, Depth
  <2>2. <<x[1], x[2] - 1>> \in Pl
    BY <1>3, <2>1 DEF Pl, Depth
  <2>3. ASSUME <<x[1], x[2] - 1>> = p PROVE FALSE
    <3>1. p[1] = x[1] /\ p[2] + 1 = x[2]
      BY <2>1, <2>3
    <3> QED BY <1>1, <2>1, <3>1
  <2> QED BY <2>2, <2>3
<1> QED BY <1>1, <1>2, <1>3

\* A new innermost frame belongs to the TA that runs below it.
LEMMA StackPush ==
    ASSUME StackInv, NEW p, NEW g, Moved(p, g), fr[p] = Null, fr[<<p[1], p[2] + 1>>] = Null,
           \/ p[2] = 1 /\ g.own = NW
           \/ /\ p[2] > 1 /\ fr[<<p[1], p[2] - 1>>].pc \in {"in_ta", "drain"}
              /\ g.op # "cancel"
              /\ fr[<<p[1], p[2] - 1>>].c = g.own /\ g.own \in Ctxs
    PROVE  StackInv'
<1> SUFFICES ASSUME NEW x \in Pl, fr'[x] # Null
             PROVE  \/ x[2] = 1 /\ fr'[x].own = NW
                    \/ /\ x[2] > 1 /\ fr'[<<x[1], x[2] - 1>>].pc \in {"in_ta", "drain"}
                       /\ fr'[x].op # "cancel"
                       /\ fr'[<<x[1], x[2] - 1>>].c = fr'[x].own /\ fr'[x].own \in Ctxs
  BY DEF StackInv
<1>1. x[1] \in Threads /\ x[2] \in Nat \ {0} /\ x = <<x[1], x[2]>> /\ p = <<p[1], p[2]>> /\ p[2] \in Nat \ {0}
  BY DEF Pl, Depth
<1>2. ASSUME x[2] > 1, fr[x] # Null \/ x = p PROVE <<x[1], x[2] - 1>> \in Pl /\ <<x[1], x[2] - 1>> # p
  <2>2. <<x[1], x[2] - 1>> \in Pl
    BY <1>1, <1>2 DEF Pl, Depth
  <2>3. ASSUME <<x[1], x[2] - 1>> = p PROVE FALSE
    <3>1. p[1] = x[1] /\ p[2] + 1 = x[2]
      BY <1>1, <2>3
    <3> QED BY <1>1, <1>2, <3>1
  <2> QED BY <2>2, <2>3
<1>3. CASE x # p
  <2>1. fr[x] # Null /\ fr'[x] = fr[x]
    BY <1>3
  <2> QED BY <1>2, <2>1 DEF StackInv
<1>4. CASE x = p
  BY <1>2, <1>4
<1> QED BY <1>3, <1>4

\* The busy flags: no frame comes to hold one.
LEMMA HoldSame ==
    ASSUME HoldInv, ShapeInv, UsedInv, LoadInv, NEW p, NEW g, Moved(p, g),
           HoldsBusy(g) => (HoldsBusy(fr[p]) /\ g.c = fr[p].c) \/ ~NonConc(ctx'[g.c]),
           \A x \in Pl : x # p /\ HoldsBusy(fr[x]) /\ NonConc(ctx'[fr[x].c]) =>
              NonConc(ctx[fr[x].c]) /\ ctx'[fr[x].c].busy,
           HoldsBusy(g) /\ NonConc(ctx'[g.c]) => NonConc(ctx[g.c]) /\ ctx'[g.c].busy
    PROVE  HoldInv'
<1>1. \A x \in Pl : HoldsBusy(fr'[x]) /\ NonConc(ctx'[fr'[x].c]) => ctx'[fr'[x].c].busy
  OBVIOUS
<1>2. \A x, y \in Pl : HoldsBusy(fr'[x]) /\ HoldsBusy(fr'[y]) /\ fr'[x].c = fr'[y].c /\ NonConc(ctx'[fr'[x].c]) => x = y
  <2> SUFFICES ASSUME NEW x \in Pl, NEW y \in Pl, HoldsBusy(fr'[x]), HoldsBusy(fr'[y]), fr'[x].c = fr'[y].c,
                      NonConc(ctx'[fr'[x].c]), x # y
               PROVE  FALSE
    OBVIOUS
  <2>1. CASE x # p /\ y # p
    BY <2>1 DEF HoldInv
  <2>2. CASE x = p
    BY <2>2 DEF HoldInv
  <2>3. CASE y = p
    BY <2>3 DEF HoldInv
  <2> QED BY <2>1, <2>2, <2>3
<1> QED BY <1>1, <1>2 DEF HoldInv

HIDE DEF Moved

\* A thread that can run: its innermost call.
LEMMA AtSays ==
    ASSUME AInv, NEW t \in Threads, fault = "none", stack[t] # <<>>
    PROVE  /\ TypeOK /\ HoldInv /\ Good /\ stack \in [Threads -> Seq(Frame)]
           /\ TopP(t) \in Pl /\ TopP(t)[1] = t /\ fr[TopP(t)] = Top(t) /\ Top(t) \in Frame
           /\ Shape(Top(t)) /\ Top(t) # Null /\ fr[<<TopP(t)[1], TopP(t)[2] + 1>>] = Null
<1>1. TypeOK /\ HoldInv /\ Good /\ stack \in [Threads -> Seq(Frame)]
  BY DEF AInv, TypeOK
<1>2. /\ TopP(t) \in Pl /\ TopP(t)[1] = t /\ TopP(t)[2] = Len(stack[t]) /\ fr[TopP(t)] = Top(t) /\ Top(t) \in Frame
      /\ fr[<<t, Len(stack[t]) + 1>>] = Null
  BY <1>1, TopIs
<1>3. Shape(fr[TopP(t)])
  BY <1>1, <1>2 DEF Good, ShapeInv
<1>4. Null \notin Frame
  BY <1>1, FrIs
<1> QED BY <1>1, <1>2, <1>3, <1>4

\* Types where no list changes.
LEMMA TypeStep ==
    ASSUME TypeOK, sess' \in [Sessions -> Session], ctx' \in [Ctxs -> Context], ctxes' \in Seq(Ctxs),
           si' \in [thread : Threads \cup {NoThread}, count : Nat],
           waitq' \in Seq([t : Threads, cv : Cvs]), stack' \in [Threads -> Seq(Frame)],
           usable' \subseteq Sessions, fault' \in Faults, lists' = lists,
           \A s \in Sessions : sess'[s].id = sess[s].id
    PROVE  TypeOK'
<1>1. lists' \in [Owners -> Seq(Sessions)]
  BY DEF TypeOK
<1>2. ASSUME NEW o \in Owners, NEW i \in 1..Len(lists'[o]), NEW j \in 1..Len(lists'[o])
      PROVE  /\ sess'[lists'[o][i]].id # 0
             /\ sess'[lists'[o][i]].id = sess'[lists'[o][j]].id => i = j
  <2>1. lists[o] \in Seq(Sessions) /\ lists'[o] = lists[o]
    BY DEF TypeOK
  <2>2. lists[o][i] \in Sessions /\ lists[o][j] \in Sessions
    BY <2>1
  <2>3. /\ sess[lists[o][i]].id # 0
        /\ sess[lists[o][i]].id = sess[lists[o][j]].id => i = j
    BY <2>1 DEF TypeOK
  <2> QED BY <2>1, <2>2, <2>3
<1> QED BY <1>1, <1>2 DEF TypeOK

\* What a change of one frame keeps, when no session, context or list changes.
StepOK(f, g) ==
    /\ LinkOK(f, g)
    /\ g # Null => g.own = f.own /\ (g.op = "cancel" => f.op = "cancel")

\* The innermost call goes on, ...
LEMMA SetLinks ==
    ASSUME AInv, fault = "none", NEW t \in Threads, stack[t] # <<>>, NEW g \in Frame, SetTop(t, g),
           UNCHANGED <<lists, ctxes>>, SessLike, CtxLike, StepOK(Top(t), g)
    PROVE  /\ Moved(TopP(t), g) /\ stack' \in [Threads -> Seq(Frame)]
           /\ ShapeInv' /\ StackInv' /\ HomeInv' /\ LinkInv' /\ UsedInv' /\ CountInv' /\ LoadInv'
<1>1. /\ Moved(TopP(t), g) /\ stack' \in [Threads -> Seq(Frame)]
  BY AtSays, MoveSet
<1>2. PICK p : p = TopP(t)
  OBVIOUS
<1>3. /\ TypeOK /\ Good /\ fr[p] = Top(t) /\ Top(t) # Null /\ fr[<<p[1], p[2] + 1>>] = Null
  BY <1>2, AtSays
<1>4. ShapeInv' /\ HomeInv' /\ LinkInv' /\ UsedInv' /\ CountInv' /\ LoadInv'
  BY <1>1, <1>2, <1>3, LinksMove DEF StepOK, Good
<1>5. StackInv'
  BY <1>1, <1>2, <1>3, StackSet DEF StepOK, Good
<1> QED BY <1>1, <1>4, <1>5

\* ... or returns, ...
LEMMA PopLinks ==
    ASSUME AInv, fault = "none", NEW t \in Threads, stack[t] # <<>>, Return(t),
           UNCHANGED <<lists, ctxes>>, SessLike, CtxLike, ~Claims(Top(t))
    PROVE  /\ Moved(TopP(t), Null) /\ stack' \in [Threads -> Seq(Frame)]
           /\ ShapeInv' /\ StackInv' /\ HomeInv' /\ LinkInv' /\ UsedInv' /\ CountInv' /\ LoadInv'
<1>1. /\ Moved(TopP(t), Null) /\ stack' \in [Threads -> Seq(Frame)]
  BY AtSays, MovePop
<1>2. PICK p : p = TopP(t)
  OBVIOUS
<1>3. /\ TypeOK /\ Good /\ fr[p] = Top(t) /\ Top(t) # Null /\ fr[<<p[1], p[2] + 1>>] = Null
  BY <1>2, AtSays
<1>4. LinkOK(fr[p], Null)
  <2>1. Shape(Null)
    BY DEF Shape, Null
  <2>2. ~Ref(Null) /\ ~Past(Null) /\ ~Claims(Null) /\ ~Ending(Null) /\ ~NullEnd(Null)
    BY DEF Null, Ref, Past, Claims, Ending, NullEnd, EndPcs
  <2> QED BY <1>3, <2>1, <2>2 DEF LinkOK
<1>5. ShapeInv' /\ HomeInv' /\ LinkInv' /\ UsedInv' /\ CountInv' /\ LoadInv'
  BY <1>1, <1>2, <1>3, <1>4, LinksMove DEF Good
<1>6. StackInv'
  BY <1>1, <1>2, <1>3, StackSet DEF Good
<1> QED BY <1>1, <1>5, <1>6

\* ... and takes and gives up no reference.
LEMMA SetQuiet ==
    ASSUME AInv, fault = "none", NEW t \in Threads, stack[t] # <<>>, NEW g \in Frame, SetTop(t, g),
           UNCHANGED <<sess, lists, ctxes>>, CtxLike, StepOK(Top(t), g), GripOK(Top(t), g)
    PROVE  /\ Moved(TopP(t), g) /\ stack' \in [Threads -> Seq(Frame)] /\ Good'
<1>1. SessLike
  BY DEF SessLike
<1>2. /\ Moved(TopP(t), g) /\ stack' \in [Threads -> Seq(Frame)]
      /\ ShapeInv' /\ StackInv' /\ HomeInv' /\ LinkInv' /\ UsedInv' /\ CountInv' /\ LoadInv'
  BY <1>1, SetLinks
<1>3. TypeOK /\ Good /\ fr[TopP(t)] = Top(t)
  BY AtSays
<1>4. RefInv' /\ GripInv'
  BY <1>2, <1>3, GripQuiet DEF Good
<1> QED BY <1>2, <1>4 DEF Good

\* A call returns and touches no session.
LEMMA PopQuiet ==
    ASSUME AInv, fault = "none", NEW t \in Threads, stack[t] # <<>>, Return(t),
           UNCHANGED <<sess, lists, ctxes>>, CtxLike, ~Claims(Top(t))
    PROVE  /\ Moved(TopP(t), Null) /\ stack' \in [Threads -> Seq(Frame)] /\ Good'
<1>1. SessLike
  BY DEF SessLike
<1>2. /\ Moved(TopP(t), Null) /\ stack' \in [Threads -> Seq(Frame)]
      /\ ShapeInv' /\ StackInv' /\ HomeInv' /\ LinkInv' /\ UsedInv' /\ CountInv' /\ LoadInv'
  BY <1>1, PopLinks
<1>3. TypeOK /\ Good /\ fr[TopP(t)] = Top(t)
  BY AtSays
<1>4. GripOK(Top(t), Null)
  BY DEF GripOK, Ref, Grip, Gone, Null
<1>5. RefInv' /\ GripInv'
  BY <1>2, <1>3, <1>4, GripQuiet DEF Good
<1> QED BY <1>2, <1>5 DEF Good

\* A call is made.
LEMMA PushQuiet ==
    ASSUME AInv, fault = "none", NEW t \in Threads, NEW g \in Frame, Push(t, g),
           UNCHANGED <<sess, ctx, lists, ctxes>>, Shape(g), ~Ref(g), ~Uses(g), ~Grip(g), ~NullEnd(g), ~HoldsBusy(g),
           \/ stack[t] = <<>> /\ g.own = NW
           \/ /\ stack[t] # <<>> /\ Top(t).pc \in {"in_ta", "drain"} /\ g.op # "cancel"
              /\ Top(t).c = g.own /\ g.own \in Ctxs
    PROVE  /\ stack' \in [Threads -> Seq(Frame)] /\ Good' /\ HoldInv'
           /\ Moved(<<t, Len(stack[t]) + 1>>, g) /\ fr[<<t, Len(stack[t]) + 1>>] = Null
<1>1. TypeOK /\ HoldInv /\ Good /\ stack \in [Threads -> Seq(Frame)]
  BY DEF AInv, TypeOK
<1>2. PICK p \in Pl : /\ Moved(p, g) /\ fr[p] = Null
              /\ p = <<t, Len(stack[t]) + 1>> /\ fr[<<t, Len(stack[t]) + 2>>] = Null
              /\ Len(stack[t]) \in Nat
              /\ stack' \in [Threads -> Seq(Frame)]
  BY <1>1, MovePush
<1>3. SessLike /\ CtxLike
  BY DEF SessLike, CtxLike
<1>4. Shape(fr[p]) /\ ~Claims(fr[p])
  <2>1. Shape(fr[p])
    BY <1>1 DEF Good, ShapeInv
  <2> QED BY <1>2, <2>1, ShapeSays DEF Uses
<1>5. ~Ending(g) /\ ~Past(g) /\ ~Claims(g)
  BY DEF Uses
<1>6. LinkOK(fr[p], g)
  BY <1>4, <1>5 DEF LinkOK
<1>7. ShapeInv' /\ HomeInv' /\ LinkInv' /\ UsedInv' /\ CountInv' /\ LoadInv'
  BY <1>1, <1>2, <1>3, <1>6, LinksMove DEF Good
<1>8. GripOK(fr[p], g)
  BY <1>5, ShapeSays DEF GripOK
<1>9. RefInv' /\ GripInv'
  BY <1>1, <1>2, <1>8, GripQuiet DEF Good
<1>10. StackInv'
  <2>0. p[1] = t /\ p[2] = Len(stack[t]) + 1 /\ p[2] + 1 = Len(stack[t]) + 2 /\ p[2] - 1 = Len(stack[t])
    BY <1>2
  <2>1. p[1] = t /\ p[2] = Len(stack[t]) + 1 /\ fr[<<p[1], p[2] + 1>>] = Null
    BY <1>2, <2>0
  <2>2. CASE stack[t] = <<>> /\ g.own = NW
    <3>1. p[2] = 1 /\ StackInv
      BY <1>1, <1>2, <2>0, <2>2 DEF Good
    <3> QED BY <1>2, <2>1, <2>2, <3>1, StackPush
  <2>3. CASE /\ stack[t] # <<>> /\ Top(t).pc \in {"in_ta", "drain"} /\ g.op # "cancel"
             /\ Top(t).c = g.own /\ g.own \in Ctxs
    <3>1. fr[TopP(t)] = Top(t) /\ Len(stack[t]) # 0
      BY <1>1, <2>3, TopIs
    <3>2. <<p[1], p[2] - 1>> = TopP(t)
      BY <2>0 DEF TopP
    <3>3. p[2] > 1 /\ StackInv
      BY <1>1, <1>2, <2>0, <3>1 DEF Good
    <3>4. fr[<<p[1], p[2] - 1>>].pc \in {"in_ta", "drain"} /\ fr[<<p[1], p[2] - 1>>].c = g.own
      BY <2>3, <3>1, <3>2
    <3> QED BY <1>2, <2>1, <2>3, <3>3, <3>4, StackPush
  <2> QED BY <2>2, <2>3
<1>11. HoldInv'
  <2>1. \A x \in Pl : x # p /\ HoldsBusy(fr[x]) /\ NonConc(ctx'[fr[x].c]) =>
              NonConc(ctx[fr[x].c]) /\ ctx'[fr[x].c].busy
    BY <1>1 DEF HoldInv
  <2> QED BY <1>1, <1>2, <2>1, HoldSame DEF Good
<1> QED BY <1>2, <1>7, <1>9, <1>10, <1>11 DEF Good

\* A change of the innermost frame, and at most of the wait queue.
LEMMA FrameSet ==
    ASSUME AInv, fault = "none", NEW t \in Threads, stack[t] # <<>>, NEW g \in Frame, SetTop(t, g),
           UNCHANGED <<sess, ctx, ctxes, lists, si>>, waitq' \in Seq([t : Threads, cv : Cvs]),
           usable' \subseteq Sessions, fault' \in Faults,
           HoldsBusy(g) => (HoldsBusy(Top(t)) /\ g.c = Top(t).c) \/ ~NonConc(ctx[g.c]),
           fault' = "none" => StepOK(Top(t), g) /\ GripOK(Top(t), g)
    PROVE  AInv'
<1>1. /\ TypeOK /\ HoldInv /\ Good /\ stack \in [Threads -> Seq(Frame)] /\ fr[TopP(t)] = Top(t) /\ TopP(t) \in Pl
  BY AtSays
<1>2. /\ Moved(TopP(t), g) /\ stack' \in [Threads -> Seq(Frame)]
  BY <1>1, MoveSet
<1>3. TypeOK'
  BY <1>1, <1>2, TypeStep DEF TypeOK
<1>4. HoldInv'
  <2>1. PICK p : p = TopP(t)
    OBVIOUS
  <2>2. \A x \in Pl : x # p /\ HoldsBusy(fr[x]) /\ NonConc(ctx'[fr[x].c]) =>
              NonConc(ctx[fr[x].c]) /\ ctx'[fr[x].c].busy
    BY <1>1 DEF HoldInv
  <2>3. HoldsBusy(g) /\ NonConc(ctx'[g.c]) => NonConc(ctx[g.c]) /\ ctx'[g.c].busy
    BY <1>1, <1>2 DEF HoldInv
  <2>4. HoldsBusy(g) => (HoldsBusy(fr[p]) /\ g.c = fr[p].c) \/ ~NonConc(ctx'[g.c])
    BY <1>1, <2>1
  <2> QED BY <1>1, <1>2, <2>1, <2>2, <2>3, <2>4, HoldSame DEF Good
<1>5. fault' = "none" => Good'
  <2>1. CtxLike
    BY DEF CtxLike
  <2> QED BY <2>1, SetQuiet
<1> QED BY <1>3, <1>4, <1>5 DEF AInv

\* The innermost call returns and nothing else happens.
LEMMA FramePop ==
    ASSUME AInv, fault = "none", NEW t \in Threads, stack[t] # <<>>, Return(t), ~Claims(Top(t)),
           UNCHANGED <<sess, ctx, ctxes, lists, si, waitq, usable, fault>>
    PROVE  AInv'
<1>1. /\ TypeOK /\ HoldInv /\ Good /\ stack \in [Threads -> Seq(Frame)] /\ fr[TopP(t)] = Top(t) /\ TopP(t) \in Pl
  BY AtSays
<1>2. CtxLike
  BY DEF CtxLike
<1>3. /\ Moved(TopP(t), Null) /\ stack' \in [Threads -> Seq(Frame)] /\ Good'
  BY <1>2, PopQuiet
<1>4. TypeOK'
  BY <1>1, <1>3, TypeStep DEF TypeOK
<1>5. HoldInv'
  <2>1. ~HoldsBusy(Null)
    BY DEF HoldsBusy, Null
  <2>2. \A x \in Pl : x # TopP(t) /\ HoldsBusy(fr[x]) /\ NonConc(ctx'[fr[x].c]) =>
              NonConc(ctx[fr[x].c]) /\ ctx'[fr[x].c].busy
    BY <1>1 DEF HoldInv
  <2> QED BY <1>1, <1>3, <2>1, <2>2, HoldSame DEF Good
<1> QED BY <1>3, <1>4, <1>5 DEF AInv

\* A failed open keeps AInv.
LEMMA OpenFailsA ==
    ASSUME AInv, NEW t \in Threads, OpenFails(t)
    PROVE  AInv'
<1>1. fault = "none" /\ stack[t] # <<>> /\ Top(t).pc = "open_init" /\ Return(t)
      /\ UNCHANGED <<sess, ctx, ctxes, lists, si, waitq, usable, fault>>
  BY DEF OpenFails, At
<1>2. ~Claims(Top(t))
  BY <1>1 DEF Claims, LivePcs, BusyPcs
<1> QED BY <1>1, <1>2, FramePop

\* tee_ta_open_session up to tee_ta_try_set_busy keeps AInv.
LEMMA OpenChkA ==
    ASSUME AInv, NEW t \in Threads, OpenChk(t)
    PROVE  AInv'
<1>1. PICK f : f = Top(t)
  OBVIOUS
<1>2. PICK c : c = sess[f.s].ctx
  OBVIOUS
<1>3. /\ fault = "none" /\ stack[t] # <<>> /\ f.pc = "open_chk"
      /\ UNCHANGED <<sess, ctx, ctxes, lists, si, waitq, usable, fault>>
      /\ IF c = NoCtx \/ ctx[c].panicked THEN SetTop(t, CloseInstead(f))
         ELSE SetTop(t, [f EXCEPT !.c = c, !.pc = "busy"])
  BY <1>1, <1>2 DEF OpenChk, At
<1>4. TypeOK /\ f \in Frame /\ Shape(f) /\ Good /\ f.own \in Owners
  BY <1>1, <1>3, AtSays, ShapeSays
<1>5. f.op = "open" /\ f.s \in Sessions /\ f.via = "null"
  BY <1>3, <1>4 DEF Shape, OpenShape, InvokeShape, CloseShape, LivePcs, BusyPcs, EndPcs, Frame
<1>6. c \in Ctxs \cup {NoCtx} /\ sess[f.s].id \in 0..MaxId
  BY <1>2, <1>4, <1>5 DEF TypeOK, Session
<1>7. CASE c = NoCtx \/ ctx[c].panicked
  <2>1. PICK g : g = CloseInstead(f)
    OBVIOUS
  <2>2. /\ g \in Frame /\ g.op = "close" /\ g.pc = "get" /\ g.own = f.own /\ g.s = f.s /\ g.via = "null"
    BY <1>4, <1>5, <1>6, <2>1 DEF CloseInstead, Frame, Pcs
  <2>3. StepOK(f, g) /\ GripOK(f, g) /\ ~HoldsBusy(g)
    BY <1>3, <1>5, <2>2 DEF StepOK, LinkOK, GripOK, Shape, CloseShape, LivePcs, BusyPcs, EndPcs, HoldsBusy,
          Ref, Grip, Gone, Past, Claims, Ending, NullEnd
  <2>4. SetTop(t, g) /\ waitq' \in Seq([t : Threads, cv : Cvs]) /\ usable' \subseteq Sessions /\ fault' \in Faults
    BY <1>3, <1>4, <1>7, <2>1 DEF TypeOK
  <2> QED BY <1>1, <1>3, <2>2, <2>3, <2>4, FrameSet
<1>8. CASE c # NoCtx /\ ~ctx[c].panicked
  <2>1. PICK g : g = [f EXCEPT !.c = c, !.pc = "busy"]
    OBVIOUS
  <2>2. /\ g \in Frame /\ g.op = "open" /\ g.pc = "busy" /\ g.own = f.own /\ g.s = f.s /\ g.via = "null"
        /\ g.c = c /\ c \in Ctxs
    BY <1>4, <1>5, <1>6, <1>8, <2>1 DEF Frame, Pcs
  <2>3. StepOK(f, g) /\ GripOK(f, g) /\ ~HoldsBusy(g)
    BY <1>2, <1>3, <1>5, <2>2 DEF StepOK, LinkOK, GripOK, Shape, OpenShape, LivePcs, BusyPcs, EndPcs, HoldsBusy,
          Ref, Grip, Gone, Past, Claims, Ending, NullEnd
  <2>4. SetTop(t, g) /\ waitq' \in Seq([t : Threads, cv : Cvs]) /\ usable' \subseteq Sessions /\ fault' \in Faults
    BY <1>3, <1>4, <1>8, <2>1 DEF TypeOK
  <2> QED BY <1>1, <1>3, <2>2, <2>3, <2>4, FrameSet
<1> QED BY <1>7, <1>8

\* Where frames go without a change of their session or context.
Goes(f, g) ==
    /\ g.op = f.op /\ g.own = f.own /\ g.s = f.s /\ g.c = f.c /\ g.via = f.via
    /\ \/ f.pc \in BusyPcs /\ g.pc \in BusyPcs \cup {"enter"}
       \/ f.pc \in BusyPcs /\ g.pc = "open_put" /\ f.op = "open"
       \/ f.pc = "enter" /\ g.pc = "in_ta"
       \/ f.pc \in {"enter", "in_ta"} /\ g.pc = LeaveTa(f)
       \/ f.pc = "clear" /\ g.pc = AfterClear(f.op)
       \/ f.pc = "find" /\ g.pc = "get"
       \/ f.pc = "destroy" /\ g.pc = "drain"
       \/ f.pc = "inv_post" /\ g.pc \in {"inv_destroy", "put"}

\* Such a step keeps what frames are related to.
LEMMA GoesOK ==
    ASSUME NEW f \in Frame, Shape(f), NEW g \in Frame, Goes(f, g)
    PROVE  StepOK(f, g) /\ GripOK(f, g)
<1>1. f.op \in {"open", "invoke", "close", "cancel"} /\ f \in Frame \cup {Null} /\ g \in Frame \cup {Null}
      /\ g.op = f.op /\ g.own = f.own /\ g.s = f.s /\ g.c = f.c /\ g.via = f.via
  BY DEF Frame, Goes
<1>2. CASE f.op = "open"
  <2>1. Shape(g)
    BY <1>1, <1>2 DEF Goes, Shape, OpenShape, LivePcs, BusyPcs, EndPcs, LeaveTa, AfterClear
  <2> QED
    BY <1>1, <1>2, <2>1 DEF Goes, Shape, OpenShape, LivePcs, BusyPcs, EndPcs, LeaveTa, AfterClear,
       StepOK, LinkOK, GripOK, Ref, Grip, Gone, Past, Claims, Ending, NullEnd
<1>3. CASE f.op = "invoke"
  <2>1. Shape(g)
    BY <1>1, <1>3 DEF Goes, Shape, InvokeShape, LivePcs, BusyPcs, EndPcs, LeaveTa, AfterClear
  <2> QED
    BY <1>1, <1>3, <2>1 DEF Goes, Shape, InvokeShape, LivePcs, BusyPcs, EndPcs, LeaveTa, AfterClear,
       StepOK, LinkOK, GripOK, Ref, Grip, Gone, Past, Claims, Ending, NullEnd
<1>4. CASE f.op = "close"
  <2>1. Shape(g)
    BY <1>1, <1>4 DEF Goes, Shape, CloseShape, LivePcs, BusyPcs, EndPcs, LeaveTa, AfterClear
  <2> QED
    BY <1>1, <1>4, <2>1 DEF Goes, Shape, CloseShape, LivePcs, BusyPcs, EndPcs, LeaveTa, AfterClear,
       StepOK, LinkOK, GripOK, Ref, Grip, Gone, Past, Claims, Ending, NullEnd
<1>5. CASE f.op = "cancel"
  BY <1>1, <1>5 DEF Goes, Shape, BusyPcs
<1> QED BY <1>1, <1>2, <1>3, <1>4, <1>5

\* The fields of a frame that goes on.
LEMMA GotoIs ==
    ASSUME NEW f \in Frame, NEW pc \in Pcs, NEW g, g = [f EXCEPT !.pc = pc]
    PROVE  /\ g \in Frame /\ g.pc = pc /\ g.op = f.op /\ g.own = f.own /\ g.s = f.s /\ g.c = f.c
           /\ g.via = f.via /\ g.id = f.id /\ g.u = f.u /\ g.res = f.res
BY DEF Frame

\* The same with a result.
LEMMA GotoResIs ==
    ASSUME NEW f \in Frame, NEW pc \in Pcs, NEW r \in {"ok", "err"}, NEW g, g = [f EXCEPT !.pc = pc, !.res = r]
    PROVE  /\ g \in Frame /\ g.pc = pc /\ g.op = f.op /\ g.own = f.own /\ g.s = f.s /\ g.c = f.c
           /\ g.via = f.via /\ g.id = f.id /\ g.u = f.u /\ g.res = r
BY DEF Frame

\* Waits and signals keep the type of the wait queue.
Waiters == [t : Threads, cv : Cvs]

\* A thread waits: it is the last in the queue.
LEMMA WaitType ==
    ASSUME NEW q \in Seq(Waiters), NEW t \in Threads, NEW cv \in Cvs
    PROVE  /\ Wait(q, t, cv) \in Seq(Waiters)
           /\ Len(Wait(q, t, cv)) = Len(q) + 1 /\ \A i \in 1..Len(q) : Wait(q, t, cv)[i] = q[i]
           /\ Wait(q, t, cv)[Len(q) + 1] = [t |-> t, cv |-> cv]
<1>1. PICK w : w = [t |-> t, cv |-> cv]
  OBVIOUS
<1>2. w \in Waiters
  BY <1>1 DEF Waiters
<1>3. Wait(q, t, cv) = Append(q, w)
  BY <1>1 DEF Wait
<1> QED BY <1>1, <1>2, <1>3

\* The condition variables of the structs.
LEMMA CvsAre ==
    /\ SiCv \in Cvs
    /\ \A c \in Ctxs : BusyCv(c) \in Cvs
    /\ \A s \in Sessions : LockCv(s) \in Cvs /\ RefcCv(s) \in Cvs
BY DEF Cvs, SiCv, BusyCv, LockCv, RefcCv

\* A thread that runs goes on, with nothing else changed.
LEMMA GoesA ==
    ASSUME AInv, fault = "none", NEW t \in Threads, stack[t] # <<>>, NEW g \in Frame, SetTop(t, g),
           Goes(Top(t), g), HoldsBusy(g) => HoldsBusy(Top(t)) \/ ~NonConc(ctx[g.c]),
           UNCHANGED <<sess, ctx, ctxes, lists, si, usable>>,
           waitq' \in Seq(Waiters), fault' \in Faults
    PROVE  AInv'
<1>1. TypeOK /\ Top(t) \in Frame /\ Shape(Top(t))
  BY AtSays
<1>2. StepOK(Top(t), g) /\ GripOK(Top(t), g)
  BY <1>1, GoesOK
<1>3. usable' \subseteq Sessions /\ g.c = Top(t).c
  BY <1>1 DEF TypeOK, Goes
<1> QED BY <1>2, <1>3, FrameSet DEF Waiters

\* tee_ta_try_set_busy of a concurrent TA keeps AInv.
LEMMA BusyConcurrentA ==
    ASSUME AInv, NEW t \in Threads, BusyConcurrent(t)
    PROVE  AInv'
<1>1. /\ fault = "none" /\ stack[t] # <<>> /\ Top(t).pc = "busy"
      /\ UNCHANGED <<sess, ctx, ctxes, lists, si, waitq, usable, fault>>
      /\ SetTop(t, [Top(t) EXCEPT !.pc = "enter"]) /\ "concurrent" \in CtxFlags(Top(t).c)
  BY DEF BusyConcurrent, At, Goto
<1>2. PICK g : g = [Top(t) EXCEPT !.pc = "enter"]
  OBVIOUS
<1>3. Top(t) \in Frame /\ TypeOK
  BY <1>1, AtSays
<1>4. /\ g \in Frame /\ g.pc = "enter" /\ g.op = Top(t).op /\ g.own = Top(t).own /\ g.s = Top(t).s /\ g.c = Top(t).c
      /\ g.via = Top(t).via
  BY <1>2, <1>3, GotoIs DEF Pcs
<1>5. Goes(Top(t), g)
  BY <1>1, <1>4 DEF Goes, BusyPcs
<1>6. ~NonConc(ctx[g.c])
  BY <1>1, <1>4 DEF NonConc, FlagsIn, CtxFlags
<1>7. waitq' \in Seq(Waiters) /\ fault' \in Faults
  BY <1>1, <1>3 DEF TypeOK, Waiters
<1> QED BY <1>1, <1>2, <1>4, <1>5, <1>6, <1>7, GoesA

\* A thread waits.
LEMMA WaitOnA ==
    ASSUME AInv, fault = "none", NEW t \in Threads, stack[t] # <<>>, NEW pc \in BusyPcs, NEW cv \in Cvs,
           Top(t).pc \in BusyPcs, WaitOn(t, pc, cv)
    PROVE  AInv'
<1>1. /\ UNCHANGED <<sess, ctx, ctxes, lists, si, usable, fault>> /\ SetTop(t, [Top(t) EXCEPT !.pc = pc])
      /\ waitq' = Wait(waitq, t, cv)
  BY DEF WaitOn, Goto
<1>2. PICK g : g = [Top(t) EXCEPT !.pc = pc]
  OBVIOUS
<1>3. Top(t) \in Frame /\ TypeOK /\ pc \in Pcs
  BY AtSays DEF BusyPcs, Pcs
<1>4. /\ g \in Frame /\ g.pc = pc /\ g.op = Top(t).op /\ g.own = Top(t).own /\ g.s = Top(t).s /\ g.c = Top(t).c
      /\ g.via = Top(t).via
  BY <1>2, <1>3, GotoIs
<1>5. Goes(Top(t), g) /\ ~HoldsBusy(g)
  BY <1>1, <1>4 DEF Goes, BusyPcs, HoldsBusy
<1>6. waitq' \in Seq(Waiters) /\ fault' \in Faults
  <2>1. waitq \in Seq(Waiters) /\ fault \in Faults
    BY <1>3 DEF TypeOK, Waiters
  <2> QED BY <1>1, <2>1, WaitType
<1> QED BY <1>1, <1>2, <1>4, <1>5, <1>6, GoesA

\* Who asks for the busy flag, and of which context.
LEMMA ExclusiveSays ==
    ASSUME AInv, NEW t \in Threads, Exclusive(t)
    PROVE  /\ fault = "none" /\ stack[t] # <<>> /\ Top(t).pc \in BusyPcs /\ Top(t).c \in Ctxs /\ NonConc(ctx[Top(t).c])
           /\ ctx[Top(t).c].state = "live" /\ Top(t) \in Frame /\ Shape(Top(t)) /\ TypeOK
<1>1. fault = "none" /\ stack[t] # <<>> /\ Top(t).pc \in BusyPcs /\ "concurrent" \notin CtxFlags(Top(t).c) /\ Valid(t)
  BY DEF Exclusive, At, BusyPcs
<1>2. Shape(Top(t)) /\ Top(t) \in Frame /\ TypeOK
  BY <1>1, AtSays
<1>3. Top(t).c \in Ctxs
  BY <1>1, <1>2 DEF Shape, OpenShape, InvokeShape, CloseShape, LivePcs, BusyPcs, EndPcs, Frame
<1>4. Deref(Top(t)) = Top(t).c /\ Top(t).pc \in DerefPcs
  BY <1>1 DEF Deref, DerefPcs, BusyPcs
<1> QED BY <1>1, <1>2, <1>3, <1>4 DEF NonConc, FlagsIn, CtxFlags, Valid

\* A wait for the busy flag keeps AInv.
LEMMA BusyWaitA ==
    ASSUME AInv, NEW t \in Threads, BusyWait(t)
    PROVE  AInv'
<1>1. PICK c : c = Top(t).c
  OBVIOUS
<1>2. Exclusive(t) /\ (WaitOn(t, "wait_init", BusyCv(c)) \/ WaitOn(t, "wait_busy", BusyCv(c)))
  BY <1>1 DEF BusyWait
<1>3. BusyCv(c) \in Cvs /\ fault = "none" /\ stack[t] # <<>> /\ Top(t).pc \in BusyPcs
  BY <1>1, <1>2, ExclusiveSays, CvsAre
<1>4. "wait_init" \in BusyPcs /\ "wait_busy" \in BusyPcs
  BY DEF BusyPcs
<1> QED BY <1>2, <1>3, <1>4, WaitOnA

\* A wait for the single-instance lock keeps AInv.
LEMMA SiWaitA ==
    ASSUME AInv, NEW t \in Threads, SiWait(t)
    PROVE  AInv'
<1>1. Exclusive(t) /\ WaitOn(t, "wait_si", SiCv)
  BY DEF SiWait
<1>2. SiCv \in Cvs /\ fault = "none" /\ stack[t] # <<>> /\ Top(t).pc \in BusyPcs
  BY <1>1, ExclusiveSays, CvsAre
<1>3. "wait_si" \in BusyPcs
  BY DEF BusyPcs
<1> QED BY <1>1, <1>2, <1>3, WaitOnA

\* One entry of a table changes.
LEMMA UpdIs ==
    ASSUME NEW D, NEW S, NEW f \in [D -> S], NEW d \in D, NEW e \in S, NEW h, h = Upd(f, d, e)
    PROVE  h \in [D -> S] /\ h[d] = e /\ \A a \in D : a # d => h[a] = f[a]
BY DEF Upd

\* The context that a thread goes through is the one of its call.
LEMMA DerefIs ==
    ASSUME AInv, NEW t \in Threads, fault = "none", stack[t] # <<>>, Valid(t), Top(t).pc \in DerefPcs
    PROVE  Deref(Top(t)) = Top(t).c /\ Top(t).c \in Ctxs /\ ctx[Top(t).c].state = "live"
<1>1. PICK f : f = Top(t)
  OBVIOUS
<1>2. Good /\ f \in Frame /\ Shape(f) /\ fr[TopP(t)] = f /\ TopP(t) \in Pl
  BY <1>1, AtSays
<1>3. Deref(f) # NoCtx /\ ctx[Deref(f)].state = "live" /\ f.pc \in DerefPcs
  BY <1>1 DEF Valid
<1>4. Uses(f) /\ (Past(f) \/ Deref(f) = f.c)
  BY <1>2, <1>3 DEF DerefPcs, Deref, Uses, Past, Claims, Shape, OpenShape, InvokeShape, CloseShape, LivePcs, BusyPcs,
        EndPcs, Frame
<1>5. f.c \in Ctxs
  BY <1>2, <1>4, ShapeSays
<1>6. Past(f) => sess[f.s].ctx \in {f.c, NoCtx}
  BY <1>2 DEF Good, LinkInv
<1>7. Deref(f) = f.c
  BY <1>3, <1>4, <1>6 DEF Deref
<1> QED BY <1>1, <1>3, <1>5, <1>7

\* The innermost call goes on and the flags of its context change.
LEMMA CtxSet ==
    ASSUME AInv, fault = "none", NEW t \in Threads, stack[t] # <<>>, NEW g \in Frame, SetTop(t, g),
           Goes(Top(t), g), NEW c \in Ctxs, NEW e \in Context, ctx' = Upd(ctx, c, e),
           e.state = ctx[c].state, e.u = ctx[c].u, e.ref = ctx[c].ref, ctx[c].loaded => e.loaded,
           UNCHANGED <<sess, ctxes, lists, usable>>,
           si' \in [thread : Threads \cup {NoThread}, count : Nat], waitq' \in Seq(Waiters), fault' \in Faults
    PROVE  TypeOK' /\ Good' /\ Moved(TopP(t), g) /\ ctx'[c] = e /\ \A d \in Ctxs : d # c => ctx'[d] = ctx[d]
<1>1. TypeOK /\ Top(t) \in Frame /\ Shape(Top(t))
  BY AtSays
<1>2. StepOK(Top(t), g) /\ GripOK(Top(t), g)
  BY <1>1, GoesOK
<1>3. ctx' \in [Ctxs -> Context] /\ ctx'[c] = e /\ \A d \in Ctxs : d # c => ctx'[d] = ctx[d]
  <2>1. ctx \in [Ctxs -> Context]
    BY <1>1 DEF TypeOK
  <2> QED BY <2>1 DEF Upd
<1>4. CtxLike
  BY <1>3 DEF CtxLike
<1>5. Good' /\ Moved(TopP(t), g) /\ stack' \in [Threads -> Seq(Frame)]
  BY <1>2, <1>4, SetQuiet
<1>6. TypeOK'
  BY <1>1, <1>3, <1>5, TypeStep DEF TypeOK, Waiters
<1> QED BY <1>3, <1>5, <1>6

\* tee_ta_try_set_busy that sets the flag keeps AInv.
LEMMA BusyGrantedA ==
    ASSUME AInv, NEW t \in Threads, BusyGranted(t)
    PROVE  AInv'
<1>1. PICK c : c = Top(t).c
  OBVIOUS
<1>2. /\ Exclusive(t) /\ ~ctx[c].busy
      /\ si' = [thread |-> t, count |-> si.count + 1] \/ UNCHANGED si
      /\ ctx' = [ctx EXCEPT ![c].busy = TRUE] /\ SetTop(t, [Top(t) EXCEPT !.pc = "enter"])
      /\ UNCHANGED <<sess, ctxes, lists, waitq, usable, fault>>
  BY <1>1 DEF BusyGranted, Goto
<1>3. /\ fault = "none" /\ stack[t] # <<>> /\ Top(t).pc \in BusyPcs /\ c \in Ctxs /\ NonConc(ctx[c])
      /\ Top(t) \in Frame /\ TypeOK
  BY <1>1, <1>2, ExclusiveSays
<1>4. PICK g : g = [Top(t) EXCEPT !.pc = "enter"]
  OBVIOUS
<1>5. /\ g \in Frame /\ g.pc = "enter" /\ g.op = Top(t).op /\ g.own = Top(t).own /\ g.s = Top(t).s /\ g.c = Top(t).c
      /\ g.via = Top(t).via
  BY <1>3, <1>4, GotoIs DEF Pcs
<1>6. Goes(Top(t), g)
  BY <1>3, <1>5 DEF Goes
<1>7. PICK e : e = [ctx[c] EXCEPT !.busy = TRUE]
  OBVIOUS
<1>8. /\ e \in Context /\ e.state = ctx[c].state /\ e.u = ctx[c].u /\ e.ref = ctx[c].ref /\ e.loaded = ctx[c].loaded
      /\ e.busy
  BY <1>3, <1>7 DEF TypeOK, Context
<1>9. ctx' = Upd(ctx, c, e)
  BY <1>2, <1>7 DEF Upd
<1>10. si' \in [thread : Threads \cup {NoThread}, count : Nat]
  <2>1. si \in [thread : Threads \cup {NoThread}, count : Nat]
    BY <1>3 DEF TypeOK
  <2> QED BY <1>2, <2>1
<1>11. waitq' \in Seq(Waiters) /\ fault' \in Faults
  BY <1>2, <1>3 DEF TypeOK, Waiters
<1>12. TypeOK' /\ Good' /\ Moved(TopP(t), g) /\ ctx'[c] = e /\ \A d \in Ctxs : d # c => ctx'[d] = ctx[d]
  BY <1>2, <1>3, <1>4, <1>5, <1>6, <1>8, <1>9, <1>10, <1>11, CtxSet
<1>13. HoldInv'
  <2>1. HoldInv /\ Good /\ fr[TopP(t)] = Top(t) /\ ~HoldsBusy(Top(t))
    BY <1>3, AtSays DEF HoldsBusy, BusyPcs
  <2>2. \A x \in Pl : HoldsBusy(fr[x]) => fr[x].c \in Ctxs
    BY <2>1, FrameSays DEF Good, Uses
  <2>3. \A x \in Pl : HoldsBusy(fr[x]) /\ NonConc(ctx[fr[x].c]) => fr[x].c # c
    BY <1>2, <2>1 DEF HoldInv
  <2>4. NonConc(ctx'[c]) /\ \A d \in Ctxs : NonConc(ctx'[d]) <=> NonConc(ctx[d])
    BY <1>3, <1>8, <1>12 DEF NonConc, FlagsIn
  <2>5. \A x \in Pl : x # TopP(t) => fr'[x] = fr[x]
    BY <1>12 DEF Moved
  <2>6. fr'[TopP(t)] = g /\ g.c = c
    BY <1>1, <1>5, <1>12 DEF Moved
  <2>7. \A x \in Pl : HoldsBusy(fr'[x]) /\ NonConc(ctx'[fr'[x].c]) => ctx'[fr'[x].c].busy
    BY <1>8, <1>12, <2>1, <2>2, <2>3, <2>4, <2>5, <2>6 DEF HoldInv
  <2>8. \A x, y \in Pl : HoldsBusy(fr'[x]) /\ HoldsBusy(fr'[y]) /\ fr'[x].c = fr'[y].c /\ NonConc(ctx'[fr'[x].c]) => x = y
    <3> SUFFICES ASSUME NEW x \in Pl, NEW y \in Pl, HoldsBusy(fr'[x]), HoldsBusy(fr'[y]), fr'[x].c = fr'[y].c,
                        NonConc(ctx'[fr'[x].c]), x # y
                 PROVE  FALSE
      OBVIOUS
    <3>1. CASE x # TopP(t) /\ y # TopP(t)
      BY <2>1, <2>2, <2>4, <2>5, <3>1 DEF HoldInv
    <3>2. CASE x = TopP(t)
      BY <2>2, <2>3, <2>4, <2>5, <2>6, <3>2
    <3>3. CASE y = TopP(t)
      BY <2>2, <2>3, <2>4, <2>5, <2>6, <3>3
    <3> QED BY <3>1, <3>2, <3>3
  <2> QED BY <2>7, <2>8 DEF HoldInv
<1> QED BY <1>12, <1>13 DEF AInv

\* tee_ta_try_set_busy that gives up keeps AInv.
LEMMA BusyRefusedA ==
    ASSUME AInv, NEW t \in Threads, BusyRefused(t)
    PROVE  AInv'
<1>1. /\ Exclusive(t) /\ (waitq' = Signal(waitq, SiCv) \/ UNCHANGED waitq)
      /\ fault' = IF Top(t).op = "open" THEN fault ELSE "panic"
      /\ SetTop(t, [Top(t) EXCEPT !.pc = "open_put", !.res = "err"])
      /\ UNCHANGED <<sess, ctx, ctxes, lists, si, usable>>
  BY DEF BusyRefused
<1>2. /\ fault = "none" /\ stack[t] # <<>> /\ Top(t).pc \in BusyPcs /\ Top(t) \in Frame /\ TypeOK /\ Shape(Top(t))
  BY <1>1, ExclusiveSays
<1>3. PICK g : g = [Top(t) EXCEPT !.pc = "open_put", !.res = "err"]
  OBVIOUS
<1>4. /\ g \in Frame /\ g.pc = "open_put" /\ g.op = Top(t).op /\ g.own = Top(t).own /\ g.s = Top(t).s /\ g.c = Top(t).c
      /\ g.via = Top(t).via
  BY <1>2, <1>3 DEF Frame, Pcs
<1>5. ~HoldsBusy(g)
  BY <1>4 DEF HoldsBusy
<1>6. fault' = "none" => StepOK(Top(t), g) /\ GripOK(Top(t), g)
  <2>1. fault' = "none" => Top(t).op = "open"
    BY <1>1
  <2>2. Top(t).op = "open" => Goes(Top(t), g)
    BY <1>2, <1>4 DEF Goes
  <2> QED BY <1>2, <1>4, <2>1, <2>2, GoesOK
<1>7. waitq' \in Seq([t : Threads, cv : Cvs]) /\ usable' \subseteq Sessions /\ fault' \in Faults
  <2>1. waitq \in Seq([t : Threads, cv : Cvs]) /\ usable \subseteq Sessions
    BY <1>2 DEF TypeOK
  <2>2. waitq' \in Seq([t : Threads, cv : Cvs])
    BY <1>1, <2>1, SignalFacts
  <2> QED BY <1>1, <1>2, <2>1, <2>2 DEF Faults
<1> QED BY <1>1, <1>2, <1>3, <1>4, <1>5, <1>6, <1>7, FrameSet

\* tee_ta_clear_busy of a concurrent TA keeps AInv.
LEMMA ClearConcurrentA ==
    ASSUME AInv, NEW t \in Threads, ClearConcurrent(t)
    PROVE  AInv'
<1>1. /\ fault = "none" /\ stack[t] # <<>> /\ Top(t).pc = "clear" /\ SetTop(t, [Top(t) EXCEPT !.pc = AfterClear(Top(t).op)])
      /\ UNCHANGED <<sess, ctx, ctxes, lists, si, waitq, usable, fault>>
  BY DEF ClearConcurrent, At, Goto
<1>2. Top(t) \in Frame /\ TypeOK /\ Shape(Top(t))
  BY <1>1, AtSays
<1>3. PICK a : a = AfterClear(Top(t).op)
  OBVIOUS
<1>4. a \in {"open_put", "inv_post", "release"}
  BY <1>1, <1>2, <1>3 DEF AfterClear, Shape, Frame
<1>5. PICK g : g = [Top(t) EXCEPT !.pc = a]
  OBVIOUS
<1>6. /\ g \in Frame /\ g.pc = a /\ g.op = Top(t).op /\ g.own = Top(t).own /\ g.s = Top(t).s /\ g.c = Top(t).c
      /\ g.via = Top(t).via
  BY <1>2, <1>4, <1>5, GotoIs DEF Pcs
<1>7. Goes(Top(t), g) /\ ~HoldsBusy(g)
  BY <1>1, <1>3, <1>4, <1>6 DEF Goes, HoldsBusy
<1>8. waitq' \in Seq(Waiters) /\ fault' \in Faults
  BY <1>1, <1>2 DEF TypeOK, Waiters
<1> QED BY <1>1, <1>3, <1>5, <1>6, <1>7, <1>8, GoesA

\* tee_ta_clear_busy keeps AInv.
LEMMA ClearBusyA ==
    ASSUME AInv, NEW t \in Threads, ClearBusy(t)
    PROVE  AInv'
<1>1. PICK c : c = Deref(Top(t))
  OBVIOUS
<1>2. PICK a : a = AfterClear(Top(t).op)
  OBVIOUS
<1>3. /\ fault = "none" /\ stack[t] # <<>> /\ Top(t).pc = "clear" /\ Valid(t)
      /\ "concurrent" \notin CtxFlags(c) /\ SetTop(t, [Top(t) EXCEPT !.pc = a])
      /\ UNCHANGED <<sess, ctxes, lists, usable>> /\ fault' \in {fault, "assert"}
      /\ ctx' = [ctx EXCEPT ![c].busy = FALSE, ![c].initializing = FALSE]
      /\ \E u, l \in BOOLEAN : si' = [thread |-> IF l THEN NoThread ELSE si.thread,
                     count |-> IF u /\ si.count > 0 THEN si.count - 1 ELSE si.count]
      /\ waitq' = Signal(Signal(waitq, BusyCv(c)), SiCv) \/ waitq' = Signal(waitq, BusyCv(c))
  BY <1>1, <1>2 DEF ClearBusy, At, Goto, CAssert
<1>4. /\ Top(t).c = c /\ c \in Ctxs /\ Top(t) \in Frame /\ Shape(Top(t)) /\ TypeOK
  BY <1>1, <1>3, AtSays, DerefIs DEF DerefPcs
<1>5. a \in {"open_put", "inv_post", "release"}
  BY <1>2, <1>3, <1>4 DEF AfterClear, Shape, Frame
<1>6. PICK g : g = [Top(t) EXCEPT !.pc = a]
  OBVIOUS
<1>7. /\ g \in Frame /\ g.pc = a /\ g.op = Top(t).op /\ g.own = Top(t).own /\ g.s = Top(t).s /\ g.c = Top(t).c
      /\ g.via = Top(t).via
  BY <1>4, <1>5, <1>6, GotoIs DEF Pcs
<1>8. Goes(Top(t), g) /\ ~HoldsBusy(g)
  BY <1>2, <1>3, <1>5, <1>7 DEF Goes, HoldsBusy
<1>9. PICK e : e = [ctx[c] EXCEPT !.busy = FALSE, !.initializing = FALSE]
  OBVIOUS
<1>10. /\ e \in Context /\ e.state = ctx[c].state /\ e.u = ctx[c].u /\ e.ref = ctx[c].ref /\ e.loaded = ctx[c].loaded
  BY <1>4, <1>9 DEF TypeOK, Context
<1>11. ctx' = Upd(ctx, c, e)
  BY <1>3, <1>9 DEF Upd
<1>12. si' \in [thread : Threads \cup {NoThread}, count : Nat]
  <2>1. si \in [thread : Threads \cup {NoThread}, count : Nat]
    BY <1>4 DEF TypeOK
  <2> QED BY <1>3, <2>1
<1>13. waitq' \in Seq(Waiters) /\ fault' \in Faults
  <2>1. waitq \in Seq(Waiters)
    BY <1>4 DEF TypeOK, Waiters
  <2>2. Signal(waitq, BusyCv(c)) \in Seq(Waiters)
    BY <2>1, SignalFacts
  <2>3. Signal(Signal(waitq, BusyCv(c)), SiCv) \in Seq(Waiters)
    BY <2>2, SignalFacts
  <2> QED BY <1>3, <2>2, <2>3 DEF Faults
<1>14. TypeOK' /\ Good' /\ Moved(TopP(t), g) /\ ctx'[c] = e /\ \A d \in Ctxs : d # c => ctx'[d] = ctx[d]
  <2>1. fault = "none" /\ stack[t] # <<>> /\ SetTop(t, g) /\ UNCHANGED <<sess, ctxes, lists, usable>>
    BY <1>3, <1>6
  <2> QED BY <2>1, <1>4, <1>7, <1>8, <1>10, <1>11, <1>12, <1>13, CtxSet
<1>15. HoldInv'
  <2>1. HoldInv /\ Good /\ fr[TopP(t)] = Top(t) /\ HoldsBusy(Top(t)) /\ TopP(t) \in Pl
    BY <1>3, AtSays DEF HoldsBusy
  <2>2. \A x \in Pl : HoldsBusy(fr[x]) => fr[x].c \in Ctxs
    BY <2>1, FrameSays DEF Good, Uses
  <2>3. \A d \in Ctxs : NonConc(ctx'[d]) <=> NonConc(ctx[d])
    BY <1>4, <1>10, <1>14 DEF NonConc, FlagsIn
  <2>4. ASSUME NEW x \in Pl, x # TopP(t), HoldsBusy(fr[x]), NonConc(ctx'[fr[x].c])
        PROVE  NonConc(ctx[fr[x].c]) /\ ctx'[fr[x].c].busy
    <3>1. NonConc(ctx[fr[x].c]) /\ fr[x].c \in Ctxs
      BY <2>2, <2>3, <2>4
    <3>2. fr[x].c # c
      BY <1>4, <2>1, <2>4, <3>1 DEF HoldInv
    <3> QED BY <1>14, <2>1, <2>4, <3>1, <3>2 DEF HoldInv
  <2> QED BY <1>8, <1>14, <2>1, <2>4, HoldSame DEF Good
<1> QED BY <1>14, <1>15 DEF AInv

\* Busy flags where contexts only come to be loaded.
LEMMA HoldLoad ==
    ASSUME HoldInv, Good, NEW p, NEW g, Moved(p, g), HoldsBusy(g) => HoldsBusy(fr[p]) /\ g.c = fr[p].c,
           \A d \in Ctxs : /\ ctx'[d].u = ctx[d].u /\ ctx'[d].busy = ctx[d].busy
                           /\ (ctx[d].loaded => ctx'[d].loaded)
    PROVE  HoldInv'
<1>1. \A x \in Pl : HoldsBusy(fr[x]) => fr[x].c \in Ctxs
  BY FrameSays DEF Good, Uses
<1>2. \A d \in Ctxs : NonConc(ctx'[d]) => NonConc(ctx[d])
  BY DEF NonConc, FlagsIn
<1>3. p \in Pl
  BY DEF Moved
<1>4. \A x \in Pl : HoldsBusy(fr[x]) /\ NonConc(ctx'[fr[x].c]) => NonConc(ctx[fr[x].c]) /\ ctx'[fr[x].c].busy
  BY <1>1, <1>2 DEF HoldInv
<1>5. HoldsBusy(g) /\ NonConc(ctx'[g.c]) => NonConc(ctx[g.c]) /\ ctx'[g.c].busy
  BY <1>3, <1>4
<1> QED BY <1>4, <1>5, HoldSame DEF Good

\* Calls in a TA, before and after.
LEMMA LeaveIs ==
    ASSUME NEW f \in Frame
    PROVE  LeaveTa(f) \in {"unlink", "clear"} /\ LeaveTa(f) \in Pcs
BY DEF LeaveTa, Pcs

\* A thread enters or leaves the TA: it has set the busy flag.
LEMMA InTaSays ==
    ASSUME AInv, NEW t \in Threads, fault = "none", stack[t] # <<>>, Top(t).pc \in {"enter", "in_ta"},
           NEW g, g.pc \in {"in_ta", LeaveTa(Top(t))}, Top(t).pc = "in_ta" => g.pc # "in_ta",
           g.op = Top(t).op, g.own = Top(t).own, g.s = Top(t).s, g.c = Top(t).c, g.via = Top(t).via
    PROVE  Goes(Top(t), g) /\ HoldsBusy(Top(t)) /\ HoldsBusy(g) /\ Top(t).c \in Ctxs
<1>1. Top(t) \in Frame /\ Shape(Top(t))
  BY AtSays
<1>2. HoldsBusy(Top(t)) /\ Top(t).c \in Ctxs
  BY <1>1, ShapeSays DEF HoldsBusy, Uses
<1>3. HoldsBusy(g)
  BY <1>1 DEF HoldsBusy, LeaveTa, Shape, OpenShape, InvokeShape, CloseShape, Frame, LivePcs, BusyPcs, EndPcs
<1>4. Goes(Top(t), g)
  BY DEF Goes
<1> QED BY <1>2, <1>3, <1>4

\* The entry into a TA, ldelf included, keeps AInv.
LEMMA EnterTaA ==
    ASSUME AInv, NEW t \in Threads, EnterTa(t)
    PROVE  AInv'
<1>1. PICK f : f = Top(t)
  OBVIOUS
<1>2. PICK c : c = sess[f.s].ctx
  OBVIOUS
<1>3. /\ fault = "none" /\ stack[t] # <<>> /\ f.pc = "enter" /\ Valid(t)
      /\ UNCHANGED <<sess, ctxes, lists, si, waitq, usable, fault>>
      /\ \/ ctx' = [ctx EXCEPT ![c].loaded = TRUE] /\ SetTop(t, [f EXCEPT !.pc = "in_ta"])
         \/ SetTop(t, [f EXCEPT !.pc = LeaveTa(f), !.res = "err"]) /\ UNCHANGED ctx
  BY <1>1, <1>2 DEF EnterTa, At, Goto
<1>4. f.c = c /\ c \in Ctxs /\ f \in Frame /\ Shape(f) /\ TypeOK /\ HoldInv /\ Good /\ fr[TopP(t)] = f
  <2>1. Deref(f) = f.c /\ f.c \in Ctxs
    BY <1>1, <1>3, DerefIs DEF DerefPcs
  <2>2. f \in Frame /\ Shape(f) /\ TypeOK /\ HoldInv /\ Good /\ fr[TopP(t)] = f
    BY <1>1, <1>3, AtSays
  <2> QED BY <1>2, <1>3, <2>1, <2>2 DEF Deref
<1>5. waitq' \in Seq(Waiters) /\ fault' \in Faults /\ si' \in [thread : Threads \cup {NoThread}, count : Nat]
  BY <1>3, <1>4 DEF TypeOK, Waiters
<1>6. CASE ctx' = [ctx EXCEPT ![c].loaded = TRUE] /\ SetTop(t, [f EXCEPT !.pc = "in_ta"])
  <2>1. PICK g : g = [f EXCEPT !.pc = "in_ta"]
    OBVIOUS
  <2>2. /\ g \in Frame /\ g.pc = "in_ta" /\ g.op = f.op /\ g.own = f.own /\ g.s = f.s /\ g.c = f.c /\ g.via = f.via
    BY <1>4, <2>1 DEF Frame, Pcs
  <2>3. Goes(Top(t), g) /\ HoldsBusy(Top(t))
    BY <1>1, <1>3, <2>2, InTaSays
  <2>4. PICK e : e = [ctx[c] EXCEPT !.loaded = TRUE]
    OBVIOUS
  <2>5. /\ e \in Context /\ e.state = ctx[c].state /\ e.u = ctx[c].u /\ e.ref = ctx[c].ref /\ e.loaded
        /\ e.busy = ctx[c].busy
    BY <1>4, <2>4 DEF TypeOK, Context
  <2>6. ctx' = Upd(ctx, c, e) /\ SetTop(t, g)
    BY <1>6, <2>1, <2>4 DEF Upd
  <2>7. fault = "none" /\ stack[t] # <<>> /\ UNCHANGED <<sess, ctxes, lists, usable>>
    BY <1>3
  <2>8. TypeOK' /\ Good' /\ Moved(TopP(t), g) /\ ctx'[c] = e /\ \A d \in Ctxs : d # c => ctx'[d] = ctx[d]
    BY <1>4, <1>5, <2>2, <2>3, <2>5, <2>6, <2>7, CtxSet
  <2>9. HoldInv'
    BY <1>1, <1>4, <2>2, <2>3, <2>5, <2>8, HoldLoad
  <2> QED BY <2>8, <2>9 DEF AInv
<1>7. CASE SetTop(t, [f EXCEPT !.pc = LeaveTa(f), !.res = "err"]) /\ UNCHANGED ctx
  <2>1. PICK g : g = [f EXCEPT !.pc = LeaveTa(f), !.res = "err"]
    OBVIOUS
  <2>2. /\ g \in Frame /\ g.pc = LeaveTa(f) /\ g.op = f.op /\ g.own = f.own /\ g.s = f.s /\ g.c = f.c /\ g.via = f.via
    BY <1>4, <2>1, LeaveIs DEF Frame
  <2>3. Goes(Top(t), g) /\ HoldsBusy(Top(t))
    BY <1>1, <1>3, <2>2, InTaSays
  <2>4. fault = "none" /\ stack[t] # <<>> /\ UNCHANGED <<sess, ctx, ctxes, lists, si, usable>> /\ SetTop(t, g)
    BY <1>3, <1>7, <2>1
  <2> QED BY <1>5, <2>2, <2>3, <2>4, GoesA
<1> QED BY <1>3, <1>6, <1>7

\* A TA that returns keeps AInv.
LEMMA TaReturnA ==
    ASSUME AInv, NEW t \in Threads, TaReturn(t)
    PROVE  AInv'
<1>1. PICK f : f = Top(t)
  OBVIOUS
<1>2. PICK r \in {"ok", "err"} :
      /\ fault = "none" /\ stack[t] # <<>> /\ f.pc = "in_ta"
      /\ UNCHANGED <<sess, ctx, ctxes, lists, si, waitq, usable, fault>>
      /\ SetTop(t, [f EXCEPT !.pc = LeaveTa(f), !.res = IF f.op = "open" THEN r ELSE @])
  BY <1>1 DEF TaReturn, At
<1>3. f \in Frame /\ TypeOK
  BY <1>1, <1>2, AtSays
<1>4. PICK g : g = [f EXCEPT !.pc = LeaveTa(f), !.res = IF f.op = "open" THEN r ELSE @]
  OBVIOUS
<1>5. /\ g \in Frame /\ g.pc = LeaveTa(f) /\ g.op = f.op /\ g.own = f.own /\ g.s = f.s /\ g.c = f.c /\ g.via = f.via
  BY <1>3, <1>4, LeaveIs DEF Frame
<1>6. LeaveTa(f) # "in_ta"
  BY DEF LeaveTa
<1>7. Goes(Top(t), g) /\ HoldsBusy(Top(t))
  BY <1>1, <1>2, <1>5, <1>6, InTaSays
<1>8. waitq' \in Seq(Waiters) /\ fault' \in Faults
  BY <1>2, <1>3 DEF TypeOK, Waiters
<1>9. fault = "none" /\ stack[t] # <<>> /\ UNCHANGED <<sess, ctx, ctxes, lists, si, usable>> /\ SetTop(t, g)
  BY <1>2, <1>4
<1> QED BY <1>5, <1>7, <1>8, <1>9, GoesA

\* A TA that panics keeps AInv.
LEMMA TaPanicA ==
    ASSUME AInv, NEW t \in Threads, TaPanic(t)
    PROVE  AInv'
<1>1. PICK f : f = Top(t)
  OBVIOUS
<1>2. PICK c : c = f.c
  OBVIOUS
<1>3. /\ fault = "none" /\ stack[t] # <<>> /\ f.pc = "in_ta"
      /\ UNCHANGED <<sess, ctxes, lists, si, waitq, usable, fault>>
      /\ ctx' = [ctx EXCEPT ![c].panicked = TRUE] /\ SetTop(t, [f EXCEPT !.pc = LeaveTa(f), !.res = "err"])
  BY <1>1, <1>2 DEF TaPanic, At
<1>4. f \in Frame /\ TypeOK /\ HoldInv /\ Good /\ fr[TopP(t)] = f
  BY <1>1, <1>3, AtSays
<1>5. waitq' \in Seq(Waiters) /\ fault' \in Faults /\ si' \in [thread : Threads \cup {NoThread}, count : Nat]
  BY <1>3, <1>4 DEF TypeOK, Waiters
<1>6. PICK g : g = [f EXCEPT !.pc = LeaveTa(f), !.res = "err"]
  OBVIOUS
<1>7. /\ g \in Frame /\ g.pc = LeaveTa(f) /\ g.op = f.op /\ g.own = f.own /\ g.s = f.s /\ g.c = f.c /\ g.via = f.via
  BY <1>4, <1>6, LeaveIs DEF Frame
<1>8. LeaveTa(f) # "in_ta"
  BY DEF LeaveTa
<1>9. Goes(Top(t), g) /\ HoldsBusy(Top(t)) /\ c \in Ctxs
  BY <1>1, <1>2, <1>3, <1>7, <1>8, InTaSays
<1>10. PICK e : e = [ctx[c] EXCEPT !.panicked = TRUE]
  OBVIOUS
<1>11. /\ e \in Context /\ e.state = ctx[c].state /\ e.u = ctx[c].u /\ e.ref = ctx[c].ref /\ e.loaded = ctx[c].loaded
       /\ e.busy = ctx[c].busy
  BY <1>4, <1>9, <1>10 DEF TypeOK, Context
<1>12. ctx' = Upd(ctx, c, e) /\ SetTop(t, g)
  BY <1>3, <1>6, <1>10 DEF Upd
<1>13. fault = "none" /\ stack[t] # <<>> /\ UNCHANGED <<sess, ctxes, lists, usable>>
  BY <1>3
<1>14. TypeOK' /\ Good' /\ Moved(TopP(t), g) /\ ctx'[c] = e /\ \A d \in Ctxs : d # c => ctx'[d] = ctx[d]
  BY <1>5, <1>7, <1>9, <1>11, <1>12, <1>13, CtxSet
<1>15. HoldInv'
  BY <1>1, <1>4, <1>7, <1>9, <1>11, <1>14, HoldLoad
<1> QED BY <1>14, <1>15 DEF AInv

\* entry_close_session that looks the session up keeps AInv.
LEMMA FindA ==
    ASSUME AInv, NEW t \in Threads, Find(t)
    PROVE  AInv'
<1>1. /\ fault = "none" /\ stack[t] # <<>> /\ Top(t).pc = "find"
      /\ UNCHANGED <<sess, ctx, ctxes, lists, si, waitq, usable, fault>>
      /\ Return(t) \/ SetTop(t, [Top(t) EXCEPT !.pc = "get"])
  BY DEF Find, At, Goto
<1>2. CASE Return(t)
  <2>1. ~Claims(Top(t))
    BY <1>1 DEF Claims, LivePcs, BusyPcs
  <2> QED BY <1>1, <1>2, <2>1, FramePop
<1>3. CASE SetTop(t, [Top(t) EXCEPT !.pc = "get"])
  <2>1. Top(t) \in Frame /\ TypeOK
    BY <1>1, AtSays
  <2>2. PICK g : g = [Top(t) EXCEPT !.pc = "get"]
    OBVIOUS
  <2>3. /\ g \in Frame /\ g.pc = "get" /\ g.op = Top(t).op /\ g.own = Top(t).own /\ g.s = Top(t).s /\ g.c = Top(t).c
        /\ g.via = Top(t).via
    BY <2>1, <2>2 DEF Frame, Pcs
  <2>4. Goes(Top(t), g) /\ ~HoldsBusy(g)
    BY <1>1, <2>3 DEF Goes, HoldsBusy
  <2>5. waitq' \in Seq(Waiters) /\ fault' \in Faults
    BY <1>1, <2>1 DEF TypeOK, Waiters
  <2> QED BY <1>1, <1>3, <2>2, <2>3, <2>4, <2>5, GoesA
<1> QED BY <1>1, <1>2, <1>3

\* tee_ta_get_session that finds nothing keeps AInv.
LEMMA GetNothingA ==
    ASSUME AInv, NEW t \in Threads, GetNothing(t)
    PROVE  AInv'
<1>1. /\ fault = "none" /\ stack[t] # <<>> /\ Top(t).pc = "get"
      /\ UNCHANGED <<sess, ctx, ctxes, lists, si, waitq, usable, fault>> /\ Return(t)
  BY DEF GetNothing, At
<1>2. ~Claims(Top(t))
  BY <1>1 DEF Claims, LivePcs, BusyPcs
<1> QED BY <1>1, <1>2, FramePop

\* condvar_destroy in destroy_context keeps AInv.
LEMMA DestroyA ==
    ASSUME AInv, NEW t \in Threads, Destroy(t)
    PROVE  AInv'
<1>1. /\ fault = "none" /\ stack[t] # <<>> /\ Top(t).pc = "destroy" /\ fault' \in {"panic", fault}
      /\ UNCHANGED <<sess, ctx, ctxes, lists, si, waitq, usable>> /\ SetTop(t, [Top(t) EXCEPT !.pc = "drain"])
  BY DEF Destroy, At, Goto
<1>2. Top(t) \in Frame /\ TypeOK
  BY <1>1, AtSays
<1>3. PICK g : g = [Top(t) EXCEPT !.pc = "drain"]
  OBVIOUS
<1>4. /\ g \in Frame /\ g.pc = "drain" /\ g.op = Top(t).op /\ g.own = Top(t).own /\ g.s = Top(t).s /\ g.c = Top(t).c
      /\ g.via = Top(t).via
  BY <1>2, <1>3 DEF Frame, Pcs
<1>5. Goes(Top(t), g) /\ ~HoldsBusy(g)
  BY <1>1, <1>4 DEF Goes, HoldsBusy
<1>6. waitq' \in Seq(Waiters) /\ fault' \in Faults
  BY <1>1, <1>2 DEF TypeOK, Waiters, Faults
<1> QED BY <1>1, <1>3, <1>4, <1>5, <1>6, GoesA

\* tee_ta_invoke_command after the busy flag is cleared keeps AInv.
LEMMA InvPostA ==
    ASSUME AInv, NEW t \in Threads, InvPost(t)
    PROVE  AInv'
<1>1. PICK a \in {"inv_destroy", "put"} :
      /\ fault = "none" /\ stack[t] # <<>> /\ Top(t).pc = "inv_post"
      /\ UNCHANGED <<sess, ctx, ctxes, lists, si, waitq, usable, fault>> /\ SetTop(t, [Top(t) EXCEPT !.pc = a])
  BY DEF InvPost, At, Goto
<1>2. Top(t) \in Frame /\ TypeOK
  BY <1>1, AtSays
<1>3. PICK g : g = [Top(t) EXCEPT !.pc = a]
  OBVIOUS
<1>4. /\ g \in Frame /\ g.pc = a /\ g.op = Top(t).op /\ g.own = Top(t).own /\ g.s = Top(t).s /\ g.c = Top(t).c
      /\ g.via = Top(t).via
  BY <1>2, <1>3 DEF Frame, Pcs
<1>5. Goes(Top(t), g) /\ ~HoldsBusy(g)
  BY <1>1, <1>4 DEF Goes, HoldsBusy
<1>6. waitq' \in Seq(Waiters) /\ fault' \in Faults
  BY <1>1, <1>2 DEF TypeOK, Waiters
<1> QED BY <1>1, <1>3, <1>4, <1>5, <1>6, GoesA

\* tee_ta_invoke_command up to tee_ta_set_busy keeps AInv.
LEMMA InvChkA ==
    ASSUME AInv, NEW t \in Threads, InvChk(t)
    PROVE  AInv'
<1>1. PICK f : f = Top(t)
  OBVIOUS
<1>2. PICK c : c = sess[f.s].ctx
  OBVIOUS
<1>3. PICK a : a = CASE c = NoCtx -> "put" [] c # NoCtx /\ ctx[c].panicked -> "inv_destroy" [] OTHER -> "busy"
  OBVIOUS
<1>4. /\ fault = "none" /\ stack[t] # <<>> /\ f.pc = "inv_chk"
      /\ UNCHANGED <<sess, ctx, ctxes, lists, si, waitq, usable, fault>>
      /\ SetTop(t, [f EXCEPT !.c = c, !.pc = a])
  BY <1>1, <1>2, <1>3 DEF InvChk, At
<1>5. f \in Frame /\ Shape(f) /\ TypeOK
  BY <1>1, <1>4, AtSays
<1>6. f.op = "invoke" /\ f.s \in Sessions /\ f.via = "null"
  BY <1>4, <1>5 DEF Shape, OpenShape, InvokeShape, CloseShape, LivePcs, BusyPcs, EndPcs, Frame
<1>7. c \in Ctxs \cup {NoCtx} /\ a \in {"put", "inv_destroy", "busy"} /\ (a # "put" => c \in Ctxs)
  <2>1. c \in Ctxs \cup {NoCtx}
    BY <1>2, <1>5, <1>6 DEF TypeOK, Session
  <2> QED BY <1>3, <2>1
<1>8. PICK g : g = [f EXCEPT !.c = c, !.pc = a]
  OBVIOUS
<1>9. /\ g \in Frame /\ g.pc = a /\ g.op = "invoke" /\ g.own = f.own /\ g.s = f.s /\ g.c = c /\ g.via = "null"
  BY <1>5, <1>6, <1>7, <1>8 DEF Frame, Pcs
<1>10. StepOK(f, g) /\ GripOK(f, g) /\ ~HoldsBusy(g)
  <2>1. Shape(g)
    BY <1>6, <1>7, <1>9 DEF Shape, InvokeShape, LivePcs, BusyPcs, EndPcs
  <2>2. Ref(f) /\ Grip(f) /\ ~Claims(f) /\ ~Claims(g) /\ ~Ending(g) /\ ~NullEnd(g) /\ ~Gone(g) /\ ~HoldsBusy(g)
    BY <1>4, <1>6, <1>7, <1>9 DEF Ref, Grip, Gone, Claims, Ending, NullEnd, EndPcs, HoldsBusy
  <2> QED BY <1>2, <1>6, <1>9, <2>1, <2>2 DEF StepOK, LinkOK, GripOK
<1>11. waitq' \in Seq([t : Threads, cv : Cvs]) /\ usable' \subseteq Sessions /\ fault' \in Faults
  BY <1>4, <1>5 DEF TypeOK
<1> QED BY <1>1, <1>4, <1>8, <1>9, <1>10, <1>11, FrameSet

\* tee_ta_close_session up to tee_ta_set_busy keeps AInv.
LEMMA CloseChkA ==
    ASSUME AInv, NEW t \in Threads, CloseChk(t)
    PROVE  AInv'
<1>1. PICK f : f = Top(t)
  OBVIOUS
<1>2. PICK c : c = sess[f.s].ctx
  OBVIOUS
<1>3. PICK v : v = CASE c = NoCtx -> "null" [] c # NoCtx /\ ctx[c].panicked -> "dead" [] OTHER -> "live"
  OBVIOUS
<1>4. PICK a : a = IF v = "live" THEN "busy" ELSE "unlink"
  OBVIOUS
<1>5. /\ fault = "none" /\ stack[t] # <<>> /\ f.pc = "close_chk"
      /\ UNCHANGED <<sess, ctx, ctxes, lists, si, waitq, usable, fault>>
      /\ SetTop(t, [f EXCEPT !.c = c, !.via = v, !.pc = a])
  BY <1>1, <1>2, <1>3, <1>4 DEF CloseChk, At
<1>6. f \in Frame /\ Shape(f) /\ TypeOK
  BY <1>1, <1>5, AtSays
<1>7. f.op = "close" /\ f.s \in Sessions /\ f.via = "null"
  BY <1>5, <1>6 DEF Shape, OpenShape, InvokeShape, CloseShape, LivePcs, BusyPcs, EndPcs, Frame
<1>8. /\ c \in Ctxs \cup {NoCtx} /\ v \in {"null", "dead", "live"} /\ (v # "null" => c \in Ctxs)
      /\ (v = "null" => c = NoCtx)
      /\ a \in {"busy", "unlink"} /\ (a = "busy" => v = "live") /\ (v = "live" => a = "busy")
  <2>1. c \in Ctxs \cup {NoCtx}
    BY <1>2, <1>6, <1>7 DEF TypeOK, Session
  <2>2. v \in {"null", "dead", "live"} /\ (v # "null" => c # NoCtx) /\ (v = "null" => c = NoCtx)
    BY <1>3
  <2> QED BY <1>4, <2>1, <2>2
<1>9. PICK g : g = [f EXCEPT !.c = c, !.via = v, !.pc = a]
  OBVIOUS
<1>10. /\ g \in Frame /\ g.pc = a /\ g.op = "close" /\ g.own = f.own /\ g.s = f.s /\ g.c = c /\ g.via = v
  BY <1>6, <1>7, <1>8, <1>9 DEF Frame, Pcs
<1>11. StepOK(f, g) /\ GripOK(f, g) /\ ~HoldsBusy(g)
  <2>1. Shape(g)
    BY <1>7, <1>8, <1>10 DEF Shape, CloseShape, LivePcs, BusyPcs, EndPcs
  <2>2. Ref(f) /\ Grip(f) /\ ~Claims(f) /\ ~Ending(g) /\ ~Gone(g) /\ ~HoldsBusy(g) /\ (NullEnd(g) => c = NoCtx)
    BY <1>5, <1>7, <1>8, <1>10 DEF Ref, Grip, Gone, Claims, Ending, NullEnd, EndPcs, HoldsBusy, LivePcs, BusyPcs
  <2> QED BY <1>2, <1>7, <1>10, <2>1, <2>2 DEF StepOK, LinkOK, GripOK
<1>12. waitq' \in Seq([t : Threads, cv : Cvs]) /\ usable' \subseteq Sessions /\ fault' \in Faults
  BY <1>5, <1>6 DEF TypeOK
<1> QED BY <1>1, <1>5, <1>9, <1>10, <1>11, <1>12, FrameSet

\* The frame of a call that is made.
LEMMA CallIs ==
    ASSUME NEW op \in {"open", "invoke", "close", "cancel"}, NEW own \in Owners, NEW u \in Uuids, NEW id \in 0..MaxId,
           NEW g, g = Call(op, own, u, id)
    PROVE  /\ g \in Frame /\ g.op = op /\ g.own = own /\ g.id = id /\ g.via = "null" /\ g.u = u
           /\ g.pc = (IF op = "open" THEN "open_init" ELSE IF op = "close" THEN "find" ELSE "get")
<1>1. PICK a : a = CASE op = "open" -> "open_init" [] op = "close" -> "find" [] OTHER -> "get"
  OBVIOUS
<1>2. a = (IF op = "open" THEN "open_init" ELSE IF op = "close" THEN "find" ELSE "get") /\ a \in Pcs
  BY <1>1 DEF Pcs
<1>3. g = [op |-> op, pc |-> a, own |-> own, u |-> u, id |-> id, s |-> NoSess, c |-> NoCtx,
           via |-> "null", res |-> "ok"]
  BY <1>1 DEF Call
<1> QED BY <1>2, <1>3 DEF Frame

\* A new call refers to nothing yet.
LEMMA CallSays ==
    ASSUME NEW g \in Frame, g.via = "null",
           \/ g.op = "open" /\ g.pc = "open_init"
           \/ g.op = "close" /\ g.pc \in {"find", "get"}
           \/ g.op \in {"invoke", "cancel"} /\ g.pc = "get"
    PROVE  Shape(g) /\ ~Ref(g) /\ ~Uses(g) /\ ~Grip(g) /\ ~NullEnd(g) /\ ~HoldsBusy(g)
BY DEF Shape, OpenShape, InvokeShape, CloseShape, LivePcs, BusyPcs, EndPcs, Ref, Uses, Past, Claims, Ending, Grip,
       NullEnd, HoldsBusy

\* There is a TA.
LEMMA AnyUuidIs == AnyUuid \in Uuids
BY TaManagerAssumption, Zenon DEF AnyUuid

\* Who calls.
LEMMA CallerIs ==
    ASSUME AInv, NEW t \in Threads, CanCall(t)
    PROVE  /\ fault = "none" /\ TypeOK /\ Caller(t) \in Owners
           /\ \/ stack[t] = <<>> /\ Caller(t) = NW
              \/ /\ stack[t] # <<>> /\ Top(t).pc \in {"in_ta", "drain"}
                 /\ Top(t).c = Caller(t) /\ Caller(t) \in Ctxs /\ Caller(t) # NW
<1>1. fault = "none" /\ (stack[t] # <<>> => Top(t).pc = "in_ta") /\ TypeOK
  BY DEF CanCall, AInv
<1>2. CASE stack[t] = <<>>
  BY <1>1, <1>2 DEF Caller, Owners
<1>3. CASE stack[t] # <<>>
  <2>1. Shape(Top(t)) /\ Top(t).pc = "in_ta"
    BY <1>1, <1>3, AtSays
  <2>2. Top(t).c \in Ctxs
    BY <2>1, ShapeSays DEF HoldsBusy, Uses
  <2> QED BY <1>1, <1>3, <2>1, <2>2 DEF Caller, Owners, Ctxs, NW
<1> QED BY <1>2, <1>3

\* A call that is made keeps the invariant.
LEMMA PushA ==
    ASSUME AInv, fault = "none", NEW t \in Threads, NEW g \in Frame, Push(t, g), g.via = "null",
           \/ g.op = "open" /\ g.pc = "open_init"
           \/ g.op = "close" /\ g.pc \in {"find", "get"}
           \/ g.op \in {"invoke", "cancel"} /\ g.pc = "get",
           UNCHANGED <<sess, ctx, lists, ctxes, si, waitq, fault>>, usable' \subseteq Sessions,
           \/ stack[t] = <<>> /\ g.own = NW
           \/ /\ stack[t] # <<>> /\ Top(t).pc \in {"in_ta", "drain"} /\ g.op # "cancel"
              /\ Top(t).c = g.own /\ g.own \in Ctxs
    PROVE  AInv'
<1>1. Shape(g) /\ ~Ref(g) /\ ~Uses(g) /\ ~Grip(g) /\ ~NullEnd(g) /\ ~HoldsBusy(g)
  BY CallSays
<1>2. stack' \in [Threads -> Seq(Frame)] /\ Good' /\ HoldInv'
  BY <1>1, PushQuiet
<1>3. TypeOK'
  <2>1. TypeOK
    BY DEF AInv
  <2> QED BY <1>2, <2>1, TypeStep DEF TypeOK
<1> QED BY <1>2, <1>3 DEF AInv

\* A client that opens a session keeps AInv.
LEMMA CallOpenA ==
    ASSUME AInv, NEW t \in Threads, CallOpen(t)
    PROVE  AInv'
<1>1. PICK u \in Uuids : /\ CanCall(t) /\ Push(t, Call("open", Caller(t), u, 0))
                         /\ UNCHANGED <<sess, ctx, ctxes, lists, si, waitq, usable, fault>>
  BY DEF CallOpen
<1>2. PICK g : g = Call("open", Caller(t), u, 0)
  OBVIOUS
<1>3. 0 \in 0..MaxId
  BY TaManagerAssumption
<1>4. /\ g \in Frame /\ g.op = "open" /\ g.own = Caller(t) /\ g.via = "null" /\ g.pc = "open_init"
  BY <1>1, <1>2, <1>3, CallerIs, CallIs
<1>5. usable' \subseteq Sessions /\ fault = "none"
  BY <1>1, CallerIs DEF TypeOK
<1>6. Push(t, g)
  BY <1>1, <1>2
<1> QED BY <1>1, <1>4, <1>5, <1>6, PushA, CallerIs

\* A client that invokes a command, or cancels one, keeps AInv.
LEMMA CallInvokeA ==
    ASSUME AInv, NEW t \in Threads, CallInvoke(t)
    PROVE  AInv'
<1>1. PICK s \in usable, op \in {"invoke", "cancel"} :
         /\ CanCall(t) /\ (op = "cancel" => Caller(t) = NW)
         /\ Push(t, Call(op, Caller(t), AnyUuid, sess[s].id))
         /\ UNCHANGED <<sess, ctx, ctxes, lists, si, waitq, usable, fault>>
  BY DEF CallInvoke
<1>2. TypeOK /\ s \in Sessions /\ sess[s].id \in 0..MaxId /\ usable' \subseteq Sessions
  BY <1>1, CallerIs DEF TypeOK, Session
<1>3. PICK g : g = Call(op, Caller(t), AnyUuid, sess[s].id)
  OBVIOUS
<1>4. /\ g \in Frame /\ g.op = op /\ g.own = Caller(t) /\ g.via = "null" /\ g.pc = "get"
  BY <1>1, <1>2, <1>3, CallerIs, CallIs, AnyUuidIs
<1>5. Push(t, g)
  BY <1>1, <1>3
<1> QED BY <1>1, <1>2, <1>4, <1>5, PushA, CallerIs

\* A client that closes a session keeps AInv.
LEMMA CallCloseA ==
    ASSUME AInv, NEW t \in Threads, CallClose(t)
    PROVE  AInv'
<1>1. PICK s \in usable :
         /\ CanCall(t)
         /\ Push(t, Call("close", Caller(t), AnyUuid, sess[s].id)) /\ usable' = usable \ {s}
         /\ UNCHANGED <<sess, ctx, ctxes, lists, si, waitq, fault>>
  BY DEF CallClose
<1>2. TypeOK /\ s \in Sessions /\ sess[s].id \in 0..MaxId /\ usable' \subseteq Sessions
  BY <1>1, CallerIs DEF TypeOK, Session
<1>3. PICK g : g = Call("close", Caller(t), AnyUuid, sess[s].id)
  OBVIOUS
<1>4. /\ g \in Frame /\ g.op = "close" /\ g.own = Caller(t) /\ g.via = "null" /\ g.pc = "find"
  BY <1>1, <1>2, <1>3, CallerIs, CallIs, AnyUuidIs
<1>5. Push(t, g)
  BY <1>1, <1>3
<1> QED BY <1>1, <1>2, <1>4, <1>5, PushA, CallerIs

\* free_utc that closes a session of the TA keeps AInv.
LEMMA DrainA ==
    ASSUME AInv, NEW t \in Threads, Drain(t)
    PROVE  AInv'
<1>1. PICK c : c = Top(t).c
  OBVIOUS
<1>2. PICK s : s = Head(lists[c])
  OBVIOUS
<1>3. /\ fault = "none" /\ stack[t] # <<>> /\ Top(t).pc = "drain" /\ lists[c] # <<>>
      /\ Push(t, [Call("close", c, ctx[c].u, sess[s].id) EXCEPT !.pc = "get"]) /\ usable' = usable \ {s}
      /\ UNCHANGED <<sess, ctx, ctxes, lists, si, waitq, fault>>
  BY <1>1, <1>2 DEF Drain, At
<1>4. Shape(Top(t)) /\ TypeOK
  BY <1>3, AtSays
<1>5. c \in Ctxs /\ c \in Owners
  BY <1>1, <1>3, <1>4, ShapeSays DEF Uses, Ending, EndPcs, Owners
<1>6. s \in Sessions /\ sess[s].id \in 0..MaxId /\ ctx[c].u \in Uuids
  <2>1. lists[c] \in Seq(Sessions)
    BY <1>4, <1>5 DEF TypeOK
  <2>2. s \in Sessions
    BY <1>2, <1>3, <2>1
  <2> QED BY <1>4, <1>5, <2>2 DEF TypeOK, Session, Context
<1>7. PICK h : h = Call("close", c, ctx[c].u, sess[s].id)
  OBVIOUS
<1>8. /\ h \in Frame /\ h.op = "close" /\ h.own = c /\ h.via = "null"
  BY <1>5, <1>6, <1>7, CallIs
<1>9. PICK g : g = [h EXCEPT !.pc = "get"]
  OBVIOUS
<1>10. /\ g \in Frame /\ g.op = "close" /\ g.own = c /\ g.via = "null" /\ g.pc = "get"
  BY <1>8, <1>9 DEF Frame, Pcs
<1>11. Push(t, g) /\ usable' \subseteq Sessions
  BY <1>3, <1>4, <1>7, <1>9 DEF TypeOK
<1> QED BY <1>1, <1>3, <1>5, <1>10, <1>11, PushA

\* The references and the locks of sessions change with the innermost frame.
GripsTo(p, g) ==
    /\ Grip(g) => \/ Grip(fr[p]) /\ g.s = fr[p].s
                  \/ \A y \in Pl : y # p /\ Grip(fr[y]) => fr[y].s # g.s
    /\ Grip(g) /\ Ref(g) => sess'[g.s].lock = p[1]
    /\ Gone(g) => sess'[g.s].state = "freed"
    /\ \A y \in Pl : y # p /\ Grip(fr[y]) /\ Ref(fr[y]) => sess'[fr[y].s].lock = sess[fr[y].s].lock

\* The frame goes on, and its session changes with it.
LEMMA SetRef ==
    ASSUME AInv, fault = "none", NEW t \in Threads, stack[t] # <<>>, NEW g \in Frame, SetTop(t, g),
           sess' \in [Sessions -> Session], SessLike, UNCHANGED <<ctx, ctxes, lists, si>>,
           waitq' \in Seq(Waiters), usable' \subseteq Sessions, fault' \in Faults,
           StepOK(Top(t), g), HoldsBusy(g) => HoldsBusy(Top(t)) /\ g.c = Top(t).c,
           \A s \in Sessions : sess'[s].ref + Has(Top(t), s) >= sess[s].ref + Has(g, s),
           GripsTo(TopP(t), g)
    PROVE  AInv'
<1>1. /\ TypeOK /\ HoldInv /\ Good /\ fr[TopP(t)] = Top(t) /\ TopP(t) \in Pl
  BY AtSays
<1>2. CtxLike
  BY DEF CtxLike
<1>3. /\ Moved(TopP(t), g) /\ stack' \in [Threads -> Seq(Frame)]
      /\ ShapeInv' /\ StackInv' /\ HomeInv' /\ LinkInv' /\ UsedInv' /\ CountInv' /\ LoadInv'
  BY <1>2, SetLinks
<1>4. TypeOK'
  <2>1. \A s \in Sessions : sess'[s].id = sess[s].id
    BY DEF SessLike
  <2> QED BY <1>1, <1>3, <2>1, TypeStep DEF TypeOK, Waiters
<1>5. HoldInv'
  BY <1>1, <1>3, HoldLoad
<1>6. \A s \in Sessions : sess'[s].ref \in Nat
  BY DEF Session
<1>7. RefInv'
  BY <1>1, <1>3, <1>6, RefsKeep DEF Good
<1>8. \A y \in Pl : y # TopP(t) /\ Gone(fr[y]) => sess'[fr[y].s].state = "freed"
  <2>1. \A y \in Pl : Gone(fr[y]) => fr[y].s \in Sessions /\ sess[fr[y].s].state = "freed"
    BY <1>1, FrameSays DEF Good, GripInv
  <2> QED BY <2>1 DEF SessLike
<1>9. GripInv'
  BY <1>1, <1>3, <1>8, GripKeep DEF Good, GripsTo
<1> QED BY <1>3, <1>4, <1>5, <1>7, <1>9 DEF AInv, Good

\* The call returns, and its session changes with it.
LEMMA PopRef ==
    ASSUME AInv, fault = "none", NEW t \in Threads, stack[t] # <<>>, Return(t), ~Claims(Top(t)),
           sess' \in [Sessions -> Session], SessLike, UNCHANGED <<ctx, ctxes, lists, si>>,
           waitq' \in Seq(Waiters), usable' \subseteq Sessions, fault' \in Faults,
           \A s \in Sessions : sess'[s].ref + Has(Top(t), s) >= sess[s].ref,
           \A y \in Pl : y # TopP(t) /\ Grip(fr[y]) /\ Ref(fr[y]) => sess'[fr[y].s].lock = sess[fr[y].s].lock
    PROVE  AInv'
<1>1. /\ TypeOK /\ HoldInv /\ Good /\ fr[TopP(t)] = Top(t) /\ TopP(t) \in Pl
  BY AtSays
<1>2. CtxLike
  BY DEF CtxLike
<1>3. /\ Moved(TopP(t), Null) /\ stack' \in [Threads -> Seq(Frame)]
      /\ ShapeInv' /\ StackInv' /\ HomeInv' /\ LinkInv' /\ UsedInv' /\ CountInv' /\ LoadInv'
  BY <1>2, PopLinks
<1>4. TypeOK'
  <2>1. \A s \in Sessions : sess'[s].id = sess[s].id
    BY DEF SessLike
  <2> QED BY <1>1, <1>3, <2>1, TypeStep DEF TypeOK, Waiters
<1>5. ~HoldsBusy(Null) /\ ~Ref(Null) /\ ~Grip(Null) /\ ~Gone(Null)
  BY DEF HoldsBusy, Null, Ref, Grip, Gone
<1>6. HoldInv'
  BY <1>1, <1>3, <1>5, HoldLoad
<1>7. \A s \in Sessions : sess'[s].ref \in Nat /\ sess[s].ref \in Nat
  BY <1>1 DEF Session, TypeOK
<1>8. \A s \in Sessions : sess'[s].ref + Has(fr[TopP(t)], s) >= sess[s].ref + Has(Null, s)
  <2>1. \A s \in Sessions : Has(Null, s) = 0
    BY <1>5 DEF Has
  <2> QED BY <1>1, <1>7, <2>1
<1>9. RefInv'
  BY <1>1, <1>3, <1>7, <1>8, RefsKeep DEF Good
<1>10. \A y \in Pl : y # TopP(t) /\ Gone(fr[y]) => sess'[fr[y].s].state = "freed"
  <2>1. \A y \in Pl : Gone(fr[y]) => fr[y].s \in Sessions /\ sess[fr[y].s].state = "freed"
    BY <1>1, FrameSays DEF Good, GripInv
  <2> QED BY <2>1 DEF SessLike
<1>11. GripInv'
  BY <1>1, <1>3, <1>5, <1>10, GripKeep DEF Good
<1> QED BY <1>3, <1>4, <1>6, <1>9, <1>11 DEF AInv, Good

\* One session loses or gains a reference, or its lock changes hands.
LEMMA SessSet ==
    ASSUME TypeOK, NEW s \in Sessions, NEW e \in Session, sess' = Upd(sess, s, e),
           e.state = sess[s].state, e.id = sess[s].id, e.ctx = sess[s].ctx
    PROVE  /\ sess' \in [Sessions -> Session] /\ SessLike /\ sess'[s] = e
           /\ \A r \in Sessions : r # s => sess'[r] = sess[r]
<1>1. sess' \in [Sessions -> Session] /\ sess'[s] = e /\ \A r \in Sessions : r # s => sess'[r] = sess[r]
  BY DEF Upd, TypeOK
<1> QED BY <1>1 DEF SessLike

\* dec_session_ref_count adds nobody to the queue.
LEMMA RefcType ==
    ASSUME NEW q \in Seq(Waiters), NEW s
    PROVE  SignalRefc(q, s) \in Seq(Waiters)
BY SignalFacts DEF SignalRefc

\* tee_ta_put_session of the opener keeps AInv.
LEMMA OpenPutA ==
    ASSUME AInv, NEW t \in Threads, OpenPut(t)
    PROVE  AInv'
<1>1. PICK f : f = Top(t)
  OBVIOUS
<1>2. PICK s : s = f.s
  OBVIOUS
<1>3. /\ fault = "none" /\ stack[t] # <<>> /\ f.pc = "open_put" /\ Valid(t)
      /\ sess' = SessRef(s, -1) /\ waitq' = SignalRefc(waitq, s)
      /\ UNCHANGED <<ctx, ctxes, lists, si, fault>>
      /\ \/ SetTop(t, CloseInstead(f)) /\ UNCHANGED usable
         \/ Return(t) /\ usable' = usable \cup {s}
  BY <1>1, <1>2 DEF OpenPut, At
<1>4. f \in Frame /\ Shape(f) /\ TypeOK /\ Good /\ fr[TopP(t)] = f /\ TopP(t) \in Pl
  BY <1>1, <1>3, AtSays
<1>5. f.op = "open" /\ f.via = "null" /\ s \in Sessions /\ f.own \in Owners /\ Ref(f) /\ ~Grip(f) /\ ~Claims(f)
  BY <1>2, <1>3, <1>4 DEF Shape, OpenShape, InvokeShape, CloseShape, LivePcs, BusyPcs, EndPcs, Frame, Ref, Grip, Claims
<1>6. sess[s].ref \in Nat /\ sess[s].ref >= 1 /\ sess[s].id \in 0..MaxId
  <2>1. RefInv /\ Ref(fr[TopP(t)]) /\ fr[TopP(t)].s = s
    BY <1>2, <1>4, <1>5 DEF Good
  <2>2. sess[s].ref >= 1
    BY <1>4, <1>5, <2>1, RefHeld
  <2> QED BY <1>4, <1>5, <2>2 DEF TypeOK, Session
<1>7. PICK e : e = [sess[s] EXCEPT !.ref = @ - 1]
  OBVIOUS
<1>8. /\ e \in Session /\ e.state = sess[s].state /\ e.id = sess[s].id /\ e.ctx = sess[s].ctx
      /\ e.ref = sess[s].ref - 1 /\ e.lock = sess[s].lock
  <2>1. sess[s] \in Session
    BY <1>4, <1>5 DEF TypeOK
  <2>2. PICK n : n = sess[s].ref - 1
    OBVIOUS
  <2>3. n \in Nat /\ e = [sess[s] EXCEPT !.ref = n]
    BY <1>6, <1>7, <2>2
  <2> QED BY <2>1, <2>2, <2>3 DEF Session
<1>9. sess' = Upd(sess, s, e)
  <2>1. e = [sess[s] EXCEPT !.ref = @ + (-1)]
    BY <1>4, <1>5, <1>6, <1>7 DEF TypeOK, Session
  <2> QED BY <1>3, <2>1 DEF Upd, SessRef
<1>10. /\ sess' \in [Sessions -> Session] /\ SessLike /\ sess'[s] = e
       /\ \A r \in Sessions : r # s => sess'[r] = sess[r]
  BY <1>4, <1>5, <1>8, <1>9, SessSet
<1>11. waitq' \in Seq(Waiters) /\ usable' \subseteq Sessions /\ fault' \in Faults
  <2>1. waitq \in Seq(Waiters) /\ usable \subseteq Sessions /\ fault \in Faults
    BY <1>4 DEF TypeOK, Waiters
  <2>2. SignalRefc(waitq, s) \in Seq(Waiters)
    BY <2>1, RefcType
  <2> QED BY <1>3, <1>5, <2>1, <2>2
<1>12. \A r \in Sessions : sess[r].ref \in Nat /\ sess'[r].ref + Has(f, r) = sess[r].ref /\ sess'[r].ref \in Nat
  <2>1. \A r \in Sessions : sess[r].ref \in Nat
    BY <1>4 DEF TypeOK, Session
  <2> QED BY <1>2, <1>5, <1>6, <1>8, <1>10, <2>1 DEF Has
<1>13. \A y \in Pl : y # TopP(t) /\ Grip(fr[y]) /\ Ref(fr[y]) => sess'[fr[y].s].lock = sess[fr[y].s].lock
  <2>1. \A y \in Pl : Ref(fr[y]) => fr[y].s \in Sessions
    BY <1>4, FrameSays DEF Good
  <2> QED BY <1>8, <1>10, <2>1
<1>14. CASE SetTop(t, CloseInstead(f))
  <2>1. PICK g : g = CloseInstead(f)
    OBVIOUS
  <2>2. /\ g \in Frame /\ g.op = "close" /\ g.pc = "get" /\ g.own = f.own /\ g.s = f.s /\ g.via = "null"
    BY <1>2, <1>4, <1>5, <1>6, <2>1 DEF CloseInstead, Frame, Pcs
  <2>3. ~Ref(g) /\ ~Grip(g) /\ ~Gone(g) /\ ~HoldsBusy(g)
    BY <2>2 DEF Ref, Grip, Gone, HoldsBusy
  <2>4. StepOK(f, g)
    BY <1>5, <2>2, <2>3 DEF StepOK, LinkOK, Shape, CloseShape, LivePcs, BusyPcs, EndPcs, Past, Claims, Ending, NullEnd
  <2>5. \A r \in Sessions : sess'[r].ref + Has(f, r) >= sess[r].ref + Has(g, r)
    <3>1. \A r \in Sessions : Has(g, r) = 0
      BY <2>3 DEF Has
    <3> QED BY <1>12, <3>1
  <2>6. GripsTo(TopP(t), g)
    BY <1>13, <2>3 DEF GripsTo
  <2>7. SetTop(t, g)
    BY <1>14, <2>1
  <2> QED BY <1>1, <1>3, <1>10, <1>11, <2>2, <2>3, <2>4, <2>5, <2>6, <2>7, SetRef
<1>15. CASE Return(t)
  <2>1. \A r \in Sessions : sess'[r].ref + Has(f, r) >= sess[r].ref
    BY <1>12
  <2> QED BY <1>1, <1>3, <1>5, <1>10, <1>11, <1>13, <1>15, <2>1, PopRef
<1> QED BY <1>3, <1>14, <1>15

\* What a search of a list finds.
LEMMA FindIs ==
    ASSUME TypeOK, NEW o \in Owners, NEW id, NEW s, s = FindIn(lists[o], id)
    PROVE  /\ s # NoSess => s \in Sessions /\ On(s, lists[o]) /\ sess[s].id = id
           /\ \A r \in Sessions : On(r, lists[o]) /\ sess[r].id = id => s = r
           /\ s = NoSess => \A r \in Sessions : On(r, lists[o]) => sess[r].id # id
<1>1. PICK l : l = lists[o]
  OBVIOUS
<1>2. l \in Seq(Sessions) /\ Len(l) \in Nat /\ \A i \in 1..Len(l) : l[i] \in Sessions
  BY <1>1 DEF TypeOK
<1>3. NoSess \notin Sessions
  BY TaManagerAssumption DEF Sessions
<1>4. \A i, j \in 1..Len(l) : sess[l[i]].id = sess[l[j]].id => i = j
  BY <1>1 DEF TypeOK
<1>5. CASE ~ \E i \in 1..Len(l) : sess[l[i]].id = id
  <2>1. s = NoSess
    BY <1>1, <1>5 DEF FindIn
  <2> QED BY <1>1, <1>5, <2>1 DEF On
<1>6. CASE \E i \in 1..Len(l) : sess[l[i]].id = id
  <2>1. PICK T : T = {i \in 1..Len(l) : sess[l[i]].id = id}
    OBVIOUS
  <2>2. T \in SUBSET Nat /\ T # {}
    BY <1>2, <1>6, <2>1
  <2>3. PICK m \in T : \A y \in T : m <= y
    BY <2>2, LeastNat
  <2>4. PICK k : k = CHOOSE i \in 1..Len(l) : sess[l[i]].id = id /\ \A j \in 1..(i - 1) : sess[l[j]].id # id
    OBVIOUS
  <2>5. m \in 1..Len(l) /\ sess[l[m]].id = id /\ \A j \in 1..(m - 1) : sess[l[j]].id # id
    <3>1. m \in 1..Len(l) /\ sess[l[m]].id = id
      BY <2>1, <2>3
    <3>2. ASSUME NEW j \in 1..(m - 1), sess[l[j]].id = id PROVE FALSE
      <4>1. j \in 1..Len(l)
        BY <1>2, <3>1, <3>2
      <4>2. j \in T
        BY <2>1, <3>2, <4>1
      <4> QED BY <1>2, <2>3, <3>1, <4>2
    <3> QED BY <3>1, <3>2
  <2>6. k \in 1..Len(l) /\ sess[l[k]].id = id
    BY <2>4, <2>5, Zenon
  <2>7. s = l[k]
    BY <1>1, <1>6, <2>4, Zenon DEF FindIn
  <2> QED BY <1>1, <1>2, <1>3, <1>4, <2>6, <2>7 DEF On
<1> QED BY <1>5, <1>6

\* Where a search leads a call.
LEMMA AfterGetIs ==
    ASSUME NEW f \in Frame, f.op # "open", NEW a, a = AfterGet(f.op)
    PROVE  /\ a \in Pcs /\ (f.op = "invoke" => a = "inv_chk") /\ (f.op = "close" => a = "close_chk")
           /\ (f.op = "cancel" => a = "put")
BY DEF AfterGet, Pcs, Frame

\* A thread that takes the lock of a session is the only one to have it.
LEMMA TakesLock ==
    ASSUME AInv, fault = "none", NEW t \in Threads, stack[t] # <<>>, NEW s \in Sessions, NEW g,
           sess[s].lock = NoThread, sess[s].state = "live", Grip(g), Ref(g), g.s = s, sess'[s].lock = t,
           \A r \in Sessions : r # s => sess'[r] = sess[r]
    PROVE  GripsTo(TopP(t), g)
<1>1. TypeOK /\ Good /\ TopP(t)[1] = t
  BY AtSays
<1>2. ASSUME NEW y \in Pl, Grip(fr[y]) PROVE fr[y].s \in Sessions /\ fr[y].s # s
  <2>1. Shape(fr[y]) /\ fr[y].s \in Sessions
    BY <1>1, <1>2, FrameSays DEF Good
  <2>2. Ref(fr[y]) \/ Gone(fr[y])
    BY <1>2 DEF Grip, Ref, Gone
  <2>3. y[1] \in Threads /\ y[1] # NoThread
    BY TaManagerAssumption DEF Pl
  <2> QED BY <1>1, <1>2, <2>1, <2>2, <2>3 DEF Good, GripInv
<1>3. ~Gone(g)
  BY DEF Gone, Ref
<1> QED BY <1>1, <1>2, <1>3 DEF GripsTo

\* tee_ta_get_session that finds the session keeps AInv.
LEMMA GetA ==
    ASSUME AInv, NEW t \in Threads, Get(t)
    PROVE  AInv'
<1>1. PICK f : f = Top(t)
  OBVIOUS
<1>2. PICK s : s = FindIn(lists[f.own], f.id)
  OBVIOUS
<1>3. PICK a : a = AfterGet(f.op)
  OBVIOUS
<1>4. PICK x : x = (f.op # "cancel")
  OBVIOUS
<1>5. /\ fault = "none" /\ stack[t] # <<>> /\ f.pc = "get" /\ s # NoSess /\ fault' \in {fault, "assert"}
      /\ UNCHANGED <<ctx, ctxes, lists, si, usable>>
      /\ IF x /\ sess[s].lock # NoThread
         THEN /\ sess' = SessRef(s, 1) /\ waitq' = Wait(waitq, t, LockCv(s))
              /\ SetTop(t, [f EXCEPT !.s = s, !.pc = "wait_lock"])
         ELSE /\ sess' = [sess EXCEPT ![s].ref = @ + 1, ![s].lock = IF x THEN t ELSE @]
              /\ SetTop(t, [f EXCEPT !.s = s, !.pc = a]) /\ UNCHANGED waitq
  BY <1>1, <1>2, <1>3, <1>4 DEF Get, At, CAssert
<1>6. f \in Frame /\ Shape(f) /\ TypeOK /\ Good /\ fr[TopP(t)] = f /\ TopP(t) \in Pl /\ f.own \in Owners
  BY <1>1, <1>5, AtSays, ShapeSays
<1>7. /\ f.op \in {"invoke", "close", "cancel"} /\ f.via = "null" /\ ~Ref(f) /\ ~Grip(f) /\ ~Claims(f)
  BY <1>5, <1>6 DEF Shape, OpenShape, InvokeShape, CloseShape, LivePcs, BusyPcs, EndPcs, Frame, Ref, Grip, Claims
<1>8. s \in Sessions /\ On(s, lists[f.own]) /\ sess[s].state = "live"
  BY <1>2, <1>5, <1>6, FindIs DEF Good, HomeInv
<1>9. fault' \in Faults /\ usable' \subseteq Sessions /\ waitq \in Seq(Waiters)
  BY <1>5, <1>6 DEF TypeOK, Faults, Waiters
<1>10. \A r \in Sessions : sess[r].ref \in Nat
  BY <1>6 DEF TypeOK, Session
<1>11. \A y \in Pl : Ref(fr[y]) => fr[y].s \in Sessions
  BY <1>6, FrameSays DEF Good
<1>12. CASE x /\ sess[s].lock # NoThread
  <2>1. PICK g : g = [f EXCEPT !.s = s, !.pc = "wait_lock"]
    OBVIOUS
  <2>2. /\ g \in Frame /\ g.op = f.op /\ g.pc = "wait_lock" /\ g.own = f.own /\ g.s = s /\ g.via = "null"
    <3>1. f \in Frame /\ s \in Sessions /\ f.via = "null"
      BY <1>6, <1>7, <1>8
    <3> QED BY <2>1, <3>1 DEF Frame, Pcs
  <2>3. Ref(g) /\ ~Grip(g) /\ ~Gone(g) /\ ~HoldsBusy(g) /\ f.op \in {"invoke", "close"}
    BY <1>4, <1>7, <1>12, <2>2 DEF Ref, Grip, Gone, HoldsBusy
  <2>4. StepOK(f, g)
    BY <1>7, <1>8, <2>2, <2>3 DEF StepOK, LinkOK, Shape, CloseShape, InvokeShape, LivePcs, BusyPcs, EndPcs, Past, Claims,
          Ending, NullEnd
  <2>5. PICK e : e = [sess[s] EXCEPT !.ref = @ + 1]
    OBVIOUS
  <2>6. /\ e \in Session /\ e.state = sess[s].state /\ e.id = sess[s].id /\ e.ctx = sess[s].ctx
        /\ e.ref = sess[s].ref + 1 /\ e.lock = sess[s].lock
    <3>1. sess[s] \in Session
      BY <1>6, <1>8 DEF TypeOK
    <3> QED BY <2>5, <3>1 DEF Session
  <2>7. sess' = Upd(sess, s, e) /\ SetTop(t, g) /\ waitq' = Wait(waitq, t, LockCv(s))
    BY <1>5, <1>12, <2>1, <2>5 DEF Upd, SessRef
  <2>8. /\ sess' \in [Sessions -> Session] /\ SessLike /\ sess'[s] = e
        /\ \A r \in Sessions : r # s => sess'[r] = sess[r]
    BY <1>6, <1>8, <2>6, <2>7, SessSet
  <2>9. waitq' \in Seq(Waiters)
    BY <1>8, <1>9, <2>7, CvsAre, WaitType
  <2>10. \A r \in Sessions : sess'[r].ref + Has(f, r) >= sess[r].ref + Has(g, r)
    BY <1>7, <1>10, <2>2, <2>6, <2>8 DEF Has
  <2>11. GripsTo(TopP(t), g)
    BY <1>11, <2>3, <2>6, <2>8 DEF GripsTo
  <2>12. fault = "none" /\ stack[t] # <<>> /\ UNCHANGED <<ctx, ctxes, lists, si>>
    BY <1>5
  <2> QED BY <1>1, <1>9, <2>2, <2>3, <2>4, <2>7, <2>8, <2>9, <2>10, <2>11, <2>12, SetRef
<1>13. CASE ~(x /\ sess[s].lock # NoThread)
  <2>1. PICK g : g = [f EXCEPT !.s = s, !.pc = a]
    OBVIOUS
  <2>2. /\ a \in Pcs /\ (f.op = "invoke" => a = "inv_chk") /\ (f.op = "close" => a = "close_chk")
        /\ (f.op = "cancel" => a = "put")
    BY <1>3, <1>6, <1>7, AfterGetIs
  <2>3. /\ g \in Frame /\ g.op = f.op /\ g.pc = a /\ g.own = f.own /\ g.s = s /\ g.via = "null"
    BY <1>6, <1>7, <1>8, <2>1, <2>2 DEF Frame
  <2>4. Ref(g) /\ (Grip(g) <=> x) /\ ~Gone(g) /\ ~HoldsBusy(g)
    BY <1>4, <1>7, <2>2, <2>3 DEF Ref, Grip, Gone, HoldsBusy
  <2>5. StepOK(f, g)
    BY <1>7, <1>8, <2>2, <2>3, <2>4 DEF StepOK, LinkOK, Shape, CloseShape, InvokeShape, LivePcs, BusyPcs, EndPcs, Past,
          Claims, Ending, NullEnd
  <2>6. PICK e : e = [sess[s] EXCEPT !.ref = @ + 1, !.lock = IF x THEN t ELSE @]
    OBVIOUS
  <2>7. /\ e \in Session /\ e.state = sess[s].state /\ e.id = sess[s].id /\ e.ctx = sess[s].ctx
        /\ e.ref = sess[s].ref + 1 /\ e.lock = IF x THEN t ELSE sess[s].lock
    <3>1. sess[s] \in Session
      BY <1>6, <1>8 DEF TypeOK
    <3>2. PICK l : l = IF x THEN t ELSE sess[s].lock
      OBVIOUS
    <3>0. PICK n : n = sess[s].ref + 1
      OBVIOUS
    <3>3. e = [sess[s] EXCEPT !.ref = n, !.lock = l] /\ n \in Nat
      BY <2>6, <3>0, <3>1, <3>2 DEF Session
    <3>4. l \in Threads \cup {NoThread}
      BY <3>1, <3>2 DEF Session
    <3>5. /\ e \in Session /\ e.state = sess[s].state /\ e.id = sess[s].id /\ e.ctx = sess[s].ctx
          /\ e.ref = sess[s].ref + 1 /\ e.lock = l
      BY <3>0, <3>1, <3>3, <3>4 DEF Session
    <3> QED BY <3>2, <3>5
  <2>8. sess' = Upd(sess, s, e) /\ SetTop(t, g) /\ UNCHANGED waitq
    BY <1>5, <1>13, <2>1, <2>6 DEF Upd
  <2>9. /\ sess' \in [Sessions -> Session] /\ SessLike /\ sess'[s] = e
        /\ \A r \in Sessions : r # s => sess'[r] = sess[r]
    BY <1>6, <1>8, <2>7, <2>8, SessSet
  <2>10. \A r \in Sessions : sess'[r].ref + Has(f, r) >= sess[r].ref + Has(g, r)
    BY <1>7, <1>10, <2>3, <2>7, <2>9 DEF Has
  <2>11. fault = "none" /\ stack[t] # <<>> /\ UNCHANGED <<ctx, ctxes, lists, si>>
    BY <1>5
  <2>12. GripsTo(TopP(t), g)
    <3>1. CASE x
      BY <1>8, <1>13, <2>3, <2>4, <2>7, <2>9, <2>11, <3>1, TakesLock
    <3>2. CASE ~x
      BY <1>11, <2>4, <2>7, <2>9, <3>2 DEF GripsTo
    <3> QED BY <3>1, <3>2
  <2>13. waitq' \in Seq(Waiters)
    BY <1>9, <2>8
  <2> QED BY <1>1, <1>9, <2>3, <2>4, <2>5, <2>8, <2>9, <2>10, <2>11, <2>12, <2>13, SetRef
<1> QED BY <1>12, <1>13

\* A step that changes nothing but the wait queue.
LEMMA StillA ==
    ASSUME AInv, UNCHANGED <<sess, ctx, ctxes, lists, si, stack, usable, fault>>, waitq' \in Seq(Waiters)
    PROVE  AInv'
<1>1. UNCHANGED fr
  BY DEF fr
<1>2. TypeOK'
  BY TypeStep DEF AInv, TypeOK, Waiters
<1>3. HoldInv'
  BY <1>1 DEF AInv, HoldInv
<1>4. ASSUME Good PROVE Good'
  <2>1. ShapeInv' /\ StackInv' /\ HomeInv' /\ GripInv'
    BY <1>1, <1>4 DEF Good, ShapeInv, StackInv, HomeInv, GripInv
  <2>2. RefInv' /\ CountInv'
    BY <1>1, <1>4 DEF Good, RefInv, CountInv
  <2>3. LinkInv' /\ UsedInv' /\ LoadInv'
    BY <1>1, <1>4 DEF Good, LinkInv, UsedInv, LoadInv
  <2> QED BY <2>1, <2>2, <2>3 DEF Good
<1> QED BY <1>2, <1>3, <1>4 DEF AInv

\* A thread that wakes up in tee_ta_get_session keeps AInv.
LEMMA GetWokenA ==
    ASSUME AInv, NEW t \in Threads, GetWoken(t)
    PROVE  AInv'
<1>1. PICK f : f = Top(t)
  OBVIOUS
<1>2. PICK s : s = f.s
  OBVIOUS
<1>3. PICK a : a = AfterGet(f.op)
  OBVIOUS
<1>5. /\ fault = "none" /\ stack[t] # <<>> /\ f.pc = "wait_lock"
      /\ UNCHANGED <<ctx, ctxes, lists, si, usable, fault>>
      /\ \/ sess' = SessRef(s, -1) /\ waitq' = SignalRefc(waitq, s) /\ Return(t)
         \/ waitq' = Wait(waitq, t, LockCv(s)) /\ UNCHANGED <<sess, stack>>
         \/ /\ sess[s].lock = NoThread /\ sess' = [sess EXCEPT ![s].lock = t]
            /\ SetTop(t, [f EXCEPT !.pc = a]) /\ UNCHANGED waitq
  BY <1>1, <1>2, <1>3 DEF GetWoken, At, Goto
<1>6. f \in Frame /\ Shape(f) /\ TypeOK /\ Good /\ fr[TopP(t)] = f /\ TopP(t) \in Pl
  BY <1>1, <1>5, AtSays
<1>7. /\ f.op \in {"invoke", "close"} /\ f.via = "null" /\ Ref(f) /\ ~Grip(f) /\ ~Claims(f) /\ s \in Sessions
  BY <1>2, <1>5, <1>6 DEF Shape, OpenShape, InvokeShape, CloseShape, LivePcs, BusyPcs, EndPcs, Frame, Ref, Grip, Claims
<1>8. sess[s].state = "live" /\ sess[s] \in Session
  <2>1. sess[s].state = "live"
    BY <1>2, <1>6, <1>7, FrameSays DEF Good
  <2> QED BY <1>6, <1>7, <2>1 DEF TypeOK
<1>9. fault' \in Faults /\ usable' \subseteq Sessions /\ waitq \in Seq(Waiters)
  BY <1>5, <1>6 DEF TypeOK, Waiters
<1>10. \A r \in Sessions : sess[r].ref \in Nat
  BY <1>6 DEF TypeOK, Session
<1>11. \A y \in Pl : Ref(fr[y]) => fr[y].s \in Sessions
  BY <1>6, FrameSays DEF Good
<1>12. CASE sess' = SessRef(s, -1) /\ waitq' = SignalRefc(waitq, s) /\ Return(t)
  <2>1. sess[s].ref \in Nat /\ sess[s].ref >= 1
    <3>1. RefInv /\ Ref(fr[TopP(t)]) /\ fr[TopP(t)].s = s
      BY <1>2, <1>6, <1>7 DEF Good
    <3> QED BY <1>6, <1>7, <3>1, RefHeld
  <2>2. PICK n : n = sess[s].ref - 1
    OBVIOUS
  <2>3. PICK e : e = [sess[s] EXCEPT !.ref = n]
    OBVIOUS
  <2>4. /\ e \in Session /\ e.state = sess[s].state /\ e.id = sess[s].id /\ e.ctx = sess[s].ctx
        /\ e.ref = n /\ e.lock = sess[s].lock /\ n \in Nat
    BY <1>8, <2>1, <2>2, <2>3 DEF Session
  <2>5. sess' = Upd(sess, s, e)
    <3>1. n = sess[s].ref + (-1)
      BY <2>1, <2>2
    <3> QED BY <1>12, <2>3, <3>1 DEF Upd, SessRef
  <2>6. /\ sess' \in [Sessions -> Session] /\ SessLike /\ sess'[s] = e
        /\ \A r \in Sessions : r # s => sess'[r] = sess[r]
    BY <1>6, <1>7, <2>4, <2>5, SessSet
  <2>7. \A r \in Sessions : sess'[r].ref + Has(f, r) >= sess[r].ref
    BY <1>2, <1>7, <1>10, <2>1, <2>2, <2>4, <2>6 DEF Has
  <2>8. waitq' \in Seq(Waiters)
    BY <1>9, <1>12, RefcType
  <2>9. \A y \in Pl : y # TopP(t) /\ Grip(fr[y]) /\ Ref(fr[y]) => sess'[fr[y].s].lock = sess[fr[y].s].lock
    BY <1>11, <2>4, <2>6
  <2> QED BY <1>1, <1>5, <1>7, <1>9, <1>12, <2>6, <2>7, <2>8, <2>9, PopRef
<1>13. CASE waitq' = Wait(waitq, t, LockCv(s)) /\ UNCHANGED <<sess, stack>>
  <2>1. waitq' \in Seq(Waiters)
    BY <1>7, <1>9, <1>13, CvsAre, WaitType
  <2> QED BY <1>5, <1>13, <2>1, StillA
<1>14. CASE /\ sess[s].lock = NoThread /\ sess' = [sess EXCEPT ![s].lock = t]
            /\ SetTop(t, [f EXCEPT !.pc = a]) /\ UNCHANGED waitq
  <2>1. PICK g : g = [f EXCEPT !.pc = a]
    OBVIOUS
  <2>2. /\ a \in Pcs /\ (f.op = "invoke" => a = "inv_chk") /\ (f.op = "close" => a = "close_chk")
    BY <1>3, <1>6, <1>7, AfterGetIs
  <2>3. /\ g \in Frame /\ g.op = f.op /\ g.pc = a /\ g.own = f.own /\ g.s = s /\ g.via = "null"
    BY <1>2, <1>6, <1>7, <2>1, <2>2 DEF Frame
  <2>4. Ref(g) /\ Grip(g) /\ ~Gone(g) /\ ~HoldsBusy(g)
    BY <1>7, <2>2, <2>3 DEF Ref, Grip, Gone, HoldsBusy
  <2>5. StepOK(f, g)
    BY <1>2, <1>7, <2>2, <2>3, <2>4 DEF StepOK, LinkOK, Shape, CloseShape, InvokeShape, LivePcs, BusyPcs, EndPcs, Past,
          Claims, Ending, NullEnd
  <2>6. PICK e : e = [sess[s] EXCEPT !.lock = t]
    OBVIOUS
  <2>7. /\ e \in Session /\ e.state = sess[s].state /\ e.id = sess[s].id /\ e.ctx = sess[s].ctx
        /\ e.ref = sess[s].ref /\ e.lock = t
    BY <1>8, <2>6 DEF Session
  <2>8. sess' = Upd(sess, s, e) /\ SetTop(t, g) /\ UNCHANGED waitq
    BY <1>14, <2>1, <2>6 DEF Upd
  <2>9. /\ sess' \in [Sessions -> Session] /\ SessLike /\ sess'[s] = e
        /\ \A r \in Sessions : r # s => sess'[r] = sess[r]
    BY <1>6, <1>7, <2>7, <2>8, SessSet
  <2>10. \A r \in Sessions : sess'[r].ref + Has(f, r) >= sess[r].ref + Has(g, r)
    BY <1>2, <1>7, <1>10, <2>3, <2>4, <2>7, <2>9 DEF Has
  <2>11. fault = "none" /\ stack[t] # <<>> /\ UNCHANGED <<ctx, ctxes, lists, si>>
    BY <1>5
  <2>12. GripsTo(TopP(t), g)
    BY <1>7, <1>8, <1>14, <2>3, <2>4, <2>7, <2>9, <2>11, TakesLock
  <2>13. waitq' \in Seq(Waiters)
    BY <1>9, <2>8
  <2> QED BY <1>1, <1>9, <2>3, <2>4, <2>5, <2>8, <2>9, <2>10, <2>11, <2>12, <2>13, SetRef
<1> QED BY <1>5, <1>12, <1>13, <1>14

\* A cancel is the only call of its thread.
LEMMA CancelAlone ==
    ASSUME AInv, NEW t \in Threads, fault = "none", stack[t] # <<>>, Top(t).op = "cancel"
    PROVE  \A y \in Pl : y[1] = t /\ y # TopP(t) => fr[y] = Null
<1>1. TypeOK /\ Good /\ fr[TopP(t)] = Top(t) /\ Top(t) # Null /\ stack \in [Threads -> Seq(Frame)]
  BY AtSays
<1>2. TopP(t) \in Pl /\ TopP(t)[1] = t /\ TopP(t)[2] = Len(stack[t]) /\ Len(stack[t]) \in Nat \ {0}
  BY <1>1, TopIs
<1>3. Len(stack[t]) = 1
  BY <1>1, <1>2 DEF Good, StackInv
<1> SUFFICES ASSUME NEW y \in Pl, y[1] = t, y # TopP(t) PROVE fr[y] = Null
  OBVIOUS
<1>4. y = <<y[1], y[2]>> /\ y[2] \in Depth /\ y[2] \in Nat \ {0}
  BY DEF Pl, Depth
<1>5. TopP(t) = <<t, 1>>
  BY <1>3 DEF TopP
<1>6. y[2] > 1
  BY <1>4, <1>5
<1>7. fr[<<t, y[2]>>] = IF y[2] <= Len(stack[t]) THEN stack[t][y[2]] ELSE Null
  BY <1>1, <1>4, FrIs
<1> QED BY <1>3, <1>4, <1>6, <1>7

\* tee_ta_put_session keeps AInv.
LEMMA PutA ==
    ASSUME AInv, NEW t \in Threads, Put(t)
    PROVE  AInv'
<1>1. PICK f : f = Top(t)
  OBVIOUS
<1>2. PICK s : s = f.s
  OBVIOUS
<1>3. PICK l : l = IF sess[s].lock = t THEN NoThread ELSE sess[s].lock
  OBVIOUS
<1>5. /\ fault = "none" /\ stack[t] # <<>> /\ f.pc = "put" /\ Return(t)
      /\ UNCHANGED <<ctx, ctxes, lists, si, usable, fault>>
      /\ sess' = [sess EXCEPT ![s].ref = @ - 1, ![s].lock = l]
      /\ waitq' \in {SignalRefc(Signal(waitq, LockCv(s)), s), SignalRefc(waitq, s)}
  <2>1. sess' = [sess EXCEPT ![s].ref = @ - 1, ![s].lock = IF sess[s].lock = t THEN NoThread ELSE @]
    BY <1>1, <1>2 DEF Put
  <2>2. sess' = [sess EXCEPT ![s].ref = @ - 1, ![s].lock = l]
    BY <1>3, <2>1
  <2> QED BY <1>1, <1>2, <2>2 DEF Put, At
<1>6. f \in Frame /\ Shape(f) /\ TypeOK /\ Good /\ fr[TopP(t)] = f /\ TopP(t) \in Pl /\ TopP(t)[1] = t
  BY <1>1, <1>5, AtSays
<1>7. /\ f.op \in {"invoke", "cancel"} /\ Ref(f) /\ ~Claims(f) /\ s \in Sessions
      /\ (f.op = "invoke" => Grip(f))
  BY <1>2, <1>5, <1>6 DEF Shape, OpenShape, InvokeShape, CloseShape, LivePcs, BusyPcs, EndPcs, Frame, Ref, Grip, Claims
<1>8. sess[s] \in Session
  BY <1>6, <1>7 DEF TypeOK
<1>9. fault' \in Faults /\ usable' \subseteq Sessions /\ waitq' \in Seq(Waiters)
  <2>1. fault \in Faults /\ usable \subseteq Sessions /\ waitq \in Seq(Waiters)
    BY <1>6 DEF TypeOK, Waiters
  <2>2. Signal(waitq, LockCv(s)) \in Seq(Waiters)
    BY <2>1, SignalFacts
  <2>3. SignalRefc(Signal(waitq, LockCv(s)), s) \in Seq(Waiters) /\ SignalRefc(waitq, s) \in Seq(Waiters)
    BY <2>1, <2>2, RefcType
  <2> QED BY <1>5, <2>1, <2>3
<1>10. \A r \in Sessions : sess[r].ref \in Nat
  BY <1>6 DEF TypeOK, Session
<1>11. \A y \in Pl : Ref(fr[y]) => fr[y].s \in Sessions
  BY <1>6, FrameSays DEF Good
<1>12. sess[s].ref \in Nat /\ sess[s].ref >= 1
  <2>1. RefInv /\ Ref(fr[TopP(t)]) /\ fr[TopP(t)].s = s
    BY <1>2, <1>6, <1>7 DEF Good
  <2> QED BY <1>6, <1>7, <2>1, RefHeld
<1>13. PICK n : n = sess[s].ref - 1
  OBVIOUS
<1>14. PICK e : e = [sess[s] EXCEPT !.ref = n, !.lock = l]
  OBVIOUS
<1>15. /\ e \in Session /\ e.state = sess[s].state /\ e.id = sess[s].id /\ e.ctx = sess[s].ctx
       /\ e.ref = n /\ e.lock = l /\ n \in Nat
  <2>1. n \in Nat /\ l \in Threads \cup {NoThread}
    BY <1>3, <1>8, <1>12, <1>13 DEF Session
  <2> QED BY <1>8, <1>14, <2>1 DEF Session
<1>16. sess' = Upd(sess, s, e)
  BY <1>5, <1>13, <1>14 DEF Upd
<1>17. /\ sess' \in [Sessions -> Session] /\ SessLike /\ sess'[s] = e
       /\ \A r \in Sessions : r # s => sess'[r] = sess[r]
  BY <1>6, <1>7, <1>15, <1>16, SessSet
<1>18. \A r \in Sessions : sess'[r].ref + Has(f, r) >= sess[r].ref
  BY <1>2, <1>7, <1>10, <1>12, <1>13, <1>15, <1>17 DEF Has
<1>19. ASSUME NEW y \in Pl, y # TopP(t), Grip(fr[y]), Ref(fr[y]) PROVE sess'[fr[y].s].lock = sess[fr[y].s].lock
  <2>1. CASE fr[y].s # s
    BY <1>11, <1>17, <1>19, <2>1
  <2>2. CASE fr[y].s = s /\ f.op = "invoke"
    BY <1>2, <1>6, <1>7, <1>19, <2>2 DEF Good, GripInv
  <2>3. CASE fr[y].s = s /\ f.op = "cancel"
    <3>1. sess[s].lock = y[1]
      BY <1>6, <1>19, <2>3 DEF Good, GripInv
    <3>2. ASSUME sess[s].lock = t PROVE FALSE
      <4>1. fr[y] = Null
        BY <1>1, <1>5, <1>19, <2>3, <3>1, <3>2, CancelAlone
      <4> QED BY <1>19, <4>1 DEF Null, Ref
    <3> QED BY <1>3, <1>15, <1>17, <2>3, <3>2
  <2> QED BY <1>7, <2>1, <2>2, <2>3
<1> QED BY <1>1, <1>5, <1>7, <1>9, <1>17, <1>18, <1>19, PopRef

\* A list with one element more.
LEMMA AppendIs ==
    ASSUME NEW P, NEW l \in Seq(P), NEW e \in P, NEW m, m = Append(l, e)
    PROVE  /\ m \in Seq(P) /\ Len(l) \in Nat /\ Len(m) = Len(l) + 1
           /\ m[Len(l) + 1] = e /\ \A i \in 1..Len(l) : m[i] = l[i]
OBVIOUS

\* What is on a list that has grown.
LEMMA OnAppend ==
    ASSUME NEW P, NEW l \in Seq(P), NEW e \in P, NEW d \in P
    PROVE  On(d, Append(l, e)) <=> (On(d, l) \/ d = e)
<1>1. PICK m : m = Append(l, e)
  OBVIOUS
<1>2. /\ Len(l) \in Nat /\ Len(m) = Len(l) + 1
      /\ m[Len(l) + 1] = e /\ \A i \in 1..Len(l) : m[i] = l[i]
  BY <1>1
<1>3. \A i : i \in 1..Len(m) <=> i \in 1..Len(l) \/ i = Len(l) + 1
  BY <1>2
<1>4. On(d, m) <=> (On(d, l) \/ d = e)
  BY <1>2, <1>3 DEF On
<1> QED BY <1>1, <1>4

\* new_session_id returns 0 or an id that no session of the list has.
LEMMA NewIdIs ==
    ASSUME TypeOK, NEW o \in Owners, NEW n, n = NewId(lists[o]), n # 0
    PROVE  n \in 1..MaxId /\ \A r \in Sessions : On(r, lists[o]) => sess[r].id # n
<1> DEFINE list == lists[o]
           last == IF list = <<>> THEN 0 ELSE sess[Last(list)].id
           start == IF last = MaxId THEN 0 ELSE last
           id(k) == IF start + k < MaxId THEN start + k + 1 ELSE start + k + 1 - MaxId
           free == {k \in 0..(MaxId - 1) : FindIn(list, id(k)) = NoSess}
<1>1. n = IF free = {} THEN 0 ELSE id(Min(free))
  BY DEF NewId
<1>2. MaxId \in Nat /\ MaxId > 0
  BY TaManagerAssumption
<1>3. last \in 0..MaxId
  <2>1. CASE list = <<>>
    BY <1>2, <2>1
  <2>2. CASE list # <<>>
    <3>1. list \in Seq(Sessions)
      BY DEF TypeOK
    <3>2. Len(list) \in Nat \ {0}
      BY <2>2, <3>1, EmptySeq
    <3>3. Last(list) \in Sessions
      BY <3>1, <3>2 DEF Last
    <3>4. sess[Last(list)].id \in 0..MaxId
      BY <3>3 DEF TypeOK, Session
    <3> QED BY <2>2, <3>4
  <2> QED BY <2>1, <2>2
<1>4. start \in 0..(MaxId - 1)
  BY <1>2, <1>3
<1> HIDE DEF start
<1>5. \A k \in 0..(MaxId - 1) : id(k) \in 1..MaxId
  BY <1>2, <1>4
<1>6. free # {} /\ free \in SUBSET Nat
  BY <1>1
<1>7. Min(free) \in free
  BY <1>6, MinIs
<1>8. PICK k : k = Min(free)
  OBVIOUS
<1>9. k \in 0..(MaxId - 1) /\ FindIn(list, id(k)) = NoSess /\ n = id(k)
  BY <1>1, <1>6, <1>7, <1>8
<1>10. n \in 1..MaxId /\ FindIn(lists[o], n) = NoSess
  BY <1>5, <1>9
<1> HIDE DEF list, id, free
<1> QED BY <1>10, FindIs

\* tee_ta_context_find returns a loaded context of that TA.
LEMMA CtxFindIs ==
    ASSUME TypeOK, NEW u, NEW c, c = CtxFind(u), c # NoCtx
    PROVE  c \in Ctxs /\ On(c, ctxes) /\ ctx[c].u = u
<1>1. PICK T : T = {i \in 1..Len(ctxes) : ctx[ctxes[i]].u = u}
  OBVIOUS
<1>2. ctxes \in Seq(Ctxs) /\ Len(ctxes) \in Nat
  BY DEF TypeOK
<1>3. T # {} /\ c = ctxes[Min(T)] /\ T \in SUBSET Nat
  BY <1>1, <1>2 DEF CtxFind
<1>4. Min(T) \in T
  BY <1>3, MinIs
<1>5. PICK k : k = Min(T)
  OBVIOUS
<1>6. k \in 1..Len(ctxes) /\ ctx[ctxes[k]].u = u /\ c = ctxes[k]
  BY <1>1, <1>3, <1>4, <1>5
<1> QED BY <1>2, <1>6 DEF On

\* What NewSession does.
LEMMA NewSessionIs ==
    ASSUME AInv, fault = "none", NEW t \in Threads, stack[t] # <<>>, Top(t).pc = "open_init", NEW c \in Ctxs, NewSession(t, c)
    PROVE  \E s \in Sessions, g \in Frame :
              /\ sess[s].state = "unused" /\ SetTop(t, g)
              /\ sess' \in [Sessions -> Session] /\ \A r \in Sessions : r # s => sess'[r] = sess[r]
              /\ sess'[s].state = "live" /\ sess'[s].ctx = c /\ sess'[s].ref = 1 /\ sess'[s].lock = NoThread
              /\ ~sess'[s].unlink /\ sess'[s].id # 0
              /\ lists' \in [Owners -> Seq(Sessions)] /\ lists'[g.own] = Append(lists[g.own], s)
              /\ \A o \in Owners : o # g.own => lists'[o] = lists[o]
              /\ \A r \in Sessions : On(r, lists[g.own]) => sess[r].id # sess'[s].id
              /\ g.op = "open" /\ g.pc = "open_chk" /\ g.own = Top(t).own /\ g.own \in Owners /\ g.s = s
              /\ g.via = "null" /\ Top(t).op = "open"
<1>1. PICK f : f = Top(t)
  OBVIOUS
<1>2. PICK s : s = Min(UnusedSess)
  OBVIOUS
<1>3. PICK n : n = NewId(lists[f.own])
  OBVIOUS
<1>4. /\ UnusedSess # {} /\ n # 0
      /\ sess' = [sess EXCEPT ![s] = [NullSession EXCEPT !.state = "live", !.id = n, !.ctx = c, !.ref = 1]]
      /\ lists' = [lists EXCEPT ![f.own] = Append(@, s)]
      /\ SetTop(t, [f EXCEPT !.s = s, !.pc = "open_chk"])
  BY <1>1, <1>2, <1>3 DEF NewSession
<1>5. f \in Frame /\ Shape(f) /\ TypeOK /\ f.own \in Owners
  BY <1>1, AtSays, ShapeSays
<1>6. f.op = "open" /\ f.via = "null"
  BY <1>1, <1>5 DEF Shape, OpenShape, InvokeShape, CloseShape, LivePcs, BusyPcs, EndPcs, Frame
<1>7. s \in Sessions /\ sess[s].state = "unused"
  <2>1. UnusedSess \in SUBSET Nat
    BY DEF UnusedSess, Sessions
  <2>2. s \in UnusedSess
    BY <1>2, <1>4, <2>1, MinIs
  <2> QED BY <2>2 DEF UnusedSess
<1>8. n \in 1..MaxId /\ \A r \in Sessions : On(r, lists[f.own]) => sess[r].id # n
  BY <1>3, <1>4, <1>5, NewIdIs
<1>9. PICK e : e = [NullSession EXCEPT !.state = "live", !.id = n, !.ctx = c, !.ref = 1]
  OBVIOUS
<1>10. e = [state |-> "live", id |-> n, ctx |-> c, ref |-> 1, lock |-> NoThread, unlink |-> FALSE]
  BY <1>9 DEF NullSession
<1>11. /\ e \in Session /\ e.state = "live" /\ e.id = n /\ e.ctx = c /\ e.ref = 1 /\ e.lock = NoThread /\ ~e.unlink
  BY <1>8, <1>10 DEF Session
<1>12. sess' \in [Sessions -> Session] /\ sess'[s] = e /\ \A r \in Sessions : r # s => sess'[r] = sess[r]
  <2>1. sess \in [Sessions -> Session] /\ sess' = [sess EXCEPT ![s] = e]
    BY <1>4, <1>5, <1>9 DEF TypeOK
  <2> QED BY <1>7, <1>11, <2>1
<1>13. PICK m : m = Append(lists[f.own], s)
  OBVIOUS
<1>14. lists \in [Owners -> Seq(Sessions)] /\ m \in Seq(Sessions)
  BY <1>5, <1>7, <1>13 DEF TypeOK
<1>15. lists' \in [Owners -> Seq(Sessions)] /\ lists'[f.own] = m /\ \A o \in Owners : o # f.own => lists'[o] = lists[o]
  BY <1>4, <1>5, <1>13, <1>14
<1>16. PICK g : g = [f EXCEPT !.s = s, !.pc = "open_chk"]
  OBVIOUS
<1>17. g \in Frame /\ g.op = f.op /\ g.pc = "open_chk" /\ g.own = f.own /\ g.s = s /\ g.via = f.via
  BY <1>5, <1>7, <1>16 DEF Frame, Pcs
<1>18. SetTop(t, g)
  BY <1>4, <1>16
<1>19. n # 0
  BY <1>4
<1>20. /\ sess[s].state = "unused" /\ SetTop(t, g)
       /\ sess' \in [Sessions -> Session] /\ \A r \in Sessions : r # s => sess'[r] = sess[r]
       /\ sess'[s].state = "live" /\ sess'[s].ctx = c /\ sess'[s].ref = 1 /\ sess'[s].lock = NoThread
       /\ ~sess'[s].unlink /\ sess'[s].id # 0
  BY <1>7, <1>11, <1>12, <1>18, <1>19
<1>21. /\ lists' \in [Owners -> Seq(Sessions)] /\ lists'[g.own] = Append(lists[g.own], s)
       /\ \A o \in Owners : o # g.own => lists'[o] = lists[o]
       /\ \A r \in Sessions : On(r, lists[g.own]) => sess[r].id # sess'[s].id
  BY <1>8, <1>11, <1>12, <1>13, <1>15, <1>17
<1>22. /\ g.op = "open" /\ g.pc = "open_chk" /\ g.own = Top(t).own /\ g.own \in Owners /\ g.s = s
       /\ g.via = "null" /\ Top(t).op = "open"
  BY <1>1, <1>5, <1>6, <1>17
<1> QED BY <1>7, <1>17, <1>20, <1>21, <1>22

\* Types and ids with the new session.
LEMMA NewIds ==
    ASSUME TypeOK, HomeInv, NEW s \in Sessions, NEW w \in Owners, sess[s].state = "unused",
           sess' \in [Sessions -> Session], \A r \in Sessions : r # s => sess'[r] = sess[r],
           sess'[s].id # 0, lists' \in [Owners -> Seq(Sessions)], lists'[w] = Append(lists[w], s),
           \A o \in Owners : o # w => lists'[o] = lists[o],
           \A r \in Sessions : On(r, lists[w]) => sess[r].id # sess'[s].id
    PROVE  \A o \in Owners : \A i, j \in 1..Len(lists'[o]) :
             /\ sess'[lists'[o][i]].id # 0
             /\ sess'[lists'[o][i]].id = sess'[lists'[o][j]].id => i = j
<1> SUFFICES ASSUME NEW o \in Owners, NEW i \in 1..Len(lists'[o]), NEW j \in 1..Len(lists'[o])
             PROVE  /\ sess'[lists'[o][i]].id # 0
                    /\ sess'[lists'[o][i]].id = sess'[lists'[o][j]].id => i = j
  OBVIOUS
<1>1. PICK l : l = lists[o]
  OBVIOUS
<1>2. PICK m : m = lists'[o]
  OBVIOUS
<1>3. l \in Seq(Sessions) /\ \A k \in 1..Len(l) : l[k] \in Sessions /\ On(l[k], l) /\ l[k] # s
  <2>1. l \in Seq(Sessions)
    BY <1>1 DEF TypeOK
  <2>2. \A k \in 1..Len(l) : l[k] \in Sessions /\ On(l[k], l)
    BY <2>1 DEF On
  <2>3. \A k \in 1..Len(l) : sess[l[k]].state = "live"
    BY <1>1, <2>2 DEF HomeInv
  <2> QED BY <2>1, <2>2, <2>3
<1>4. \A k, h \in 1..Len(l) : /\ sess[l[k]].id # 0 /\ (sess[l[k]].id = sess[l[h]].id => k = h)
                              /\ sess'[l[k]] = sess[l[k]]
  BY <1>1, <1>3 DEF TypeOK
<1>5. CASE o # w
  <2>1. m = l
    BY <1>1, <1>2, <1>5
  <2> QED BY <1>2, <1>4, <2>1
<1>6. CASE o = w
  <2>1. m = Append(l, s)
    BY <1>1, <1>2, <1>6
  <2>2. Len(l) \in Nat /\ Len(m) = Len(l) + 1 /\ m[Len(l) + 1] = s /\ \A k \in 1..Len(l) : m[k] = l[k]
    BY <1>3, <2>1
  <2>3. \A k \in 1..Len(l) : sess[l[k]].id # sess'[s].id
    BY <1>1, <1>3, <1>6
  <2>4. i \in 1..Len(l) \/ i = Len(l) + 1
    BY <1>2, <2>2
  <2>5. j \in 1..Len(l) \/ j = Len(l) + 1
    BY <1>2, <2>2
  <2> QED BY <1>2, <1>4, <2>2, <2>3, <2>4, <2>5
<1> QED BY <1>5, <1>6

\* The step of OpenReuse and OpenLoad.
NewCtx(c) ==
    /\ c \in Ctxs /\ ctx' \in [Ctxs -> Context] /\ \A d \in Ctxs : d # c => ctx'[d] = ctx[d]
    /\ ctx'[c].state = "live" /\ ctxes' \in Seq(Ctxs)
    /\ \A d \in Ctxs : On(d, ctxes') <=> On(d, ctxes) \/ d = c
    /\ \/ /\ On(c, ctxes) /\ ctx'[c].u = ctx[c].u /\ ctx'[c].loaded = ctx[c].loaded
          /\ ctx'[c].busy = ctx[c].busy /\ ctx'[c].ref = ctx[c].ref + 1
       \/ /\ ctx[c].state = "unused" /\ ctx'[c].ref = 1
          /\ ("concurrent" \in Flags[ctx'[c].u] => ctx'[c].loaded)

\* A new session on context c, in the list of its owner, keeps AInv.
LEMMA NewA ==
    ASSUME AInv, fault = "none", NEW t \in Threads, stack[t] # <<>>, Top(t).pc = "open_init", NEW c \in Ctxs, NewSession(t, c),
           NewCtx(c), UNCHANGED <<si, waitq, usable, fault>>
    PROVE  AInv'
<1>1. PICK s \in Sessions, g \in Frame :
              /\ sess[s].state = "unused" /\ SetTop(t, g)
              /\ sess' \in [Sessions -> Session] /\ \A r \in Sessions : r # s => sess'[r] = sess[r]
              /\ sess'[s].state = "live" /\ sess'[s].ctx = c /\ sess'[s].ref = 1 /\ sess'[s].lock = NoThread
              /\ ~sess'[s].unlink /\ sess'[s].id # 0
              /\ lists' \in [Owners -> Seq(Sessions)] /\ lists'[g.own] = Append(lists[g.own], s)
              /\ \A o \in Owners : o # g.own => lists'[o] = lists[o]
              /\ \A r \in Sessions : On(r, lists[g.own]) => sess[r].id # sess'[s].id
              /\ g.op = "open" /\ g.pc = "open_chk" /\ g.own = Top(t).own /\ g.own \in Owners /\ g.s = s
              /\ g.via = "null" /\ Top(t).op = "open"
  BY NewSessionIs
<1>2. PICK p : p = TopP(t)
  OBVIOUS
<1>3. /\ TypeOK /\ HoldInv /\ Good /\ p \in Pl /\ p[1] = t /\ fr[p] = Top(t) /\ Top(t) \in Frame /\ Top(t) # Null
      /\ fr[<<p[1], p[2] + 1>>] = Null /\ stack \in [Threads -> Seq(Frame)]
  BY <1>2, AtSays
<1>4. Moved(p, g) /\ stack' \in [Threads -> Seq(Frame)]
  BY <1>1, <1>2, <1>3, MoveSet
<1>5. fr'[p] = g /\ \A x \in Pl : x # p => fr'[x] = fr[x]
  BY <1>4 DEF Moved
<1>6. /\ Ref(g) /\ ~Grip(g) /\ ~Gone(g) /\ ~Past(g) /\ ~Claims(g) /\ ~Ending(g) /\ ~NullEnd(g) /\ ~HoldsBusy(g) /\ ~Uses(g)
      /\ ~Ref(fr[p]) /\ ~Grip(fr[p]) /\ ~Claims(fr[p])
  BY <1>1, <1>3 DEF Ref, Grip, Gone, Past, Claims, Ending, EndPcs, NullEnd, HoldsBusy, Uses
<1>7. Shape(g)
  BY <1>1 DEF Shape, OpenShape, LivePcs
<1>8. \A x \in Pl : /\ Shape(fr[x]) /\ fr[x].own \in Owners
                    /\ Ref(fr[x]) => fr[x].s \in Sessions /\ fr[x].s # s
                    /\ Grip(fr[x]) => fr[x].s \in Sessions /\ fr[x].s # s
                    /\ Past(fr[x]) \/ NullEnd(fr[x]) => fr[x].s \in Sessions /\ fr[x].s # s
                    /\ Claims(fr[x]) => fr[x].s \in Sessions /\ fr[x].s # s
                    /\ Uses(fr[x]) => fr[x].c \in Ctxs /\ ctx[fr[x].c].state # "unused"
                    /\ HoldsBusy(fr[x]) => Uses(fr[x])
  <2> TAKE x \in Pl
  <2>1.    /\ Shape(fr[x])
           /\ Ref(fr[x]) => fr[x].s \in Sessions /\ sess[fr[x].s].state = "live"
           /\ fr[x].own \in Owners
           /\ Grip(fr[x]) => fr[x].s \in Sessions
           /\ Claims(fr[x]) => Grip(fr[x]) /\ fr[x].s \in Sessions /\ (Past(fr[x]) \/ Gone(fr[x]))
           /\ Past(fr[x]) => Ref(fr[x])
           /\ NullEnd(fr[x]) => Ref(fr[x])
           /\ Uses(fr[x]) => fr[x].c \in Ctxs
           /\ HoldsBusy(fr[x]) => Past(fr[x]) \/ Claims(fr[x])
    BY <1>3, FrameSays DEF Good
  <2>2. Grip(fr[x]) => Ref(fr[x]) \/ Gone(fr[x])
    BY DEF Grip, Ref, Gone
  <2>3. Gone(fr[x]) => sess[fr[x].s].state = "freed"
    BY <1>3 DEF Good, GripInv
  <2>4. Uses(fr[x]) => ctx[fr[x].c].state # "unused"
    BY <1>3 DEF Good, UsedInv
  <2>5. HoldsBusy(fr[x]) => Uses(fr[x])
    BY <2>1 DEF Uses
  <2> QED BY <1>1, <2>1, <2>2, <2>3, <2>4, <2>5
<1>9. \A o \in Owners, r \in Sessions : On(r, lists'[o]) <=> On(r, lists[o]) \/ (o = g.own /\ r = s)
  <2>1. lists[g.own] \in Seq(Sessions)
    BY <1>1, <1>3 DEF TypeOK
  <2>2. \A r \in Sessions : On(r, lists'[g.own]) <=> On(r, lists[g.own]) \/ r = s
    <3>1. lists'[g.own] = Append(lists[g.own], s)
      BY <1>1
    <3> QED BY <2>1, <3>1, OnAppend
  <2> QED BY <1>1, <2>2
<1>10. \A o \in Owners : \A r \in Sessions : On(r, lists[o]) => sess[r].state = "live" /\ r # s
  BY <1>1, <1>3 DEF Good, HomeInv
<1>11. TypeOK'
  <2>1. HomeInv
    BY <1>3 DEF Good
  <2>2. \A o \in Owners : \A i, j \in 1..Len(lists'[o]) :
             /\ sess'[lists'[o][i]].id # 0
             /\ sess'[lists'[o][i]].id = sess'[lists'[o][j]].id => i = j
    BY <1>1, <1>3, <2>1, NewIds
  <2>3. si' \in [thread : Threads \cup {NoThread}, count : Nat] /\ waitq' \in Seq([t : Threads, cv : Cvs])
        /\ usable' \subseteq Sessions /\ fault' \in Faults
    BY <1>3 DEF TypeOK
  <2>4. sess' \in [Sessions -> Session] /\ ctx' \in [Ctxs -> Context] /\ ctxes' \in Seq(Ctxs)
        /\ lists' \in [Owners -> Seq(Sessions)]
    BY <1>1 DEF NewCtx
  <2> QED BY <1>4, <2>2, <2>3, <2>4 DEF TypeOK
<1>12. \A d \in Ctxs : ctx[d].state # "unused" =>
          /\ ctx'[d].state # "unused" /\ ctx'[d].busy = ctx[d].busy /\ ctx'[d].u = ctx[d].u
          /\ ctx'[d].loaded = ctx[d].loaded
          /\ (On(d, ctxes') <=> On(d, ctxes))
  BY DEF NewCtx
<1>13. HoldInv'
  <2>1. \A x \in Pl : HoldsBusy(fr[x]) /\ NonConc(ctx'[fr[x].c]) => NonConc(ctx[fr[x].c]) /\ ctx'[fr[x].c].busy
    BY <1>3, <1>8, <1>12 DEF HoldInv, NonConc, FlagsIn
  <2> QED BY <1>3, <1>4, <1>6, <2>1, HoldSame DEF Good
<1>14. ShapeInv'
  BY <1>5, <1>7, <1>8 DEF ShapeInv
<1>15. StackInv'
  BY <1>1, <1>3, <1>4, StackSet DEF Good
<1>16. HomeInv'
  <2>1. \A x \in Pl : Ref(fr'[x]) => On(fr'[x].s, lists'[fr'[x].own])
    BY <1>1, <1>3, <1>5, <1>8, <1>9 DEF Good, HomeInv
  <2>2. \A o \in Owners : \A r \in Sessions : On(r, lists'[o]) => sess'[r].state = "live"
    BY <1>1, <1>9, <1>10
  <2>3. \A o, q \in Owners : \A r \in Sessions : On(r, lists'[o]) /\ On(r, lists'[q]) => o = q
    BY <1>3, <1>9, <1>10 DEF Good, HomeInv
  <2> QED BY <2>1, <2>2, <2>3 DEF HomeInv
<1>17. RefInv'
  <2> SUFFICES ASSUME NEW r \in Sessions
               PROVE  IsFiniteSet(Refs(fr', r)) /\ Cardinality(Refs(fr', r)) <= sess'[r].ref
    BY DEF RefInv
  <2>1. CASE r # s
    <3>1. Refs(fr', r) = Refs(fr, r)
      BY <1>1, <1>5, <1>6, <2>1 DEF Refs
    <3> QED BY <1>1, <1>3, <2>1, <3>1 DEF Good, RefInv
  <2>2. CASE r = s
    <3>1. Refs(fr', r) = {p}
      BY <1>1, <1>3, <1>5, <1>6, <1>8, <2>2 DEF Refs
    <3>2. IsFiniteSet({p}) /\ Cardinality({p}) = 1
      BY FS_Singleton
    <3>3. sess'[r].ref = 1
      BY <1>1, <2>2
    <3> QED BY <3>1, <3>2, <3>3
  <2> QED BY <2>1, <2>2
<1>18. GripInv'
  <2>1. \A y \in Pl : y # p /\ Grip(fr[y]) /\ Ref(fr[y]) => sess'[fr[y].s].lock = sess[fr[y].s].lock
    BY <1>1, <1>8
  <2>2. \A y \in Pl : y # p /\ Gone(fr[y]) => sess'[fr[y].s].state = "freed"
    <3>1. \A y \in Pl : Gone(fr[y]) => Grip(fr[y])
      BY DEF Gone, Grip
    <3> QED BY <1>1, <1>3, <1>8, <3>1 DEF Good, GripInv
  <2> QED BY <1>3, <1>4, <1>6, <2>1, <2>2, GripKeep DEF Good
<1>19. LinkInv'
  <2>1. ASSUME NEW x \in Pl, Past(fr'[x])
        PROVE  \/ sess'[fr'[x].s].ctx = fr'[x].c
               \/ sess'[fr'[x].s].ctx = NoCtx /\ ~On(fr'[x].c, ctxes')
    <3>1. fr'[x] = fr[x] /\ Past(fr[x]) /\ sess'[fr[x].s] = sess[fr[x].s]
      BY <1>1, <1>5, <1>6, <1>8, <2>1
    <3>2. fr[x].c \in Ctxs /\ ctx[fr[x].c].state # "unused"
      BY <1>8, <3>1 DEF Uses
    <3> QED BY <1>3, <1>12, <3>1, <3>2 DEF Good, LinkInv
  <2>2. ASSUME NEW x \in Pl, NullEnd(fr'[x]) PROVE sess'[fr'[x].s].ctx = NoCtx
    <3>1. fr'[x] = fr[x] /\ NullEnd(fr[x]) /\ sess'[fr[x].s] = sess[fr[x].s]
      BY <1>1, <1>5, <1>6, <1>8, <2>2
    <3> QED BY <1>3, <3>1 DEF Good, LinkInv
  <2> QED BY <2>1, <2>2 DEF LinkInv
<1>20. UsedInv'
  <2>1. \A x \in Pl : Uses(fr'[x]) => ctx'[fr'[x].c].state # "unused"
    BY <1>5, <1>6, <1>8, <1>12
  <2>2. ASSUME NEW r \in Sessions, sess'[r].state = "live", sess'[r].ctx # NoCtx PROVE ctx'[sess'[r].ctx].state # "unused"
    <3>1. CASE r = s
      BY <1>1, <3>1 DEF NewCtx
    <3>2. CASE r # s
      <4>1. sess'[r] = sess[r] /\ sess[r].ctx \in Ctxs
        BY <1>1, <1>3, <2>2, <3>2 DEF TypeOK, Session
      <4>2. ctx[sess[r].ctx].state # "unused"
        BY <1>3, <2>2, <4>1 DEF Good, UsedInv
      <4> QED BY <1>12, <4>1, <4>2
    <3> QED BY <3>1, <3>2
  <2>3. ASSUME NEW d \in Ctxs, On(d, ctxes') PROVE ctx'[d].state = "live"
    BY <1>3, <2>3 DEF Good, UsedInv, NewCtx
  <2>4. ASSUME NEW x \in Pl, Ending(fr'[x]) PROVE ~On(fr'[x].c, ctxes')
    <3>1. fr'[x] = fr[x] /\ Ending(fr[x]) /\ Uses(fr[x])
      BY <1>5, <1>6, <2>4 DEF Uses
    <3> QED BY <1>3, <1>8, <1>12, <3>1 DEF Good, UsedInv
  <2> QED BY <2>1, <2>2, <2>3, <2>4 DEF UsedInv
<1>21. CountInv'
  <2> SUFFICES ASSUME NEW d \in Ctxs
               PROVE  /\ Cardinality(ClaimsOn(sess', fr', d)) <= ctx'[d].ref
                      /\ On(d, ctxes') => Cardinality(ClaimsOn(sess', fr', d)) = ctx'[d].ref
    BY DEF CountInv
  <2>1. ASSUME NEW r \in Sessions
        PROVE  r \in ClaimsOn(sess', fr', d) <=> r \in ClaimsOn(sess, fr, d) \/ (r = s /\ d = c)
    <3>1. (\E x \in Pl : Claims(fr'[x]) /\ fr'[x].s = r /\ fr'[x].c = d) <=> (\E x \in Pl : Claims(fr[x]) /\ fr[x].s = r /\ fr[x].c = d)
      BY <1>5, <1>6
    <3>2. (sess'[r].state = "live" /\ sess'[r].ctx = d) <=> ((sess[r].state = "live" /\ sess[r].ctx = d) \/ (r = s /\ d = c))
      BY <1>1
    <3> QED BY <3>1, <3>2 DEF ClaimsOn
  <2>2. PICK A : A = ClaimsOn(sess, fr, d)
    OBVIOUS
  <2>3. PICK B : B = ClaimsOn(sess', fr', d)
    OBVIOUS
  <2>4. A \subseteq Sessions /\ B \subseteq Sessions /\ s \notin A
    <3>1. s \notin A
      BY <1>1, <1>8, <2>2 DEF ClaimsOn
    <3> QED BY <2>2, <2>3, <3>1 DEF ClaimsOn
  <2>5. IsFiniteSet(A) /\ Cardinality(A) \in Nat
    <3>1. IsFiniteSet(Sessions)
      <4>1. NumSessions \in Nat /\ 1 \in Int
        BY TaManagerAssumption
      <4> QED BY <4>1, FS_Interval DEF Sessions
    <3> QED BY <2>4, <3>1, FS_Subset, FS_CardinalityType
  <2>6. Cardinality(A) <= ctx[d].ref /\ (On(d, ctxes) => Cardinality(A) = ctx[d].ref)
    BY <1>3, <2>2 DEF Good, CountInv
  <2>7. CASE d # c
    <3>1. B = A
      BY <2>1, <2>2, <2>3, <2>4, <2>7
    <3> QED BY <2>2, <2>3, <2>6, <2>7, <3>1 DEF NewCtx
  <2>8. CASE d = c
    <3>1. B = A \cup {s}
      BY <2>1, <2>2, <2>3, <2>4, <2>8
    <3>2. Cardinality(B) = Cardinality(A) + 1
      BY <2>4, <2>5, <3>1, FS_AddElement
    <3>3. CASE On(c, ctxes) /\ ctx'[c].ref = ctx[c].ref + 1
      BY <2>3, <2>5, <2>6, <2>8, <3>2, <3>3
    <3>4. CASE ctx[c].state = "unused" /\ ctx'[c].ref = 1
      <4>1. A = {}
        <5>1. \A r \in Sessions : ~(sess[r].state = "live" /\ sess[r].ctx = c)
          <6>1. NoCtx # c
            BY TaManagerAssumption DEF Ctxs
          <6> QED BY <1>3, <3>4, <6>1 DEF Good, UsedInv
        <5>2. \A x \in Pl : Claims(fr[x]) => fr[x].c # c
          BY <1>8, <3>4 DEF Uses
        <5> QED BY <2>2, <2>8, <5>1, <5>2 DEF ClaimsOn
      <4>2. Cardinality(A) = 0
        BY <4>1, FS_EmptySet
      <4> QED BY <2>3, <2>8, <3>2, <3>4, <4>2
    <3> QED BY <3>3, <3>4 DEF NewCtx
  <2> QED BY <2>7, <2>8
<1>22. LoadInv'
  <2> SUFFICES ASSUME NEW d \in Ctxs, ctx'[d].state # "unused", "concurrent" \in Flags[ctx'[d].u] PROVE ctx'[d].loaded
    BY DEF LoadInv
  <2>1. CASE ctx[d].state # "unused"
    BY <1>3, <1>12, <2>1 DEF Good, LoadInv
  <2>2. CASE ctx[d].state = "unused"
    <3>1. d = c
      BY <2>2 DEF NewCtx
    <3>2. ~On(c, ctxes)
      BY <1>3, <2>2, <3>1 DEF Good, UsedInv
    <3> QED BY <3>1, <3>2 DEF NewCtx
  <2> QED BY <2>1, <2>2
<1> QED BY <1>11, <1>13, <1>14, <1>15, <1>16, <1>17, <1>18, <1>19, <1>20, <1>21, <1>22 DEF AInv, Good

\* tee_ta_init_session_with_context keeps AInv.
LEMMA OpenReuseA ==
    ASSUME AInv, NEW t \in Threads, OpenReuse(t)
    PROVE  AInv'
<1>1. PICK c : c = CtxFind(Top(t).u)
  OBVIOUS
<1>2. /\ fault = "none" /\ stack[t] # <<>> /\ Top(t).pc = "open_init" /\ Shareable(c)
      /\ ctx' = [ctx EXCEPT ![c].ref = @ + 1] /\ NewSession(t, c)
      /\ UNCHANGED <<ctxes, si, waitq, usable, fault>>
  BY <1>1 DEF OpenReuse, At
<1>3. TypeOK /\ Good
  BY <1>2, AtSays
<1>4. c \in Ctxs /\ On(c, ctxes)
  BY <1>1, <1>2, <1>3, CtxFindIs DEF Shareable
<1>5. PICK e : e = [ctx[c] EXCEPT !.ref = @ + 1]
  OBVIOUS
<1>6. ctx \in [Ctxs -> Context] /\ ctx[c] \in Context /\ ctxes \in Seq(Ctxs)
  BY <1>3, <1>4 DEF TypeOK
<1>7. /\ e \in Context /\ e.state = ctx[c].state /\ e.u = ctx[c].u /\ e.ref = ctx[c].ref + 1 /\ e.loaded = ctx[c].loaded
      /\ e.busy = ctx[c].busy
  BY <1>5, <1>6 DEF Context
<1>8. ctx' \in [Ctxs -> Context] /\ ctx'[c] = e /\ \A d \in Ctxs : d # c => ctx'[d] = ctx[d]
  BY <1>2, <1>4, <1>5, <1>6, <1>7
<1>9. ctx[c].state = "live"
  BY <1>3, <1>4 DEF Good, UsedInv
<1>10. NewCtx(c)
  BY <1>2, <1>4, <1>6, <1>7, <1>8, <1>9 DEF NewCtx
<1> QED BY <1>2, <1>4, <1>10, NewA

\* t opens a session on the unused context c.
Loads(t, c) ==
    /\ fault = "none" /\ stack[t] # <<>> /\ Top(t).pc = "open_init" /\ NewSession(t, c)
    /\ UNCHANGED <<si, waitq, usable, fault>>
    /\ ~Shareable(CtxFind(Top(t).u)) /\ ctx[c].state = "unused" /\ ctxes' = Append(ctxes, c)
    /\ ctx' \in [Ctxs -> Context] /\ \A d \in Ctxs : d # c => ctx'[d] = ctx[d]
    /\ Top(t).u \in Uuids
    /\ ctx'[c].state = "live" /\ ctx'[c].u = Top(t).u /\ ctx'[c].ref = 1 /\ ~ctx'[c].busy /\ ~ctx'[c].panicked
    /\ ctx'[c].loaded <=> Top(t).u \in Pseudo
    /\ ctx'[c].initializing <=> Top(t).u \notin Pseudo

\* tee_ta_init_user_ta_session and tee_ta_init_pseudo_ta_session: a new context.
LEMMA OpenLoadIs ==
    ASSUME AInv, NEW t \in Threads, OpenLoad(t)
    PROVE  \E c \in Ctxs : Loads(t, c)
<1>1. PICK c : c = Min(UnusedCtx)
  OBVIOUS
<1>2. PICK u : u = Top(t).u
  OBVIOUS
<1>3. PICK e : e = [NullContext EXCEPT !.state = "live", !.u = u, !.ref = 1, !.loaded = (u \in Pseudo),
                                            !.initializing = (u \notin Pseudo)]
  OBVIOUS
<1>4. /\ fault = "none" /\ stack[t] # <<>> /\ Top(t).pc = "open_init" /\ UnusedCtx # {}
      /\ ctx' = [ctx EXCEPT ![c] = e] /\ NewSession(t, c) /\ ctxes' = Append(ctxes, c)
      /\ UNCHANGED <<si, waitq, usable, fault>> /\ ~Shareable(CtxFind(Top(t).u))
  BY <1>1, <1>2, <1>3 DEF OpenLoad, At
<1>5. c \in Ctxs /\ ctx[c].state = "unused"
  <2>1. UnusedCtx \in SUBSET Nat
    BY DEF UnusedCtx, Ctxs
  <2>2. c \in UnusedCtx
    BY <1>1, <1>4, <2>1, MinIs
  <2> QED BY <2>2 DEF UnusedCtx
<1>6. Top(t) \in Frame /\ TypeOK
  BY <1>4, AtSays
<1>7. u \in Uuids
  BY <1>2, <1>6 DEF Frame
<1>8. e = [state |-> "live", u |-> u, loaded |-> u \in Pseudo,
           initializing |-> u \notin Pseudo, busy |-> FALSE, panicked |-> FALSE, ref |-> 1]
  BY <1>3 DEF NullContext
<1>9. e \in Context
  BY <1>7, <1>8 DEF Context
<1>10. ctx' \in [Ctxs -> Context] /\ ctx'[c] = e /\ \A d \in Ctxs : d # c => ctx'[d] = ctx[d]
  BY <1>4, <1>5, <1>6, <1>9 DEF TypeOK
<1>11. /\ e.state = "live" /\ e.u = u /\ e.ref = 1 /\ ~e.busy /\ ~e.panicked
       /\ e.loaded <=> u \in Pseudo
       /\ e.initializing <=> u \notin Pseudo
  BY <1>8, Zenon
<1> QED BY <1>2, <1>4, <1>5, <1>7, <1>10, <1>11 DEF Loads

\* A session on a new context keeps AInv.
LEMMA OpenLoadA ==
    ASSUME AInv, NEW t \in Threads, OpenLoad(t)
    PROVE  AInv'
<1>0. PICK c \in Ctxs : Loads(t, c)
  BY OpenLoadIs
<1>1. /\ fault = "none" /\ stack[t] # <<>> /\ Top(t).pc = "open_init" /\ NewSession(t, c)
      /\ UNCHANGED <<si, waitq, usable, fault>>
      /\ ~Shareable(CtxFind(Top(t).u)) /\ ctx[c].state = "unused" /\ ctxes' = Append(ctxes, c)
      /\ ctx' \in [Ctxs -> Context] /\ (\A d \in Ctxs : d # c => ctx'[d] = ctx[d])
      /\ Top(t).u \in Uuids
  BY <1>0 DEF Loads
<1>2. ctx'[c].state = "live" /\ ctx'[c].u = Top(t).u /\ ctx'[c].ref = 1 /\ (Top(t).u \in Pseudo => ctx'[c].loaded)
  BY <1>0 DEF Loads
<1>3. "concurrent" \in Flags[ctx'[c].u] => ctx'[c].loaded
  BY <1>1, <1>2, TaManagerAssumption
<1>4. ctxes \in Seq(Ctxs)
  BY DEF AInv, TypeOK
<1>5. ctxes' \in Seq(Ctxs) /\ \A d \in Ctxs : On(d, ctxes') <=> On(d, ctxes) \/ d = c
  <2>1. ctxes' = Append(ctxes, c)
    BY <1>1
  <2>2. \A d \in Ctxs : On(d, ctxes') <=> On(d, ctxes) \/ d = c
    BY <1>4, <2>1, OnAppend
  <2> QED BY <1>4, <2>1, <2>2
<1>6. NewCtx(c)
  BY <1>1, <1>2, <1>3, <1>5 DEF NewCtx
<1> QED BY <1>1, <1>6, NewA

\* Contexts leave tee_ctxes, and sessions lose the ones that have left.
LEMMA LinksShrink ==
    ASSUME TypeOK, Good, NEW p, NEW g, Moved(p, g), UNCHANGED lists, Shape(g),
           \A r \in Sessions : /\ sess'[r].state = sess[r].state /\ sess'[r].id = sess[r].id
                               /\ sess'[r].ref = sess[r].ref /\ sess'[r].lock = sess[r].lock
                               /\ \/ sess'[r].ctx = sess[r].ctx
                                  \/ sess'[r].ctx = NoCtx /\ sess[r].ctx \in Ctxs /\ ~On(sess[r].ctx, ctxes'),
           \A d \in Ctxs : /\ ctx'[d].state = "unused" <=> ctx[d].state = "unused"
                           /\ ctx'[d].u = ctx[d].u /\ ctx'[d].ref = ctx[d].ref /\ ctx'[d].loaded = ctx[d].loaded
                           /\ ctx'[d].busy = ctx[d].busy
                           /\ On(d, ctxes') => On(d, ctxes) /\ ctx'[d].state = ctx[d].state,
           ~Claims(fr[p]), ~Claims(g), ~HoldsBusy(g), ~NullEnd(g),
           Ref(g) => Ref(fr[p]) /\ g.s = fr[p].s /\ g.own = fr[p].own,
           Grip(g) => Grip(fr[p]) /\ g.s = fr[p].s, ~Gone(g),
           Past(g) => Past(fr[p]) /\ g.c = fr[p].c /\ g.s = fr[p].s,
           Ending(g) => Uses(fr[p]) /\ g.c = fr[p].c /\ ~On(g.c, ctxes')
    PROVE  ShapeInv' /\ HomeInv' /\ RefInv' /\ GripInv' /\ LinkInv' /\ UsedInv' /\ CountInv' /\ LoadInv'
<1>1. fr'[p] = g /\ p \in Pl /\ \A x \in Pl : x # p => fr'[x] = fr[x]
  BY DEF Moved
<1>2. \A x \in Pl : /\ Shape(fr[x])
                    /\ Ref(fr[x]) => fr[x].s \in Sessions
                    /\ Grip(fr[x]) => fr[x].s \in Sessions
                    /\ Past(fr[x]) \/ NullEnd(fr[x]) => fr[x].s \in Sessions
                    /\ Uses(fr[x]) => fr[x].c \in Ctxs /\ ctx[fr[x].c].state # "unused"
                    /\ (Gone(fr[x]) => Grip(fr[x]))
  <2> TAKE x \in Pl
  <2>1. Gone(fr[x]) => Grip(fr[x])
    BY DEF Gone, Grip
  <2>2. Uses(fr[x]) => fr[x].c \in Ctxs
    BY FrameSays DEF Good
  <2>3. Past(fr[x]) \/ NullEnd(fr[x]) => Ref(fr[x])
    BY FrameSays DEF Good
  <2>4. Shape(fr[x]) /\ (Ref(fr[x]) => fr[x].s \in Sessions) /\ (Grip(fr[x]) => fr[x].s \in Sessions)
    BY FrameSays DEF Good
  <2> QED BY <2>1, <2>2, <2>3, <2>4 DEF Good, UsedInv
<1>3. ShapeInv'
  BY <1>1, <1>2 DEF ShapeInv
<1>4. HomeInv'
  <2>1. \A x \in Pl : Ref(fr'[x]) => On(fr'[x].s, lists'[fr'[x].own])
    BY <1>1 DEF Good, HomeInv
  <2>2. \A o \in Owners : \A r \in Sessions : On(r, lists'[o]) => sess'[r].state = "live"
    BY DEF Good, HomeInv
  <2>3. \A o, q \in Owners : \A r \in Sessions : On(r, lists'[o]) /\ On(r, lists'[q]) => o = q
    BY DEF Good, HomeInv
  <2> QED BY <2>1, <2>2, <2>3 DEF HomeInv
<1>5. RefInv'
  <2>1. \A r \in Sessions : sess[r].ref \in Nat
    BY DEF TypeOK, Session
  <2>2. \A r \in Sessions : /\ sess'[r].ref \in Nat
                            /\ sess'[r].ref + Has(fr[p], r) >= sess[r].ref + Has(g, r)
    BY <2>1 DEF Has
  <2> QED BY <2>2, RefsKeep DEF Good
<1>6. GripInv'
  <2>1. Grip(g) /\ Ref(g) => sess'[g.s].lock = p[1]
    BY <1>1, <1>2 DEF Good, GripInv
  <2>2. \A y \in Pl : y # p /\ Grip(fr[y]) /\ Ref(fr[y]) => sess'[fr[y].s].lock = sess[fr[y].s].lock
    BY <1>2
  <2>3. \A y \in Pl : y # p /\ Gone(fr[y]) => sess'[fr[y].s].state = "freed"
    BY <1>2 DEF Good, GripInv
  <2> QED BY <2>1, <2>2, <2>3, GripKeep DEF Good
<1>7. LinkInv'
  <2>1. ASSUME NEW x \in Pl, Past(fr[x])
        PROVE  sess'[fr[x].s].ctx = fr[x].c \/ (sess'[fr[x].s].ctx = NoCtx /\ ~On(fr[x].c, ctxes'))
    <3>1. fr[x].s \in Sessions /\ fr[x].c \in Ctxs
      BY <1>2, <2>1 DEF Uses
    <3>2. sess[fr[x].s].ctx = fr[x].c \/ (sess[fr[x].s].ctx = NoCtx /\ ~On(fr[x].c, ctxes))
      BY <2>1 DEF Good, LinkInv
    <3>3. On(fr[x].c, ctxes') => On(fr[x].c, ctxes)
      BY <3>1
    <3>4. NoCtx \notin Ctxs
      BY TaManagerAssumption DEF Ctxs
    <3> QED BY <3>1, <3>2, <3>3, <3>4
  <2>2. \A x \in Pl : Past(fr'[x]) => sess'[fr'[x].s].ctx = fr'[x].c \/ (sess'[fr'[x].s].ctx = NoCtx /\ ~On(fr'[x].c, ctxes'))
    BY <1>1, <2>1
  <2>3. ASSUME NEW x \in Pl, NullEnd(fr'[x]) PROVE sess'[fr'[x].s].ctx = NoCtx
    <3>1. fr'[x] = fr[x] /\ NullEnd(fr[x]) /\ fr[x].s \in Sessions
      BY <1>1, <1>2, <2>3
    <3>2. sess[fr[x].s].ctx = NoCtx
      BY <3>1 DEF Good, LinkInv
    <3> QED BY <3>1, <3>2
  <2> QED BY <2>2, <2>3 DEF LinkInv
<1>8. UsedInv'
  <2>1. ASSUME NEW x \in Pl, Uses(fr'[x]) PROVE ctx'[fr'[x].c].state # "unused"
    <3>1. CASE x # p
      BY <1>1, <1>2, <2>1, <3>1
    <3>2. CASE x = p
      <4>1. Uses(fr[p]) /\ g.c = fr[p].c
        BY <1>1, <2>1, <3>2 DEF Uses
      <4> QED BY <1>1, <1>2, <3>2, <4>1
    <3> QED BY <3>1, <3>2
  <2>2. ASSUME NEW r \in Sessions, sess'[r].state = "live", sess'[r].ctx # NoCtx PROVE ctx'[sess'[r].ctx].state # "unused"
    <3>1. sess'[r].ctx = sess[r].ctx /\ sess[r].ctx \in Ctxs /\ sess[r].state = "live"
      BY <2>2 DEF TypeOK, Session
    <3>2. ctx[sess[r].ctx].state # "unused"
      BY <2>2, <3>1 DEF Good, UsedInv
    <3> QED BY <3>1, <3>2
  <2>3. \A d \in Ctxs : On(d, ctxes') => ctx'[d].state = "live"
    BY DEF Good, UsedInv
  <2>4. ASSUME NEW x \in Pl, Ending(fr'[x]) PROVE ~On(fr'[x].c, ctxes')
    <3>1. CASE x # p
      <4>1. Ending(fr[x]) /\ Uses(fr[x]) /\ fr'[x] = fr[x]
        BY <1>1, <2>4, <3>1 DEF Uses
      <4> QED BY <1>2, <4>1 DEF Good, UsedInv
    <3>2. CASE x = p
      BY <1>1, <2>4, <3>2
    <3> QED BY <3>1, <3>2
  <2> QED BY <2>1, <2>2, <2>3, <2>4 DEF UsedInv
<1>9. CountInv'
  <2> SUFFICES ASSUME NEW d \in Ctxs
               PROVE  /\ Cardinality(ClaimsOn(sess', fr', d)) <= ctx'[d].ref
                      /\ On(d, ctxes') => Cardinality(ClaimsOn(sess', fr', d)) = ctx'[d].ref
    BY DEF CountInv
  <2>1. PICK A : A = ClaimsOn(sess, fr, d)
    OBVIOUS
  <2>2. PICK B : B = ClaimsOn(sess', fr', d)
    OBVIOUS
  <2>3. ASSUME NEW r \in Sessions PROVE (r \in B => r \in A) /\ (r \in A /\ On(d, ctxes') => r \in B)
    <3>1. (\E x \in Pl : Claims(fr'[x]) /\ fr'[x].s = r /\ fr'[x].c = d) <=> (\E x \in Pl : Claims(fr[x]) /\ fr[x].s = r /\ fr[x].c = d)
      BY <1>1
    <3>2. NoCtx # d
      BY TaManagerAssumption DEF Ctxs
    <3>3. (sess'[r].state = "live" /\ sess'[r].ctx = d) => (sess[r].state = "live" /\ sess[r].ctx = d)
      BY <3>2
    <3>4. (sess[r].state = "live" /\ sess[r].ctx = d) /\ On(d, ctxes') => (sess'[r].state = "live" /\ sess'[r].ctx = d)
      OBVIOUS
    <3> QED BY <2>1, <2>2, <3>1, <3>3, <3>4 DEF ClaimsOn
  <2>4. A \subseteq Sessions /\ B \subseteq Sessions
    BY <2>1, <2>2 DEF ClaimsOn
  <2>5. B \subseteq A /\ (On(d, ctxes') => B = A)
    BY <2>3, <2>4
  <2>6. IsFiniteSet(A) /\ Cardinality(A) \in Nat /\ Cardinality(B) <= Cardinality(A) /\ Cardinality(B) \in Nat
    <3>1. IsFiniteSet(Sessions)
      <4>1. NumSessions \in Nat /\ 1 \in Int
        BY TaManagerAssumption
      <4> QED BY <4>1, FS_Interval DEF Sessions
    <3>2. IsFiniteSet(A)
      BY <2>4, <3>1, FS_Subset
    <3> QED BY <2>5, <3>2, FS_Subset, FS_CardinalityType
  <2>7. Cardinality(A) <= ctx[d].ref /\ (On(d, ctxes) => Cardinality(A) = ctx[d].ref) /\ ctx[d].ref \in Nat
    BY <2>1 DEF Good, CountInv, TypeOK, Context
  <2> QED BY <2>2, <2>5, <2>6, <2>7
<1>10. LoadInv'
  BY DEF Good, LoadInv
<1> QED BY <1>3, <1>4, <1>5, <1>6, <1>7, <1>8, <1>9, <1>10

\* A context is taken off tee_ctxes.
LEMMA CtxesWithout ==
    ASSUME NEW l \in Seq(Ctxs), NEW c \in Ctxs, NEW m, m = Without(l, {c})
    PROVE  m \in Seq(Ctxs) /\ \A d \in Ctxs : On(d, m) <=> On(d, l) /\ d # c
<1>1. /\ Without(l, {c}) \in Seq(Ctxs)
      /\ \A e \in Ctxs : (\E k \in 1..Len(Without(l, {c})) : Without(l, {c})[k] = e)
                            <=> (e \notin {c} /\ \E k \in 1..Len(l) : l[k] = e)
  BY WithoutFacts, Zenon
<1> QED BY <1>1 DEF On

\* What destroy_ta_ctx_from_session does under the mutex.
LEMMA DestroyTaCtxIs ==
    ASSUME AInv, NEW t \in Threads, DestroyTaCtx(t)
    PROVE  \E s \in Sessions, c \in Ctxs, g \in Frame :
             /\ fault = "none" /\ stack[t] # <<>> /\ Top(t).pc = "inv_destroy" /\ Top(t).op = "invoke"
             /\ s = Top(t).s /\ c = Top(t).c /\ sess[s].ctx = c /\ ctx[c].state = "live"
             /\ SetTop(t, g) /\ UNCHANGED <<ctx, lists, si, waitq, usable>>
             /\ g.op = "invoke" /\ g.pc = "destroy" /\ g.own = Top(t).own /\ g.s = s /\ g.c = c /\ g.via = "null"
             /\ g.id = Top(t).id
             /\ fault' = IF Cardinality(Referring(c) \ {s}) + 1 = ctx[c].ref THEN "none" ELSE "assert"
             /\ sess' \in [Sessions -> Session]
             /\ \A r \in Sessions : sess'[r] = IF r \in Referring(c) \ {s} THEN [sess[r] EXCEPT !.ctx = NoCtx] ELSE sess[r]
             /\ ctxes' = Without(ctxes, {c})
<1>1. PICK f : f = Top(t)
  OBVIOUS
<1>2. PICK s : s = f.s
  OBVIOUS
<1>3. PICK c : c = sess[s].ctx
  OBVIOUS
<1>4. PICK O : O = Referring(c) \ {s}
  OBVIOUS
<1>5. /\ fault = "none" /\ stack[t] # <<>> /\ f.pc = "inv_destroy" /\ Valid(t)
      /\ fault' = IF Cardinality(O) + 1 = ctx[c].ref THEN fault ELSE "assert"
      /\ sess' = [r \in Sessions |-> IF r \in O THEN [sess[r] EXCEPT !.ctx = NoCtx] ELSE sess[r]]
      /\ ctxes' = Without(ctxes, {c}) /\ SetTop(t, [f EXCEPT !.c = c, !.pc = "destroy"])
      /\ UNCHANGED <<ctx, lists, si, waitq, usable>>
  BY <1>1, <1>2, <1>3, <1>4 DEF DestroyTaCtx, At, CAssert
<1>6. f \in Frame /\ Shape(f) /\ TypeOK
  BY <1>1, <1>5, AtSays
<1>7. f.op = "invoke" /\ f.s \in Sessions /\ f.via = "null" /\ f.pc \in DerefPcs
  BY <1>5, <1>6 DEF Shape, OpenShape, InvokeShape, CloseShape, LivePcs, BusyPcs, EndPcs, Frame, DerefPcs
<1>8. Deref(f) = f.c /\ f.c \in Ctxs /\ ctx[f.c].state = "live"
  BY <1>1, <1>5, <1>7, DerefIs
<1>9. Deref(f) = c
  BY <1>2, <1>3, <1>5, <1>7 DEF Deref
<1>10. PICK g : g = [f EXCEPT !.c = c, !.pc = "destroy"]
  OBVIOUS
<1>11. /\ g \in Frame /\ g.op = "invoke" /\ g.pc = "destroy" /\ g.own = f.own /\ g.s = f.s /\ g.c = c /\ g.via = "null"
       /\ g.id = f.id
  BY <1>6, <1>7, <1>8, <1>9, <1>10 DEF Frame, Pcs
<1>12. sess' \in [Sessions -> Session]
  <2>1. \A r \in Sessions : sess[r] \in Session
    BY <1>6 DEF TypeOK
  <2>2. \A r \in Sessions : [sess[r] EXCEPT !.ctx = NoCtx] \in Session
    BY <2>1 DEF Session
  <2> QED BY <1>5, <2>1, <2>2
<1>13. /\ fault = "none" /\ stack[t] # <<>> /\ Top(t).pc = "inv_destroy" /\ Top(t).op = "invoke"
       /\ s = Top(t).s /\ c = Top(t).c /\ sess[s].ctx = c /\ ctx[c].state = "live"
       /\ SetTop(t, g) /\ UNCHANGED <<ctx, lists, si, waitq, usable>>
  BY <1>1, <1>2, <1>3, <1>5, <1>7, <1>8, <1>9, <1>10
<1>14. /\ fault' = IF Cardinality(Referring(c) \ {s}) + 1 = ctx[c].ref THEN "none" ELSE "assert"
       /\ \A r \in Sessions : sess'[r] = IF r \in Referring(c) \ {s} THEN [sess[r] EXCEPT !.ctx = NoCtx] ELSE sess[r]
       /\ ctxes' = Without(ctxes, {c})
  BY <1>4, <1>5
<1> QED BY <1>1, <1>2, <1>7, <1>8, <1>9, <1>11, <1>12, <1>13, <1>14

\* destroy_ta_ctx_from_session keeps AInv.
LEMMA DestroyTaCtxA ==
    ASSUME AInv, NEW t \in Threads, DestroyTaCtx(t)
    PROVE  AInv'
<1>1. PICK s \in Sessions, c \in Ctxs, g \in Frame :
             /\ fault = "none" /\ stack[t] # <<>> /\ Top(t).pc = "inv_destroy" /\ Top(t).op = "invoke"
             /\ s = Top(t).s /\ c = Top(t).c /\ sess[s].ctx = c /\ ctx[c].state = "live"
             /\ SetTop(t, g) /\ UNCHANGED <<ctx, lists, si, waitq, usable>>
             /\ g.op = "invoke" /\ g.pc = "destroy" /\ g.own = Top(t).own /\ g.s = s /\ g.c = c /\ g.via = "null"
             /\ g.id = Top(t).id
             /\ fault' = IF Cardinality(Referring(c) \ {s}) + 1 = ctx[c].ref THEN "none" ELSE "assert"
             /\ sess' \in [Sessions -> Session]
             /\ \A r \in Sessions : sess'[r] = IF r \in Referring(c) \ {s} THEN [sess[r] EXCEPT !.ctx = NoCtx] ELSE sess[r]
             /\ ctxes' = Without(ctxes, {c})
  BY DestroyTaCtxIs
<1>2. PICK p : p = TopP(t)
  OBVIOUS
<1>3. PICK f : f = Top(t)
  OBVIOUS
<1>4. /\ TypeOK /\ HoldInv /\ Good /\ p \in Pl /\ fr[p] = f /\ f \in Frame /\ f # Null
      /\ fr[<<p[1], p[2] + 1>>] = Null /\ stack \in [Threads -> Seq(Frame)]
  BY <1>1, <1>2, <1>3, AtSays
<1>5. Moved(p, g) /\ stack' \in [Threads -> Seq(Frame)]
  BY <1>1, <1>2, <1>4, MoveSet
<1>6. ctxes' \in Seq(Ctxs) /\ \A d \in Ctxs : On(d, ctxes') <=> On(d, ctxes) /\ d # c
  BY <1>1, <1>4, CtxesWithout DEF TypeOK
<1>7. \A r \in Sessions : /\ sess'[r].state = sess[r].state /\ sess'[r].id = sess[r].id
                          /\ sess'[r].ref = sess[r].ref /\ sess'[r].lock = sess[r].lock
                          /\ \/ sess'[r].ctx = sess[r].ctx
                             \/ sess'[r].ctx = NoCtx /\ sess[r].ctx = c
  <2> TAKE r \in Sessions
  <2>1. sess[r] \in Session
    BY <1>4 DEF TypeOK
  <2>2. CASE r \in Referring(c) \ {s}
    <3>1. sess'[r] = [sess[r] EXCEPT !.ctx = NoCtx] /\ sess[r].ctx = c
      BY <1>1, <2>2 DEF Referring
    <3> QED BY <2>1, <3>1 DEF Session
  <2>3. CASE r \notin Referring(c) \ {s}
    BY <1>1, <2>3
  <2> QED BY <2>2, <2>3
<1>8. TypeOK'
  <2>1. si' \in [thread : Threads \cup {NoThread}, count : Nat] /\ waitq' \in Seq([t : Threads, cv : Cvs])
        /\ usable' \subseteq Sessions /\ fault' \in Faults /\ ctx' \in [Ctxs -> Context]
    BY <1>1, <1>4 DEF TypeOK, Faults
  <2>2. \A r \in Sessions : sess'[r].id = sess[r].id
    BY <1>7
  <2> QED BY <1>1, <1>4, <1>5, <1>6, <2>1, <2>2, TypeStep
<1>9. /\ ~Claims(f) /\ ~Claims(g) /\ ~HoldsBusy(g) /\ ~NullEnd(g) /\ Ref(f) /\ Grip(f) /\ ~Gone(g) /\ Past(f) /\ Uses(f)
  BY <1>1, <1>3 DEF Claims, HoldsBusy, NullEnd, Ref, Grip, Gone, Past, Uses
<1>10. Shape(g)
  BY <1>1 DEF Shape, InvokeShape, LivePcs, EndPcs
<1>11. HoldInv'
  BY <1>1, <1>4, <1>5, <1>9, HoldLoad
<1>12. ShapeInv' /\ HomeInv' /\ RefInv' /\ GripInv' /\ LinkInv' /\ UsedInv' /\ CountInv' /\ LoadInv'
  <2>1. \A r \in Sessions : /\ sess'[r].state = sess[r].state /\ sess'[r].id = sess[r].id
                            /\ sess'[r].ref = sess[r].ref /\ sess'[r].lock = sess[r].lock
                            /\ \/ sess'[r].ctx = sess[r].ctx
                               \/ sess'[r].ctx = NoCtx /\ sess[r].ctx \in Ctxs /\ ~On(sess[r].ctx, ctxes')
    BY <1>6, <1>7
  <2>2. \A d \in Ctxs : /\ ctx'[d].state = "unused" <=> ctx[d].state = "unused"
                        /\ ctx'[d].u = ctx[d].u /\ ctx'[d].ref = ctx[d].ref /\ ctx'[d].loaded = ctx[d].loaded
                        /\ ctx'[d].busy = ctx[d].busy
                        /\ On(d, ctxes') => On(d, ctxes) /\ ctx'[d].state = ctx[d].state
    BY <1>1, <1>6
  <2>3. UNCHANGED lists /\ g.own = f.own /\ g.s = f.s /\ g.c = f.c /\ ~On(g.c, ctxes')
    BY <1>1, <1>3, <1>6
  <2> QED BY <1>4, <1>5, <1>9, <1>10, <2>1, <2>2, <2>3, LinksShrink
<1>13. StackInv'
  BY <1>1, <1>3, <1>4, <1>5, StackSet DEF Good
<1> QED BY <1>8, <1>11, <1>12, <1>13 DEF AInv, Good

\* The end of destroy_context keeps AInv.
LEMMA FreeCtxA ==
    ASSUME AInv, NEW t \in Threads, FreeCtx(t)
    PROVE  AInv'
<1>1. PICK f : f = Top(t)
  OBVIOUS
<1>2. PICK c : c = f.c
  OBVIOUS
<1>3. /\ fault = "none" /\ stack[t] # <<>> /\ f.pc = "drain"
      /\ ctx' = [ctx EXCEPT ![c].state = "freed"]
      /\ \/ f.op = "invoke" /\ SetTop(t, [f EXCEPT !.pc = "put"]) /\ sess' = [sess EXCEPT ![f.s].ctx = NoCtx]
         \/ f.op # "invoke" /\ Return(t) /\ UNCHANGED sess
      /\ UNCHANGED <<ctxes, lists, si, waitq, usable, fault>>
  BY <1>1, <1>2 DEF FreeCtx, At, Goto
<1>4. PICK p : p = TopP(t)
  OBVIOUS
<1>5. /\ TypeOK /\ HoldInv /\ Good /\ p \in Pl /\ fr[p] = f /\ f \in Frame /\ f # Null /\ Shape(f)
      /\ fr[<<p[1], p[2] + 1>>] = Null /\ stack \in [Threads -> Seq(Frame)]
  BY <1>1, <1>3, <1>4, AtSays
<1>6. /\ f.op \in {"invoke", "close"} /\ Ending(f) /\ Uses(f) /\ c \in Ctxs /\ ~Claims(f)
      /\ (f.op = "invoke" => f.s \in Sessions /\ f.via = "null" /\ Ref(f) /\ Grip(f) /\ Past(f))
  <2>1. f.op \in {"invoke", "close"} /\ Ending(f) /\ Uses(f) /\ ~Claims(f)
    BY <1>3, <1>5 DEF Shape, OpenShape, LivePcs, BusyPcs, Frame, Ending, EndPcs, Uses, Claims
  <2>2. c \in Ctxs
    BY <1>2, <1>5, <2>1, ShapeSays
  <2>3. (f.op = "invoke" => f.s \in Sessions /\ f.via = "null" /\ Ref(f) /\ Grip(f) /\ Past(f))
    BY <1>3, <1>5 DEF Shape, InvokeShape, LivePcs, EndPcs, Ref, Grip, Past
  <2> QED BY <2>1, <2>2, <2>3
<1>7. ~On(c, ctxes)
  BY <1>2, <1>5, <1>6 DEF Good, UsedInv
<1>8. PICK e : e = [ctx[c] EXCEPT !.state = "freed"]
  OBVIOUS
<1>9. /\ e \in Context /\ e.state = "freed" /\ e.u = ctx[c].u /\ e.ref = ctx[c].ref /\ e.loaded = ctx[c].loaded
      /\ e.busy = ctx[c].busy
  <2>1. ctx[c] \in Context
    BY <1>5, <1>6 DEF TypeOK
  <2> QED BY <1>8, <2>1 DEF Context
<1>10. ctx' \in [Ctxs -> Context] /\ ctx'[c] = e /\ \A d \in Ctxs : d # c => ctx'[d] = ctx[d]
  <2>1. ctx \in [Ctxs -> Context]
    BY <1>5 DEF TypeOK
  <2> QED BY <1>3, <1>6, <1>8, <1>9, <2>1
<1>11. \A d \in Ctxs : /\ ctx'[d].state = "unused" <=> ctx[d].state = "unused"
                       /\ ctx'[d].u = ctx[d].u /\ ctx'[d].ref = ctx[d].ref /\ ctx'[d].loaded = ctx[d].loaded
                       /\ ctx'[d].busy = ctx[d].busy
                       /\ On(d, ctxes') => On(d, ctxes) /\ ctx'[d].state = ctx[d].state
  <2>1. ctx[c].state # "unused" /\ UNCHANGED ctxes
    BY <1>2, <1>3, <1>5, <1>6 DEF Good, UsedInv
  <2> QED BY <1>6, <1>7, <1>9, <1>10, <2>1
<1>12. si' \in [thread : Threads \cup {NoThread}, count : Nat] /\ waitq' \in Seq([t : Threads, cv : Cvs])
       /\ usable' \subseteq Sessions /\ fault' \in Faults /\ ctxes' \in Seq(Ctxs)
  BY <1>3, <1>5 DEF TypeOK
<1>13. UNCHANGED <<lists, ctxes>> /\ fault = "none" /\ stack[t] # <<>>
  BY <1>3
<1>14. CASE f.op = "invoke" /\ SetTop(t, [f EXCEPT !.pc = "put"]) /\ sess' = [sess EXCEPT ![f.s].ctx = NoCtx]
  <2>1. PICK g : g = [f EXCEPT !.pc = "put"]
    OBVIOUS
  <2>2. /\ g \in Frame /\ g.op = "invoke" /\ g.pc = "put" /\ g.own = f.own /\ g.s = f.s /\ g.via = "null"
    BY <1>5, <1>6, <1>14, <2>1 DEF Frame, Pcs
  <2>3. Moved(p, g) /\ stack' \in [Threads -> Seq(Frame)]
    BY <1>4, <1>5, <1>13, <1>14, <2>1, <2>2, MoveSet
  <2>4. PICK s : s = f.s
    OBVIOUS
  <2>5. s \in Sessions /\ sess \in [Sessions -> Session] /\ sess[s] \in Session
    BY <1>5, <1>6, <1>14, <2>4 DEF TypeOK
  <2>6. PICK h : h = [sess[s] EXCEPT !.ctx = NoCtx]
    OBVIOUS
  <2>7. h \in Session /\ h.state = sess[s].state /\ h.id = sess[s].id /\ h.ref = sess[s].ref /\ h.lock = sess[s].lock
        /\ h.ctx = NoCtx
    BY <2>5, <2>6 DEF Session
  <2>8. sess' \in [Sessions -> Session] /\ sess'[s] = h /\ \A r \in Sessions : r # s => sess'[r] = sess[r]
    BY <1>14, <2>4, <2>5, <2>6, <2>7
  <2>9. sess[s].ctx = c \/ sess[s].ctx = NoCtx
    BY <1>2, <1>5, <1>6, <1>14, <2>4 DEF Good, LinkInv
  <2>10. \A r \in Sessions : /\ sess'[r].state = sess[r].state /\ sess'[r].id = sess[r].id
                             /\ sess'[r].ref = sess[r].ref /\ sess'[r].lock = sess[r].lock
                             /\ \/ sess'[r].ctx = sess[r].ctx
                                \/ sess'[r].ctx = NoCtx /\ sess[r].ctx \in Ctxs /\ ~On(sess[r].ctx, ctxes')
    BY <1>6, <1>7, <1>13, <2>7, <2>8, <2>9
  <2>11. TypeOK'
    BY <1>5, <1>10, <1>12, <1>13, <2>3, <2>8, <2>10, TypeStep
  <2>12. ~Claims(g) /\ ~HoldsBusy(g) /\ ~NullEnd(g) /\ ~Gone(g) /\ ~Past(g) /\ ~Ending(g)
    BY <2>2 DEF Claims, HoldsBusy, NullEnd, Gone, Past, Ending, EndPcs
  <2>13. Shape(g)
    BY <1>6, <1>14, <2>2 DEF Shape, InvokeShape, LivePcs, EndPcs
  <2>14. HoldInv'
    BY <1>5, <1>11, <2>3, <2>12, HoldLoad
  <2>15. ShapeInv' /\ HomeInv' /\ RefInv' /\ GripInv' /\ LinkInv' /\ UsedInv' /\ CountInv' /\ LoadInv'
    BY <1>5, <1>6, <1>11, <1>13, <1>14, <2>2, <2>3, <2>10, <2>12, <2>13, LinksShrink
  <2>16. StackInv'
    BY <1>5, <2>2, <2>3, StackSet DEF Good
  <2> QED BY <2>11, <2>14, <2>15, <2>16 DEF AInv, Good
<1>15. CASE f.op # "invoke" /\ Return(t) /\ UNCHANGED sess
  <2>1. Moved(p, Null) /\ stack' \in [Threads -> Seq(Frame)]
    BY <1>4, <1>5, <1>13, <1>15, MovePop
  <2>2. /\ Shape(Null) /\ ~Ref(Null) /\ ~Past(Null) /\ ~Claims(Null) /\ ~Ending(Null) /\ ~NullEnd(Null) /\ ~Grip(Null)
        /\ ~Gone(Null) /\ ~HoldsBusy(Null)
    <3>1. Shape(Null)
      BY DEF Shape, Null
    <3> QED BY <3>1 DEF Null, Ref, Past, Claims, Ending, NullEnd, EndPcs, Grip, Gone, HoldsBusy
  <2>3. sess' \in [Sessions -> Session]
    BY <1>5, <1>15 DEF TypeOK
  <2>4. TypeOK'
    BY <1>5, <1>10, <1>12, <1>13, <1>15, <2>1, <2>3, TypeStep
  <2>5. HoldInv'
    BY <1>5, <1>11, <2>1, <2>2, HoldLoad
  <2>6. ShapeInv' /\ HomeInv' /\ RefInv' /\ GripInv' /\ LinkInv' /\ UsedInv' /\ CountInv' /\ LoadInv'
    BY <1>5, <1>6, <1>11, <1>13, <1>15, <2>1, <2>2, LinksShrink
  <2>7. StackInv'
    BY <1>5, <2>1, StackSet DEF Good
  <2> QED BY <2>4, <2>5, <2>6, <2>7 DEF AInv, Good
<1> QED BY <1>3, <1>14, <1>15

\* The sessions of list l have different ids by h, none of them 0.
Distinct(h, l) == \A i, j \in 1..Len(l) : h[l[i]] # 0 /\ (h[l[i]] = h[l[j]] => i = j)

\* A session is taken off the list of its owner.
LEMMA ListWithout ==
    ASSUME NEW l \in Seq(Sessions), NEW s \in Sessions, NEW m, m = Without(l, {s}), NEW h, Distinct(h, l)
    PROVE  /\ m \in Seq(Sessions)
           /\ \A d \in Sessions : On(d, m) <=> On(d, l) /\ d # s
           /\ Distinct(h, m)
<1>1. /\ Without(l, {s}) \in Seq(Sessions) /\ (Once(l) => Once(Without(l, {s})))
      /\ \A e \in Sessions : (\E k \in 1..Len(Without(l, {s})) : Without(l, {s})[k] = e)
                            <=> (e \notin {s} /\ \E k \in 1..Len(l) : l[k] = e)
  BY WithoutFacts, Zenon
<1>2. /\ m \in Seq(Sessions) /\ (Once(l) => Once(m))
      /\ \A e \in Sessions : (\E k \in 1..Len(m) : m[k] = e) <=> (e \notin {s} /\ \E k \in 1..Len(l) : l[k] = e)
  BY <1>1
<1>3. Once(l)
  BY DEF Once, Distinct
<1>4. \A d \in Sessions : On(d, m) <=> On(d, l) /\ d # s
  BY <1>2 DEF On
<1>5. ASSUME NEW i \in 1..Len(m), NEW j \in 1..Len(m)
      PROVE  h[m[i]] # 0 /\ (h[m[i]] = h[m[j]] => i = j)
  <2>1. m[i] \in Sessions /\ m[j] \in Sessions
    BY <1>2
  <2>2. PICK a \in 1..Len(l) : l[a] = m[i]
    BY <1>2, <2>1
  <2>3. PICK b \in 1..Len(l) : l[b] = m[j]
    BY <1>2, <2>1
  <2>4. m[i] = m[j] => i = j
    <3>1. DOMAIN m = 1..Len(m)
      BY <1>2
    <3> QED BY <1>2, <1>3, <3>1 DEF Once
  <2> QED BY <2>2, <2>3, <2>4 DEF Distinct
<1> QED BY <1>2, <1>4, <1>5 DEF Distinct

\* What FreeSession does to the frame of tee_ta_close_session.
Frees(f, g) ==
    \/ f.via = "null" /\ g = Null
    \/ /\ f.via # "null" /\ g \in Frame /\ g.op = "close" /\ g.own = f.own /\ g.s = f.s /\ g.c = f.c /\ g.via = f.via
       /\ g.id = f.id
       /\ g.pc = IF f.via = "live" THEN "clear" ELSE "release"

\* What is true of the frame before and after.
LEMMA FreesSays ==
    ASSUME NEW f \in Frame, Shape(f), f.op = "close", f.pc \in {"unlink", "wait_refc"}, NEW g, Frees(f, g)
    PROVE  /\ Shape(g) /\ ~Ref(g) /\ ~Past(g) /\ ~NullEnd(g) /\ ~Ending(g)
           /\ Grip(g) => g.s = f.s
           /\ Claims(f) <=> f.via # "null"
           /\ Claims(g) <=> f.via # "null"
           /\ Claims(g) => g.c = f.c /\ g.s = f.s
           /\ HoldsBusy(g) => HoldsBusy(f) /\ g.c = f.c
           /\ g # Null => g.own = f.own /\ g.op = "close"
           /\ Ref(f) /\ Grip(f) /\ f.s \in Sessions /\ f.own \in Owners
           /\ f.via # "null" => Past(f)
           /\ f.via = "null" => NullEnd(f)
<1>1. /\ Ref(f) /\ Grip(f) /\ f.s \in Sessions /\ f.own \in Owners
      /\ f.via # "null" => Past(f) /\ f.c \in Ctxs
      /\ f.via = "null" => NullEnd(f)
      /\ Claims(f) <=> f.via # "null"
      /\ f.via = "live" => HoldsBusy(f)
  BY DEF Shape, CloseShape, LivePcs, BusyPcs, EndPcs, Frame, Ref, Grip, Claims, Past, NullEnd, HoldsBusy
<1>2. CASE f.via = "null" /\ g = Null
  <2>1. Shape(g)
    BY <1>2 DEF Shape, Null
  <2> QED BY <1>1, <1>2, <2>1 DEF Null, Ref, Past, Claims, Ending, NullEnd, EndPcs, Grip, Gone, HoldsBusy
<1>3. CASE /\ f.via # "null" /\ g \in Frame /\ g.op = "close" /\ g.own = f.own /\ g.s = f.s /\ g.c = f.c /\ g.via = f.via
           /\ g.pc = IF f.via = "live" THEN "clear" ELSE "release"
  <2>1. Shape(g)
    BY <1>1, <1>3 DEF Shape, CloseShape, LivePcs, BusyPcs, EndPcs, Frame
  <2> QED BY <1>1, <1>3, <2>1 DEF Ref, Past, Claims, Ending, NullEnd, EndPcs, Grip, Gone, HoldsBusy, LivePcs, BusyPcs
<1> QED BY <1>2, <1>3 DEF Frees

\* FreeSession in terms of frames.
LEMMA FreeSessionIs ==
    ASSUME AInv, fault = "none", NEW t \in Threads, stack[t] # <<>>, Top(t).op = "close", Top(t).pc \in {"unlink", "wait_refc"},
           FreeSession(t)
    PROVE  \E g : /\ Frees(Top(t), g) /\ Moved(TopP(t), g) /\ stack' \in [Threads -> Seq(Frame)]
                  /\ lists' = Upd(lists, Top(t).own, Without(lists[Top(t).own], {Top(t).s}))
<1>1. PICK f : f = Top(t)
  OBVIOUS
<1>2. /\ lists' = [lists EXCEPT ![f.own] = Without(@, {f.s})]
      /\ \/ f.via = "null" /\ Return(t)
         \/ f.via # "null" /\ SetTop(t, [f EXCEPT !.pc = IF f.via = "live" THEN "clear" ELSE "release"])
  BY <1>1 DEF FreeSession, Goto
<1>3. f \in Frame /\ stack \in [Threads -> Seq(Frame)] /\ Shape(f)
  BY <1>1, AtSays
<1>4. lists' = Upd(lists, f.own, Without(lists[f.own], {f.s}))
  BY <1>2 DEF Upd
<1>5. CASE f.via = "null" /\ Return(t)
  <2>1. Moved(TopP(t), Null) /\ stack' \in [Threads -> Seq(Frame)]
    BY <1>3, <1>5, MovePop
  <2>2. Frees(f, Null)
    BY <1>5 DEF Frees
  <2> QED BY <1>1, <1>4, <2>1, <2>2
<1>6. CASE f.via # "null" /\ SetTop(t, [f EXCEPT !.pc = IF f.via = "live" THEN "clear" ELSE "release"])
  <2>1. PICK a : a = IF f.via = "live" THEN "clear" ELSE "release"
    OBVIOUS
  <2>2. PICK g : g = [f EXCEPT !.pc = a]
    OBVIOUS
  <2>3. a \in Pcs
    BY <2>1 DEF Pcs
  <2>4. /\ g \in Frame /\ g.pc = a /\ g.op = f.op /\ g.own = f.own /\ g.s = f.s /\ g.c = f.c
        /\ g.via = f.via /\ g.id = f.id /\ g.u = f.u /\ g.res = f.res
    BY <1>3, <2>2, <2>3, GotoIs
  <2>5. SetTop(t, g)
    BY <1>6, <2>1, <2>2
  <2>6. Moved(TopP(t), g) /\ stack' \in [Threads -> Seq(Frame)]
    BY <1>3, <2>4, <2>5, MoveSet
  <2>7. Frees(f, g)
    BY <1>1, <1>6, <2>1, <2>4 DEF Frees
  <2> QED BY <1>1, <1>4, <2>6, <2>7
<1> QED BY <1>2, <1>5, <1>6

\* tee_ta_unlink_session ends: the session with its last reference is freed.
LEMMA FreeA ==
    ASSUME AInv, fault = "none", NEW t \in Threads, stack[t] # <<>>, Top(t).op = "close", Top(t).pc \in {"unlink", "wait_refc"},
           FreeSession(t), NEW s, s = Top(t).s, sess[s].ref = 1,
           sess' \in [Sessions -> Session], \A r \in Sessions : r # s => sess'[r] = sess[r],
           sess'[s].state = "freed", sess'[s].id = sess[s].id, sess'[s].ref = 1, sess'[s].lock = sess[s].lock,
           UNCHANGED <<ctx, ctxes, si, usable>>, waitq' \in Seq(Waiters), fault' \in Faults
    PROVE  AInv'
<1>1. PICK g : /\ Frees(Top(t), g) /\ Moved(TopP(t), g) /\ stack' \in [Threads -> Seq(Frame)]
               /\ lists' = Upd(lists, Top(t).own, Without(lists[Top(t).own], {Top(t).s}))
  BY FreeSessionIs
<1>2. PICK p : p = TopP(t)
  OBVIOUS
<1>3. PICK f : f = Top(t)
  OBVIOUS
<1>4. /\ TypeOK /\ HoldInv /\ Good /\ p \in Pl /\ p[1] = t /\ fr[p] = f /\ f \in Frame /\ f # Null /\ Shape(f)
      /\ fr[<<p[1], p[2] + 1>>] = Null
  BY <1>2, <1>3, AtSays
<1>5. /\ Shape(g) /\ ~Ref(g) /\ ~Past(g) /\ ~NullEnd(g) /\ ~Ending(g)
      /\ Grip(g) => g.s = f.s
      /\ Claims(f) <=> f.via # "null"
      /\ Claims(g) <=> f.via # "null"
      /\ Claims(g) => g.c = f.c /\ g.s = f.s
      /\ HoldsBusy(g) => HoldsBusy(f) /\ g.c = f.c
      /\ g # Null => g.own = f.own /\ g.op = "close"
      /\ Ref(f) /\ Grip(f) /\ f.s \in Sessions /\ f.own \in Owners
      /\ f.via # "null" => Past(f)
      /\ f.via = "null" => NullEnd(f)
  BY <1>1, <1>3, <1>4, FreesSays
<1>6. Moved(p, g) /\ f.s = s /\ s \in Sessions
  BY <1>1, <1>2, <1>3, <1>5
<1>7. fr'[p] = g /\ \A x \in Pl : x # p => fr'[x] = fr[x]
  BY <1>6 DEF Moved
<1>8. \A y \in Pl : y # p /\ Ref(fr[y]) => fr[y].s # s /\ fr[y].s \in Sessions
  <2>1. \A y \in Pl : Ref(fr[y]) => fr[y].s \in Sessions
    BY <1>4, FrameSays DEF Good
  <2>2. RefInv
    BY <1>4 DEF Good
  <2>3. \A y \in Pl : Ref(fr[y]) /\ fr[y].s = fr[p].s => y = p
    BY <1>4, <1>5, <1>6, <2>2, RefHeld
  <2> QED BY <1>4, <1>6, <2>1, <2>3
<1>9. PICK w : w = f.own
  OBVIOUS
<1>10. PICK m : m = Without(lists[w], {s})
  OBVIOUS
<1>11. PICK h : h = [r \in Sessions |-> sess[r].id]
  OBVIOUS
<1>12. lists \in [Owners -> Seq(Sessions)] /\ w \in Owners /\ lists[w] \in Seq(Sessions)
  BY <1>4, <1>5, <1>9 DEF TypeOK
<1>13. \A o \in Owners : \A i, j \in 1..Len(lists[o]) : h[lists[o][i]] # 0 /\ (h[lists[o][i]] = h[lists[o][j]] => i = j)
  <2> TAKE o \in Owners
  <2> TAKE i, j \in 1..Len(lists[o])
  <2>1. lists[o] \in Seq(Sessions)
    BY <1>12
  <2>2. lists[o][i] \in Sessions /\ lists[o][j] \in Sessions
    BY <2>1
  <2>3. /\ sess[lists[o][i]].id # 0
        /\ sess[lists[o][i]].id = sess[lists[o][j]].id => i = j
    BY <1>4 DEF TypeOK
  <2> QED BY <1>11, <2>2, <2>3
<1>14. /\ m \in Seq(Sessions)
       /\ \A d \in Sessions : On(d, m) <=> On(d, lists[w]) /\ d # s
       /\ \A i, j \in 1..Len(m) : h[m[i]] # 0 /\ (h[m[i]] = h[m[j]] => i = j)
  <2>1. PICK l : l = lists[w]
    OBVIOUS
  <2>2. Distinct(h, l)
    BY <1>12, <1>13, <2>1 DEF Distinct
  <2>3. l \in Seq(Sessions) /\ m = Without(l, {s})
    BY <1>10, <1>12, <2>1
  <2>4. /\ m \in Seq(Sessions)
        /\ \A d \in Sessions : On(d, m) <=> On(d, l) /\ d # s
        /\ Distinct(h, m)
    <3>1. s \in Sessions
      BY <1>6
    <3> QED BY <2>2, <2>3, <3>1, ListWithout
  <2> QED BY <2>1, <2>4 DEF Distinct
<1>15. /\ lists' \in [Owners -> Seq(Sessions)] /\ lists'[w] = m /\ \A o \in Owners : o # w => lists'[o] = lists[o]
  <2>1. lists' = Upd(lists, w, m)
    BY <1>1, <1>3, <1>6, <1>9, <1>10
  <2>2. m \in Seq(Sessions)
    BY <1>14
  <2> QED BY <1>12, <2>1, <2>2 DEF Upd
<1>16. \A r \in Sessions : sess'[r].id = h[r]
  BY <1>6, <1>11
<1>17. TypeOK'
  <2>1. ASSUME NEW o \in Owners, NEW i \in 1..Len(lists'[o]), NEW j \in 1..Len(lists'[o])
        PROVE  /\ sess'[lists'[o][i]].id # 0
               /\ sess'[lists'[o][i]].id = sess'[lists'[o][j]].id => i = j
    <3>1. lists'[o] \in Seq(Sessions)
      BY <1>15
    <3>2. lists'[o][i] \in Sessions /\ lists'[o][j] \in Sessions
      BY <3>1
    <3>3. h[lists'[o][i]] # 0 /\ (h[lists'[o][i]] = h[lists'[o][j]] => i = j)
      BY <1>13, <1>14, <1>15
    <3> QED BY <1>16, <3>2, <3>3
  <2>2. ctx' \in [Ctxs -> Context] /\ ctxes' \in Seq(Ctxs) /\ si' \in [thread : Threads \cup {NoThread}, count : Nat]
        /\ usable' \subseteq Sessions
    BY <1>4 DEF TypeOK
  <2> QED BY <1>1, <1>15, <2>1, <2>2 DEF TypeOK, Waiters
<1>18. HoldInv'
  BY <1>4, <1>5, <1>6, HoldLoad
<1>19. ShapeInv'
  BY <1>4, <1>5, <1>7 DEF ShapeInv, Good
<1>20. StackInv'
  BY <1>4, <1>5, <1>6, StackSet DEF Good
<1>21. \A o \in Owners : \A r \in Sessions : On(r, lists'[o]) => On(r, lists[o]) /\ r # s
  <2>1. On(s, lists[w])
    BY <1>4, <1>5, <1>6, <1>9 DEF Good, HomeInv
  <2>2. \A o \in Owners : On(s, lists[o]) => o = w
    BY <1>4, <1>6, <1>12, <2>1 DEF Good, HomeInv
  <2> QED BY <1>14, <1>15, <2>2
<1>22. HomeInv'
  <2>1. ASSUME NEW x \in Pl, Ref(fr'[x]) PROVE On(fr'[x].s, lists'[fr'[x].own])
    <3>1. x # p /\ fr'[x] = fr[x]
      BY <1>5, <1>7, <2>1
    <3>2. fr[x].s # s /\ fr[x].s \in Sessions /\ fr[x].own \in Owners
      BY <1>4, <1>8, <2>1, <3>1, FrameSays DEF Good
    <3>3. On(fr[x].s, lists[fr[x].own])
      BY <1>4, <2>1, <3>1 DEF Good, HomeInv
    <3> QED BY <1>14, <1>15, <3>1, <3>2, <3>3
  <2>2. \A o \in Owners : \A r \in Sessions : On(r, lists'[o]) => sess'[r].state = "live"
    BY <1>4, <1>21 DEF Good, HomeInv
  <2>3. \A o, q \in Owners : \A r \in Sessions : On(r, lists'[o]) /\ On(r, lists'[q]) => o = q
    BY <1>4, <1>21 DEF Good, HomeInv
  <2> QED BY <2>1, <2>2, <2>3 DEF HomeInv
<1>23. RefInv'
  <2>1. \A r \in Sessions : sess[r].ref \in Nat /\ sess'[r].ref = sess[r].ref
    BY <1>4, <1>6 DEF TypeOK, Session
  <2>2. \A r \in Sessions : /\ sess'[r].ref \in Nat
                            /\ sess'[r].ref + Has(fr[p], r) >= sess[r].ref + Has(g, r)
    BY <1>5, <2>1 DEF Has
  <2> QED BY <1>4, <1>6, <2>2, RefsKeep DEF Good
<1>24. GripInv'
  <2>1. Gone(g) => sess'[g.s].state = "freed"
    <3>1. Gone(g) => Grip(g)
      BY DEF Gone, Grip
    <3> QED BY <1>5, <1>6, <3>1
  <2>2. \A y \in Pl : y # p /\ Grip(fr[y]) /\ Ref(fr[y]) => sess'[fr[y].s].lock = sess[fr[y].s].lock
    BY <1>8
  <2>3. \A y \in Pl : y # p /\ Gone(fr[y]) => sess'[fr[y].s].state = "freed"
    <3>1. \A y \in Pl : Gone(fr[y]) => fr[y].s \in Sessions /\ sess[fr[y].s].state = "freed"
      BY <1>4, FrameSays DEF Good, GripInv
    <3> QED BY <3>1
  <2> QED BY <1>4, <1>5, <1>6, <2>1, <2>2, <2>3, GripKeep DEF Good
<1>25. LinkInv'
  <2>1. ASSUME NEW x \in Pl, Past(fr'[x])
        PROVE  sess'[fr'[x].s].ctx = fr'[x].c \/ (sess'[fr'[x].s].ctx = NoCtx /\ ~On(fr'[x].c, ctxes'))
    <3>1. x # p /\ fr'[x] = fr[x] /\ Past(fr[x])
      BY <1>5, <1>7, <2>1
    <3>2. Ref(fr[x])
      BY <1>4, <3>1, FrameSays DEF Good
    <3>3. sess'[fr[x].s] = sess[fr[x].s]
      BY <1>8, <3>1, <3>2
    <3> QED BY <1>4, <3>1, <3>3 DEF Good, LinkInv
  <2>2. ASSUME NEW x \in Pl, NullEnd(fr'[x]) PROVE sess'[fr'[x].s].ctx = NoCtx
    <3>1. x # p /\ fr'[x] = fr[x] /\ NullEnd(fr[x])
      BY <1>5, <1>7, <2>2
    <3>2. Ref(fr[x])
      BY <1>4, <3>1, FrameSays DEF Good
    <3>3. sess'[fr[x].s] = sess[fr[x].s]
      BY <1>8, <3>1, <3>2
    <3> QED BY <1>4, <3>1, <3>3 DEF Good, LinkInv
  <2> QED BY <2>1, <2>2 DEF LinkInv
<1>26. UsedInv'
  <2>1. \A x \in Pl : Uses(fr'[x]) => ctx'[fr'[x].c].state # "unused"
    <3>1. Uses(g) => Uses(f) /\ g.c = f.c
      BY <1>5 DEF Uses
    <3> QED BY <1>4, <1>7, <3>1 DEF Good, UsedInv
  <2>2. ASSUME NEW r \in Sessions, sess'[r].state = "live", sess'[r].ctx # NoCtx PROVE ctx'[sess'[r].ctx].state # "unused"
    <3>1. r # s /\ sess'[r] = sess[r]
      BY <2>2
    <3> QED BY <1>4, <2>2, <3>1 DEF Good, UsedInv
  <2>3. \A d \in Ctxs : On(d, ctxes') => ctx'[d].state = "live"
    BY <1>4 DEF Good, UsedInv
  <2>4. \A x \in Pl : Ending(fr'[x]) => ~On(fr'[x].c, ctxes')
    BY <1>4, <1>5, <1>7 DEF Good, UsedInv
  <2> QED BY <2>1, <2>2, <2>3, <2>4 DEF UsedInv
<1>27. CountInv'
  <2>1. ASSUME NEW d \in Ctxs PROVE ClaimsOn(sess', fr', d) = ClaimsOn(sess, fr, d)
    <3>1. NoCtx # d
      BY TaManagerAssumption DEF Ctxs
    <3>2. ASSUME NEW r \in Sessions, r # s
          PROVE  (\E x \in Pl : Claims(fr'[x]) /\ fr'[x].s = r /\ fr'[x].c = d) <=> (\E x \in Pl : Claims(fr[x]) /\ fr[x].s = r /\ fr[x].c = d)
      BY <1>4, <1>5, <1>6, <1>7, <3>2
    <3>3. (\E x \in Pl : Claims(fr'[x]) /\ fr'[x].s = s /\ fr'[x].c = d)
            <=> \/ sess[s].state = "live" /\ sess[s].ctx = d
                \/ \E x \in Pl : Claims(fr[x]) /\ fr[x].s = s /\ fr[x].c = d
      <4>1. \A x \in Pl : Claims(fr[x]) /\ fr[x].s = s => x = p
        <5>1. \A x \in Pl : Claims(fr[x]) => Grip(fr[x])
          BY <1>4, FrameSays DEF Good
        <5> QED BY <1>4, <1>5, <1>6, <5>1 DEF Good, GripInv
      <4>2. CASE f.via = "null"
        <5>1. sess[s].ctx = NoCtx
          BY <1>4, <1>5, <1>6, <4>2 DEF Good, LinkInv
        <5>2. \A x \in Pl : Claims(fr[x]) => fr[x].s # s
          BY <1>4, <1>5, <4>1, <4>2
        <5>3. \A x \in Pl : Claims(fr'[x]) => fr'[x].s # s
          BY <1>5, <1>7, <4>2, <5>2
        <5> QED BY <3>1, <5>1, <5>2, <5>3
      <4>3. CASE f.via # "null"
        <5>1. sess[s].ctx = f.c \/ sess[s].ctx = NoCtx
          BY <1>4, <1>5, <1>6, <4>3 DEF Good, LinkInv
        <5>2. Claims(fr'[p]) /\ fr'[p].s = s /\ fr'[p].c = f.c /\ Claims(fr[p]) /\ fr[p].s = s /\ fr[p].c = f.c
          BY <1>4, <1>5, <1>6, <1>7, <4>3
        <5>3. \A x \in Pl : Claims(fr'[x]) /\ fr'[x].s = s => x = p
          BY <1>7, <4>1
        <5> QED BY <1>4, <3>1, <4>1, <5>1, <5>2, <5>3
      <4> QED BY <4>2, <4>3
    <3>4. ASSUME NEW r \in Sessions PROVE r \in ClaimsOn(sess', fr', d) <=> r \in ClaimsOn(sess, fr, d)
      <4>1. CASE r = s
        BY <3>3, <4>1 DEF ClaimsOn
      <4>2. CASE r # s
        BY <3>2, <4>2 DEF ClaimsOn
      <4> QED BY <4>1, <4>2
    <3>5. ClaimsOn(sess', fr', d) \subseteq Sessions /\ ClaimsOn(sess, fr, d) \subseteq Sessions
      BY DEF ClaimsOn
    <3> QED BY <3>4, <3>5
  <2> QED BY <1>4, <2>1 DEF Good, CountInv
<1>28. LoadInv'
  BY <1>4 DEF Good, LoadInv
<1> QED BY <1>17, <1>18, <1>19, <1>20, <1>22, <1>23, <1>24, <1>25, <1>26, <1>27, <1>28 DEF AInv, Good

\* tee_ta_unlink_session keeps AInv.
LEMMA UnlinkA ==
    ASSUME AInv, NEW t \in Threads, Unlink(t)
    PROVE  AInv'
<1>1. PICK f : f = Top(t)
  OBVIOUS
<1>2. PICK s : s = f.s
  OBVIOUS
<1>3. PICK q : q = Broadcast(waitq, LockCv(s))
  OBVIOUS
<1>4. PICK e : e = [sess[s] EXCEPT !.unlink = TRUE]
  OBVIOUS
<1>5. PICK S : S = [sess EXCEPT ![s].unlink = TRUE]
  OBVIOUS
<1>6. /\ fault = "none" /\ stack[t] # <<>> /\ f.pc = "unlink" /\ UNCHANGED <<ctx, ctxes, si, usable>>
      /\ fault' = IF sess[s].ref >= 1 /\ sess[s].lock = t /\ ~sess[s].unlink THEN fault ELSE "assert"
      /\ \/ sess[s].ref > 1 /\ sess' = S /\ waitq' = Wait(q, t, RefcCv(s)) /\ Goto(t, "wait_refc") /\ UNCHANGED lists
         \/ ~(sess[s].ref > 1) /\ sess' = [S EXCEPT ![s].state = "freed"] /\ waitq' = q /\ FreeSession(t)
  BY <1>1, <1>2, <1>3, <1>5 DEF Unlink, At, CAssert
<1>7. f \in Frame /\ Shape(f) /\ TypeOK /\ Good /\ fr[TopP(t)] = f /\ TopP(t) \in Pl /\ TopP(t)[1] = t
  BY <1>1, <1>6, AtSays
<1>8. f.op = "close" /\ s \in Sessions /\ Ref(f) /\ Grip(f)
  BY <1>2, <1>6, <1>7 DEF Shape, OpenShape, InvokeShape, CloseShape, LivePcs, BusyPcs, EndPcs, Frame, Ref, Grip
<1>9. sess[s] \in Session /\ sess \in [Sessions -> Session]
  BY <1>7, <1>8 DEF TypeOK
<1>10. /\ e \in Session /\ e.state = sess[s].state /\ e.id = sess[s].id /\ e.ctx = sess[s].ctx
       /\ e.ref = sess[s].ref /\ e.lock = sess[s].lock
  BY <1>4, <1>9 DEF Session
<1>11. S = Upd(sess, s, e)
  BY <1>4, <1>5, <1>9 DEF Upd
<1>12. S \in [Sessions -> Session] /\ S[s] = e /\ \A r \in Sessions : r # s => S[r] = sess[r]
  BY <1>8, <1>9, <1>10, <1>11 DEF Upd
<1>13. sess[s].ref >= 1 /\ sess[s].ref \in Nat
  <2>1. RefInv /\ Ref(fr[TopP(t)]) /\ fr[TopP(t)].s = s
    BY <1>2, <1>7, <1>8 DEF Good
  <2> QED BY <1>7, <1>8, <2>1, RefHeld
<1>14. fault' \in Faults /\ usable' \subseteq Sessions /\ q \in Seq(Waiters)
  <2>1. waitq \in Seq(Waiters) /\ usable \subseteq Sessions /\ fault \in Faults
    BY <1>7 DEF TypeOK, Waiters
  <2>2. q \in Seq(Waiters)
    BY <1>3, <2>1, BroadcastFacts
  <2> QED BY <1>6, <2>1, <2>2 DEF Faults
<1>15. CASE sess' = S /\ waitq' = Wait(q, t, RefcCv(s)) /\ Goto(t, "wait_refc") /\ UNCHANGED lists
  <2>1. PICK g : g = [f EXCEPT !.pc = "wait_refc"]
    OBVIOUS
  <2>2. /\ g \in Frame /\ g.pc = "wait_refc" /\ g.op = f.op /\ g.own = f.own /\ g.s = f.s /\ g.c = f.c
        /\ g.via = f.via /\ g.id = f.id
    BY <1>7, <2>1 DEF Frame, Pcs
  <2>3. SetTop(t, g)
    BY <1>1, <1>15, <2>1 DEF Goto
  <2>4. waitq' \in Seq(Waiters)
    BY <1>8, <1>14, <1>15, WaitType, CvsAre
  <2>5. /\ sess' \in [Sessions -> Session] /\ SessLike /\ sess'[s] = e
        /\ \A r \in Sessions : r # s => sess'[r] = sess[r]
    BY <1>7, <1>8, <1>10, <1>11, <1>15, SessSet
  <2>6. StepOK(f, g) /\ Ref(g) /\ Grip(g) /\ ~Gone(g)
    <3>1. Shape(g)
      BY <1>6, <1>7, <1>8, <2>2 DEF Shape, CloseShape, LivePcs, BusyPcs, EndPcs
    <3>2. Ref(g) /\ Grip(g) /\ ~Gone(g) /\ ~Ending(g) /\ (Past(g) <=> Past(f)) /\ (Claims(g) <=> Claims(f)) /\ (NullEnd(g) => NullEnd(f))
      BY <1>6, <1>8, <2>2 DEF Ref, Grip, Gone, Ending, EndPcs, Past, Claims, NullEnd, LivePcs, BusyPcs
    <3>3. NullEnd(g) => sess[g.s].ctx = NoCtx
      BY <1>2, <1>7, <2>2, <3>2 DEF Good, LinkInv
    <3> QED BY <1>8, <2>2, <3>1, <3>2, <3>3 DEF StepOK, LinkOK
  <2>7. HoldsBusy(g) => HoldsBusy(f) /\ g.c = f.c
    BY <1>6, <2>2 DEF HoldsBusy
  <2>8. \A r \in Sessions : sess'[r].ref + Has(f, r) >= sess[r].ref + Has(g, r)
    <3>1. \A r \in Sessions : sess[r].ref \in Nat
      BY <1>7 DEF TypeOK, Session
    <3> QED BY <1>8, <1>10, <2>2, <2>5, <2>6, <3>1 DEF Has
  <2>9. GripsTo(TopP(t), g)
    <3>1. \A y \in Pl : Ref(fr[y]) => fr[y].s \in Sessions
      BY <1>7, FrameSays DEF Good
    <3>2. sess[s].lock = t
      BY <1>2, <1>7, <1>8 DEF Good, GripInv
    <3> QED BY <1>2, <1>7, <1>8, <1>10, <2>2, <2>5, <2>6, <3>1, <3>2 DEF GripsTo
  <2> QED BY <1>1, <1>6, <1>14, <1>15, <2>2, <2>3, <2>4, <2>5, <2>6, <2>7, <2>8, <2>9, SetRef
<1>16. CASE ~(sess[s].ref > 1) /\ sess' = [S EXCEPT ![s].state = "freed"] /\ waitq' = q /\ FreeSession(t)
  <2>1. sess[s].ref = 1
    BY <1>13, <1>16
  <2>2. PICK d : d = [e EXCEPT !.state = "freed"]
    OBVIOUS
  <2>3. d \in Session /\ d.state = "freed" /\ d.id = sess[s].id /\ d.ref = 1 /\ d.lock = sess[s].lock
    BY <1>10, <2>1, <2>2 DEF Session
  <2>4. sess' = Upd(S, s, d)
    BY <1>12, <1>16, <2>2 DEF Upd
  <2>5. sess' \in [Sessions -> Session] /\ sess'[s] = d /\ \A r \in Sessions : r # s => sess'[r] = sess[r]
    BY <1>8, <1>12, <2>3, <2>4 DEF Upd
  <2>6. /\ fault = "none" /\ stack[t] # <<>> /\ UNCHANGED <<ctx, ctxes, si, usable>> /\ FreeSession(t)
        /\ Top(t).op = "close" /\ Top(t).pc \in {"unlink", "wait_refc"} /\ s = Top(t).s
        /\ waitq' \in Seq(Waiters) /\ fault' \in Faults
    BY <1>1, <1>2, <1>6, <1>8, <1>14, <1>16
  <2>7. sess'[s].state = "freed" /\ sess'[s].id = sess[s].id /\ sess'[s].ref = 1 /\ sess'[s].lock = sess[s].lock
    BY <2>3, <2>5
  <2> QED BY <2>1, <2>5, <2>6, <2>7, FreeA
<1> QED BY <1>6, <1>15, <1>16

\* A thread that wakes up in tee_ta_unlink_session keeps AInv.
LEMMA UnlinkWokenA ==
    ASSUME AInv, NEW t \in Threads, UnlinkWoken(t)
    PROVE  AInv'
<1>1. PICK f : f = Top(t)
  OBVIOUS
<1>2. PICK s : s = f.s
  OBVIOUS
<1>3. /\ fault = "none" /\ stack[t] # <<>> /\ f.pc = "wait_refc" /\ UNCHANGED <<ctx, ctxes, si, usable, fault>>
      /\ \/ waitq' = Wait(waitq, t, RefcCv(s)) /\ UNCHANGED <<sess, lists, stack>>
         \/ sess[s].ref = 1 /\ sess' = [sess EXCEPT ![s].state = "freed"] /\ FreeSession(t) /\ UNCHANGED waitq
  BY <1>1, <1>2 DEF UnlinkWoken, At
<1>4. f \in Frame /\ Shape(f) /\ TypeOK /\ Good
  BY <1>1, <1>3, AtSays
<1>5. f.op = "close" /\ s \in Sessions
  BY <1>2, <1>3, <1>4 DEF Shape, OpenShape, InvokeShape, CloseShape, LivePcs, BusyPcs, EndPcs, Frame
<1>6. waitq \in Seq(Waiters) /\ fault' \in Faults /\ usable' \subseteq Sessions
  BY <1>3, <1>4 DEF TypeOK, Waiters
<1>7. CASE waitq' = Wait(waitq, t, RefcCv(s)) /\ UNCHANGED <<sess, lists, stack>>
  <2>1. waitq' \in Seq(Waiters)
    BY <1>5, <1>6, <1>7, WaitType, CvsAre
  <2> QED BY <1>3, <1>7, <2>1, StillA
<1>8. CASE sess[s].ref = 1 /\ sess' = [sess EXCEPT ![s].state = "freed"] /\ FreeSession(t) /\ UNCHANGED waitq
  <2>1. sess[s] \in Session /\ sess \in [Sessions -> Session]
    BY <1>4, <1>5 DEF TypeOK
  <2>2. PICK d : d = [sess[s] EXCEPT !.state = "freed"]
    OBVIOUS
  <2>3. d \in Session /\ d.state = "freed" /\ d.id = sess[s].id /\ d.ref = 1 /\ d.lock = sess[s].lock
    BY <1>8, <2>1, <2>2 DEF Session
  <2>4. sess' = Upd(sess, s, d)
    BY <1>8, <2>1, <2>2 DEF Upd
  <2>5. sess' \in [Sessions -> Session] /\ sess'[s] = d /\ \A r \in Sessions : r # s => sess'[r] = sess[r]
    BY <1>5, <2>1, <2>3, <2>4 DEF Upd
  <2> QED BY <1>1, <1>2, <1>3, <1>5, <1>6, <1>8, <2>3, <2>5, FreeA
<1> QED BY <1>3, <1>7, <1>8

\* The context of tee_ta_close_session loses a reference, and may leave tee_ctxes.
Drops(t, p, f, c, g) ==
    /\ fault = "none" /\ stack[t] # <<>> /\ f = Top(t) /\ p = TopP(t) /\ f.op = "close" /\ f.pc = "release" /\ f.via # "null"
    /\ c = f.c /\ c \in Ctxs /\ ctx[c].state = "live" /\ ctx[c].ref \in Nat /\ ctx[c].ref >= 1
    /\ fault' = fault /\ Moved(p, g) /\ stack' \in [Threads -> Seq(Frame)]
    /\ ctx' \in [Ctxs -> Context] /\ (\A d \in Ctxs : d # c => ctx'[d] = ctx[d])
    /\ ctx'[c].state = ctx[c].state /\ ctx'[c].u = ctx[c].u /\ ctx'[c].loaded = ctx[c].loaded /\ ctx'[c].busy = ctx[c].busy
    /\ ctx'[c].initializing = ctx[c].initializing /\ ctx'[c].panicked = ctx[c].panicked
    /\ ctx'[c].ref = ctx[c].ref - 1
    /\ \/ /\ ctx[c].ref = 1 /\ ~({"keep", "single"} \subseteq CtxFlags(c))
          /\ g \in Frame /\ g.op = "close" /\ g.pc = "destroy" /\ g.own = f.own /\ g.s = f.s /\ g.c = c /\ g.via = f.via
          /\ g.id = f.id
          /\ ctxes' \in Seq(Ctxs) /\ \A d \in Ctxs : On(d, ctxes') <=> On(d, ctxes) /\ d # c
       \/ /\ ctx[c].ref # 1 \/ {"keep", "single"} \subseteq CtxFlags(c)
          /\ g = Null /\ UNCHANGED ctxes
    /\ UNCHANGED <<sess, lists, si, waitq, usable>>

\* The sessions that count for the context of a frame at release lose one.
LEMMA ReleaseClaims ==
    ASSUME TypeOK, Good, NEW p \in Pl, Claims(fr[p]), Gone(fr[p])
    PROVE  /\ fr[p].s \in ClaimsOn(sess, fr, fr[p].c)
           /\ sess[fr[p].s].state # "live"
           /\ \A x \in Pl : Claims(fr[x]) /\ fr[x].s = fr[p].s => x = p
           /\ \A d \in Ctxs : /\ IsFiniteSet(ClaimsOn(sess, fr, d)) /\ Cardinality(ClaimsOn(sess, fr, d)) \in Nat
                              /\ Cardinality(ClaimsOn(sess, fr, d)) <= ctx[d].ref
           /\ ctx[fr[p].c].ref \in Nat /\ ctx[fr[p].c].ref >= 1
<1>1. fr[p].s \in Sessions /\ fr[p].c \in Ctxs /\ Grip(fr[p])
  BY FrameSays DEF Good, Uses
<1>2. fr[p].s \in ClaimsOn(sess, fr, fr[p].c)
  BY <1>1 DEF ClaimsOn
<1>3. sess[fr[p].s].state # "live"
  BY DEF Good, GripInv
<1>4. \A x \in Pl : Claims(fr[x]) /\ fr[x].s = fr[p].s => x = p
  <2>1. \A x \in Pl : Claims(fr[x]) => Grip(fr[x])
    BY FrameSays DEF Good
  <2> QED BY <1>1, <2>1 DEF Good, GripInv
<1>5. ASSUME NEW d \in Ctxs PROVE /\ IsFiniteSet(ClaimsOn(sess, fr, d)) /\ Cardinality(ClaimsOn(sess, fr, d)) \in Nat
                                  /\ Cardinality(ClaimsOn(sess, fr, d)) <= ctx[d].ref
  <2>1. IsFiniteSet(Sessions)
    <3>1. NumSessions \in Nat /\ 1 \in Int
      BY TaManagerAssumption
    <3> QED BY <3>1, FS_Interval DEF Sessions
  <2>2. ClaimsOn(sess, fr, d) \subseteq Sessions
    BY DEF ClaimsOn
  <2>3. IsFiniteSet(ClaimsOn(sess, fr, d))
    BY <2>1, <2>2, FS_Subset
  <2>4. Cardinality(ClaimsOn(sess, fr, d)) <= ctx[d].ref
    BY DEF Good, CountInv
  <2> QED BY <2>3, <2>4, FS_CardinalityType
<1>6. ctx[fr[p].c].ref \in Nat /\ ctx[fr[p].c].ref >= 1
  <2>1. PICK C : C = ClaimsOn(sess, fr, fr[p].c)
    OBVIOUS
  <2>2. IsFiniteSet(C) /\ C # {} /\ Cardinality(C) <= ctx[fr[p].c].ref /\ Cardinality(C) \in Nat
    BY <1>1, <1>2, <1>5, <2>1
  <2>3. Cardinality(C) # 0
    BY <2>2, FS_EmptySet
  <2>4. ctx[fr[p].c].ref \in Nat
    BY <1>1 DEF TypeOK, Context
  <2> QED BY <2>2, <2>3, <2>4
<1> QED BY <1>2, <1>3, <1>4, <1>5, <1>6

\* The end of tee_ta_close_session in terms of frames.
LEMMA ReleaseIs ==
    ASSUME AInv, NEW t \in Threads, Release(t)
    PROVE  \E p, f, c, g : Drops(t, p, f, c, g)
<1>1. PICK f : f = Top(t)
  OBVIOUS
<1>2. PICK c : c = f.c
  OBVIOUS
<1>3. PICK p : p = TopP(t)
  OBVIOUS
<1>4. /\ fault = "none" /\ stack[t] # <<>> /\ f.pc = "release" /\ Valid(t)
      /\ fault' = IF ctx[c].ref = 0 THEN "panic" ELSE fault
      /\ ctx' = [ctx EXCEPT ![c].ref = @ - 1]
      /\ \/ /\ ctx[c].ref = 1 /\ ~({"keep", "single"} \subseteq CtxFlags(c))
            /\ ctxes' = Without(ctxes, {c}) /\ SetTop(t, [f EXCEPT !.pc = "destroy"])
         \/ /\ ctx[c].ref # 1 \/ {"keep", "single"} \subseteq CtxFlags(c)
            /\ Return(t) /\ UNCHANGED ctxes
      /\ UNCHANGED <<sess, lists, si, waitq, usable>>
  BY <1>1, <1>2 DEF Release, At, Goto
<1>5. /\ TypeOK /\ Good /\ p \in Pl /\ fr[p] = f /\ f \in Frame /\ Shape(f) /\ stack \in [Threads -> Seq(Frame)]
  BY <1>1, <1>3, <1>4, AtSays
<1>6. f.op = "close" /\ f.via # "null" /\ Claims(f) /\ Gone(f) /\ f.pc \in DerefPcs
  BY <1>4, <1>5 DEF Shape, OpenShape, InvokeShape, CloseShape, LivePcs, BusyPcs, EndPcs, Frame, Claims, Gone, DerefPcs
<1>7. c \in Ctxs /\ ctx[c].state = "live"
  BY <1>1, <1>2, <1>4, <1>6, DerefIs
<1>8. ctx[c].ref \in Nat /\ ctx[c].ref >= 1
  BY <1>2, <1>5, <1>6, ReleaseClaims
<1>9. PICK n : n = ctx[c].ref - 1
  OBVIOUS
<1>10. PICK e : e = [ctx[c] EXCEPT !.ref = n]
  OBVIOUS
<1>11. ctx[c] \in Context /\ ctx \in [Ctxs -> Context] /\ n \in Nat
  BY <1>5, <1>7, <1>8, <1>9 DEF TypeOK
<1>12. /\ e \in Context /\ e.state = ctx[c].state /\ e.u = ctx[c].u /\ e.loaded = ctx[c].loaded /\ e.busy = ctx[c].busy
       /\ e.initializing = ctx[c].initializing /\ e.panicked = ctx[c].panicked /\ e.ref = n
  BY <1>10, <1>11 DEF Context
<1>13. ctx' = Upd(ctx, c, e)
  BY <1>4, <1>9, <1>10 DEF Upd
<1>14. ctx' \in [Ctxs -> Context] /\ ctx'[c] = e /\ (\A d \in Ctxs : d # c => ctx'[d] = ctx[d])
  BY <1>7, <1>11, <1>12, <1>13 DEF Upd
<1>15. ctxes \in Seq(Ctxs) /\ fault' = fault
  BY <1>4, <1>5, <1>8 DEF TypeOK
<1>16. CASE /\ ctx[c].ref = 1 /\ ~({"keep", "single"} \subseteq CtxFlags(c))
            /\ ctxes' = Without(ctxes, {c}) /\ SetTop(t, [f EXCEPT !.pc = "destroy"])
  <2>1. PICK g : g = [f EXCEPT !.pc = "destroy"]
    OBVIOUS
  <2>2. /\ g \in Frame /\ g.op = f.op /\ g.pc = "destroy" /\ g.own = f.own /\ g.s = f.s /\ g.c = c /\ g.via = f.via /\ g.id = f.id
    <3>1. "destroy" \in Pcs
      BY DEF Pcs
    <3> QED BY <1>2, <1>5, <2>1, <3>1, GotoIs
  <2>3. Moved(p, g) /\ stack' \in [Threads -> Seq(Frame)]
    BY <1>3, <1>4, <1>5, <1>16, <2>1, <2>2, MoveSet
  <2>4. ctxes' \in Seq(Ctxs) /\ \A d \in Ctxs : On(d, ctxes') <=> On(d, ctxes) /\ d # c
    BY <1>7, <1>15, <1>16, CtxesWithout
  <2>5. Drops(t, p, f, c, g)
    BY <1>1, <1>2, <1>3, <1>4, <1>6, <1>7, <1>8, <1>9, <1>12, <1>14, <1>15, <1>16, <2>2, <2>3, <2>4 DEF Drops
  <2> QED BY <2>5
<1>17. CASE /\ ctx[c].ref # 1 \/ {"keep", "single"} \subseteq CtxFlags(c)
            /\ Return(t) /\ UNCHANGED ctxes
  <2>1. Moved(p, Null) /\ stack' \in [Threads -> Seq(Frame)]
    BY <1>3, <1>4, <1>5, <1>17, MovePop
  <2>2. Drops(t, p, f, c, Null)
    BY <1>1, <1>2, <1>3, <1>4, <1>6, <1>7, <1>8, <1>9, <1>12, <1>14, <1>15, <1>17, <2>1 DEF Drops
  <2> QED BY <2>2
<1> QED BY <1>4, <1>16, <1>17

\* The end of tee_ta_close_session keeps AInv.
LEMMA ReleaseA ==
    ASSUME AInv, NEW t \in Threads, Release(t)
    PROVE  AInv'
<1>1. PICK p, f, c, g : Drops(t, p, f, c, g)
  BY ReleaseIs
<1>2. /\ fault = "none" /\ stack[t] # <<>> /\ f = Top(t) /\ p = TopP(t) /\ f.op = "close" /\ f.pc = "release" /\ f.via # "null"
      /\ c = f.c /\ c \in Ctxs /\ ctx[c].state = "live" /\ ctx[c].ref \in Nat /\ ctx[c].ref >= 1
      /\ fault' = fault /\ Moved(p, g) /\ stack' \in [Threads -> Seq(Frame)]
      /\ ctx' \in [Ctxs -> Context] /\ (\A d \in Ctxs : d # c => ctx'[d] = ctx[d])
      /\ ctx'[c].state = ctx[c].state /\ ctx'[c].u = ctx[c].u /\ ctx'[c].loaded = ctx[c].loaded /\ ctx'[c].busy = ctx[c].busy
      /\ ctx'[c].ref = ctx[c].ref - 1
      /\ UNCHANGED <<sess, lists, si, waitq, usable>>
  BY <1>1 DEF Drops
<1>3. /\ TypeOK /\ HoldInv /\ Good /\ p \in Pl /\ fr[p] = f /\ f \in Frame /\ f # Null /\ Shape(f)
      /\ fr[<<p[1], p[2] + 1>>] = Null
  BY <1>2, AtSays
<1>4. ctxes' \in Seq(Ctxs) /\ (\A d \in Ctxs : On(d, ctxes') => On(d, ctxes)) /\ (g # Null => ~On(c, ctxes'))
  BY <1>1, <1>2, <1>3 DEF Drops, TypeOK
<1>5. /\ Shape(g) /\ ~Ref(g) /\ ~Past(g) /\ ~NullEnd(g) /\ ~Claims(g) /\ ~Grip(g) /\ ~Gone(g) /\ ~HoldsBusy(g)
      /\ (Ending(g) => g.c = c /\ g # Null) /\ (g # Null => g.own = f.own /\ g.op = "close")
  <2>1. CASE g = Null
    <3>1. Shape(g)
      BY <2>1 DEF Shape, Null
    <3> QED BY <2>1, <3>1 DEF Null, Ref, Past, Claims, Ending, NullEnd, EndPcs, Grip, Gone, HoldsBusy
  <2>2. CASE /\ g \in Frame /\ g.op = "close" /\ g.pc = "destroy" /\ g.own = f.own /\ g.s = f.s /\ g.c = c /\ g.via = f.via
    <3>1. f.s \in Sessions
      BY <1>2, <1>3 DEF Shape, CloseShape
    <3>2. Shape(g)
      BY <1>2, <2>2, <3>1 DEF Shape, CloseShape, LivePcs, BusyPcs, EndPcs
    <3>3. g # Null
      BY <2>2 DEF Null
    <3> QED BY <2>2, <3>2, <3>3 DEF Ref, Past, Claims, Ending, NullEnd, EndPcs, Grip, Gone, HoldsBusy, LivePcs, BusyPcs
  <2> QED BY <1>1, <2>1, <2>2 DEF Drops
<1>6. Claims(f) /\ Gone(f) /\ Uses(f)
  BY <1>2 DEF Claims, Gone, Uses
<1>7. fr'[p] = g /\ \A x \in Pl : x # p => fr'[x] = fr[x]
  BY <1>2 DEF Moved
<1>8. TypeOK'
  <2>1. si' \in [thread : Threads \cup {NoThread}, count : Nat] /\ waitq' \in Seq([t : Threads, cv : Cvs])
        /\ usable' \subseteq Sessions /\ fault' \in Faults /\ sess' \in [Sessions -> Session]
    BY <1>2, <1>3 DEF TypeOK
  <2>2. \A s \in Sessions : sess'[s].id = sess[s].id
    BY <1>2
  <2> QED BY <1>2, <1>3, <1>4, <2>1, <2>2, TypeStep
<1>9. HoldInv'
  <2>1. \A d \in Ctxs : ctx'[d].u = ctx[d].u /\ ctx'[d].busy = ctx[d].busy /\ (ctx[d].loaded => ctx'[d].loaded)
    BY <1>2
  <2> QED BY <1>2, <1>3, <1>5, <2>1, HoldLoad
<1>10. ShapeInv' /\ StackInv' /\ LoadInv'
  <2>1. ShapeInv'
    BY <1>3, <1>5, <1>7 DEF Good, ShapeInv
  <2>2. StackInv'
    BY <1>2, <1>3, <1>5, StackSet DEF Good
  <2>3. LoadInv'
    BY <1>2, <1>3 DEF Good, LoadInv
  <2> QED BY <2>1, <2>2, <2>3
<1>11. HomeInv'
  <2>1. \A x \in Pl : Ref(fr'[x]) => On(fr'[x].s, lists'[fr'[x].own])
    BY <1>2, <1>3, <1>5, <1>7 DEF Good, HomeInv
  <2>2. \A o \in Owners : \A r \in Sessions : On(r, lists'[o]) => sess'[r].state = "live"
    BY <1>2, <1>3 DEF Good, HomeInv
  <2>3. \A o, q \in Owners : \A r \in Sessions : On(r, lists'[o]) /\ On(r, lists'[q]) => o = q
    BY <1>2, <1>3 DEF Good, HomeInv
  <2> QED BY <2>1, <2>2, <2>3 DEF HomeInv
<1>12. RefInv' /\ GripInv'
  <2>1. GripOK(f, g)
    BY <1>5 DEF GripOK
  <2> QED BY <1>2, <1>3, <2>1, GripQuiet DEF Good
<1>13. LinkInv'
  <2>1. ASSUME NEW x \in Pl, Past(fr'[x])
        PROVE  sess'[fr'[x].s].ctx = fr'[x].c \/ (sess'[fr'[x].s].ctx = NoCtx /\ ~On(fr'[x].c, ctxes'))
    <3>1. x # p /\ fr'[x] = fr[x] /\ Past(fr[x])
      BY <1>5, <1>7, <2>1
    <3>2. fr[x].c \in Ctxs
      BY <1>3, <3>1, FrameSays DEF Good, Uses
    <3> QED BY <1>2, <1>3, <1>4, <3>1, <3>2 DEF Good, LinkInv
  <2>2. \A x \in Pl : NullEnd(fr'[x]) => sess'[fr'[x].s].ctx = NoCtx
    BY <1>2, <1>3, <1>5, <1>7 DEF Good, LinkInv
  <2> QED BY <2>1, <2>2 DEF LinkInv
<1>14. UsedInv'
  <2>1. \A d \in Ctxs : ctx'[d].state = ctx[d].state
    BY <1>2
  <2>2. \A x \in Pl : Uses(fr[x]) => fr[x].c \in Ctxs /\ ctx[fr[x].c].state # "unused"
    <3>1. \A x \in Pl : Uses(fr[x]) => fr[x].c \in Ctxs
      BY <1>3, FrameSays DEF Good
    <3> QED BY <1>3, <3>1 DEF Good, UsedInv
  <2>3. \A x \in Pl : Uses(fr'[x]) => ctx'[fr'[x].c].state # "unused"
    <3>1. Uses(g) => g.c = c
      BY <1>5 DEF Uses
    <3> QED BY <1>2, <1>7, <2>1, <2>2, <3>1
  <2>4. ASSUME NEW r \in Sessions, sess'[r].state = "live", sess'[r].ctx # NoCtx PROVE ctx'[sess'[r].ctx].state # "unused"
    <3>1. sess[r].ctx \in Ctxs
      BY <1>2, <1>3, <2>4 DEF TypeOK, Session
    <3> QED BY <1>2, <1>3, <2>1, <2>4, <3>1 DEF Good, UsedInv
  <2>5. \A d \in Ctxs : On(d, ctxes') => ctx'[d].state = "live"
    BY <1>3, <1>4, <2>1 DEF Good, UsedInv
  <2>6. ASSUME NEW x \in Pl, Ending(fr'[x]) PROVE ~On(fr'[x].c, ctxes')
    <3>1. CASE x = p
      BY <1>4, <1>5, <1>7, <2>6, <3>1
    <3>2. CASE x # p
      <4>1. Ending(fr[x]) /\ fr'[x] = fr[x] /\ Uses(fr[x])
        BY <1>7, <2>6, <3>2 DEF Uses
      <4> QED BY <1>3, <1>4, <2>2, <4>1 DEF Good, UsedInv
    <3> QED BY <3>1, <3>2
  <2> QED BY <2>3, <2>4, <2>5, <2>6 DEF UsedInv
<1>15. CountInv'
  <2> SUFFICES ASSUME NEW d \in Ctxs
               PROVE  /\ Cardinality(ClaimsOn(sess', fr', d)) <= ctx'[d].ref
                      /\ On(d, ctxes') => Cardinality(ClaimsOn(sess', fr', d)) = ctx'[d].ref
    BY DEF CountInv
  <2>1. PICK A : A = ClaimsOn(sess, fr, d)
    OBVIOUS
  <2>2. PICK B : B = ClaimsOn(sess', fr', d)
    OBVIOUS
  <2>3. /\ f.s \in ClaimsOn(sess, fr, c) /\ sess[f.s].state # "live"
        /\ \A x \in Pl : Claims(fr[x]) /\ fr[x].s = f.s => x = p
        /\ IsFiniteSet(A) /\ Cardinality(A) \in Nat /\ Cardinality(A) <= ctx[d].ref
    BY <1>2, <1>3, <1>6, <2>1, ReleaseClaims
  <2>4. A \subseteq Sessions /\ B \subseteq Sessions
    BY <2>1, <2>2 DEF ClaimsOn
  <2>5. \A r \in Sessions : r \in B <=> (r \in A /\ (r # f.s \/ d # c))
    <3> TAKE r \in Sessions
    <3>1. (\E x \in Pl : Claims(fr'[x]) /\ fr'[x].s = r /\ fr'[x].c = d)
             <=> (\E x \in Pl : x # p /\ Claims(fr[x]) /\ fr[x].s = r /\ fr[x].c = d)
      BY <1>5, <1>7
    <3>2. CASE r # f.s \/ d # c
      <4>1. (\E x \in Pl : x # p /\ Claims(fr[x]) /\ fr[x].s = r /\ fr[x].c = d)
               <=> (\E x \in Pl : Claims(fr[x]) /\ fr[x].s = r /\ fr[x].c = d)
        BY <1>2, <1>3, <3>2
      <4> QED BY <1>2, <2>1, <2>2, <3>1, <3>2, <4>1 DEF ClaimsOn
    <3>3. CASE r = f.s /\ d = c
      <4>1. ~(\E x \in Pl : x # p /\ Claims(fr[x]) /\ fr[x].s = r /\ fr[x].c = d)
        BY <2>3, <3>3
      <4> QED BY <1>2, <2>2, <2>3, <3>1, <3>3, <4>1 DEF ClaimsOn
    <3> QED BY <3>2, <3>3
  <2>6. On(d, ctxes) => Cardinality(A) = ctx[d].ref
    BY <1>3, <2>1 DEF Good, CountInv
  <2>7. CASE d # c
    <3>1. B = A
      BY <2>4, <2>5, <2>7
    <3> QED BY <1>2, <1>4, <2>2, <2>3, <2>6, <2>7, <3>1
  <2>8. CASE d = c
    <3>1. B = A \ {f.s} /\ f.s \in A
      BY <2>1, <2>3, <2>4, <2>5, <2>8
    <3>2. Cardinality(B) = Cardinality(A) - 1
      BY <2>3, <3>1, FS_RemoveElement
    <3> QED BY <1>2, <1>4, <2>2, <2>3, <2>6, <2>8, <3>2
  <2> QED BY <2>7, <2>8
<1> QED BY <1>8, <1>9, <1>10, <1>11, <1>12, <1>13, <1>14, <1>15 DEF AInv, Good

\* In the initial states no thread is in a call.
LEMMA InitFr == ASSUME Init PROVE \A x \in Pl : fr[x] = Null
<1> SUFFICES ASSUME NEW x \in Pl PROVE fr[x] = Null
  OBVIOUS
<1>1. x[1] \in Threads /\ x[2] \in Nat /\ x[2] # 0
  BY DEF Pl, Depth
<1>2. stack[x[1]] = <<>>
  BY <1>1 DEF Init
<1>3. ~(x[2] <= Len(stack[x[1]]))
  BY <1>1, <1>2
<1>4. fr[x] = IF x[2] <= Len(stack[x[1]]) THEN stack[x[1]][x[2]] ELSE Null
  BY DEF fr
<1> QED BY <1>3, <1>4

\* No frame: no reference, no session, no context.
LEMMA NullSays ==
    /\ Shape(Null) /\ ~Ref(Null) /\ ~Past(Null) /\ ~NullEnd(Null) /\ ~Claims(Null) /\ ~Grip(Null) /\ ~Gone(Null)
    /\ ~HoldsBusy(Null) /\ ~Ending(Null) /\ ~Uses(Null)
<1>1. Shape(Null)
  BY DEF Shape, Null
<1> QED BY <1>1 DEF Null, Ref, Past, Claims, Ending, NullEnd, EndPcs, Grip, Gone, HoldsBusy, Uses

\* The initial states have the right type.
LEMMA InitType == ASSUME Init PROVE TypeOK
<1>1. NullSession \in Session
  BY TaManagerAssumption DEF NullSession, Session
<1>2. NullContext \in Context
  BY AnyUuidIs DEF NullContext, Context
<1>3. sess \in [Sessions -> Session] /\ ctx \in [Ctxs -> Context]
  BY <1>1, <1>2 DEF Init
<1>4. ctxes \in Seq(Ctxs) /\ lists \in [Owners -> Seq(Sessions)] /\ waitq \in Seq([t : Threads, cv : Cvs])
      /\ stack \in [Threads -> Seq(Frame)]
  BY DEF Init
<1>5. si \in [thread : Threads \cup {NoThread}, count : Nat] /\ usable \subseteq Sessions /\ fault \in Faults
  BY DEF Init, Faults
<1>6. \A o \in Owners : lists[o] = <<>>
  BY DEF Init
<1>7. \A o \in Owners : 1..Len(lists[o]) = {}
  BY <1>6
<1> QED BY <1>3, <1>4, <1>5, <1>7 DEF TypeOK

\* The initial states satisfy AInv.
LEMMA InitA == ASSUME Init PROVE AInv
<1>1. \A x \in Pl : fr[x] = Null
  BY InitFr
<1>2. TypeOK
  BY InitType
<1>3. HoldInv /\ ShapeInv /\ StackInv
  BY <1>1, NullSays DEF HoldInv, ShapeInv, StackInv
<1>4. \A s \in Sessions : sess[s] = NullSession
  BY DEF Init
<1>5. \A c \in Ctxs : ctx[c] = NullContext
  BY DEF Init
<1>6. \A s : \A o \in Owners : ~On(s, lists[o])
  <2>1. \A o \in Owners : lists[o] = <<>>
    BY DEF Init
  <2>2. \A o \in Owners : 1..Len(lists[o]) = {}
    BY <2>1
  <2> QED BY <2>2 DEF On
<1>7. \A c : ~On(c, ctxes)
  <2>1. ctxes = <<>>
    BY DEF Init
  <2> QED BY <2>1 DEF On
<1>8. HomeInv
  BY <1>1, <1>6, NullSays DEF HomeInv
<1>9. RefInv
  <2>1. \A s \in Sessions : Refs(fr, s) = {}
    BY <1>1, NullSays DEF Refs
  <2>2. \A s \in Sessions : sess[s].ref \in Nat
    BY <1>2 DEF TypeOK, Session
  <2> QED BY <2>1, <2>2, FS_EmptySet DEF RefInv
<1>10. GripInv /\ LinkInv
  BY <1>1, NullSays DEF GripInv, LinkInv
<1>11. UsedInv
  <2>1. \A s \in Sessions : sess[s].state # "live"
    BY <1>4 DEF NullSession
  <2> QED BY <1>1, <1>7, <2>1, NullSays DEF UsedInv
<1>12. CountInv
  <2>1. \A c \in Ctxs : ClaimsOn(sess, fr, c) = {}
    <3>1. \A s \in Sessions : sess[s].state # "live"
      BY <1>4 DEF NullSession
    <3>2. \A x \in Pl : ~Claims(fr[x])
      BY <1>1, NullSays
    <3> QED BY <3>1, <3>2 DEF ClaimsOn
  <2>2. \A c \in Ctxs : ctx[c].ref \in Nat
    BY <1>2 DEF TypeOK, Context
  <2> QED BY <1>7, <2>1, <2>2, FS_EmptySet DEF CountInv
<1>13. LoadInv
  <2>1. \A c \in Ctxs : ctx[c].state = "unused"
    BY <1>5 DEF NullContext
  <2> QED BY <2>1 DEF LoadInv
<1> QED BY <1>2, <1>3, <1>8, <1>9, <1>10, <1>11, <1>12, <1>13 DEF AInv, Good

\* An open or an invoke that check_params refuses keeps AInv: the session an
\* open leaves behind is one more that somebody may still refer to.
LEMMA CheckParamsFailsA ==
    ASSUME AInv, NEW t \in Threads, CheckParamsFails(t)
    PROVE  AInv'
<1>1. PICK f : f = Top(t)
  OBVIOUS
<1>2. /\ fault = "none" /\ stack[t] # <<>>
      /\ f.pc \in {"open_chk", "inv_chk"}
      /\ f.pc = "open_chk" => Return(t)
      /\ f.pc = "inv_chk" => SetTop(t, [f EXCEPT !.pc = "put"])
      /\ UNCHANGED <<sess, ctx, ctxes, lists, si, waitq, usable, fault>>
  BY <1>1 DEF CheckParamsFails, At, Goto
<1>3. CASE f.pc = "open_chk"
  <2>1. ~Claims(Top(t))
    BY <1>1, <1>3 DEF Claims, LivePcs, BusyPcs
  <2> QED BY <1>2, <1>3, <2>1, FramePop
<1>4. CASE f.pc = "inv_chk"
  <2>1. f \in Frame /\ Shape(f) /\ TypeOK
    BY <1>1, <1>2, AtSays
  <2>2. f.op = "invoke" /\ f.s \in Sessions /\ f.via = "null"
    BY <1>4, <2>1 DEF Shape, OpenShape, InvokeShape, CloseShape, LivePcs, BusyPcs, EndPcs, Frame
  <2>3. PICK g : g = [f EXCEPT !.pc = "put"]
    OBVIOUS
  <2>4. /\ g \in Frame /\ g.pc = "put" /\ g.op = "invoke" /\ g.own = f.own /\ g.s = f.s /\ g.via = "null"
    BY <2>1, <2>2, <2>3 DEF Frame, Pcs
  <2>5. StepOK(f, g) /\ GripOK(f, g) /\ ~HoldsBusy(g)
    <3>1. Shape(g)
      BY <2>2, <2>4 DEF Shape, InvokeShape, LivePcs, BusyPcs, EndPcs
    <3>2. /\ Ref(f) /\ Grip(f) /\ ~Claims(f) /\ ~Claims(g) /\ ~Past(g) /\ ~Ending(g)
          /\ ~NullEnd(g) /\ ~Gone(g) /\ ~HoldsBusy(g)
      BY <1>4, <2>2, <2>4 DEF Ref, Grip, Gone, Claims, Past, Ending, NullEnd, EndPcs, HoldsBusy
    <3> QED BY <2>2, <2>4, <3>1, <3>2 DEF StepOK, LinkOK, GripOK
  <2>6. waitq' \in Seq([t : Threads, cv : Cvs]) /\ usable' \subseteq Sessions /\ fault' \in Faults
    BY <1>2, <2>1 DEF TypeOK
  <2>7. SetTop(t, g)
    BY <1>2, <1>4, <2>3
  <2> QED BY <1>1, <1>2, <2>4, <2>5, <2>6, <2>7, FrameSet
<1> QED BY <1>2, <1>3, <1>4

\* Each step of a thread keeps AInv.
LEMMA StepA == ASSUME AInv, NEW t \in Threads, Step(t) PROVE AInv'
<1>1. CASE OpenReuse(t) \/ OpenLoad(t) \/ OpenFails(t) \/ OpenChk(t) \/ OpenPut(t)
  BY <1>1, OpenReuseA, OpenLoadA, OpenFailsA, OpenChkA, OpenPutA
<1>2. CASE BusyConcurrent(t) \/ BusyWait(t) \/ SiWait(t) \/ BusyGranted(t) \/ BusyRefused(t) \/ ClearConcurrent(t) \/ ClearBusy(t)
  BY <1>2, BusyConcurrentA, BusyWaitA, SiWaitA, BusyGrantedA, BusyRefusedA, ClearConcurrentA, ClearBusyA
<1>3. CASE EnterTa(t) \/ TaReturn(t) \/ TaPanic(t)
  BY <1>3, EnterTaA, TaReturnA, TaPanicA
<1>4. CASE Find(t) \/ GetNothing(t) \/ Get(t) \/ GetWoken(t) \/ Put(t)
  BY <1>4, FindA, GetNothingA, GetA, GetWokenA, PutA
<1>5. CASE InvChk(t) \/ InvPost(t) \/ DestroyTaCtx(t)
  BY <1>5, InvChkA, InvPostA, DestroyTaCtxA
<1>6. CASE CloseChk(t) \/ Unlink(t) \/ UnlinkWoken(t) \/ Release(t)
  BY <1>6, CloseChkA, UnlinkA, UnlinkWokenA, ReleaseA
<1>7. CASE Destroy(t) \/ Drain(t) \/ FreeCtx(t)
  BY <1>7, DestroyA, DrainA, FreeCtxA
<1>8. CASE CheckParamsFails(t)
  BY <1>8, CheckParamsFailsA
<1> QED BY <1>1, <1>2, <1>3, <1>4, <1>5, <1>6, <1>7, <1>8 DEF Step

\* Each step of the system keeps AInv.
LEMMA NextA == ASSUME AInv, [Next]_vars PROVE AInv'
<1>1. CASE Next
  <2>1. PICK t \in Threads : Step(t) \/ CallOpen(t) \/ CallInvoke(t) \/ CallClose(t)
    BY <1>1 DEF Next
  <2> QED BY <2>1, StepA, CallOpenA, CallInvokeA, CallCloseA
<1>2. CASE UNCHANGED vars
  <2>1. UNCHANGED <<sess, ctx, ctxes, lists, si, stack, usable, fault>> /\ waitq' = waitq
    BY <1>2 DEF vars
  <2>2. waitq \in Seq(Waiters)
    BY DEF AInv, TypeOK, Waiters
  <2> QED BY <2>1, <2>2, StillA
<1> QED BY <1>1, <1>2

\* AInv holds in every state: the references of tee_ta_get_session and
\* tee_ta_put_session, the lists of sessions, ref_count of the contexts and the
\* busy flags stay consistent, whatever threads and clients do.
THEOREM Invariance == Spec => []AInv
<1>1. Init => AInv
  BY InitA
<1>2. AInv /\ [Next]_vars => AInv'
  BY NextA
<1> QED BY <1>1, <1>2, PTL DEF Spec

\* Every variable has its type, no reference count of a session or a context
\* ever goes below 0, and the ids by which tee_ta_find_session looks sessions up
\* are different in each list, none of them 0 (new_session_id).
THEOREM TypeCorrect == Spec => []TypeOK
<1>1. AInv => TypeOK
  BY DEF AInv
<1> QED BY <1>1, Invariance, PTL

\* The frames of a thread are those of fr.
LEMMA FramesAre ==
    ASSUME TypeOK, NEW t \in Threads, NEW f
    PROVE  f \in Frames(t) <=> \E x \in Pl : x[1] = t /\ x[2] <= Len(stack[t]) /\ fr[x] = f
<1>1. stack \in [Threads -> Seq(Frame)]
  BY DEF TypeOK
<1>2. \A v \in Threads, i \in Depth : fr[<<v, i>>] = IF i <= Len(stack[v]) THEN stack[v][i] ELSE Null
  BY <1>1, FrIs
<1>3. Len(stack[t]) \in Nat
  BY <1>1
<1>4. ASSUME f \in Frames(t) PROVE \E x \in Pl : x[1] = t /\ x[2] <= Len(stack[t]) /\ fr[x] = f
  <2>1. PICK i \in 1..Len(stack[t]) : f = stack[t][i]
    BY <1>4 DEF Frames
  <2>2. i \in Depth /\ i <= Len(stack[t])
    BY <1>3 DEF Depth
  <2>3. <<t, i>> \in Pl /\ fr[<<t, i>>] = f
    BY <1>2, <2>1, <2>2 DEF Pl
  <2> QED BY <2>2, <2>3
<1>5. ASSUME NEW x \in Pl, x[1] = t, x[2] <= Len(stack[t]), fr[x] = f PROVE f \in Frames(t)
  <2>1. x = <<t, x[2]>> /\ x[2] \in Depth /\ x[2] \in Nat \ {0}
    BY <1>5 DEF Pl, Depth
  <2>2. f = stack[t][x[2]]
    BY <1>2, <1>5, <2>1
  <2>3. x[2] \in 1..Len(stack[t])
    BY <1>3, <1>5, <2>1
  <2> QED BY <2>2, <2>3 DEF Frames
<1> QED BY <1>4, <1>5

\* tee_ta_try_set_busy and tee_ta_clear_busy keep a TA that is not concurrent
\* to one thread at a time.
THEOREM OneThreadInTa == Spec => []TaExclusive
<1>1. ASSUME AInv PROVE TaExclusive
  <2> SUFFICES ASSUME NEW t \in Threads, NEW f \in Frames(t), f.pc = "in_ta", "concurrent" \notin CtxFlags(f.c),
                      NEW v \in Threads \ {t}, NEW g \in Frames(v), g.pc = "in_ta", g.c = f.c
               PROVE  FALSE
    BY DEF TaExclusive
  <2>1. TypeOK /\ HoldInv
    BY <1>1 DEF AInv
  <2>2. PICK x \in Pl : x[1] = t /\ fr[x] = f
    BY <2>1, FramesAre
  <2>3. PICK y \in Pl : y[1] = v /\ fr[y] = g
    BY <2>1, FramesAre
  <2>4. HoldsBusy(fr[x]) /\ HoldsBusy(fr[y]) /\ fr[x].c = fr[y].c
    BY <2>2, <2>3 DEF HoldsBusy
  <2>5. NonConc(ctx[fr[x].c])
    BY <2>2 DEF NonConc, FlagsIn, CtxFlags
  <2>6. x = y
    BY <2>1, <2>4, <2>5 DEF HoldInv
  <2> QED BY <2>2, <2>3, <2>6
<1> QED BY <1>1, Invariance, PTL

\* The places of the frames of close that have freed a session of context c.
FreedOn(c) == {x \in Pl : fr[x].op = "close" /\ fr[x].c = c /\ fr[x].pc \in {"clear", "release"}}

\* FreedOn is the set of frames that CtxRefsMatchSessions counts.
LEMMA FreedFrames ==
    ASSUME TypeOK, NEW c
    PROVE  FramesWith(LAMBDA f : f.op = "close" /\ f.c = c /\ f.pc \in {"clear", "release"}) = FreedOn(c)
<1>1. stack \in [Threads -> Seq(Frame)]
  BY DEF TypeOK
<1>2. \A v \in Threads, i \in Depth : fr[<<v, i>>] = IF i <= Len(stack[v]) THEN stack[v][i] ELSE Null
  BY <1>1, FrIs
<1>3. \A v \in Threads : Len(stack[v]) \in Nat
  BY <1>1
<1> DEFINE W == UNION {{<<t, i>> : i \in {j \in 1..Len(stack[t]) :
                           stack[t][j].op = "close" /\ stack[t][j].c = c /\ stack[t][j].pc \in {"clear", "release"}}} : t \in Threads}
<1>4. ASSUME NEW x \in W PROVE x \in FreedOn(c)
  <2>0. PICK t \in Threads : \E i \in 1..Len(stack[t]) :
           x = <<t, i>> /\ stack[t][i].op = "close" /\ stack[t][i].c = c /\ stack[t][i].pc \in {"clear", "release"}
    BY <1>4
  <2>1. PICK i \in 1..Len(stack[t]) :
           x = <<t, i>> /\ stack[t][i].op = "close" /\ stack[t][i].c = c /\ stack[t][i].pc \in {"clear", "release"}
    BY <2>0
  <2>2. i \in Depth /\ i <= Len(stack[t])
    BY <1>3 DEF Depth
  <2>3. x \in Pl /\ fr[x] = stack[t][i]
    BY <1>2, <2>1, <2>2 DEF Pl
  <2> QED BY <2>1, <2>3 DEF FreedOn
<1>5. ASSUME NEW x \in FreedOn(c) PROVE x \in W
  <2>1. PICK t \in Threads, i \in Depth : x = <<t, i>>
    BY <1>5 DEF FreedOn, Pl
  <2>2. fr[<<t, i>>].op = "close" /\ fr[<<t, i>>].c = c /\ fr[<<t, i>>].pc \in {"clear", "release"}
    BY <1>5, <2>1 DEF FreedOn
  <2>3. i <= Len(stack[t])
    BY <1>2, <2>2 DEF Null
  <2>4. fr[<<t, i>>] = stack[t][i]
    BY <1>2, <2>3
  <2>5. i \in 1..Len(stack[t])
    BY <1>3, <2>3 DEF Depth
  <2> QED BY <2>1, <2>2, <2>4, <2>5
<1>6. W = FreedOn(c)
  BY <1>4, <1>5
<1> QED BY <1>6 DEF FramesWith

\* The references to a context on tee_ctxes: each frame of FreedOn stands for the session it freed.
LEMMA FreedCount ==
    ASSUME AInv, fault = "none", NEW c \in Ctxs, On(c, ctxes)
    PROVE  ctx[c].ref = Cardinality({s \in Sessions : sess[s].state = "live" /\ sess[s].ctx = c}) + Cardinality(FreedOn(c))
<1>1. TypeOK /\ Good
  BY DEF AInv
<1>2. PICK A : A = ClaimsOn(sess, fr, c)
  OBVIOUS
<1>3. PICK L : L = {s \in Sessions : sess[s].state = "live" /\ sess[s].ctx = c}
  OBVIOUS
<1>4. PICK M : M = A \ L
  OBVIOUS
<1>5. IsFiniteSet(A) /\ A \subseteq Sessions /\ L \subseteq A
  <2>1. IsFiniteSet(Sessions)
    <3>1. NumSessions \in Nat /\ 1 \in Int
      BY TaManagerAssumption
    <3> QED BY <3>1, FS_Interval DEF Sessions
  <2>2. A \subseteq Sessions /\ L \subseteq A
    BY <1>2, <1>3 DEF ClaimsOn
  <2> QED BY <2>1, <2>2, FS_Subset
<1>6. IsFiniteSet(L) /\ IsFiniteSet(M) /\ A = L \cup M /\ L \cap M = {} /\ M \subseteq A
  BY <1>4, <1>5, FS_Subset
<1>7. Cardinality(A) = Cardinality(L) + Cardinality(M)
  <2>1. Cardinality(L \cap M) = 0
    BY <1>6, FS_EmptySet
  <2>2. Cardinality(L \cup M) = Cardinality(L) + Cardinality(M) - Cardinality(L \cap M)
    BY <1>6, FS_Union
  <2> QED BY <1>6, <2>1, <2>2, FS_CardinalityType
<1>8. Cardinality(A) = ctx[c].ref
  BY <1>1, <1>2 DEF Good, CountInv
<1>9. PICK F : F = FreedOn(c)
  OBVIOUS
<1>10. \A x \in F : x \in Pl /\ Gone(fr[x]) /\ Claims(fr[x]) /\ Grip(fr[x]) /\ fr[x].c = c /\ fr[x].s \in M
  <2> TAKE x \in F
  <2>1. x \in Pl /\ fr[x].op = "close" /\ fr[x].c = c /\ fr[x].pc \in {"clear", "release"}
    BY <1>9 DEF FreedOn
  <2>2. Gone(fr[x])
    BY <2>1 DEF Gone
  <2>3. Claims(fr[x]) /\ Grip(fr[x]) /\ fr[x].s \in Sessions
    BY <1>1, <2>1, <2>2, FrameSays DEF Good
  <2>4. sess[fr[x].s].state = "freed"
    BY <1>1, <2>1, <2>2 DEF Good, GripInv
  <2>5. fr[x].s \in A
    BY <1>2, <2>1, <2>3 DEF ClaimsOn
  <2> QED BY <1>3, <1>4, <2>1, <2>2, <2>3, <2>4, <2>5
<1>11. ASSUME NEW s \in M PROVE \E x \in F : fr[x].s = s
  <2>1. s \in Sessions /\ ~(sess[s].state = "live" /\ sess[s].ctx = c)
    BY <1>3, <1>4, <1>5
  <2>2. PICK x \in Pl : Claims(fr[x]) /\ fr[x].s = s /\ fr[x].c = c
    BY <1>2, <1>4, <2>1 DEF ClaimsOn
  <2>3. CASE Past(fr[x])
    <3>1. sess[s].state = "live"
      BY <1>1, <2>2, <2>3, FrameSays DEF Good
    <3>2. sess[s].ctx = c
      BY <1>1, <2>2, <2>3 DEF Good, LinkInv
    <3> QED BY <2>1, <3>1, <3>2
  <2>4. CASE Gone(fr[x])
    <3>1. x \in F
      BY <1>9, <2>2, <2>4 DEF FreedOn, Gone
    <3> QED BY <2>2, <3>1
  <2>5. Past(fr[x]) \/ Gone(fr[x])
    BY <1>1, <2>2, FrameSays DEF Good
  <2> QED BY <2>3, <2>4, <2>5
<1>12. Cardinality(F) = Cardinality(M)
  <2>1. PICK h : h = [x \in F |-> fr[x].s]
    OBVIOUS
  <2>2. h \in [F -> M] /\ \A x \in F : h[x] = fr[x].s
    BY <1>10, <2>1
  <2>3. \A x, y \in F : h[x] = h[y] => x = y
    BY <1>1, <1>10, <2>2 DEF Good, GripInv
  <2>4. h \in Injection(F, M)
    BY <2>2, <2>3 DEF Injection, IsInjective
  <2>5. h \in Surjection(F, M)
    BY <1>11, <2>2 DEF Surjection
  <2>6. Cardinality(F) = Cardinality(M) <=> h \in Surjection(F, M)
    BY <1>6, <2>4, FS_Injection
  <2> QED BY <2>5, <2>6
<1> QED BY <1>3, <1>7, <1>8, <1>9, <1>12

\* ref_count of a context on tee_ctxes is the number of its sessions, those
\* included that tee_ta_close_session freed before it drops their reference.
THEOREM CtxRefsMatch == Spec => []CtxRefsMatchSessions
<1>1. ASSUME AInv PROVE CtxRefsMatchSessions
  <2> SUFFICES ASSUME fault = "none", NEW c \in Range(ctxes)
               PROVE  ctx[c].ref =
                        Cardinality({s \in Sessions : sess[s].state = "live" /\ sess[s].ctx = c})
                        + Cardinality(FramesWith(LAMBDA f :
                             f.op = "close" /\ f.c = c /\ f.pc \in {"clear", "release"}))
    BY DEF CtxRefsMatchSessions
  <2>1. TypeOK
    BY <1>1 DEF AInv
  <2>2. ctxes \in Seq(Ctxs)
    BY <2>1 DEF TypeOK
  <2>3. On(c, ctxes)
    BY <2>2, RangeIs DEF On
  <2>4. c \in Ctxs
    BY <2>2, <2>3 DEF On
  <2>5. ctx[c].ref = Cardinality({s \in Sessions : sess[s].state = "live" /\ sess[s].ctx = c}) + Cardinality(FreedOn(c))
    BY <1>1, <2>3, <2>4, FreedCount
  <2>6. FramesWith(LAMBDA f : f.op = "close" /\ f.c = c /\ f.pc \in {"clear", "release"}) = FreedOn(c)
    BY <2>1, FreedFrames
  <2> QED BY <2>5, <2>6
<1> QED BY <1>1, Invariance, PTL
==============================================================================
