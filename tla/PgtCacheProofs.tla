---------------------------- MODULE PgtCacheProofs ----------------------------
(***************************************************************************)
(* Proofs about the pool of translation tables, for any number of threads, *)
(* contexts, regions and tables.                                           *)
(*                                                                         *)
(* The inductive invariant PInv says that each table is in one place       *)
(* (ShareInv), that no two threads have or change to the same context      *)
(* (CtxInv) and that a thread's tables are those of the context it has     *)
(* (OwnInv).  From these follows what pgt_alloc() relies on: outside the   *)
(* free list, the cache list and the thread's own list there is no table   *)
(* of the context it allocates for, so that a table popped for an address  *)
(* without a match is the context's only one there.                        *)
(*                                                                         *)
(* The first part is about lists and about the static functions, each with *)
(* the recursion it is defined by.  Then one lemma per action shows that   *)
(* it keeps PInv, most of them through PoolKeeps: a step of one thread     *)
(* that moves tables between its list and the pool's.                      *)
(***************************************************************************)
EXTENDS PgtCache, FiniteSetTheorems, WellFoundedInduction, TLAPS

-----------------------------------------------------------------------------
(* The invariant.                                                          *)

Table == [ctx : Ctxs \cup {NoCtx}, vabase : Nat, used : SUBSET Touched, fixed : SUBSET Nat]

\* The tables of thread t, and those on the cache list.
Own(t) == Range(tbls[t])
Cached == Range(cacheList)

\* No element of list s is on it twice.
Once(s) == \A i, j \in DOMAIN s : s[i] = s[j] => i = j

Shape ==
    /\ pgt \in [Pgts -> Table]
    /\ freeList \subseteq Pgts
    /\ cacheList \in Seq(Pgts)
    /\ tbls \in [Threads -> Seq(Pgts)]
    /\ tsdCtx \in [Threads -> Ctxs \cup {NoCtx}]
    /\ target \in [Threads -> Ctxs \cup {NoCtx}]
    /\ pc \in [Threads -> {"run", "free", "alloc", "grow"}]
    /\ asleep \subseteq Threads
    /\ regions \in [Ctxs -> SUBSET Regions]
    /\ live \subseteq Ctxs

\* Each table is in one place.
ShareInv ==
    /\ Once(cacheList) /\ \A t \in Threads : Once(tbls[t])
    /\ freeList \cap Cached = {}
    /\ \A t \in Threads : Own(t) \cap (freeList \cup Cached) = {}
    /\ \A t, u \in Threads : t # u => Own(t) \cap Own(u) = {}
    /\ \A p \in Pgts : p \in freeList \cup Cached \/ \E t \in Threads : p \in Own(t)

\* The contexts of a thread: the one it has and the one it changes to.  They
\* exist and are no other thread's.
CtxsOf(t) == {tsdCtx[t], target[t]} \ {NoCtx}

CtxOK(t) ==
    /\ CtxsOf(t) \subseteq live
    /\ pc[t] \in {"run", "grow"} => target[t] = tsdCtx[t]
    /\ pc[t] \in {"alloc", "grow"} => target[t] # NoCtx
    /\ pc[t] = "alloc" => tbls[t] = <<>>

CtxInv ==
    /\ \A t \in Threads : CtxOK(t)
    /\ \A t, u \in Threads : t # u => CtxsOf(t) \cap CtxsOf(u) = {}

\* A thread's tables are those of the context it has.
OwnInv == \A t \in Threads : \A p \in Own(t) : pgt[p].ctx = tsdCtx[t]

PInv == /\ Shape /\ ShareInv /\ CtxInv /\ OwnInv
        /\ NoStaleTable /\ RunsOnOwnTables

-----------------------------------------------------------------------------
(* Numbers.                                                                *)

\* Every non-empty set of numbers has a least element.
LEMMA LeastNat ==
    ASSUME NEW T \in SUBSET Nat, T # {}
    PROVE  \E m \in T : \A y \in T : m <= y
<1> DEFINE R == OpToRel(<, Nat)
<1>1. IsWellFoundedOn(R, Nat)
  BY NatLessThanWellFounded
<1>2. \A x, y \in Nat : x < y => <<x, y>> \in R
  BY DEF OpToRel
<1> HIDE DEF R
<1>3. PICK m \in T : \A y \in T : ~(<<y, m>> \in R)
  BY <1>1, WFMin
<1>4. \A y \in T : m <= y
  <2> TAKE y \in T
  <2>1. y \in Nat /\ m \in Nat
    OBVIOUS
  <2>2. ~(<<y, m>> \in R) /\ (y < m => <<y, m>> \in R)
    BY <1>2, <1>3, <2>1, Zenon
  <2> QED BY <2>1, <2>2
<1> QED BY <1>4

\* Min is the least element.
LEMMA MinIs ==
    ASSUME NEW T \in SUBSET Nat, T # {}
    PROVE  Min(T) \in T /\ \A y \in T : Min(T) <= y
<1>1. \E m \in T : \A y \in T : m <= y
  BY LeastNat
<1> QED BY <1>1, Zenon DEF Min

\* A finite non-empty set of numbers has a greatest element, and Max is it.
LEMMA MaxIs ==
    ASSUME NEW T \in SUBSET Nat, T # {}, IsFiniteSet(T)
    PROVE  Max(T) \in T /\ \A y \in T : y <= Max(T)
<1> DEFINE Top(S) == \E m \in S : \A y \in S : y <= m
           Bad(S) == S \in SUBSET Nat /\ S # {} /\ IsFiniteSet(S) /\ ~Top(S)
           B == {n \in Nat : \E S : Bad(S) /\ Cardinality(S) = n}
<1>1. B = {}
  <2> SUFFICES ASSUME B # {} PROVE FALSE
    OBVIOUS
  <2>1. PICK n \in B : \A k \in B : n <= k
    <3>1. B \in SUBSET Nat
      OBVIOUS
    <3> HIDE DEF B
    <3> QED BY <3>1, LeastNat
  <2>2. PICK S : Bad(S) /\ Cardinality(S) = n /\ n \in Nat
    BY <2>1
  <2>3. PICK x \in S : TRUE
    BY <2>2
  <2> DEFINE Q == S \ {x}
  <2>4. IsFiniteSet(Q) /\ Cardinality(Q) = n - 1 /\ Q \in SUBSET Nat /\ x \in Nat
    BY <2>2, <2>3, FS_RemoveElement
  <2>5. Cardinality(Q) \in Nat
    BY <2>4, FS_CardinalityType
  <2>6. CASE Q = {}
    <3>1. \A y \in S : y <= x
      BY <2>4, <2>6
    <3> QED BY <2>2, <2>3, <3>1
  <2>7. CASE Q # {} /\ Top(Q)
    <3>1. PICK m \in Q : \A y \in Q : y <= m
      BY <2>7
    <3>2. CASE x <= m
      <4>1. m \in S /\ \A y \in S : y <= m
        BY <3>1, <3>2
      <4> QED BY <2>2, <4>1
    <3>3. CASE ~(x <= m)
      <4>1. \A y \in S : y <= x
        BY <2>4, <3>1, <3>3
      <4> QED BY <2>2, <2>3, <4>1
    <3> QED BY <3>2, <3>3
  <2>8. CASE Q # {} /\ ~Top(Q)
    <3>1. Bad(Q)
      BY <2>4, <2>8
    <3> HIDE DEF Bad, Q
    <3>2. Cardinality(Q) \in B
      BY <2>5, <3>1
    <3> HIDE DEF B
    <3> QED BY <2>1, <2>2, <2>4, <2>5, <3>2
  <2> QED BY <2>6, <2>7, <2>8
<1>2. Top(T)
  <2> SUFFICES ASSUME ~Top(T) PROVE FALSE
    OBVIOUS
  <2>1. Cardinality(T) \in Nat /\ Bad(T)
    BY FS_CardinalityType
  <2> QED BY <1>1, <2>1
<1> QED BY <1>2, Zenon DEF Max

-----------------------------------------------------------------------------
(* Lists.                                                                  *)

\* One unfolding of the recursion in Without.
LeftBody(f, s, S, i) ==
    IF i = 0 THEN <<>> ELSE IF s[i] \in S THEN f[i - 1] ELSE Append(f[i - 1], s[i])

\* What is left of the first i elements of list s without S.
LeftOK(l, s, S, i, P) ==
    /\ l \in Seq(P)
    /\ \A p \in P : (\E k \in 1..Len(l) : l[k] = p) <=> (p \notin S /\ \E k \in 1..i : s[k] = p)
    /\ Once(s) => Once(l)

\* One more element.
LEMMA LeftStep ==
    ASSUME NEW P, NEW s \in Seq(P), NEW S, NEW i \in 1..Len(s), NEW l, NEW m,
           LeftOK(l, s, S, i - 1, P), m = IF s[i] \in S THEN l ELSE Append(l, s[i])
    PROVE  LeftOK(m, s, S, i, P)
<1>1. /\ l \in Seq(P) /\ s[i] \in P /\ i \in Nat /\ i >= 1 /\ Len(l) \in Nat
      /\ \A p \in P : (\E k \in 1..Len(l) : l[k] = p)
                         <=> (p \notin S /\ \E k \in 1..(i - 1) : s[k] = p)
  BY DEF LeftOK
<1>2. \A k : k \in 1..i <=> k \in 1..(i - 1) \/ k = i
  BY <1>1
<1>3. CASE s[i] \in S
  BY <1>1, <1>2, <1>3 DEF LeftOK
<1>4. CASE s[i] \notin S
  <2>1. /\ m \in Seq(P) /\ Len(m) = Len(l) + 1 /\ m[Len(l) + 1] = s[i]
        /\ \A k \in 1..Len(l) : m[k] = l[k]
    BY <1>1, <1>4
  <2>2. \A k : k \in 1..Len(m) <=> k \in 1..Len(l) \/ k = Len(l) + 1
    BY <1>1, <2>1
  <2>3. ASSUME NEW p \in P
        PROVE  (\E k \in 1..Len(m) : m[k] = p) <=> (p \notin S /\ \E k \in 1..i : s[k] = p)
    BY <1>1, <1>2, <1>4, <2>1, <2>2
  <2>4. ASSUME Once(s) PROVE Once(m)
    <3> SUFFICES ASSUME NEW a \in 1..Len(m), NEW b \in 1..Len(m), m[a] = m[b] PROVE a = b
      BY <2>1 DEF Once
    <3>1. Once(l) /\ \A x, y \in 1..Len(l) : l[x] = l[y] => x = y
      BY <1>1, <2>4 DEF LeftOK, Once
    <3>2. ASSUME NEW x \in 1..Len(l) PROVE l[x] # s[i]
      <4>1. l[x] \in P
        BY <1>1
      <4>2. l[x] = s[i] => \E k \in 1..(i - 1) : s[k] = s[i]
        BY <1>1, <4>1
      <4>3. \A k \in 1..(i - 1) : s[k] # s[i]
        BY <1>1, <2>4 DEF Once
      <4> QED BY <4>2, <4>3
    <3> QED BY <2>1, <2>2, <3>1, <3>2
  <2> QED BY <2>1, <2>3, <2>4 DEF LeftOK
<1> QED BY <1>3, <1>4

\* The recursion in Without has a solution.
LEMMA LeftDef ==
    ASSUME NEW s, Len(s) \in Nat, NEW S
    PROVE  \E f : /\ f = [i \in 0..Len(s) |-> LeftBody(f, s, S, i)]
                  /\ Without(s, S) = f[Len(s)]
<1> DEFINE D == 0..Len(s)
           Upto(k, g) == /\ g = [i \in D |-> g[i]]
                         /\ \A i \in 0..k : g[i] = LeftBody(g, s, S, i)
           T == {k \in D : ~ \E g : Upto(k, g)}
<1>1. T = {}
  <2> SUFFICES ASSUME T # {} PROVE FALSE
    OBVIOUS
  <2>1. PICK k \in T : \A y \in T : k <= y
    <3>1. T \in SUBSET Nat
      OBVIOUS
    <3> HIDE DEF T
    <3> QED BY <3>1, LeastNat
  <2>2. k \in D /\ k \in Nat /\ ~ \E g : Upto(k, g)
    BY <2>1
  <2>3. k # 0
    <3> DEFINE g == [i \in D |-> <<>>]
    <3>1. g = [i \in D |-> g[i]] /\ \A i \in 0..0 : g[i] = LeftBody(g, s, S, i)
      BY DEF LeftBody
    <3> HIDE DEF g
    <3> QED BY <2>2, <3>1
  <2>4. k - 1 \in D /\ k - 1 \in Nat /\ ~(k <= k - 1)
    BY <2>2, <2>3
  <2>5. PICK g : Upto(k - 1, g)
    <3>1. k - 1 \notin T
      BY <2>1, <2>4
    <3> QED BY <2>4, <3>1
  <2> DEFINE h == [g EXCEPT ![k] = LeftBody(g, s, S, k)]
  <2>6. h = [i \in D |-> h[i]] /\ h[k] = LeftBody(g, s, S, k) /\ \A i \in D : i # k => h[i] = g[i]
    BY <2>2, <2>5
  <2> HIDE DEF h
  <2>7. ASSUME NEW i \in 0..k PROVE h[i] = LeftBody(h, s, S, i)
    <3>1. i \in D /\ i \in Nat /\ (i # 0 => i - 1 \in D /\ i - 1 # k) /\ (i # k => i \in 0..(k - 1))
      BY <2>2
    <3>2. LeftBody(h, s, S, i) = LeftBody(g, s, S, i)
      <4>1. i # 0 => h[i - 1] = g[i - 1]
        BY <2>6, <3>1
      <4> QED BY <4>1 DEF LeftBody
    <3> QED BY <2>5, <2>6, <3>1, <3>2
  <2>8. Upto(k, h)
    BY <2>6, <2>7
  <2> QED BY <2>2, <2>8
<1>2. PICK g : Upto(Len(s), g)
  <2>1. Len(s) \in D
    OBVIOUS
  <2> QED BY <1>1, <2>1
<1>3. g = [i \in D |-> LeftBody(g, s, S, i)]
  BY <1>2
<1> DEFINE F == CHOOSE f : f = [i \in 0..Len(s) |-> LeftBody(f, s, S, i)]
<1>4. F = [i \in 0..Len(s) |-> LeftBody(F, s, S, i)]
  BY <1>3, Zenon
<1>5. Without(s, S) = F[Len(s)]
  BY Zenon DEF Without, LeftBody
<1> QED BY <1>4, <1>5

\* Without takes the elements of S out and keeps the others.
LEMMA WithoutFacts ==
    ASSUME NEW P, NEW s \in Seq(P), NEW S
    PROVE  /\ Without(s, S) \in Seq(P)
           /\ Range(Without(s, S)) = Range(s) \ S
           /\ Once(s) => Once(Without(s, S))
<1>1. Len(s) \in Nat
  OBVIOUS
<1>2. PICK f : /\ f = [i \in 0..Len(s) |-> LeftBody(f, s, S, i)]
               /\ Without(s, S) = f[Len(s)]
  BY <1>1, LeftDef
<1> DEFINE T == {i \in 0..Len(s) : ~LeftOK(f[i], s, S, i, P)}
<1>3. T = {}
  <2> SUFFICES ASSUME T # {} PROVE FALSE
    OBVIOUS
  <2>1. PICK k \in T : \A y \in T : k <= y
    <3>1. T \in SUBSET Nat
      OBVIOUS
    <3> HIDE DEF T
    <3> QED BY <3>1, LeastNat
  <2>2. k \in 0..Len(s) /\ k \in Nat /\ ~LeftOK(f[k], s, S, k, P) /\ f[k] = LeftBody(f, s, S, k)
    BY <1>2, <2>1
  <2>3. CASE k = 0
    <3>1. f[k] = <<>>
      BY <2>2, <2>3 DEF LeftBody
    <3>2. 1..0 = {} /\ Len(<<>>) = 0 /\ <<>> \in Seq(P) /\ DOMAIN <<>> = {}
      OBVIOUS
    <3>3. LeftOK(<<>>, s, S, 0, P)
      BY <3>2 DEF LeftOK, Once
    <3> QED BY <2>2, <2>3, <3>1, <3>3
  <2>4. CASE k # 0
    <3>1. k \in 1..Len(s) /\ k - 1 \in 0..Len(s) /\ ~(k <= k - 1)
      BY <1>1, <2>2, <2>4
    <3>2. LeftOK(f[k - 1], s, S, k - 1, P)
      BY <2>1, <3>1
    <3>3. f[k] = IF s[k] \in S THEN f[k - 1] ELSE Append(f[k - 1], s[k])
      BY <2>2, <2>4 DEF LeftBody
    <3> HIDE DEF T
    <3> QED BY <2>2, <3>1, <3>2, <3>3, LeftStep
  <2> QED BY <2>3, <2>4
<1>4. LeftOK(Without(s, S), s, S, Len(s), P)
  BY <1>1, <1>2, <1>3
<1>5. PICK l : l = Without(s, S)
  OBVIOUS
<1>6. /\ l \in Seq(P) /\ (Once(s) => Once(l))
      /\ \A p \in P : (\E k \in 1..Len(l) : l[k] = p) <=> (p \notin S /\ \E k \in 1..Len(s) : s[k] = p)
  BY <1>4, <1>5 DEF LeftOK
<1>7. /\ Range(l) = {l[k] : k \in 1..Len(l)} /\ Range(s) = {s[k] : k \in 1..Len(s)}
      /\ Range(l) \subseteq P /\ Range(s) \subseteq P
  BY <1>6 DEF Range
<1>8. Range(l) = Range(s) \ S
  BY <1>6, <1>7
<1> QED BY <1>5, <1>6, <1>8

\* Reverse has the same elements.
LEMMA ReverseFacts ==
    ASSUME NEW P, NEW s \in Seq(P)
    PROVE  /\ Reverse(s) \in Seq(P) /\ Range(Reverse(s)) = Range(s)
           /\ Once(s) => Once(Reverse(s))
<1> DEFINE n == Len(s)
<1>1. n \in Nat /\ Reverse(s) = [i \in 1..n |-> s[(n - i) + 1]]
  BY DEF Reverse
<1>2. \A i \in 1..n : (n - i) + 1 \in 1..n /\ (n - ((n - i) + 1)) + 1 = i
  BY <1>1
<1>3. PICK r : r = Reverse(s)
  OBVIOUS
<1>4. r \in Seq(P) /\ Len(r) = n /\ \A i \in 1..n : r[i] = s[(n - i) + 1]
  BY <1>1, <1>2, <1>3
<1>5. Range(r) = Range(s)
  <2>1. Range(r) = {r[i] : i \in 1..n} /\ Range(s) = {s[i] : i \in 1..n}
    BY <1>4 DEF Range
  <2>2. \A i \in 1..n : s[i] = r[(n - i) + 1]
    BY <1>2, <1>4
  <2>3. ASSUME NEW p \in Range(r) PROVE p \in Range(s)
    <3>1. PICK i \in 1..n : p = r[i]
      BY <2>1
    <3>2. p = s[(n - i) + 1] /\ (n - i) + 1 \in 1..n
      BY <1>2, <1>4, <3>1
    <3> QED BY <2>1, <3>2
  <2>4. ASSUME NEW p \in Range(s) PROVE p \in Range(r)
    <3>1. PICK i \in 1..n : p = s[i]
      BY <2>1
    <3>2. p = r[(n - i) + 1] /\ (n - i) + 1 \in 1..n
      BY <1>2, <2>2, <3>1
    <3> QED BY <2>1, <3>2
  <2> QED BY <2>3, <2>4
<1>6. ASSUME Once(s) PROVE Once(r)
  <2> SUFFICES ASSUME NEW a \in 1..n, NEW b \in 1..n, r[a] = r[b] PROVE a = b
    BY <1>4 DEF Once
  <2>1. s[(n - a) + 1] = s[(n - b) + 1]
    BY <1>4
  <2>2. (n - a) + 1 = (n - b) + 1
    BY <1>2, <1>6, <2>1 DEF Once
  <2> QED BY <1>1, <2>2
<1> QED BY <1>3, <1>4, <1>5, <1>6

\* Two lists without a common element, one after the other.
LEMMA ConcatFacts ==
    ASSUME NEW P, NEW s \in Seq(P), NEW u \in Seq(P)
    PROVE  /\ s \o u \in Seq(P) /\ Range(s \o u) = Range(s) \cup Range(u)
           /\ Len(s \o u) = Len(s) + Len(u)
           /\ \A i \in 1..Len(s) : (s \o u)[i] = s[i]
           /\ \A i \in 1..Len(u) : (s \o u)[Len(s) + i] = u[i]
           /\ Once(s) /\ Once(u) /\ Range(s) \cap Range(u) = {} => Once(s \o u)
<1> DEFINE m == Len(s)
           n == Len(u)
<1>1. PICK r : r = s \o u
  OBVIOUS
<1>2. /\ m \in Nat /\ n \in Nat /\ r \in Seq(P) /\ Len(r) = m + n
      /\ \A i \in 1..m : r[i] = s[i]
      /\ \A i \in 1..n : r[m + i] = u[i]
  BY <1>1
<1>3. \A i \in 1..(m + n) : i \in 1..m \/ (i - m \in 1..n /\ i = m + (i - m))
  BY <1>2
<1>4. /\ \A i \in 1..m : i \in 1..(m + n)
      /\ \A i \in 1..n : m + i \in 1..(m + n)
  BY <1>2
<1>5. /\ Range(r) = {r[i] : i \in 1..(m + n)} /\ Range(s) = {s[i] : i \in 1..m}
      /\ Range(u) = {u[i] : i \in 1..n}
  BY <1>2 DEF Range
<1>6. Range(r) = Range(s) \cup Range(u)
  <2>1. ASSUME NEW p \in Range(r) PROVE p \in Range(s) \cup Range(u)
    <3>1. PICK i \in 1..(m + n) : p = r[i]
      BY <1>5
    <3>2. (i \in 1..m /\ p = s[i]) \/ (i - m \in 1..n /\ p = u[i - m])
      BY <1>2, <1>3, <3>1
    <3> QED BY <1>5, <3>2
  <2>2. ASSUME NEW p \in Range(s) \cup Range(u) PROVE p \in Range(r)
    BY <1>2, <1>4, <1>5
  <2> QED BY <2>1, <2>2
<1>7. ASSUME Once(s), Once(u), Range(s) \cap Range(u) = {} PROVE Once(r)
  <2> SUFFICES ASSUME NEW a \in 1..(m + n), NEW b \in 1..(m + n), r[a] = r[b] PROVE a = b
    BY <1>2 DEF Once
  <2>1. \A i, j \in 1..m : s[i] = s[j] => i = j
    BY <1>7 DEF Once
  <2>2. \A i, j \in 1..n : u[i] = u[j] => i = j
    BY <1>7 DEF Once
  <2>3. \A i \in 1..m, j \in 1..n : s[i] # u[j]
    BY <1>5, <1>7
  <2>4. CASE a \in 1..m /\ b \in 1..m
    BY <1>2, <2>1, <2>4
  <2>5. CASE a \in 1..m /\ b \notin 1..m
    <3>1. r[a] = s[a] /\ b - m \in 1..n /\ r[b] = u[b - m]
      BY <1>2, <1>3, <2>5
    <3> QED BY <2>3, <2>5, <3>1
  <2>6. CASE a \notin 1..m /\ b \in 1..m
    <3>1. r[b] = s[b] /\ a - m \in 1..n /\ r[a] = u[a - m]
      BY <1>2, <1>3, <2>6
    <3> QED BY <2>3, <2>6, <3>1
  <2>7. CASE a \notin 1..m /\ b \notin 1..m
    <3>1. a - m \in 1..n /\ b - m \in 1..n /\ u[a - m] = u[b - m]
      BY <1>2, <1>3, <2>7
    <3> QED BY <1>2, <2>2, <3>1
  <2> QED BY <2>4, <2>5, <2>6, <2>7
<1> QED BY <1>1, <1>2, <1>6, <1>7

-----------------------------------------------------------------------------
(* The static functions.                                                   *)

\* A context needs a number of tables, each for an address of its own.
LEMMA NeededTables ==
    ASSUME NEW rs \in SUBSET Regions
    PROVE  /\ NumReqPgts(rs) \in Nat
           /\ Bases(rs) \in [1..NumReqPgts(rs) -> Nat]
           /\ \A i, j \in 1..NumReqPgts(rs) : Bases(rs)[i] = Bases(rs)[j] => i = j
<1>1. CASE rs = {}
  BY <1>1 DEF NumReqPgts, Bases
<1>2. CASE rs # {}
  <2> DEFINE L == {r.lo : r \in rs}
             H == {r.hi : r \in rs}
  <2>1. L \in SUBSET Nat /\ H \in SUBSET Nat /\ L # {} /\ H # {}
    BY <1>2, PgtAssumption
  <2>2. IsFiniteSet(H)
    <3>1. IsFiniteSet(rs)
      BY PgtAssumption, FS_Subset
    <3> DEFINE f == [r \in rs |-> r.hi]
    <3>2. f \in Surjection(rs, H)
      BY DEF Surjection
    <3> QED BY <3>1, <3>2, FS_Surjection
  <2>3. /\ Min(L) \in Nat /\ \A y \in L : Min(L) <= y
        /\ Max(H) \in Nat /\ \A y \in H : y <= Max(H)
    <3> HIDE DEF L, H
    <3> QED BY <2>1, <2>2, MinIs, MaxIs
  <2>4. Min(L) <= Max(H)
    <3>1. PICK r \in rs : TRUE
      BY <1>2
    <3>2. r.lo \in Nat /\ r.hi \in Nat /\ r.lo <= r.hi /\ r.lo \in L /\ r.hi \in H
      BY PgtAssumption
    <3> HIDE DEF L, H
    <3> QED BY <2>3, <3>2
  <2>5. PICK a, b : a = FirstTable(rs) /\ b = LastTable(rs)
    OBVIOUS
  <2>6. a \in Nat /\ b \in Nat /\ a <= b
    <3>1. a = Min(L) \div 2 /\ b = Max(H) \div 2
      BY <2>5 DEF FirstTable, LastTable, TableOf
    <3> HIDE DEF L, H
    <3> QED BY <2>3, <2>4, <3>1
  <2>7. NumReqPgts(rs) = b - a + 1
    BY <1>2, <2>5 DEF NumReqPgts
  <2>8. NumReqPgts(rs) \in Nat /\ Bases(rs) = [i \in 1..NumReqPgts(rs) |-> a + i - 1]
    BY <2>5, <2>6, <2>7 DEF Bases
  <2> QED BY <2>6, <2>8
<1> QED BY <1>1, <1>2

\* pop_least_used_from_cache_list() takes a table of the list.
LEMMA LeastUsedIs ==
    ASSUME NEW T \in [Pgts -> Table], NEW cache \in Seq(Pgts), cache # <<>>
    PROVE  LeastUsed(T, cache) \in Range(cache)
<1> DEFINE n(i) == Cardinality(T[cache[i]].used)
           idx == DOMAIN cache
           least == {i \in idx : \A j \in idx : n(i) <= n(j)}
<1>1. idx = 1..Len(cache) /\ Len(cache) \in Nat /\ 1 \in idx /\ idx \in SUBSET Nat
  OBVIOUS
<1>2. \A i \in idx : n(i) \in Nat
  <2> SUFFICES ASSUME NEW i \in idx PROVE n(i) \in Nat
    OBVIOUS
  <2>1. IsFiniteSet(T[cache[i]].used)
    <3>1. T[cache[i]].used \in SUBSET Touched
      BY DEF Table
    <3> QED BY <3>1, PgtAssumption, FS_Subset
  <2> QED BY <2>1, FS_CardinalityType
<1>3. least # {}
  <2> DEFINE N == {n(i) : i \in idx}
  <2>1. N \in SUBSET Nat /\ N # {}
    BY <1>1, <1>2
  <2>2. PICK m \in N : \A y \in N : m <= y
    <3> HIDE DEF N
    <3> QED BY <2>1, LeastNat
  <2>3. PICK i \in idx : n(i) = m
    BY <2>2
  <2> QED BY <2>2, <2>3
<1>4. Max(least) \in least
  <2>1. least \in SUBSET Nat /\ IsFiniteSet(least)
    <3>1. IsFiniteSet(idx)
      BY <1>1, FS_Interval
    <3> QED BY <1>1, <3>1, FS_Subset
  <2> HIDE DEF least
  <2> QED BY <1>3, <2>1, MaxIs
<1>5. LeastUsed(T, cache) = IF n(1) = 0 THEN cache[1] ELSE cache[Max(least)]
  BY DEF LeastUsed
<1>6. Max(least) \in idx
  BY <1>4
<1> HIDE DEF n, least
<1> QED BY <1>1, <1>5, <1>6 DEF Range

\* The three lists of a thread and the pool have no table in common.
PoolOK(s) ==
    /\ s.pgt \in [Pgts -> Table] /\ s.free \subseteq Pgts
    /\ s.cache \in Seq(Pgts) /\ s.own \in Seq(Pgts) /\ Once(s.cache) /\ Once(s.own)
    /\ s.free \cap Range(s.cache) = {} /\ s.free \cap Range(s.own) = {}
    /\ Range(s.cache) \cap Range(s.own) = {}

\* The tables on them, and those that can be popped.
Stock(s) == s.free \cup Range(s.cache)
InPool(s) == Stock(s) \cup Range(s.own)

\* pop_from_some_list(): nothing is left, or a table that was not popped yet;
\* the context has no cached table for the address if it gets another one.
LEMMA PopFacts ==
    ASSUME NEW s, PoolOK(s), NEW got, NEW vabase, NEW ctx
    PROVE  \/ PopFromSomeList(s, got, vabase, ctx) = <<>> /\ Stock(s) \subseteq Range(got)
           \/ \E p \in Stock(s) \ Range(got) :
                 /\ PopFromSomeList(s, got, vabase, ctx) = <<p>>
                 /\ \/ MatchPgt(s.pgt[p], vabase, ctx)
                    \/ \A q \in Range(s.cache) \ Range(got) : ~MatchPgt(s.pgt[q], vabase, ctx)
<1>1. PICK cache : cache = Without(s.cache, Range(got))
  OBVIOUS
<1>2. /\ cache \in Seq(Pgts) /\ Range(cache) = Range(s.cache) \ Range(got)
      /\ s.cache \in Seq(Pgts)
  BY <1>1, WithoutFacts DEF PoolOK
<1> DEFINE cached == {i \in DOMAIN s.cache : s.cache[i] \notin Range(got)}
           hits == {i \in cached : MatchPgt(s.pgt[s.cache[i]], vabase, ctx)}
           free == s.free \ Range(got)
<1>3. PopFromSomeList(s, got, vabase, ctx) =
         IF hits # {} THEN <<s.cache[Min(hits)]>>
         ELSE IF free # {} THEN <<Min(free)>>
         ELSE IF cached # {} THEN <<LeastUsed(s.pgt, cache)>>
         ELSE <<>>
  BY <1>1 DEF PopFromSomeList
<1>4. /\ Range(s.cache) = {s.cache[i] : i \in DOMAIN s.cache}
      /\ Range(s.cache) \ Range(got) = {s.cache[i] : i \in cached}
  BY DEF Range
<1>5. CASE hits # {}
  <2>1. Min(hits) \in hits
    <3>1. hits \in SUBSET Nat
      BY <1>2
    <3> HIDE DEF hits
    <3> QED BY <1>5, <3>1, MinIs
  <2>2. Min(hits) \in cached /\ MatchPgt(s.pgt[s.cache[Min(hits)]], vabase, ctx)
    BY <2>1
  <2> HIDE DEF hits, free, cached
  <2>3. s.cache[Min(hits)] \in Stock(s) \ Range(got)
    BY <1>4, <2>2 DEF Stock
  <2> QED BY <1>3, <1>5, <2>2, <2>3
<1>6. CASE hits = {}
  <2>1. \A q \in Range(s.cache) \ Range(got) : ~MatchPgt(s.pgt[q], vabase, ctx)
    BY <1>4, <1>6
  <2> HIDE DEF hits, cached
  <2>2. CASE free # {}
    <3>1. Min(free) \in free
      <4>1. free \in SUBSET Nat
        BY DEF PoolOK, Pgts
      <4> HIDE DEF free
      <4> QED BY <2>2, <4>1, MinIs
    <3>2. Min(free) \in Stock(s) \ Range(got)
      BY <3>1 DEF Stock
    <3> HIDE DEF free
    <3> QED BY <1>3, <1>6, <2>1, <2>2, <3>2
  <2>3. CASE free = {} /\ cached # {}
    <3>0. cache # <<>>
      <4>0. PICK i \in cached : TRUE
        BY <2>3
      <4>1. Range(cache) # {}
        <5>1. s.cache[i] \in Range(s.cache) \ Range(got)
          BY <1>4
        <5> QED BY <1>2, <5>1
      <4>2. Range(<<>>) = {}
        BY DEF Range
      <4> QED BY <4>1, <4>2
    <3>1. LeastUsed(s.pgt, cache) \in Range(cache)
      BY <1>2, <3>0, LeastUsedIs DEF PoolOK
    <3>2. LeastUsed(s.pgt, cache) \in Stock(s) \ Range(got)
      BY <1>2, <3>1 DEF Stock
    <3> HIDE DEF free
    <3> QED BY <1>3, <1>6, <2>1, <2>3, <3>2
  <2>4. CASE free = {} /\ cached = {}
    <3>1. Range(s.cache) \ Range(got) = {}
      BY <1>4, <2>4
    <3>2. Stock(s) \subseteq Range(got)
      BY <2>4, <3>1 DEF Stock
    <3> QED BY <1>3, <1>6, <2>4, <3>2
  <2> QED BY <2>2, <2>3, <2>4
<1> QED BY <1>5, <1>6

\* One unfolding of the recursion in PopTables.
PoppedBody(f, s, ctx, i) ==
    IF i = 0 THEN <<>> ELSE PopNext(s, ctx, i)[f[i - 1]]

\* The recursion in PopTables has a solution.
LEMMA PoppedDef ==
    ASSUME NEW s, NEW ctx, NumReqPgts(regions[ctx]) \in Nat
    PROVE  \E f : /\ f = [i \in 0..NumReqPgts(regions[ctx]) |-> PoppedBody(f, s, ctx, i)]
                  /\ PopTables(s, ctx) = f[NumReqPgts(regions[ctx])]
<1> DEFINE N == NumReqPgts(regions[ctx])
           D == 0..N
           Upto(k, g) == /\ g = [i \in D |-> g[i]]
                         /\ \A i \in 0..k : g[i] = PoppedBody(g, s, ctx, i)
           T == {k \in D : ~ \E g : Upto(k, g)}
<1>0. PICK F : F = CHOOSE f : f = [i \in 0..NumReqPgts(regions[ctx]) |-> PoppedBody(f, s, ctx, i)]
  OBVIOUS
<1>1. PopTables(s, ctx) = F[N]
  BY <1>0, Zenon DEF PopTables, PoppedBody
<1>2. N \in Nat
  OBVIOUS
<1> HIDE DEF N
<1>3. T = {}
  <2> SUFFICES ASSUME T # {} PROVE FALSE
    OBVIOUS
  <2>1. PICK k \in T : \A y \in T : k <= y
    <3>1. T \in SUBSET Nat
      BY <1>2
    <3> HIDE DEF T
    <3> QED BY <3>1, LeastNat
  <2>2. k \in D /\ k \in Nat /\ ~ \E g : Upto(k, g)
    BY <1>2, <2>1
  <2>3. k # 0
    <3> DEFINE g == [i \in D |-> <<>>]
    <3>1. g = [i \in D |-> g[i]] /\ \A i \in 0..0 : g[i] = PoppedBody(g, s, ctx, i)
      BY <1>2 DEF PoppedBody
    <3> HIDE DEF g
    <3> QED BY <2>2, <3>1
  <2>4. k - 1 \in D /\ k - 1 \in Nat /\ ~(k <= k - 1)
    BY <1>2, <2>2, <2>3
  <2>5. PICK g : Upto(k - 1, g)
    <3>1. k - 1 \notin T
      BY <2>1, <2>4
    <3> QED BY <2>4, <3>1
  <2> DEFINE h == [g EXCEPT ![k] = PoppedBody(g, s, ctx, k)]
  <2>6. h = [i \in D |-> h[i]] /\ h[k] = PoppedBody(g, s, ctx, k) /\ \A i \in D : i # k => h[i] = g[i]
    BY <2>2, <2>5
  <2> HIDE DEF h
  <2>7. ASSUME NEW i \in 0..k PROVE h[i] = PoppedBody(h, s, ctx, i)
    <3>1. i \in D /\ i \in Nat /\ (i # 0 => i - 1 \in D /\ i - 1 # k) /\ (i # k => i \in 0..(k - 1))
      BY <1>2, <2>2
    <3>2. PoppedBody(h, s, ctx, i) = PoppedBody(g, s, ctx, i)
      <4>1. i # 0 => h[i - 1] = g[i - 1]
        BY <2>6, <3>1
      <4> QED BY <4>1 DEF PoppedBody
    <3> QED BY <2>5, <2>6, <3>1, <3>2
  <2>8. Upto(k, h)
    BY <2>6, <2>7
  <2> QED BY <2>2, <2>8
<1>4. PICK g : Upto(N, g)
  <2>1. N \in D
    BY <1>2
  <2> QED BY <1>3, <2>1
<1>5. g = [i \in D |-> PoppedBody(g, s, ctx, i)]
  BY <1>4
<1>6. F = [i \in D |-> PoppedBody(F, s, ctx, i)]
  BY <1>0, <1>5, Zenon DEF N
<1> QED BY <1>1, <1>6 DEF N

\* The tables l that the first i turns of pgt_alloc_unlocked() popped.
PoppedOK(l, s, ctx, i) ==
    /\ l \in Seq(Pgts) /\ Once(l) /\ Range(l) \subseteq Stock(s)
    /\ Len(l) <= i /\ (Len(l) = i \/ Stock(s) \subseteq Range(l))
    /\ \A k \in 1..Len(l) :
          \/ MatchPgt(s.pgt[l[k]], Bases(regions[ctx])[k], ctx)
          \/ \A q \in Range(s.cache) \ Range(l) :
                ~MatchPgt(s.pgt[q], Bases(regions[ctx])[k], ctx)

\* One more turn.
LEMMA PoppedStep ==
    ASSUME NEW s, PoolOK(s), NEW ctx, NEW i \in Nat, i >= 1, NEW l, PoppedOK(l, s, ctx, i - 1)
    PROVE  PoppedOK(l \o PopFromSomeList(s, l, Bases(regions[ctx])[i], ctx), s, ctx, i)
<1>1. PICK e, B : e = PopFromSomeList(s, l, Bases(regions[ctx])[i], ctx) /\ B = Bases(regions[ctx])
  OBVIOUS
<1>2. /\ l \in Seq(Pgts) /\ Len(l) \in Nat /\ Once(l) /\ Range(l) \subseteq Stock(s) /\ Len(l) <= i - 1
      /\ Len(l) = i - 1 \/ Stock(s) \subseteq Range(l)
      /\ \A k \in 1..Len(l) : \/ MatchPgt(s.pgt[l[k]], B[k], ctx)
                              \/ \A q \in Range(s.cache) \ Range(l) : ~MatchPgt(s.pgt[q], B[k], ctx)
  BY <1>1 DEF PoppedOK
<1>3. CASE e = <<>> /\ Stock(s) \subseteq Range(l)
  <2>1. l \o e = l /\ Len(l) <= i
    BY <1>2, <1>3
  <2> QED BY <1>1, <1>2, <1>3, <2>1 DEF PoppedOK
<1>4. ASSUME NEW p \in Stock(s) \ Range(l), e = <<p>>,
             \/ MatchPgt(s.pgt[p], B[i], ctx)
             \/ \A q \in Range(s.cache) \ Range(l) : ~MatchPgt(s.pgt[q], B[i], ctx)
      PROVE  PoppedOK(l \o e, s, ctx, i)
  <2>1. PICK m : m = l \o e
    OBVIOUS
  <2>2. p \in Pgts /\ Len(l) = i - 1
    <3>1. Stock(s) \subseteq Pgts
      BY DEF PoolOK, Stock, Range
    <3> QED BY <1>2, <1>4, <3>1
  <2>3. e \in Seq(Pgts) /\ Len(e) = 1 /\ Once(e) /\ Range(e) = {p} /\ e[1] = p
    BY <1>4, <2>2 DEF Once, Range
  <2>4. m \in Seq(Pgts) /\ Range(m) = Range(l) \cup {p} /\ Once(m)
    <3>1. Range(l) \cap Range(e) = {}
      BY <1>4, <2>3
    <3> QED BY <1>2, <2>1, <2>3, <3>1, ConcatFacts
  <2>5. Len(m) = i /\ m[i] = p /\ \A k \in 1..(i - 1) : m[k] = l[k]
    <3>0. l \in Seq(Pgts) /\ e \in Seq(Pgts)
      BY <1>2, <2>3
    <3>1. /\ Len(m) = Len(l) + Len(e) /\ \A k \in 1..Len(l) : m[k] = l[k]
          /\ \A k \in 1..Len(e) : m[Len(l) + k] = e[k]
      BY <2>1, <3>0, ConcatFacts
    <3>2. Len(m) = i /\ m[Len(l) + 1] = p /\ Len(l) + 1 = i
      BY <1>2, <2>2, <2>3, <3>1
    <3> QED BY <2>2, <3>1, <3>2
  <2>6. ASSUME NEW k \in 1..Len(m)
        PROVE  \/ MatchPgt(s.pgt[m[k]], B[k], ctx)
               \/ \A q \in Range(s.cache) \ Range(m) : ~MatchPgt(s.pgt[q], B[k], ctx)
    <3>1. CASE k = i
      BY <1>4, <2>4, <2>5, <3>1
    <3>2. CASE k # i
      <4>1. k \in 1..(i - 1) /\ m[k] = l[k]
        BY <2>5, <3>2
      <4> QED BY <1>2, <2>2, <2>4, <4>1
    <3> QED BY <3>1, <3>2
  <2>7. Range(m) \subseteq Stock(s)
    BY <1>2, <1>4, <2>4
  <2>8. Len(m) <= i /\ Len(m) = i
    BY <2>5
  <2>9. PoppedOK(m, s, ctx, i)
    BY <1>1, <2>4, <2>6, <2>7, <2>8 DEF PoppedOK
  <2> QED BY <2>1, <2>9
<1>5. \/ e = <<>> /\ Stock(s) \subseteq Range(l)
      \/ \E p \in Stock(s) \ Range(l) :
            /\ e = <<p>>
            /\ \/ MatchPgt(s.pgt[p], B[i], ctx)
               \/ \A q \in Range(s.cache) \ Range(l) : ~MatchPgt(s.pgt[q], B[i], ctx)
  BY <1>1, PopFacts
<1>6. PoppedOK(l \o e, s, ctx, i)
  BY <1>1, <1>3, <1>4, <1>5
<1> QED BY <1>1, <1>6

\* What the loop of pgt_alloc_unlocked() pops.
LEMMA PopTablesFacts ==
    ASSUME NEW s, PoolOK(s), NEW ctx, regions[ctx] \in SUBSET Regions
    PROVE  PoppedOK(PopTables(s, ctx), s, ctx, NumReqPgts(regions[ctx]))
<1>1. PICK N \in Nat : N = NumReqPgts(regions[ctx])
  BY NeededTables
<1>2. PICK f : /\ f = [i \in 0..N |-> PoppedBody(f, s, ctx, i)]
               /\ PopTables(s, ctx) = f[N]
  BY <1>1, PoppedDef
<1> DEFINE T == {i \in 0..N : ~PoppedOK(f[i], s, ctx, i)}
<1>3. T = {}
  <2> SUFFICES ASSUME T # {} PROVE FALSE
    OBVIOUS
  <2>1. PICK k \in T : \A y \in T : k <= y
    <3>1. T \in SUBSET Nat
      OBVIOUS
    <3> HIDE DEF T
    <3> QED BY <3>1, LeastNat
  <2>2. k \in 0..N /\ k \in Nat /\ ~PoppedOK(f[k], s, ctx, k) /\ f[k] = PoppedBody(f, s, ctx, k)
    BY <1>2, <2>1
  <2>3. CASE k = 0
    <3>1. f[k] = <<>>
      BY <2>2, <2>3 DEF PoppedBody
    <3>2. 1..0 = {} /\ Len(<<>>) = 0 /\ <<>> \in Seq(Pgts) /\ DOMAIN <<>> = {} /\ Range(<<>>) = {}
      BY DEF Range
    <3>3. PoppedOK(<<>>, s, ctx, 0)
      BY <3>2 DEF PoppedOK, Once
    <3> QED BY <2>2, <2>3, <3>1, <3>3
  <2>4. CASE k # 0
    <3>1. k \in Nat /\ k >= 1 /\ k - 1 \in 0..N /\ ~(k <= k - 1)
      BY <2>2, <2>4
    <3>2. PoppedOK(f[k - 1], s, ctx, k - 1)
      BY <2>1, <3>1
    <3>3. f[k] = PopNext(s, ctx, k)[f[k - 1]] /\ f[k - 1] \in Seq(Pgts)
      BY <2>2, <2>4, <3>2 DEF PoppedBody, PoppedOK
    <3>4. f[k] = f[k - 1] \o PopFromSomeList(s, f[k - 1], Bases(regions[ctx])[k], ctx)
      BY <3>3 DEF PopNext
    <3> HIDE DEF T
    <3> QED BY <2>2, <3>1, <3>2, <3>4, PoppedStep
  <2> QED BY <2>3, <2>4
<1> QED BY <1>1, <1>2, <1>3

\* The empty list, and a table without an owner.
LEMMA Empties ==
    /\ <<>> \in Seq(Pgts) /\ Once(<<>>) /\ Range(<<>>) = {} /\ Len(<<>>) = 0
    /\ Unused \in Table /\ Unused.ctx = NoCtx
  BY DEF Once, Range, Unused, Table

\* Pool r is pool s with tables H of the thread and of the cache freed.
FreedOK(r, s, H) ==
    /\ PoolOK(r) /\ InPool(r) = InPool(s) /\ r.free = s.free \cup H
    /\ r.pgt = [p \in Pgts |-> IF p \in H THEN Unused ELSE s.pgt[p]]

\* pgt_free_unlocked().
LEMMA FreeUnlockedFacts ==
    ASSUME NEW s, PoolOK(s)
    PROVE  \E H \in SUBSET Range(s.own) :
              FreedOK(PgtFreeUnlocked(s), s, H) /\ PgtFreeUnlocked(s).own = <<>>
<1>1. PICK gone : gone = {p \in Range(s.own) : s.pgt[p].used = {}}
  OBVIOUS
<1>2. PICK r : r = PgtFreeUnlocked(s)
  OBVIOUS
<1>3. /\ r.pgt = [p \in Pgts |-> IF p \in gone THEN Unused ELSE s.pgt[p]]
      /\ r.free = s.free \cup gone /\ r.own = <<>>
      /\ r.cache = Reverse(Without(s.own, gone)) \o s.cache
  BY <1>1, <1>2 DEF PgtFreeUnlocked
<1>4. /\ s.pgt \in [Pgts -> Table] /\ s.free \subseteq Pgts
      /\ s.cache \in Seq(Pgts) /\ s.own \in Seq(Pgts) /\ Once(s.cache) /\ Once(s.own)
      /\ s.free \cap Range(s.cache) = {} /\ s.free \cap Range(s.own) = {}
      /\ Range(s.cache) \cap Range(s.own) = {}
  BY DEF PoolOK
<1>5. PICK k, v : k = Without(s.own, gone) /\ v = Reverse(k)
  OBVIOUS
<1>6. k \in Seq(Pgts) /\ Range(k) = Range(s.own) \ gone /\ Once(k)
  BY <1>4, <1>5, WithoutFacts
<1>7. v \in Seq(Pgts) /\ Range(v) = Range(s.own) \ gone /\ Once(v)
  BY <1>5, <1>6, ReverseFacts
<1>8. r.cache \in Seq(Pgts) /\ Range(r.cache) = (Range(s.own) \ gone) \cup Range(s.cache) /\ Once(r.cache)
  <2>1. Range(v) \cap Range(s.cache) = {}
    BY <1>4, <1>7
  <2> QED BY <1>3, <1>4, <1>5, <1>7, <2>1, ConcatFacts
<1>9. gone \subseteq Range(s.own) /\ Range(s.own) \subseteq Pgts
  BY <1>1, <1>4 DEF Range
<1>10. r.pgt \in [Pgts -> Table]
  BY <1>3, <1>4, Empties
<1>11. PoolOK(r)
  BY <1>3, <1>4, <1>8, <1>9, <1>10, Empties DEF PoolOK
<1>12. InPool(r) = InPool(s)
  BY <1>3, <1>8, <1>9, Empties DEF InPool, Stock
<1> QED BY <1>2, <1>3, <1>9, <1>11, <1>12 DEF FreedOK

\* pgt_flush_ctx_range().
LEMMA FlushRangeFacts ==
    ASSUME NEW s, PoolOK(s), NEW ctx, NEW r
    PROVE  \E H \in SUBSET (Range(s.own) \cup Range(s.cache)) :
              /\ FreedOK(FlushRange(s, ctx, r), s, H)
              /\ Range(FlushRange(s, ctx, r).own) \subseteq Range(s.own)
<1>1. PICK hit : hit = {p \in Range(s.own) \cup Range(s.cache) : PgtEntryMatches(s.pgt[p], ctx, r)}
  OBVIOUS
<1>2. PICK q : q = FlushRange(s, ctx, r)
  OBVIOUS
<1>3. /\ q.pgt = [p \in Pgts |-> IF p \in hit THEN Unused ELSE s.pgt[p]]
      /\ q.free = s.free \cup hit /\ q.cache = Without(s.cache, hit) /\ q.own = Without(s.own, hit)
  BY <1>1, <1>2 DEF FlushRange
<1>4. /\ s.pgt \in [Pgts -> Table] /\ s.free \subseteq Pgts
      /\ s.cache \in Seq(Pgts) /\ s.own \in Seq(Pgts) /\ Once(s.cache) /\ Once(s.own)
      /\ s.free \cap Range(s.cache) = {} /\ s.free \cap Range(s.own) = {}
      /\ Range(s.cache) \cap Range(s.own) = {}
  BY DEF PoolOK
<1>5. q.own \in Seq(Pgts) /\ Range(q.own) = Range(s.own) \ hit /\ Once(q.own)
  BY <1>3, <1>4, WithoutFacts
<1>6. q.cache \in Seq(Pgts) /\ Range(q.cache) = Range(s.cache) \ hit /\ Once(q.cache)
  BY <1>3, <1>4, WithoutFacts
<1>7. hit \subseteq Range(s.own) \cup Range(s.cache) /\ Range(s.own) \cup Range(s.cache) \subseteq Pgts
  BY <1>1, <1>4 DEF Range
<1>8. q.pgt \in [Pgts -> Table]
  BY <1>3, <1>4, Empties
<1>9. PoolOK(q)
  BY <1>3, <1>4, <1>5, <1>6, <1>7, <1>8 DEF PoolOK
<1>10. InPool(q) = InPool(s)
  BY <1>3, <1>5, <1>6, <1>7 DEF InPool, Stock
<1> QED BY <1>2, <1>3, <1>5, <1>7, <1>9, <1>10 DEF FreedOK

\* The tables T, those in F on the free list, fit contexts L with regions R.
GoodTables(T, F, R, L) ==
    /\ \A p \in F : T[p] = Unused
    /\ \A p \in Pgts \ F :
          /\ T[p].ctx \in L
          /\ T[p].used \subseteq PagedUnits(R[T[p].ctx])
          /\ \A q \in Pgts \ F : p # q => ~MatchPgt(T[q], T[p].vabase, T[p].ctx)

\* NoStaleTable in these terms, before and after a step.
LEMMA NoStaleIs ==
    /\ NoStaleTable <=> GoodTables(pgt, freeList, regions, live)
    /\ NoStaleTable' <=> GoodTables(pgt', freeList', regions', live')
<1>1. NoStaleTable <=> GoodTables(pgt, freeList, regions, live)
  BY DEF NoStaleTable, GoodTables
<1>2. NoStaleTable' <=> GoodTables(pgt', freeList', regions', live')
  BY DEF NoStaleTable, GoodTables
<1> QED BY <1>1, <1>2

\* Freeing tables leaves no stale one.
LEMMA FreedGood ==
    ASSUME NEW s, NEW r, NEW H \in SUBSET Pgts, FreedOK(r, s, H), PoolOK(s), NEW R, NEW L,
           GoodTables(s.pgt, s.free, R, L)
    PROVE  GoodTables(r.pgt, r.free, R, L)
<1>1. /\ r.free = s.free \cup H /\ s.free \subseteq Pgts
      /\ \A p \in Pgts : r.pgt[p] = IF p \in H THEN Unused ELSE s.pgt[p]
  BY DEF FreedOK, PoolOK
<1>2. \A p \in r.free : r.pgt[p] = Unused
  BY <1>1 DEF GoodTables
<1>3. \A p \in Pgts \ r.free : p \in Pgts \ s.free /\ r.pgt[p] = s.pgt[p]
  BY <1>1
<1> QED BY <1>2, <1>3 DEF GoodTables

\* pgt_alloc_unlocked(): each popped table becomes the context's table for its
\* address.
LEMMA LinkFacts ==
    ASSUME NEW s, PoolOK(s), s.own = <<>>, NEW ctx \in Ctxs, regions[ctx] \in SUBSET Regions,
           NEW got, PoppedOK(got, s, ctx, NumReqPgts(regions[ctx])),
           NEW r, r = LinkTables(s, got, ctx)
    PROVE  /\ PoolOK(r) /\ InPool(r) = InPool(s) /\ r.own = got /\ r.free = s.free \ Range(got)
           /\ \A p \in Pgts \ Range(got) : r.pgt[p] = s.pgt[p]
           /\ \A i \in DOMAIN got : /\ MatchPgt(r.pgt[got[i]], Bases(regions[ctx])[i], ctx)
                                    /\ \/ r.pgt[got[i]] = s.pgt[got[i]]
                                       \/ /\ r.pgt[got[i]].used = {}
                                          /\ ~MatchPgt(s.pgt[got[i]], Bases(regions[ctx])[i], ctx)
<1>1. PICK B : B = Bases(regions[ctx])
  OBVIOUS
<1>2. /\ r.free = s.free \ Range(got) /\ r.own = got /\ r.cache = Without(s.cache, Range(got))
      /\ r.pgt = [p \in Pgts |->
                    IF \E i \in DOMAIN got : got[i] = p /\ ~MatchPgt(s.pgt[p], B[i], ctx)
                    THEN [ctx |-> ctx, used |-> {}, fixed |-> {},
                          vabase |-> B[CHOOSE i \in DOMAIN got : got[i] = p]]
                    ELSE s.pgt[p]]
  BY <1>1 DEF LinkTables
<1>3. /\ s.pgt \in [Pgts -> Table] /\ s.free \subseteq Pgts /\ s.cache \in Seq(Pgts)
      /\ Once(s.cache) /\ s.free \cap Range(s.cache) = {}
  BY DEF PoolOK
<1>4. /\ got \in Seq(Pgts) /\ Once(got) /\ Range(got) \subseteq Stock(s)
      /\ DOMAIN got \subseteq 1..NumReqPgts(regions[ctx])
  <2>1. NumReqPgts(regions[ctx]) \in Nat
    BY NeededTables
  <2> QED BY <2>1 DEF PoppedOK
<1>5. \A i \in DOMAIN got : B[i] \in Nat
  BY <1>1, <1>4, NeededTables
<1>6. r.cache \in Seq(Pgts) /\ Range(r.cache) = Range(s.cache) \ Range(got) /\ Once(r.cache)
  BY <1>2, <1>3, WithoutFacts
<1>7. ASSUME NEW i \in DOMAIN got
      PROVE  r.pgt[got[i]] = IF MatchPgt(s.pgt[got[i]], B[i], ctx) THEN s.pgt[got[i]]
                             ELSE [ctx |-> ctx, used |-> {}, fixed |-> {}, vabase |-> B[i]]
  <2>1. got[i] \in Pgts /\ \A j \in DOMAIN got : got[j] = got[i] => j = i
    BY <1>4 DEF Once
  <2>2. (CHOOSE j \in DOMAIN got : got[j] = got[i]) = i
    BY <2>1
  <2> QED BY <1>2, <2>1, <2>2
<1>8. ASSUME NEW p \in Pgts \ Range(got) PROVE r.pgt[p] = s.pgt[p]
  BY <1>2 DEF Range
<1>9. r.pgt \in [Pgts -> Table]
  <2>1. ASSUME NEW p \in Pgts PROVE r.pgt[p] \in Table
    <3>1. CASE p \in Range(got)
      <4>1. PICK i \in DOMAIN got : p = got[i]
        BY <3>1 DEF Range
      <4>2. [ctx |-> ctx, used |-> {}, fixed |-> {}, vabase |-> B[i]] \in Table
        BY <1>5 DEF Table
      <4> QED BY <1>3, <1>7, <4>1, <4>2
    <3>2. CASE p \notin Range(got)
      BY <1>3, <1>8, <3>2
    <3> QED BY <3>1, <3>2
  <2>2. r.pgt = [p \in Pgts |-> r.pgt[p]]
    BY <1>2
  <2> QED BY <2>1, <2>2
<1>10. PoolOK(r)
  BY <1>2, <1>3, <1>4, <1>6, <1>9 DEF PoolOK
<1>11. InPool(r) = InPool(s)
  BY <1>2, <1>4, <1>6, Empties DEF InPool, Stock
<1>12. ASSUME NEW i \in DOMAIN got
       PROVE  /\ MatchPgt(r.pgt[got[i]], B[i], ctx)
              /\ \/ r.pgt[got[i]] = s.pgt[got[i]]
                 \/ r.pgt[got[i]].used = {} /\ ~MatchPgt(s.pgt[got[i]], B[i], ctx)
  <2>1. CASE MatchPgt(s.pgt[got[i]], B[i], ctx)
    <3>1. r.pgt[got[i]] = s.pgt[got[i]]
      BY <1>7, <2>1
    <3> QED BY <2>1, <3>1
  <2>2. CASE ~MatchPgt(s.pgt[got[i]], B[i], ctx)
    <3>1. r.pgt[got[i]] = [ctx |-> ctx, used |-> {}, fixed |-> {}, vabase |-> B[i]]
      BY <1>7, <2>2
    <3>2. /\ r.pgt[got[i]].ctx = ctx /\ r.pgt[got[i]].vabase = B[i]
          /\ r.pgt[got[i]].used = {}
      BY <3>1
    <3> QED BY <2>2, <3>2 DEF MatchPgt
  <2> QED BY <2>1, <2>2
<1> QED BY <1>1, <1>2, <1>8, <1>10, <1>11, <1>12

\* No table is stale after it: the context has one table for each address.
LEMMA LinkGood ==
    ASSUME NEW s, PoolOK(s), s.own = <<>>, NEW ctx \in Ctxs, regions[ctx] \in SUBSET Regions,
           NEW got, PoppedOK(got, s, ctx, NumReqPgts(regions[ctx])),
           NEW r, r = LinkTables(s, got, ctx), NEW L, ctx \in L,
           \A q \in Pgts \ InPool(s) : s.pgt[q].ctx # ctx,
           GoodTables(s.pgt, s.free, regions, L)
    PROVE  GoodTables(r.pgt, r.free, regions, L)
<1>1. PICK B : B = Bases(regions[ctx])
  OBVIOUS
<1>2. /\ r.free = s.free \ Range(got) /\ \A p \in Pgts \ Range(got) : r.pgt[p] = s.pgt[p]
      /\ \A i \in DOMAIN got : /\ MatchPgt(r.pgt[got[i]], B[i], ctx)
                               /\ \/ r.pgt[got[i]] = s.pgt[got[i]]
                                  \/ /\ r.pgt[got[i]].used = {}
                                     /\ ~MatchPgt(s.pgt[got[i]], B[i], ctx)
  BY <1>1, LinkFacts
<1>3. /\ got \in Seq(Pgts) /\ Range(got) = {got[i] : i \in DOMAIN got}
      /\ DOMAIN got \subseteq 1..NumReqPgts(regions[ctx]) /\ DOMAIN got = 1..Len(got)
  <2>1. NumReqPgts(regions[ctx]) \in Nat
    BY NeededTables
  <2> QED BY <2>1 DEF PoppedOK, Range
<1>4. \A i, j \in DOMAIN got : B[i] = B[j] => i = j
  BY <1>1, <1>3, NeededTables
<1>5. ctx # NoCtx /\ \A p \in s.free : s.pgt[p] = Unused /\ s.pgt[p].ctx # ctx
  BY PgtAssumption, Empties DEF GoodTables
<1>6. \A p \in r.free : p \notin Range(got) /\ r.pgt[p] = Unused
  BY <1>2, <1>5 DEF PoolOK
<1>7. ASSUME NEW p \in Pgts \ r.free, p \notin Range(got)
      PROVE  r.pgt[p] = s.pgt[p] /\ p \in Pgts \ s.free
  BY <1>2, <1>7
<1>8. ASSUME NEW i \in DOMAIN got
      PROVE  /\ r.pgt[got[i]].ctx = ctx /\ r.pgt[got[i]].vabase = B[i] /\ got[i] \in Pgts
             /\ \/ r.pgt[got[i]] = s.pgt[got[i]] /\ got[i] \in Pgts \ s.free
                \/ /\ r.pgt[got[i]].used = {}
                   /\ \A q \in Range(s.cache) \ Range(got) : ~MatchPgt(s.pgt[q], B[i], ctx)
  <2>1. r.pgt[got[i]].ctx = ctx /\ r.pgt[got[i]].vabase = B[i] /\ got[i] \in Pgts
    BY <1>2, <1>3 DEF MatchPgt
  <2>2. \/ MatchPgt(s.pgt[got[i]], B[i], ctx)
        \/ \A q \in Range(s.cache) \ Range(got) : ~MatchPgt(s.pgt[q], B[i], ctx)
    BY <1>1, <1>3 DEF PoppedOK
  <2>3. CASE r.pgt[got[i]] = s.pgt[got[i]]
    <3>1. got[i] \notin s.free
      BY <1>5, <2>1, <2>3
    <3> QED BY <2>1, <2>3, <3>1
  <2>4. CASE r.pgt[got[i]].used = {} /\ ~MatchPgt(s.pgt[got[i]], B[i], ctx)
    BY <2>1, <2>2, <2>4
  <2> QED BY <1>2, <2>3, <2>4
<1>9. ASSUME NEW i \in DOMAIN got, NEW q \in Pgts \ r.free, q \notin Range(got)
      PROVE  ~MatchPgt(r.pgt[q], B[i], ctx)
  <2>1. r.pgt[q] = s.pgt[q] /\ q \in Pgts \ s.free
    BY <1>7, <1>9
  <2>2. CASE q \notin InPool(s)
    BY <2>1, <2>2 DEF MatchPgt
  <2>3. CASE q \in InPool(s)
    <3>1. q \in Range(s.cache) \ Range(got)
      BY <1>9, <2>1, <2>3, Empties DEF InPool, Stock
    <3>2. CASE r.pgt[got[i]] = s.pgt[got[i]] /\ got[i] \in Pgts \ s.free
      <4>1. q # got[i]
        BY <1>3, <1>9
      <4>2. ~MatchPgt(s.pgt[q], s.pgt[got[i]].vabase, s.pgt[got[i]].ctx)
        BY <2>1, <3>2, <4>1 DEF GoodTables
      <4> QED BY <1>8, <2>1, <3>2, <4>2
    <3> QED BY <1>8, <2>1, <3>1, <3>2
  <2> QED BY <2>2, <2>3
<1>10. ASSUME NEW p \in Pgts \ r.free
       PROVE  /\ r.pgt[p].ctx \in L
              /\ r.pgt[p].used \subseteq PagedUnits(regions[r.pgt[p].ctx])
              /\ \A q \in Pgts \ r.free : p # q => ~MatchPgt(r.pgt[q], r.pgt[p].vabase, r.pgt[p].ctx)
  <2>1. CASE p \notin Range(got)
    <3>1. r.pgt[p] = s.pgt[p] /\ p \in Pgts \ s.free
      BY <1>7, <2>1
    <3>2. /\ r.pgt[p].ctx \in L
          /\ r.pgt[p].used \subseteq PagedUnits(regions[r.pgt[p].ctx])
      BY <3>1 DEF GoodTables
    <3>3. ASSUME NEW q \in Pgts \ r.free, p # q
          PROVE  ~MatchPgt(r.pgt[q], r.pgt[p].vabase, r.pgt[p].ctx)
      <4>1. CASE q \notin Range(got)
        BY <1>7, <3>1, <3>3, <4>1 DEF GoodTables
      <4>2. CASE q \in Range(got)
        <5>1. PICK i \in DOMAIN got : q = got[i]
          BY <1>3, <4>2
        <5>2. ~MatchPgt(r.pgt[p], B[i], ctx)
          BY <1>9, <2>1
        <5> QED BY <1>8, <5>1, <5>2 DEF MatchPgt
      <4> QED BY <4>1, <4>2
    <3> QED BY <3>2, <3>3
  <2>2. CASE p \in Range(got)
    <3>1. PICK i \in DOMAIN got : p = got[i]
      BY <1>3, <2>2
    <3>2. r.pgt[p].ctx \in L
      BY <1>8, <3>1
    <3>3. r.pgt[p].used \subseteq PagedUnits(regions[r.pgt[p].ctx])
      <4>1. CASE r.pgt[got[i]] = s.pgt[got[i]] /\ got[i] \in Pgts \ s.free
        BY <3>1, <4>1 DEF GoodTables
      <4>2. CASE r.pgt[got[i]].used = {}
        BY <3>1, <4>2
      <4> QED BY <1>8, <4>1, <4>2
    <3>4. ASSUME NEW q \in Pgts \ r.free, p # q
          PROVE  ~MatchPgt(r.pgt[q], r.pgt[p].vabase, r.pgt[p].ctx)
      <4>1. CASE q \notin Range(got)
        BY <1>8, <1>9, <3>1, <4>1
      <4>2. CASE q \in Range(got)
        <5>1. PICK j \in DOMAIN got : q = got[j]
          BY <1>3, <4>2
        <5>2. j # i /\ B[j] # B[i]
          BY <1>4, <3>1, <3>4, <5>1
        <5> QED BY <1>8, <3>1, <5>1, <5>2 DEF MatchPgt
      <4> QED BY <4>1, <4>2
    <3> QED BY <3>2, <3>3, <3>4
  <2> QED BY <2>1, <2>2
<1> QED BY <1>6, <1>10 DEF GoodTables

\* core_mmu_populate_user_map() writes entries that the pager does not know.
LEMMA PopulateFacts ==
    ASSUME NEW s, PoolOK(s), NEW ctx, regions[ctx] \in SUBSET Regions,
           NEW r, r = Populate(s, ctx), GoodTables(s.pgt, s.free, regions, live)
    PROVE  /\ PoolOK(r) /\ InPool(r) = InPool(s) /\ r.own = s.own /\ r.free = s.free
           /\ \A p \in Pgts : r.pgt[p].ctx = s.pgt[p].ctx /\ r.pgt[p].vabase = s.pgt[p].vabase
           /\ \A p \in Pgts \ Range(s.own) : r.pgt[p] = s.pgt[p]
           /\ GoodTables(r.pgt, r.free, regions, live)
<1> DEFINE mapped(b) == {u \in FixedUnits(regions[ctx]) : TableOf(u) = b}
<1>1. /\ r.free = s.free /\ r.cache = s.cache /\ r.own = s.own
      /\ r.pgt = [p \in Pgts |->
                    IF p \in Range(s.own)
                    THEN [s.pgt[p] EXCEPT !.fixed = @ \cup mapped(s.pgt[p].vabase)]
                    ELSE s.pgt[p]]
  BY DEF Populate
<1>2. FixedUnits(regions[ctx]) \subseteq Nat
  <2>1. \A x \in Regions : Units(x) \subseteq Nat
    BY PgtAssumption DEF Units
  <2> QED BY <2>1 DEF FixedUnits
<1>3. \A b : mapped(b) \subseteq Nat
  BY <1>2
<1> HIDE DEF mapped
<1>4. ASSUME NEW p \in Pgts
      PROVE  /\ r.pgt[p] \in Table /\ r.pgt[p].ctx = s.pgt[p].ctx
             /\ r.pgt[p].vabase = s.pgt[p].vabase /\ r.pgt[p].used = s.pgt[p].used
             /\ p \notin Range(s.own) => r.pgt[p] = s.pgt[p]
  <2>1. s.pgt[p] \in Table
    BY DEF PoolOK
  <2>2. CASE p \in Range(s.own)
    <3>1. PICK M \in SUBSET Nat : r.pgt[p] = [s.pgt[p] EXCEPT !.fixed = @ \cup M]
      BY <1>1, <1>3, <2>2
    <3> QED BY <2>1, <2>2, <3>1 DEF Table
  <2>3. CASE p \notin Range(s.own)
    <3>1. r.pgt[p] = s.pgt[p]
      BY <1>1, <2>3
    <3> QED BY <2>1, <3>1
  <2> QED BY <2>2, <2>3
<1>5. r.pgt \in [Pgts -> Table]
  <2>1. r.pgt = [p \in Pgts |-> r.pgt[p]]
    BY <1>1
  <2> QED BY <1>4, <2>1
<1>6. PoolOK(r)
  BY <1>1, <1>5 DEF PoolOK
<1>7. InPool(r) = InPool(s)
  BY <1>1 DEF InPool, Stock
<1>8. GoodTables(r.pgt, r.free, regions, live)
  <2>1. \A p \in s.free : p \in Pgts /\ p \notin Range(s.own)
    BY DEF PoolOK
  <2>2. \A p \in r.free : r.pgt[p] = Unused
    BY <1>1, <1>4, <2>1 DEF GoodTables
  <2>3. ASSUME NEW p \in Pgts \ r.free
        PROVE  r.pgt[p].ctx \in live /\ r.pgt[p].used \subseteq PagedUnits(regions[r.pgt[p].ctx])
    BY <1>1, <1>4 DEF GoodTables
  <2>4. ASSUME NEW p \in Pgts \ r.free, NEW q \in Pgts \ r.free, p # q
        PROVE  ~MatchPgt(r.pgt[q], r.pgt[p].vabase, r.pgt[p].ctx)
    <3>1. ~MatchPgt(s.pgt[q], s.pgt[p].vabase, s.pgt[p].ctx)
      BY <1>1, <2>4 DEF GoodTables
    <3> QED BY <1>4, <3>1 DEF MatchPgt
  <2> QED BY <2>2, <2>3, <2>4 DEF GoodTables
<1> QED BY <1>1, <1>4, <1>6, <1>7, <1>8

-----------------------------------------------------------------------------
(* Steps.                                                                  *)

\* List l holds the tables of context c for regions rs, in order.
Fits(T, l, rs, c) ==
    Len(l) = NumReqPgts(rs) /\ \A i \in DOMAIN l : MatchPgt(T[l[i]], Bases(rs)[i], c)

OwnOK(t) == \A p \in Own(t) : pgt[p].ctx = tsdCtx[t]

RunOK(t) ==
    pc[t] = "run" /\ tsdCtx[t] # NoCtx => Fits(pgt, tbls[t], regions[tsdCtx[t]], tsdCtx[t])

\* The parts of the invariant about one thread, before and after a step.
LEMMA PerThread ==
    /\ OwnInv <=> \A t \in Threads : OwnOK(t)
    /\ OwnInv' <=> \A t \in Threads : OwnOK(t)'
    /\ RunsOnOwnTables <=> \A t \in Threads : RunOK(t)
    /\ RunsOnOwnTables' <=> \A t \in Threads : RunOK(t)'
<1>1. OwnInv <=> \A t \in Threads : OwnOK(t)
  BY DEF OwnInv, OwnOK
<1>2. OwnInv' <=> \A t \in Threads : OwnOK(t)'
  BY DEF OwnInv, OwnOK
<1>3. RunsOnOwnTables <=> \A t \in Threads : RunOK(t)
  BY DEF RunsOnOwnTables, RunOK, Fits
<1>4. RunsOnOwnTables' <=> \A t \in Threads : RunOK(t)'
  BY DEF RunsOnOwnTables, RunOK, Fits
<1> QED BY <1>1, <1>2, <1>3, <1>4

\* A step leaves thread u alone.
Alone(u) ==
    /\ tbls'[u] = tbls[u] /\ tsdCtx'[u] = tsdCtx[u] /\ target'[u] = target[u] /\ pc'[u] = pc[u]
    /\ \A p \in Own(u) : pgt'[p].ctx = pgt[p].ctx /\ pgt'[p].vabase = pgt[p].vabase
    /\ \A c \in CtxsOf(u) : c \in live' /\ regions'[c] = regions[c]

\* A thread that is left alone keeps its part of the invariant.
LEMMA AloneKeeps ==
    ASSUME PInv, NEW u \in Threads, Alone(u)
    PROVE  CtxOK(u)' /\ OwnOK(u)' /\ RunOK(u)' /\ CtxsOf(u)' = CtxsOf(u)
<1>1. /\ CtxOK(u) /\ OwnOK(u) /\ RunOK(u) /\ tbls[u] \in Seq(Pgts)
      /\ tsdCtx[u] \in Ctxs \cup {NoCtx}
  BY PerThread DEF PInv, CtxInv, Shape
<1>2. CtxsOf(u)' = CtxsOf(u)
  BY DEF Alone, CtxsOf
<1>3. CtxOK(u)'
  BY <1>1, <1>2 DEF Alone, CtxOK
<1>4. Own(u)' = Own(u)
  BY DEF Alone, Own, Range
<1>5. OwnOK(u)'
  BY <1>1, <1>4 DEF Alone, OwnOK
<1>6. RunOK(u)'
  <2> SUFFICES ASSUME pc'[u] = "run", tsdCtx'[u] # NoCtx
               PROVE  Fits(pgt', tbls'[u], regions'[tsdCtx'[u]], tsdCtx'[u])
    BY DEF RunOK
  <2>1. PICK c, l, rs : c = tsdCtx[u] /\ l = tbls[u] /\ rs = regions[c]
    OBVIOUS
  <2>2. c \in CtxsOf(u) /\ Fits(pgt, l, rs, c)
    BY <1>1, <2>1 DEF Alone, RunOK, CtxsOf
  <2>3. tsdCtx'[u] = c /\ tbls'[u] = l /\ regions'[c] = rs
    BY <2>1, <2>2 DEF Alone
  <2>4. ASSUME NEW i \in DOMAIN l
        PROVE  MatchPgt(pgt'[l[i]], Bases(rs)[i], c)
    <3>1. l[i] \in Own(u)
      BY <2>1 DEF Own, Range
    <3> QED BY <2>2, <3>1 DEF Fits, MatchPgt, Alone
  <2> QED BY <2>2, <2>3, <2>4 DEF Fits
<1> QED BY <1>2, <1>3, <1>5, <1>6

\* A step of one thread, U, or of none keeps the invariant if it keeps the
\* parts about the pool and about that thread.
LEMMA Frame ==
    ASSUME PInv, NEW U \in SUBSET Threads, \A t, u \in U : t = u,
           Shape', ShareInv', NoStaleTable',
           \A u \in Threads \ U : Alone(u),
           \A t \in U : /\ CtxOK(t)' /\ OwnOK(t)' /\ RunOK(t)'
                        /\ \A u \in Threads \ U : CtxsOf(t)' \cap CtxsOf(u) = {}
    PROVE  PInv'
<1>1. \A u \in Threads \ U : CtxOK(u)' /\ OwnOK(u)' /\ RunOK(u)' /\ CtxsOf(u)' = CtxsOf(u)
  BY AloneKeeps
<1>2. \A u \in Threads : CtxOK(u)' /\ OwnOK(u)' /\ RunOK(u)'
  BY <1>1
<1>3. OwnInv' /\ RunsOnOwnTables'
  BY <1>2, PerThread
<1>4. ASSUME NEW t \in Threads, NEW u \in Threads, t # u
      PROVE  CtxsOf(t)' \cap CtxsOf(u)' = {}
  <2>1. CtxsOf(t) \cap CtxsOf(u) = {}
    BY <1>4 DEF PInv, CtxInv
  <2>2. CASE t \in U /\ u \notin U
    BY <1>1, <2>2
  <2>3. CASE t \notin U /\ u \in U
    BY <1>1, <2>3
  <2>4. CASE t \notin U /\ u \notin U
    BY <1>1, <2>1, <2>4
  <2> QED BY <1>4, <2>2, <2>3, <2>4
<1>5. CtxInv'
  BY <1>2, <1>4 DEF CtxInv
<1> QED BY <1>3, <1>5 DEF PInv

\* The same for one thread.
LEMMA FrameOne ==
    ASSUME PInv, NEW t \in Threads, Shape', ShareInv', NoStaleTable',
           \A u \in Threads : u # t => Alone(u) /\ CtxsOf(t)' \cap CtxsOf(u) = {},
           CtxOK(t)', OwnOK(t)', RunOK(t)'
    PROVE  PInv'
<1>1. PICK U : U = {t}
  OBVIOUS
<1>2. U \in SUBSET Threads /\ \A x, u \in U : x = u
  BY <1>1
<1>3. \A u \in Threads \ U : Alone(u)
  BY <1>1
<1>4. \A x \in U : x = t
  BY <1>1
<1>5. \A x \in U : /\ CtxOK(x)' /\ OwnOK(x)' /\ RunOK(x)'
                   /\ \A u \in Threads \ U : CtxsOf(x)' \cap CtxsOf(u) = {}
  BY <1>1, <1>4
<1> QED BY <1>2, <1>3, <1>5, Frame

\* A step that leaves the lists as they are.
LEMMA ShareSame ==
    ASSUME ShareInv, freeList' = freeList, cacheList' = cacheList, tbls' = tbls
    PROVE  ShareInv'
<1>1. Cached' = Cached /\ \A t \in Threads : Own(t)' = Own(t)
  BY DEF Cached, Own, Range
<1>2. Once(cacheList)' <=> Once(cacheList)
  BY DEF Once
<1>3. \A t \in Threads : Once(tbls[t])' <=> Once(tbls[t])
  BY DEF Once
<1> QED BY <1>1, <1>2, <1>3 DEF ShareInv

\* The lists of a thread and of the pool hold all tables but those of the
\* other threads.
LEMMA PoolIs ==
    ASSUME Shape, ShareInv, NEW t \in Threads
    PROVE  /\ PoolOK(Pool(t)) /\ InPool(Pool(t)) \subseteq Pgts
           /\ \A u \in Threads : u # t => Own(u) \cap InPool(Pool(t)) = {}
           /\ \A p \in Pgts \ InPool(Pool(t)) : \E u \in Threads : u # t /\ p \in Own(u)
<1>1. PICK s : s = Pool(t)
  OBVIOUS
<1>2. s.pgt = pgt /\ s.free = freeList /\ s.cache = cacheList /\ s.own = tbls[t]
  BY <1>1 DEF Pool
<1>3. Range(s.cache) = Cached /\ Range(s.own) = Own(t) /\ Cached \subseteq Pgts /\ Own(t) \subseteq Pgts
  BY <1>2 DEF Cached, Own, Shape, Range
<1>4. PoolOK(s)
  BY <1>2, <1>3 DEF PoolOK, Shape, ShareInv
<1>5. InPool(s) = freeList \cup Cached \cup Own(t)
  BY <1>2, <1>3 DEF InPool, Stock
<1>6. InPool(s) \subseteq Pgts
  BY <1>3, <1>5 DEF Shape
<1>7. \A u \in Threads : u # t => Own(u) \cap InPool(s) = {}
  BY <1>5 DEF ShareInv
<1>8. \A p \in Pgts \ InPool(s) : \E u \in Threads : u # t /\ p \in Own(u)
  BY <1>5 DEF ShareInv
<1> QED BY <1>1, <1>4, <1>6, <1>7, <1>8

\* A thread that changes its lists and the pool's within the tables they hold.
LEMMA PoolStep ==
    ASSUME Shape, ShareInv, NEW t \in Threads, NEW r, PoolOK(r), InPool(r) = InPool(Pool(t)),
           SetPool(t, r)
    PROVE  /\ ShareInv' /\ pgt' \in [Pgts -> Table] /\ freeList' \subseteq Pgts
           /\ cacheList' \in Seq(Pgts) /\ tbls' \in [Threads -> Seq(Pgts)]
           /\ tbls'[t] = r.own /\ \A u \in Threads : u # t => tbls'[u] = tbls[u]
<1>1. pgt' = r.pgt /\ freeList' = r.free /\ cacheList' = r.cache
      /\ tbls' = [tbls EXCEPT ![t] = r.own] /\ tbls \in [Threads -> Seq(Pgts)]
  BY DEF SetPool, Shape
<1>2. /\ pgt' \in [Pgts -> Table] /\ freeList' \subseteq Pgts /\ cacheList' \in Seq(Pgts)
      /\ r.own \in Seq(Pgts) /\ Once(r.own)
  BY <1>1 DEF PoolOK
<1>3. tbls'[t] = r.own /\ \A u \in Threads : u # t => tbls'[u] = tbls[u]
  BY <1>1
<1>4. tbls' \in [Threads -> Seq(Pgts)]
  BY <1>1, <1>2
<1>5. /\ Cached' = Range(r.cache) /\ Own(t)' = Range(r.own)
      /\ \A u \in Threads : u # t => Own(u)' = Own(u)
  BY <1>1, <1>3 DEF Cached, Own, Range
<1>6. InPool(r) = freeList' \cup Cached' \cup Own(t)'
  BY <1>1, <1>5 DEF InPool, Stock
<1>7. Once(cacheList)' /\ \A u \in Threads : Once(tbls[u])'
  <2>1. Once(cacheList')
    BY <1>1 DEF PoolOK
  <2>2. \A u \in Threads : Once(tbls'[u])
    BY <1>2, <1>3 DEF ShareInv
  <2> QED BY <2>1, <2>2 DEF Once
<1>8. freeList' \cap Cached' = {} /\ Own(t)' \cap (freeList' \cup Cached') = {}
  BY <1>1, <1>5 DEF PoolOK
<1>9. /\ \A u \in Threads : u # t => Own(u)' \cap InPool(r) = {}
      /\ \A p \in Pgts \ InPool(r) : \E u \in Threads : u # t /\ p \in Own(u)'
  BY <1>5, PoolIs
<1>10. \A u \in Threads : Own(u)' \cap (freeList' \cup Cached') = {}
  BY <1>6, <1>8, <1>9
<1>11. ASSUME NEW u \in Threads, NEW v \in Threads, u # v
       PROVE  Own(u)' \cap Own(v)' = {}
  <2>1. CASE u # t /\ v # t
    BY <1>5, <1>11, <2>1 DEF ShareInv
  <2>2. CASE u = t \/ v = t
    BY <1>6, <1>9, <1>11, <2>2
  <2> QED BY <2>1, <2>2
<1>12. \A p \in Pgts : p \in freeList' \cup Cached' \/ \E u \in Threads : p \in Own(u)'
  BY <1>6, <1>9
<1>13. ShareInv'
  BY <1>7, <1>8, <1>10, <1>11, <1>12 DEF ShareInv
<1> QED BY <1>2, <1>3, <1>4, <1>13

\* tee_mmu_set_ctx() is entered.
LEMMA SetCtxKeeps ==
    ASSUME PInv, NEW t \in Threads, NEW c \in Ctxs \cup {NoCtx}, SetCtx(t, c)
    PROVE  PInv'
<1> USE DEF PInv
<1>1. Shape'
  BY DEF Shape, SetCtx
<1>2. ShareInv'
  BY ShareSame DEF SetCtx
<1>3. NoStaleTable'
  <2>1. pgt' = pgt /\ freeList' = freeList /\ regions' = regions /\ live' = live
    BY DEF SetCtx
  <2> QED BY <2>1, NoStaleIs
<1>4. ASSUME NEW u \in Threads, u # t PROVE Alone(u)
  BY <1>4 DEF SetCtx, Alone, Shape, CtxInv, CtxOK
<1>5. CtxsOf(t) \subseteq live /\ OwnOK(t)
  BY PerThread DEF CtxInv, CtxOK
<1>6. /\ target'[t] = c /\ tsdCtx'[t] = tsdCtx[t] /\ pc'[t] = "free" /\ pgt' = pgt /\ tbls' = tbls
      /\ live' = live /\ (c # NoCtx => c \in live)
  BY DEF SetCtx, Shape
<1>7. CtxsOf(t)' \subseteq CtxsOf(t) \cup ({c} \ {NoCtx})
  BY <1>6 DEF CtxsOf
<1>8. CtxOK(t)' /\ OwnOK(t)' /\ RunOK(t)'
  BY <1>5, <1>6, <1>7 DEF CtxOK, OwnOK, RunOK, Own
<1>9. ASSUME NEW u \in Threads, u # t PROVE CtxsOf(t)' \cap CtxsOf(u) = {}
  <2>1. CtxsOf(t) \cap CtxsOf(u) = {}
    BY <1>9 DEF CtxInv
  <2>2. c # NoCtx => c \notin CtxsOf(u)
    BY DEF SetCtx, CtxsOf
  <2> QED BY <1>7, <2>1, <2>2
<1> HIDE DEF PInv
<1> QED BY <1>1, <1>2, <1>3, <1>4, <1>8, <1>9, FrameOne

\* A step of thread t that moves tables within its lists and the pool's.  It
\* keeps the invariant if its own part holds afterwards.
LEMMA PoolKeeps ==
    ASSUME PInv, NEW t \in Threads, NEW r, PoolOK(r), InPool(r) = InPool(Pool(t)), SetPool(t, r),
           \A p \in Pgts \ InPool(Pool(t)) : r.pgt[p].ctx = pgt[p].ctx /\ r.pgt[p].vabase = pgt[p].vabase,
           tsdCtx' \in [Threads -> Ctxs \cup {NoCtx}], pc' \in [Threads -> {"run", "free", "alloc", "grow"}],
           asleep' \subseteq Threads, regions' \in [Ctxs -> SUBSET Regions],
           target' = target, live' = live,
           \A u \in Threads : u # t => tsdCtx'[u] = tsdCtx[u] /\ pc'[u] = pc[u],
           \A c \in Ctxs \ CtxsOf(t) : regions'[c] = regions[c],
           GoodTables(r.pgt, r.free, regions', live),
           {tsdCtx'[t], target'[t]} \subseteq {tsdCtx[t], target[t]},
           CtxOK(t)', OwnOK(t)', RunOK(t)'
    PROVE  PInv'
<1>1. /\ ShareInv' /\ pgt' \in [Pgts -> Table] /\ freeList' \subseteq Pgts
      /\ cacheList' \in Seq(Pgts) /\ tbls' \in [Threads -> Seq(Pgts)]
      /\ tbls'[t] = r.own /\ \A u \in Threads : u # t => tbls'[u] = tbls[u]
  BY PoolStep DEF PInv
<1>2. Shape'
  BY <1>1 DEF Shape, PInv
<1>3. pgt' = r.pgt /\ freeList' = r.free
  BY DEF SetPool
<1>4. NoStaleTable'
  BY <1>3, NoStaleIs
<1>5. CtxsOf(t)' \subseteq CtxsOf(t)
  BY DEF CtxsOf
<1>6. \A u \in Threads : u # t => CtxsOf(t) \cap CtxsOf(u) = {} /\ CtxsOf(u) \subseteq live
  BY DEF PInv, CtxInv, CtxOK
<1>7. ASSUME NEW u \in Threads, u # t PROVE Alone(u)
  <2>1. Own(u) \subseteq Pgts \ InPool(Pool(t))
    <3>1. Own(u) \subseteq Pgts
      BY DEF PInv, Shape, Own, Range
    <3> QED BY <1>7, <3>1, PoolIs DEF PInv
  <2>2. \A p \in Own(u) : pgt'[p].ctx = pgt[p].ctx /\ pgt'[p].vabase = pgt[p].vabase
    BY <1>3, <2>1
  <2>3. \A c \in CtxsOf(u) : c \in live' /\ regions'[c] = regions[c]
    <3>1. live \subseteq Ctxs
      BY DEF PInv, Shape
    <3> QED BY <1>6, <1>7, <3>1
  <2> QED BY <1>1, <1>7, <2>2, <2>3 DEF Alone
<1>8. \A u \in Threads \ {t} : CtxsOf(t)' \cap CtxsOf(u) = {}
  BY <1>5, <1>6
<1> QED BY <1>1, <1>2, <1>4, <1>7, <1>8, FrameOne

\* Freeing leaves the other tables alone.
LEMMA FreedOthers ==
    ASSUME NEW s, NEW r, NEW H \in SUBSET InPool(s), FreedOK(r, s, H)
    PROVE  \A p \in Pgts \ InPool(s) : r.pgt[p] = s.pgt[p]
BY DEF FreedOK

\* pgt_free().
LEMMA PgtFreeKeeps ==
    ASSUME PInv, NEW t \in Threads, PgtFree(t)
    PROVE  PInv'
<1>1. PICK s, r : s = Pool(t) /\ r = PgtFreeUnlocked(s)
  OBVIOUS
<1>2. s.pgt = pgt /\ s.free = freeList /\ s.own = tbls[t]
  BY <1>1 DEF Pool
<1>3. PoolOK(s) /\ InPool(s) \subseteq Pgts
  BY <1>1, PoolIs DEF PInv
<1>4. PICK H \in SUBSET Range(s.own) : FreedOK(r, s, H) /\ r.own = <<>>
  BY <1>1, <1>3, FreeUnlockedFacts
<1>5. H \subseteq InPool(s) /\ H \subseteq Pgts
  BY <1>3 DEF InPool
<1>6. PoolOK(r) /\ InPool(r) = InPool(s)
  BY <1>4 DEF FreedOK
<1>7. \A p \in Pgts \ InPool(s) : r.pgt[p] = pgt[p]
  BY <1>2, <1>4, <1>5, FreedOthers
<1>8. GoodTables(r.pgt, r.free, regions, live)
  <2>1. GoodTables(s.pgt, s.free, regions, live)
    BY <1>2, NoStaleIs DEF PInv
  <2> QED BY <1>3, <1>4, <1>5, <2>1, FreedGood
<1>9. SetPool(t, r) /\ target' = target /\ regions' = regions /\ live' = live
  BY <1>1 DEF PgtFree
<1>10. Shape
  BY DEF PInv
<1>11. asleep' \subseteq Threads
  BY <1>10 DEF PgtFree, Shape
<1>12. PICK c : c = target[t]
  OBVIOUS
<1>13. c \in Ctxs \cup {NoCtx} /\ tsdCtx[t] \in Ctxs \cup {NoCtx}
  BY <1>10, <1>12 DEF Shape
<1>14. \/ /\ c = NoCtx \/ regions[c] = {}
          /\ tsdCtx' = [tsdCtx EXCEPT ![t] = c] /\ pc' = [pc EXCEPT ![t] = "run"]
       \/ /\ c # NoCtx
          /\ pc' = [pc EXCEPT ![t] = "alloc"] /\ tsdCtx' = tsdCtx
  BY <1>12 DEF PgtFree
<1>15. /\ tsdCtx' \in [Threads -> Ctxs \cup {NoCtx}] /\ pc' \in [Threads -> {"run", "free", "alloc", "grow"}]
       /\ \A u \in Threads : u # t => tsdCtx'[u] = tsdCtx[u] /\ pc'[u] = pc[u]
       /\ \/ (c = NoCtx \/ regions[c] = {}) /\ tsdCtx'[t] = c /\ pc'[t] = "run"
          \/ c # NoCtx /\ tsdCtx'[t] = tsdCtx[t] /\ pc'[t] = "alloc"
  BY <1>10, <1>13, <1>14 DEF Shape
<1>16. target'[t] = c /\ {tsdCtx'[t], target'[t]} \subseteq {tsdCtx[t], target[t]}
  BY <1>9, <1>12, <1>15
<1>17. tbls'[t] = <<>> /\ Own(t)' = {}
  <2>1. tbls'[t] = r.own
    BY <1>1, <1>6, <1>9, <1>10, PoolStep DEF PInv
  <2> QED BY <1>4, <2>1, Empties DEF Own
<1>18. CtxOK(t)'
  <2>1. CtxsOf(t) \subseteq live
    BY DEF PInv, CtxInv, CtxOK
  <2>2. CtxsOf(t)' \subseteq live'
    BY <1>9, <1>16, <2>1 DEF CtxsOf
  <2> QED BY <1>15, <1>16, <1>17, <2>2 DEF CtxOK
<1>19. OwnOK(t)'
  BY <1>17 DEF OwnOK
<1>20. RunOK(t)'
  <2> SUFFICES ASSUME pc'[t] = "run", tsdCtx'[t] # NoCtx
               PROVE  Fits(pgt', tbls'[t], regions'[tsdCtx'[t]], tsdCtx'[t])
    BY DEF RunOK
  <2>1. regions'[tsdCtx'[t]] = {}
    BY <1>9, <1>15
  <2>2. NumReqPgts({}) = 0 /\ Len(<<>>) = 0 /\ DOMAIN <<>> = {}
    BY DEF NumReqPgts
  <2> QED BY <1>17, <2>1, <2>2 DEF Fits
<1>21. regions' \in [Ctxs -> SUBSET Regions] /\ GoodTables(r.pgt, r.free, regions', live)
  BY <1>8, <1>9, <1>10 DEF Shape
<1> QED BY <1>1, <1>6, <1>7, <1>9, <1>11, <1>15, <1>16, <1>18, <1>19, <1>20, <1>21, PoolKeeps

\* What a turn of pgt_alloc() starts from: the thread's tables are back in the
\* pool, and outside the pool no table is of the context it allocates for.
LEMMA AllocStart ==
    ASSUME PInv, NEW t \in Threads, pc[t] \in {"alloc", "grow"}, NEW c, c = target[t],
           NEW s, s = PgtFreeUnlocked(Pool(t))
    PROVE  /\ c \in Ctxs /\ c \in live /\ c # NoCtx /\ regions[c] \in SUBSET Regions
           /\ PoolOK(s) /\ s.own = <<>> /\ InPool(s) = InPool(Pool(t)) /\ InPool(s) \subseteq Pgts
           /\ GoodTables(s.pgt, s.free, regions, live)
           /\ \A p \in Pgts \ InPool(s) : s.pgt[p] = pgt[p] /\ s.pgt[p].ctx # c
<1>1. /\ c # NoCtx /\ c \in CtxsOf(t) /\ c \in live /\ c \in Ctxs /\ regions[c] \in SUBSET Regions
  <2>1. c # NoCtx /\ c \in CtxsOf(t) /\ CtxsOf(t) \subseteq live
    BY DEF PInv, CtxInv, CtxOK, CtxsOf
  <2>2. live \subseteq Ctxs /\ regions \in [Ctxs -> SUBSET Regions]
    BY DEF PInv, Shape
  <2> QED BY <2>1, <2>2
<1>2. PICK q : q = Pool(t)
  OBVIOUS
<1>3. q.pgt = pgt /\ q.free = freeList /\ PoolOK(q) /\ InPool(q) \subseteq Pgts
  BY <1>2, PoolIs DEF Pool, PInv
<1>4. PICK H \in SUBSET Range(q.own) : FreedOK(s, q, H) /\ s.own = <<>>
  BY <1>2, <1>3, FreeUnlockedFacts
<1>5. H \subseteq InPool(q) /\ H \subseteq Pgts
  BY <1>3 DEF InPool
<1>6. PoolOK(s) /\ InPool(s) = InPool(q)
  BY <1>4 DEF FreedOK
<1>7. GoodTables(s.pgt, s.free, regions, live)
  <2>1. GoodTables(q.pgt, q.free, regions, live)
    BY <1>3, NoStaleIs DEF PInv
  <2> QED BY <1>3, <1>4, <1>5, <2>1, FreedGood
<1>8. \A p \in Pgts \ InPool(q) : s.pgt[p] = pgt[p]
  BY <1>3, <1>4, <1>5, FreedOthers
<1>9. ASSUME NEW p \in Pgts \ InPool(q) PROVE pgt[p].ctx # c
  <2>1. PICK u \in Threads : u # t /\ p \in Own(u)
    BY <1>2, PoolIs DEF PInv
  <2>2. pgt[p].ctx = tsdCtx[u]
    BY <2>1 DEF PInv, OwnInv
  <2>3. CtxsOf(t) \cap CtxsOf(u) = {}
    BY <2>1 DEF PInv, CtxInv
  <2> QED BY <1>1, <2>2, <2>3 DEF CtxsOf
<1> QED BY <1>1, <1>2, <1>4, <1>6, <1>3, <1>7, <1>8, <1>9

\* pgt_alloc() gets all tables it needs.
LEMMA AllocDone ==
    ASSUME PInv, NEW t \in Threads, pc[t] \in {"alloc", "grow"}, NEW c, c = target[t],
           NEW s, s = PgtFreeUnlocked(Pool(t)), NEW got, got = PopTables(s, c),
           NEW q, q = LinkTables(s, got, c), Len(got) = NumReqPgts(regions[c]),
           SetPool(t, IF pc[t] = "alloc" THEN Populate(q, c) ELSE q),
           tsdCtx' = [tsdCtx EXCEPT ![t] = c],
           pc' = [pc EXCEPT ![t] = IF @ = "grow" THEN "free" ELSE "run"],
           UNCHANGED <<asleep, target, regions, live>>
    PROVE  PInv'
<1>1. /\ c \in Ctxs /\ c \in live /\ c # NoCtx /\ regions[c] \in SUBSET Regions
      /\ PoolOK(s) /\ s.own = <<>> /\ InPool(s) = InPool(Pool(t)) /\ InPool(s) \subseteq Pgts
      /\ GoodTables(s.pgt, s.free, regions, live)
      /\ \A p \in Pgts \ InPool(s) : s.pgt[p] = pgt[p] /\ s.pgt[p].ctx # c
  BY AllocStart
<1>2. PoppedOK(got, s, c, NumReqPgts(regions[c]))
  BY <1>1, PopTablesFacts
<1>3. PICK r : r = IF pc[t] = "alloc" THEN Populate(q, c) ELSE q
  OBVIOUS
<1> DEFINE Linked(x) ==
             /\ PoolOK(x) /\ InPool(x) = InPool(s) /\ x.own = got
             /\ \A p \in Pgts \ Range(got) : x.pgt[p] = s.pgt[p]
             /\ \A i \in DOMAIN got : MatchPgt(x.pgt[got[i]], Bases(regions[c])[i], c)
             /\ GoodTables(x.pgt, x.free, regions, live)
<1>4. Linked(r)
  <2>1. Linked(q)
    <3>1. GoodTables(q.pgt, q.free, regions, live)
      BY <1>1, <1>2, LinkGood
    <3>2. /\ PoolOK(q) /\ InPool(q) = InPool(s) /\ q.own = got
          /\ \A p \in Pgts \ Range(got) : q.pgt[p] = s.pgt[p]
          /\ \A i \in DOMAIN got : MatchPgt(q.pgt[got[i]], Bases(regions[c])[i], c)
      BY <1>1, <1>2, LinkFacts
    <3> QED BY <3>1, <3>2
  <2>2. CASE r = Populate(q, c)
    <3>1. /\ PoolOK(r) /\ InPool(r) = InPool(q) /\ r.own = q.own
          /\ \A p \in Pgts : r.pgt[p].ctx = q.pgt[p].ctx /\ r.pgt[p].vabase = q.pgt[p].vabase
          /\ \A p \in Pgts \ Range(q.own) : r.pgt[p] = q.pgt[p]
          /\ GoodTables(r.pgt, r.free, regions, live)
      <4>1. /\ PoolOK(q) /\ regions[c] \in SUBSET Regions
            /\ GoodTables(q.pgt, q.free, regions, live)
        BY <1>1, <2>1
      <4> HIDE DEF Linked
      <4> QED BY <2>2, <4>1, PopulateFacts
    <3>2. \A i \in DOMAIN got : got[i] \in Pgts
      BY <1>2 DEF PoppedOK
    <3>3. \A i \in DOMAIN got : MatchPgt(r.pgt[got[i]], Bases(regions[c])[i], c)
      BY <2>1, <3>1, <3>2 DEF MatchPgt
    <3> QED BY <2>1, <3>1, <3>3
  <2> QED BY <1>3, <2>1, <2>2
<1>5. GoodTables(r.pgt, r.free, regions, live)
  BY <1>4
<1>6. SetPool(t, r) /\ asleep' = asleep /\ target' = target /\ regions' = regions /\ live' = live
  BY <1>3
<1>7. Range(got) \subseteq InPool(s)
  BY <1>2 DEF PoppedOK, InPool
<1>8. \A p \in Pgts \ InPool(s) : r.pgt[p] = pgt[p]
  BY <1>1, <1>4, <1>7
<1>9. Shape
  BY DEF PInv
<1>10. /\ tsdCtx' \in [Threads -> Ctxs \cup {NoCtx}] /\ pc' \in [Threads -> {"run", "free", "alloc", "grow"}]
       /\ \A u \in Threads : u # t => tsdCtx'[u] = tsdCtx[u] /\ pc'[u] = pc[u]
       /\ tsdCtx'[t] = c /\ pc'[t] \in {"free", "run"} /\ target'[t] = c
  BY <1>1, <1>6, <1>9 DEF Shape
<1>11. asleep' \subseteq Threads /\ regions' \in [Ctxs -> SUBSET Regions]
       /\ GoodTables(r.pgt, r.free, regions', live)
  BY <1>5, <1>6, <1>9 DEF Shape
<1>12. tbls'[t] = got /\ pgt' = r.pgt /\ Own(t)' = {got[i] : i \in DOMAIN got}
  <2>1. tbls'[t] = r.own
    BY <1>1, <1>4, <1>6, PoolStep DEF PInv
  <2> QED BY <1>4, <1>6, <2>1 DEF Own, Range, SetPool
<1>13. CtxOK(t)'
  <2>1. CtxsOf(t)' \subseteq live'
    BY <1>1, <1>6, <1>10 DEF CtxsOf
  <2> QED BY <1>10, <2>1 DEF CtxOK
<1>14. OwnOK(t)'
  BY <1>4, <1>10, <1>12 DEF OwnOK, MatchPgt
<1>15. RunOK(t)'
  <2>1. Fits(r.pgt, got, regions[c], c)
    BY <1>4 DEF Fits
  <2> QED BY <1>6, <1>10, <1>12, <2>1 DEF RunOK
<1> QED BY <1>1, <1>4, <1>6, <1>8, <1>10, <1>11, <1>13, <1>14, <1>15, PoolKeeps

\* pgt_alloc() gets too few and waits.
LEMMA AllocWaits ==
    ASSUME PInv, NEW t \in Threads, pc[t] \in {"alloc", "grow"}, NEW c, c = target[t],
           NEW s, s = PgtFreeUnlocked(Pool(t)), NEW got, got = PopTables(s, c),
           NEW q, q = LinkTables(s, got, c), SetPool(t, PgtFreeUnlocked(q)),
           asleep' = {t}, UNCHANGED <<tsdCtx, pc, target, regions, live>>
    PROVE  PInv'
<1>1. /\ c \in Ctxs /\ c \in live /\ c # NoCtx /\ regions[c] \in SUBSET Regions
      /\ PoolOK(s) /\ s.own = <<>> /\ InPool(s) = InPool(Pool(t)) /\ InPool(s) \subseteq Pgts
      /\ GoodTables(s.pgt, s.free, regions, live)
      /\ \A p \in Pgts \ InPool(s) : s.pgt[p] = pgt[p] /\ s.pgt[p].ctx # c
  BY AllocStart
<1>2. PoppedOK(got, s, c, NumReqPgts(regions[c]))
  BY <1>1, PopTablesFacts
<1>3. PICK r : r = PgtFreeUnlocked(q)
  OBVIOUS
<1>4. /\ PoolOK(q) /\ InPool(q) = InPool(s)
      /\ \A p \in Pgts \ Range(got) : q.pgt[p] = s.pgt[p]
  BY <1>1, <1>2, <1>3, LinkFacts
<1>5. GoodTables(q.pgt, q.free, regions, live)
  BY <1>1, <1>2, <1>3, LinkGood
<1>6. PICK H \in SUBSET Range(q.own) : FreedOK(r, q, H) /\ r.own = <<>>
  BY <1>3, <1>4, FreeUnlockedFacts
<1>7. H \subseteq InPool(q) /\ H \subseteq Pgts
  BY <1>1, <1>4 DEF InPool
<1>8. PoolOK(r) /\ InPool(r) = InPool(s)
  BY <1>4, <1>6 DEF FreedOK
<1>9. GoodTables(r.pgt, r.free, regions, live)
  BY <1>4, <1>5, <1>6, <1>7, FreedGood
<1>10. SetPool(t, r) /\ tsdCtx' = tsdCtx /\ pc' = pc /\ target' = target /\ regions' = regions
       /\ live' = live /\ asleep' \subseteq Threads
  BY <1>3
<1>11. \A p \in Pgts \ InPool(s) : r.pgt[p] = pgt[p]
  <2>1. Range(got) \subseteq InPool(s)
    BY <1>2 DEF PoppedOK, InPool
  <2>2. \A p \in Pgts \ InPool(q) : r.pgt[p] = q.pgt[p]
    BY <1>6, <1>7, FreedOthers
  <2> QED BY <1>1, <1>4, <2>1, <2>2
<1>12. Shape
  BY DEF PInv
<1>13. /\ tsdCtx' \in [Threads -> Ctxs \cup {NoCtx}] /\ pc' \in [Threads -> {"run", "free", "alloc", "grow"}]
       /\ regions' \in [Ctxs -> SUBSET Regions] /\ GoodTables(r.pgt, r.free, regions', live)
  BY <1>9, <1>10, <1>12 DEF Shape
<1>14. tbls'[t] = <<>> /\ Own(t)' = {}
  <2>1. tbls'[t] = r.own
    BY <1>1, <1>8, <1>10, PoolStep DEF PInv
  <2> QED BY <1>6, <2>1, Empties DEF Own
<1>15. CtxOK(t)'
  <2>1. CtxOK(t)
    BY DEF PInv, CtxInv
  <2>2. CtxsOf(t)' = CtxsOf(t)
    BY <1>10 DEF CtxsOf
  <2> QED BY <1>10, <1>14, <2>1, <2>2 DEF CtxOK
<1>16. OwnOK(t)' /\ RunOK(t)'
  BY <1>10, <1>14 DEF OwnOK, RunOK
<1>17. {tsdCtx'[t], target'[t]} \subseteq {tsdCtx[t], target[t]}
  BY <1>10
<1> QED BY <1>1, <1>8, <1>10, <1>11, <1>13, <1>15, <1>16, <1>17, PoolKeeps

\* One turn of the loop of pgt_alloc().
LEMMA PgtAllocKeeps ==
    ASSUME PInv, NEW t \in Threads, PgtAlloc(t)
    PROVE  PInv'
<1>1. PICK s, c : s = PgtFreeUnlocked(Pool(t)) /\ c = target[t]
  OBVIOUS
<1>2. PICK got : got = PopTables(s, c)
  OBVIOUS
<1>3. pc[t] \in {"alloc", "grow"} /\ UNCHANGED <<target, regions, live>>
  BY DEF PgtAlloc
<1>4. PICK q : q = LinkTables(s, got, c)
  OBVIOUS
<1>5. \/ /\ Len(got) = NumReqPgts(regions[c])
         /\ SetPool(t, IF pc[t] = "alloc" THEN Populate(q, c) ELSE q)
         /\ tsdCtx' = [tsdCtx EXCEPT ![t] = c]
         /\ pc' = [pc EXCEPT ![t] = IF @ = "grow" THEN "free" ELSE "run"]
         /\ UNCHANGED asleep
      \/ /\ SetPool(t, PgtFreeUnlocked(q))
         /\ asleep' = {t} /\ UNCHANGED <<tsdCtx, pc>>
  BY <1>1, <1>2, <1>4 DEF PgtAlloc
<1>6. CASE /\ Len(got) = NumReqPgts(regions[c])
           /\ SetPool(t, IF pc[t] = "alloc" THEN Populate(q, c) ELSE q)
           /\ tsdCtx' = [tsdCtx EXCEPT ![t] = c]
           /\ pc' = [pc EXCEPT ![t] = IF @ = "grow" THEN "free" ELSE "run"]
           /\ UNCHANGED asleep
  BY <1>1, <1>2, <1>3, <1>4, <1>6, AllocDone
<1>7. CASE /\ SetPool(t, PgtFreeUnlocked(q))
           /\ asleep' = {t} /\ UNCHANGED <<tsdCtx, pc>>
  BY <1>1, <1>2, <1>3, <1>4, <1>7, AllocWaits
<1> QED BY <1>5, <1>6, <1>7

\* The context of a running thread.
LEMMA RunningCtx ==
    ASSUME PInv, NEW t \in Threads, pc[t] = "run", tsdCtx[t] # NoCtx
    PROVE  /\ target[t] = tsdCtx[t] /\ tsdCtx[t] \in CtxsOf(t) /\ CtxsOf(t) = {tsdCtx[t]}
           /\ tsdCtx[t] \in live /\ tsdCtx[t] \in Ctxs /\ live \subseteq Ctxs
           /\ \A u \in Threads : u # t => CtxsOf(u) \subseteq live \ {tsdCtx[t]}
<1>1. target[t] = tsdCtx[t] /\ tsdCtx[t] \in CtxsOf(t) /\ CtxsOf(t) = {tsdCtx[t]}
  BY DEF PInv, CtxInv, CtxOK, CtxsOf
<1>2. live \subseteq Ctxs /\ \A u \in Threads : CtxsOf(u) \subseteq live
  BY DEF PInv, Shape, CtxInv, CtxOK
<1>3. \A u \in Threads : u # t => CtxsOf(t) \cap CtxsOf(u) = {}
  BY DEF PInv, CtxInv
<1> QED BY <1>1, <1>2, <1>3

\* vm_map_pad().
LEMMA VmMapKeeps ==
    ASSUME PInv, NEW t \in Threads, NEW r \in Regions, VmMap(t, r)
    PROVE  PInv'
<1>1. PICK c : c = tsdCtx[t]
  OBVIOUS
<1>2. /\ pc[t] = "run" /\ c # NoCtx /\ regions' = [regions EXCEPT ![c] = @ \cup {r}]
      /\ pc' = [pc EXCEPT ![t] = "grow"]
      /\ pgt' = pgt /\ freeList' = freeList /\ cacheList' = cacheList /\ tbls' = tbls
      /\ tsdCtx' = tsdCtx /\ target' = target /\ asleep' = asleep /\ live' = live
  BY <1>1 DEF VmMap
<1>3. /\ target[t] = c /\ CtxsOf(t) = {c} /\ c \in live /\ c \in Ctxs
      /\ \A u \in Threads : u # t => CtxsOf(u) \subseteq live \ {c}
      /\ live \subseteq Ctxs
  BY <1>1, <1>2, RunningCtx
<1>4. /\ regions \in [Ctxs -> SUBSET Regions] /\ pc \in [Threads -> {"run", "free", "alloc", "grow"}]
  BY DEF PInv, Shape
<1>5. /\ regions' \in [Ctxs -> SUBSET Regions] /\ pc' \in [Threads -> {"run", "free", "alloc", "grow"}]
      /\ pc'[t] = "grow" /\ \A u \in Threads : u # t => pc'[u] = pc[u]
      /\ \A d \in Ctxs : d # c => regions'[d] = regions[d]
      /\ \A d \in Ctxs : regions[d] \subseteq regions'[d]
  BY <1>2, <1>3, <1>4
<1>6. Shape'
  BY <1>2, <1>5 DEF Shape, PInv
<1>7. ShareInv'
  BY <1>2, ShareSame DEF PInv
<1>8. NoStaleTable'
  <2>1. GoodTables(pgt, freeList, regions, live)
    BY NoStaleIs DEF PInv
  <2>2. \A d \in live : PagedUnits(regions[d]) \subseteq PagedUnits(regions'[d])
    BY <1>3, <1>5 DEF PagedUnits
  <2>3. GoodTables(pgt, freeList, regions', live)
    BY <2>1, <2>2 DEF GoodTables
  <2> QED BY <1>2, <2>3, NoStaleIs
<1>9. ASSUME NEW u \in Threads, u # t PROVE Alone(u) /\ CtxsOf(t)' \cap CtxsOf(u) = {}
  <2>1. CtxsOf(t)' = CtxsOf(t)
    BY <1>2 DEF CtxsOf
  <2>2. \A d \in CtxsOf(u) : d \in live' /\ regions'[d] = regions[d]
    BY <1>2, <1>3, <1>5, <1>9
  <2> QED BY <1>2, <1>3, <1>5, <1>9, <2>1, <2>2 DEF Alone
<1>10. CtxOK(t)'
  <2>1. CtxsOf(t)' = CtxsOf(t)
    BY <1>2 DEF CtxsOf
  <2> QED BY <1>1, <1>2, <1>3, <1>5, <2>1 DEF CtxOK
<1>11. OwnOK(t)' /\ RunOK(t)'
  <2>1. OwnOK(t)
    BY PerThread DEF PInv
  <2> QED BY <1>2, <1>5, <2>1 DEF OwnOK, RunOK, Own
<1> QED BY <1>6, <1>7, <1>8, <1>9, <1>10, <1>11, FrameOne

\* vm_unmap().
LEMMA VmUnmapKeeps ==
    ASSUME PInv, NEW t \in Threads, NEW r \in Regions, VmUnmap(t, r)
    PROVE  PInv'
<1>1. PICK c, T, s : /\ c = tsdCtx[t] /\ T = (IF r.paged THEN RemUmRegion(c, r) ELSE pgt)
                     /\ s = IF r.paged THEN [Pool(t) EXCEPT !.pgt = T] ELSE Pool(t)
  OBVIOUS
<1>2. /\ pc[t] = "run" /\ c # NoCtx /\ regions' = [regions EXCEPT ![c] = @ \ {r}]
      /\ pc' = [pc EXCEPT ![t] = "free"]
      /\ tsdCtx' = tsdCtx /\ target' = target /\ live' = live
      /\ \/ SetPool(t, FlushRange(s, c, r)) /\ asleep' = {}
         \/ SetPool(t, s) /\ asleep' = asleep
  BY <1>1 DEF VmUnmap
<1>3. /\ target[t] = c /\ CtxsOf(t) = {c} /\ c \in live /\ c \in Ctxs
      /\ live \subseteq Ctxs
  BY <1>1, <1>2, RunningCtx
<1>4. Shape
  BY DEF PInv
<1>5. /\ regions' \in [Ctxs -> SUBSET Regions] /\ pc' \in [Threads -> {"run", "free", "alloc", "grow"}]
      /\ pc'[t] = "free" /\ \A u \in Threads : u # t => pc'[u] = pc[u]
      /\ \A d \in Ctxs : d # c => regions'[d] = regions[d]
      /\ regions'[c] = regions[c] \ {r} /\ asleep' \subseteq Threads
      /\ tsdCtx' \in [Threads -> Ctxs \cup {NoCtx}]
  BY <1>2, <1>3, <1>4 DEF Shape
<1>6. /\ s.pgt = T /\ s.free = freeList /\ s.cache = cacheList /\ s.own = tbls[t]
      /\ Pool(t).free = freeList /\ Pool(t).cache = cacheList /\ Pool(t).own = tbls[t]
  BY <1>1 DEF Pool
<1>7. ASSUME NEW p \in Pgts
      PROVE  /\ T[p] \in Table /\ T[p].ctx = pgt[p].ctx /\ T[p].vabase = pgt[p].vabase
             /\ T[p].used = IF r.paged /\ pgt[p].ctx = c THEN pgt[p].used \ Units(r) ELSE pgt[p].used
             /\ pgt[p].ctx # c => T[p] = pgt[p]
  <2>1. pgt[p] \in Table
    BY <1>4 DEF Shape
  <2>2. T[p] = IF r.paged /\ pgt[p].ctx = c THEN [pgt[p] EXCEPT !.used = @ \ Units(r)] ELSE pgt[p]
    <3>1. CASE r.paged
      BY <1>1, <3>1 DEF RemUmRegion
    <3>2. CASE ~r.paged
      BY <1>1, <3>2
    <3> QED BY <3>1, <3>2
  <2>3. CASE r.paged /\ pgt[p].ctx = c
    <3>1. T[p] = [pgt[p] EXCEPT !.used = @ \ Units(r)]
      BY <2>2, <2>3
    <3> QED BY <2>1, <2>3, <3>1 DEF Table
  <2>4. CASE ~(r.paged /\ pgt[p].ctx = c)
    <3>1. T[p] = pgt[p]
      BY <2>2, <2>4
    <3> QED BY <2>1, <2>4, <3>1
  <2> QED BY <2>3, <2>4
<1>8. T \in [Pgts -> Table]
  <2>1. T = [p \in Pgts |-> T[p]]
    BY <1>1, <1>4 DEF RemUmRegion, Shape
  <2> QED BY <1>7, <2>1
<1>9. PoolOK(s) /\ InPool(s) = InPool(Pool(t)) /\ InPool(s) \subseteq Pgts
  <2>1. PoolOK(Pool(t)) /\ InPool(Pool(t)) \subseteq Pgts
    BY PoolIs DEF PInv
  <2> QED BY <1>6, <1>8, <2>1 DEF PoolOK, InPool, Stock
<1>10. GoodTables(s.pgt, s.free, regions', live)
  <2>1. GoodTables(pgt, freeList, regions, live)
    BY NoStaleIs DEF PInv
  <2>2. ASSUME NEW p \in freeList PROVE T[p] = Unused
    <3>1. p \in Pgts /\ pgt[p] = Unused
      BY <1>4, <2>1 DEF GoodTables, Shape
    <3>2. pgt[p].ctx # c
      BY <1>2, <3>1, Empties
    <3> QED BY <1>7, <3>1, <3>2
  <2>3. ASSUME NEW p \in Pgts \ freeList
        PROVE  /\ T[p].ctx \in live
               /\ T[p].used \subseteq PagedUnits(regions'[T[p].ctx])
    <3>1. /\ pgt[p].ctx \in live
          /\ pgt[p].used \subseteq PagedUnits(regions[pgt[p].ctx])
      BY <2>1 DEF GoodTables
    <3>2. CASE pgt[p].ctx = c
      <4>1. CASE r.paged
        <5>1. pgt[p].used \ Units(r) \subseteq PagedUnits(regions[c] \ {r})
          BY <3>1, <3>2 DEF PagedUnits
        <5> QED BY <1>5, <1>7, <3>1, <3>2, <4>1, <5>1
      <4>2. CASE ~r.paged
        <5>1. PagedUnits(regions[c] \ {r}) = PagedUnits(regions[c])
          BY <4>2 DEF PagedUnits
        <5> QED BY <1>5, <1>7, <3>1, <3>2, <4>2, <5>1
      <4> QED BY <4>1, <4>2
    <3>3. CASE pgt[p].ctx # c
      <4>1. regions'[pgt[p].ctx] = regions[pgt[p].ctx]
        BY <1>3, <1>5, <3>1, <3>3
      <4> QED BY <1>7, <3>1, <3>3, <4>1
    <3> QED BY <3>2, <3>3
  <2>4. ASSUME NEW p \in Pgts \ freeList, NEW q \in Pgts \ freeList, p # q
        PROVE  ~MatchPgt(T[q], T[p].vabase, T[p].ctx)
    <3>1. ~MatchPgt(pgt[q], pgt[p].vabase, pgt[p].ctx)
      BY <2>1, <2>4 DEF GoodTables
    <3> QED BY <1>7, <3>1 DEF MatchPgt
  <2> QED BY <1>6, <2>2, <2>3, <2>4 DEF GoodTables
<1>11. OwnOK(t)
  BY PerThread DEF PInv
<1>12. {tsdCtx'[t], target'[t]} \subseteq {tsdCtx[t], target[t]}
  BY <1>2
<1>13. CtxOK(t)'
  <2>1. CtxsOf(t)' = CtxsOf(t)
    BY <1>2 DEF CtxsOf
  <2> QED BY <1>2, <1>3, <1>5, <2>1 DEF CtxOK
<1>14. RunOK(t)'
  BY <1>5 DEF RunOK
<1>15. ASSUME NEW q, PoolOK(q), InPool(q) = InPool(s), SetPool(t, q), GoodTables(q.pgt, q.free, regions', live),
              Range(q.own) \subseteq Own(t), \A p \in Pgts \ q.free : q.pgt[p] = T[p],
              \A p \in Pgts \ InPool(s) : q.pgt[p] = T[p]
       PROVE  PInv'
  <2>1. \A p \in Pgts \ InPool(Pool(t)) : q.pgt[p].ctx = pgt[p].ctx /\ q.pgt[p].vabase = pgt[p].vabase
    BY <1>7, <1>9, <1>15
  <2>2. OwnOK(t)'
    <3>1. tbls'[t] = q.own /\ pgt' = q.pgt
      BY <1>4, <1>9, <1>15, PoolStep DEF PInv, SetPool
    <3>2. Own(t)' = Range(q.own)
      BY <3>1 DEF Own, Range
    <3>3. ASSUME NEW p \in Range(q.own) PROVE q.pgt[p].ctx = tsdCtx[t]
      <4>1. p \in Pgts \ q.free
        BY <1>15 DEF PoolOK, Range
      <4>2. p \in Own(t)
        BY <1>15
      <4> QED BY <1>7, <1>11, <1>15, <4>1, <4>2 DEF OwnOK
    <3> QED BY <1>2, <3>1, <3>2, <3>3 DEF OwnOK
  <2>3. \A d \in Ctxs \ CtxsOf(t) : regions'[d] = regions[d]
    BY <1>3, <1>5
  <2> QED BY <1>2, <1>5, <1>9, <1>12, <1>13, <1>14, <1>15, <2>1, <2>2, <2>3, PoolKeeps
<1>16. Range(s.own) = Own(t)
  BY <1>6 DEF Own
<1>17. CASE SetPool(t, s)
  BY <1>6, <1>9, <1>10, <1>15, <1>16, <1>17
<1>18. CASE SetPool(t, FlushRange(s, c, r))
  <2>1. PICK q : q = FlushRange(s, c, r)
    OBVIOUS
  <2>2. PICK H \in SUBSET (Range(s.own) \cup Range(s.cache)) :
           FreedOK(q, s, H) /\ Range(q.own) \subseteq Range(s.own)
    BY <1>9, <2>1, FlushRangeFacts
  <2>3. H \subseteq InPool(s) /\ H \subseteq Pgts
    BY <1>9 DEF InPool, Stock
  <2>4. GoodTables(q.pgt, q.free, regions', live)
    BY <1>9, <1>10, <2>2, <2>3, FreedGood
  <2>5. PoolOK(q) /\ InPool(q) = InPool(s) /\ \A p \in Pgts \ q.free : q.pgt[p] = T[p]
    BY <1>6, <2>2 DEF FreedOK
  <2>6. \A p \in Pgts \ InPool(s) : q.pgt[p] = T[p]
    BY <1>6, <2>2, <2>3, FreedOthers
  <2> QED BY <1>15, <1>16, <1>18, <2>1, <2>2, <2>4, <2>5, <2>6
<1> QED BY <1>2, <1>17, <1>18

\* A step of no thread.
LEMMA FrameNone ==
    ASSUME PInv, Shape', ShareInv', NoStaleTable', \A u \in Threads : Alone(u)
    PROVE  PInv'
<1>1. PICK U : U = {}
  OBVIOUS
<1>2. /\ U \in SUBSET Threads /\ (\A t, u \in U : t = u) /\ \A u \in Threads \ U : Alone(u)
      /\ \A t \in U : /\ CtxOK(t)' /\ OwnOK(t)' /\ RunOK(t)'
                      /\ \A u \in Threads \ U : CtxsOf(t)' \cap CtxsOf(u) = {}
  BY <1>1
<1> QED BY <1>2, Frame

\* A context is created.
LEMMA CreateCtxKeeps ==
    ASSUME PInv, NEW c \in Ctxs, CreateCtx(c)
    PROVE  PInv'
<1>1. /\ live' = live \cup {c} /\ pgt' = pgt /\ freeList' = freeList /\ cacheList' = cacheList
      /\ tbls' = tbls /\ tsdCtx' = tsdCtx /\ target' = target /\ pc' = pc /\ asleep' = asleep
      /\ regions' = regions
  BY DEF CreateCtx
<1>2. Shape'
  BY <1>1 DEF PInv, Shape
<1>3. ShareInv'
  BY <1>1, ShareSame DEF PInv
<1>4. NoStaleTable'
  <2>1. GoodTables(pgt, freeList, regions, live)
    BY NoStaleIs DEF PInv
  <2>2. GoodTables(pgt, freeList, regions, live \cup {c})
    BY <2>1 DEF GoodTables
  <2> QED BY <1>1, <2>2, NoStaleIs
<1>5. \A u \in Threads : Alone(u)
  BY <1>1 DEF Alone, PInv, CtxInv, CtxOK
<1> QED BY <1>2, <1>3, <1>4, <1>5, FrameNone

\* pgt_flush_ctx() of destroy_context().
LEMMA PgtFlushCtxKeeps ==
    ASSUME PInv, NEW c \in Ctxs, PgtFlushCtx(c)
    PROVE  PInv'
<1>1. PICK H : H = {p \in Cached : pgt[p].ctx = c}
  OBVIOUS
<1>2. /\ c \in live /\ \A t \in Threads : c \notin {tsdCtx[t], target[t]}
      /\ pgt' = [p \in Pgts |-> IF p \in H THEN Unused ELSE pgt[p]]
      /\ freeList' = freeList \cup H /\ cacheList' = Without(cacheList, H)
      /\ regions' = [regions EXCEPT ![c] = {}] /\ live' = live \ {c}
      /\ tbls' = tbls /\ tsdCtx' = tsdCtx /\ target' = target /\ pc' = pc /\ asleep' = asleep
  BY <1>1 DEF PgtFlushCtx, Cached
<1>3. Shape /\ ShareInv /\ OwnInv /\ GoodTables(pgt, freeList, regions, live)
  BY NoStaleIs DEF PInv
<1>4. H \subseteq Cached /\ Cached \subseteq Pgts /\ \A u \in Threads : Own(u) \subseteq Pgts
  BY <1>1, <1>3 DEF Shape, Cached, Own, Range
<1>5. cacheList' \in Seq(Pgts) /\ Cached' = Cached \ H /\ Once(cacheList')
  <2>1. cacheList \in Seq(Pgts) /\ Once(cacheList)
    BY <1>3 DEF Shape, ShareInv
  <2>2. cacheList' \in Seq(Pgts) /\ Range(cacheList') = Range(cacheList) \ H /\ Once(cacheList')
    BY <1>2, <2>1, WithoutFacts
  <2>3. Cached' = Range(cacheList')
    BY DEF Cached, Range
  <2> QED BY <2>2, <2>3 DEF Cached
<1>6. /\ pgt' \in [Pgts -> Table] /\ regions' \in [Ctxs -> SUBSET Regions]
      /\ \A d \in Ctxs : d # c => regions'[d] = regions[d]
  BY <1>2, <1>3, Empties DEF Shape
<1>7. Shape'
  <2>1. freeList' \subseteq Pgts /\ live' \subseteq Ctxs
    BY <1>2, <1>3, <1>4 DEF Shape
  <2> QED BY <1>2, <1>3, <1>5, <1>6, <2>1 DEF Shape
<1>8. \A u \in Threads : Own(u)' = Own(u)
  BY <1>2 DEF Own, Range
<1>9. ShareInv'
  <2>1. Once(cacheList)' /\ \A u \in Threads : Once(tbls[u])'
    BY <1>2, <1>3, <1>5 DEF ShareInv, Once
  <2>2. freeList' \cup Cached' = freeList \cup Cached
    BY <1>2, <1>4, <1>5
  <2>3. freeList' \cap Cached' = {}
    BY <1>2, <1>3, <1>5 DEF ShareInv
  <2> QED BY <1>3, <1>8, <2>1, <2>2, <2>3 DEF ShareInv
<1>10. ASSUME NEW p \in Pgts \ freeList'
       PROVE  p \in Pgts \ freeList /\ pgt'[p] = pgt[p] /\ pgt[p].ctx \in live \ {c}
  <2>1. p \in Pgts \ freeList /\ p \notin H /\ pgt'[p] = pgt[p]
    BY <1>2
  <2>2. pgt[p].ctx \in live
    BY <1>3, <2>1 DEF GoodTables
  <2>3. p \in Cached \/ \E u \in Threads : p \in Own(u)
    BY <1>3, <2>1 DEF ShareInv
  <2>4. pgt[p].ctx # c
    BY <1>1, <1>2, <1>3, <2>1, <2>3 DEF OwnInv
  <2> QED BY <2>1, <2>2, <2>4
<1>11. NoStaleTable'
  <2>1. \A p \in freeList' : pgt'[p] = Unused
    BY <1>2, <1>3, <1>4 DEF GoodTables, Shape
  <2>2. \A p \in Pgts \ freeList' :
           /\ pgt'[p].ctx \in live'
           /\ pgt'[p].used \subseteq PagedUnits(regions'[pgt'[p].ctx])
    <3> TAKE p \in Pgts \ freeList'
    <3>1. p \in Pgts \ freeList /\ pgt'[p] = pgt[p] /\ pgt[p].ctx \in live \ {c}
      BY <1>10
    <3>2. regions'[pgt[p].ctx] = regions[pgt[p].ctx]
      BY <1>3, <1>6, <3>1 DEF Shape
    <3> QED BY <1>2, <1>3, <3>1, <3>2 DEF GoodTables
  <2>3. \A p, q \in Pgts \ freeList' : p # q => ~MatchPgt(pgt'[q], pgt'[p].vabase, pgt'[p].ctx)
    BY <1>3, <1>10 DEF GoodTables
  <2>4. GoodTables(pgt', freeList', regions', live')
    BY <2>1, <2>2, <2>3 DEF GoodTables
  <2> QED BY <2>4, NoStaleIs
<1>12. ASSUME NEW u \in Threads PROVE Alone(u)
  <2>1. \A p \in Own(u) : pgt'[p] = pgt[p]
    BY <1>2, <1>3, <1>4 DEF ShareInv
  <2>2. CtxsOf(u) \subseteq live \ {c}
    BY <1>2 DEF PInv, CtxInv, CtxOK, CtxsOf
  <2>3. \A d \in CtxsOf(u) : d \in live' /\ regions'[d] = regions[d]
    BY <1>2, <1>3, <1>6, <2>2 DEF Shape
  <2> QED BY <1>2, <2>1, <2>3 DEF Alone
<1> QED BY <1>7, <1>9, <1>11, <1>12, FrameNone

\* A step of the pager changes its entries in one table.
LEMMA PagerKeeps ==
    ASSUME PInv, NEW p \in Pgts, NEW V \in SUBSET Touched,
           pgt' = [pgt EXCEPT ![p].used = V],
           p \notin freeList => V \subseteq PagedUnits(regions[pgt[p].ctx]),
           p \in freeList => V = {},
           UNCHANGED <<freeList, cacheList, tbls, tsdCtx, target, pc, asleep, regions, live>>
    PROVE  PInv'
<1>1. /\ freeList' = freeList /\ cacheList' = cacheList /\ tbls' = tbls /\ tsdCtx' = tsdCtx
      /\ target' = target /\ pc' = pc /\ asleep' = asleep /\ regions' = regions /\ live' = live
  OBVIOUS
<1>2. Shape /\ ShareInv /\ OwnInv /\ GoodTables(pgt, freeList, regions, live)
  BY NoStaleIs DEF PInv
<1>3. pgt \in [Pgts -> Table] /\ freeList \subseteq Pgts
  BY <1>2 DEF Shape
<1>4. ASSUME NEW q \in Pgts
      PROVE  /\ pgt'[q] \in Table /\ pgt'[q].ctx = pgt[q].ctx /\ pgt'[q].vabase = pgt[q].vabase
             /\ pgt'[q].used = IF q = p THEN V ELSE pgt[q].used
             /\ q # p => pgt'[q] = pgt[q]
  <2>1. CASE q = p
    <3>1. pgt'[q] = [pgt[q] EXCEPT !.used = V] /\ pgt[q] \in Table
      BY <1>3, <2>1
    <3> QED BY <2>1, <3>1 DEF Table
  <2>2. CASE q # p
    BY <1>3, <2>2
  <2> QED BY <2>1, <2>2
<1>5. pgt' \in [Pgts -> Table]
  <2>1. pgt' = [q \in Pgts |-> pgt'[q]]
    BY <1>3
  <2> QED BY <1>4, <2>1
<1>6. Shape'
  BY <1>1, <1>2, <1>5 DEF Shape
<1>7. ShareInv'
  BY <1>1, <1>2, ShareSame
<1>8. ASSUME NEW q \in freeList PROVE pgt'[q] = Unused
  <2>1. pgt[q] = Unused /\ q \in Pgts
    BY <1>2, <1>3 DEF GoodTables
  <2>2. CASE q = p
    <3>1. pgt' = [pgt EXCEPT ![q].used = {}]
      BY <1>8, <2>2
    <3>2. pgt'[q] = [pgt[q] EXCEPT !.used = {}]
      BY <1>3, <2>1, <3>1
    <3>3. [Unused EXCEPT !.used = {}] = Unused
      BY DEF Unused
    <3> QED BY <2>1, <3>2, <3>3
  <2>3. CASE q # p
    BY <1>4, <2>1, <2>3
  <2> QED BY <2>2, <2>3
<1>9. NoStaleTable'
  <2>1. ASSUME NEW q \in Pgts \ freeList
        PROVE  /\ pgt'[q].ctx \in live
               /\ pgt'[q].used \subseteq PagedUnits(regions[pgt'[q].ctx])
    BY <1>2, <1>4 DEF GoodTables
  <2>2. ASSUME NEW q \in Pgts \ freeList, NEW x \in Pgts \ freeList, q # x
        PROVE  ~MatchPgt(pgt'[x], pgt'[q].vabase, pgt'[q].ctx)
    <3>1. ~MatchPgt(pgt[x], pgt[q].vabase, pgt[q].ctx)
      BY <1>2, <2>2 DEF GoodTables
    <3> QED BY <1>4, <3>1 DEF MatchPgt
  <2>3. GoodTables(pgt', freeList, regions, live)
    BY <1>8, <2>1, <2>2 DEF GoodTables
  <2> QED BY <1>1, <2>3, NoStaleIs
<1>10. ASSUME NEW u \in Threads PROVE Alone(u)
  <2>1. Own(u) \subseteq Pgts
    BY <1>2 DEF Shape, Own, Range
  <2>2. CtxsOf(u) \subseteq live
    BY DEF PInv, CtxInv, CtxOK
  <2> QED BY <1>1, <1>4, <2>1, <2>2 DEF Alone
<1> QED BY <1>6, <1>7, <1>9, <1>10, FrameNone

\* tee_pager_handle_fault().
LEMMA PagerFaultKeeps ==
    ASSUME PInv, NEW t \in Threads, NEW u \in Touched, PagerFault(t, u)
    PROVE  PInv'
<1>1. PICK p \in Range(tbls[t]) : pgt' = [pgt EXCEPT ![p].used = @ \cup {u}]
  BY DEF PagerFault
<1>2. p \in Own(t) /\ p \in Pgts /\ pgt[p] \in Table
  BY <1>1 DEF Own, PInv, Shape, Range
<1>3. pgt[p].ctx = tsdCtx[t] /\ p \notin freeList
  BY <1>2 DEF PInv, OwnInv, ShareInv
<1>4. PICK V : V = pgt[p].used \cup {u}
  OBVIOUS
<1>5. V \in SUBSET Touched
  BY <1>2, <1>4 DEF Table
<1>6. V \subseteq PagedUnits(regions[pgt[p].ctx])
  <2>1. pgt[p].used \subseteq PagedUnits(regions[pgt[p].ctx])
    BY <1>2, <1>3 DEF PInv, NoStaleTable
  <2> QED BY <1>3, <1>4, <2>1 DEF PagerFault
<1>7. pgt' = [pgt EXCEPT ![p].used = V]
  BY <1>1, <1>4
<1>8. UNCHANGED <<freeList, cacheList, tbls, tsdCtx, target, pc, asleep, regions, live>>
  BY DEF PagerFault
<1> QED BY <1>2, <1>3, <1>5, <1>6, <1>7, <1>8, PagerKeeps

\* The pager takes a page away.
LEMMA PagerEvictKeeps ==
    ASSUME PInv, NEW p \in Pgts, NEW u \in Touched, PagerEvict(p, u)
    PROVE  PInv'
<1>1. PICK V : V = pgt[p].used \ {u}
  OBVIOUS
<1>2. pgt' = [pgt EXCEPT ![p].used = V] /\ u \in pgt[p].used
  BY <1>1 DEF PagerEvict
<1>3. pgt[p] \in Table
  BY DEF PInv, Shape
<1>4. V \in SUBSET Touched
  BY <1>1, <1>3 DEF Table
<1>5. p \notin freeList
  <2>1. Unused.used = {}
    BY DEF Unused
  <2> QED BY <1>2, <2>1 DEF PInv, NoStaleTable
<1>6. V \subseteq PagedUnits(regions[pgt[p].ctx])
  BY <1>1, <1>5 DEF PInv, NoStaleTable
<1>7. UNCHANGED <<freeList, cacheList, tbls, tsdCtx, target, pc, asleep, regions, live>>
  BY DEF PagerEvict
<1> QED BY <1>2, <1>4, <1>5, <1>6, <1>7, PagerKeeps

-----------------------------------------------------------------------------
(* Counting.                                                               *)

\* A list without repetitions is as long as it has elements.
LEMMA ListCount ==
    ASSUME NEW s \in Seq(Pgts), Once(s)
    PROVE  /\ Range(s) \subseteq Pgts /\ IsFiniteSet(Range(s))
           /\ Cardinality(Range(s)) = Len(s) /\ Len(s) <= NumPgts
<1>1. Len(s) \in Nat /\ NumPgts \in Nat /\ s \in [1..Len(s) -> Pgts]
  BY PgtAssumption
<1>2. Range(s) \subseteq Pgts /\ Range(s) = {s[i] : i \in 1..Len(s)}
  BY <1>1 DEF Range
<1>3. s \in Surjection(1..Len(s), Range(s)) /\ s \in Injection(1..Len(s), Range(s))
  <2>1. s \in [1..Len(s) -> Range(s)]
    BY <1>1, <1>2
  <2>2. \A y \in Range(s) : \E i \in 1..Len(s) : s[i] = y
    BY <1>2
  <2>3. \A i, j \in DOMAIN s : s[i] = s[j] => i = j
    BY DEF Once
  <2> QED BY <2>1, <2>2, <2>3, Zenon DEF Surjection, Injection, IsInjective
<1>4. IsFiniteSet(1..Len(s)) /\ Cardinality(1..Len(s)) = Len(s)
  BY <1>1, FS_Interval
<1>5. IsFiniteSet(Range(s)) /\ Cardinality(Range(s)) = Cardinality(1..Len(s))
  BY <1>3, <1>4, FS_Surjection
<1>6. IsFiniteSet(Pgts) /\ Cardinality(Pgts) = NumPgts
  BY <1>1, FS_Interval DEF Pgts
<1>7. Cardinality(Range(s)) <= Cardinality(Pgts)
  BY <1>2, <1>6, FS_Subset
<1> QED BY <1>2, <1>4, <1>5, <1>6, <1>7

\* Each table of the pool is counted once.
LEMMA Counted ==
    ASSUME Shape, ShareInv
    PROVE  Cardinality(Pgts) = Cardinality(freeList) + Len(cacheList)
              + Cardinality({x \in Threads \X Pgts : x[2] <= Len(tbls[x[1]])})
<1>1. PICK X, O : /\ X = {x \in Threads \X Pgts : x[2] <= Len(tbls[x[1]])}
                  /\ O = UNION {Own(t) : t \in Threads}
  OBVIOUS
<1>2. IsFiniteSet(Pgts)
  BY PgtAssumption, FS_Interval DEF Pgts
<1>3. /\ cacheList \in Seq(Pgts) /\ Once(cacheList) /\ freeList \subseteq Pgts
      /\ \A t \in Threads : tbls[t] \in Seq(Pgts) /\ Once(tbls[t])
  BY DEF Shape, ShareInv
<1>4. Cached \subseteq Pgts /\ IsFiniteSet(Cached) /\ Cardinality(Cached) = Len(cacheList)
  BY <1>3, ListCount DEF Cached
<1>5. \A t \in Threads : Own(t) \subseteq Pgts /\ Len(tbls[t]) <= NumPgts
  BY <1>3, ListCount DEF Own
<1>6. IsFiniteSet(freeList) /\ O \subseteq Pgts /\ IsFiniteSet(O)
  <2>1. O \subseteq Pgts
    BY <1>1, <1>5
  <2> QED BY <1>2, <1>3, <2>1, FS_Subset
<1>7. Cardinality(X) = Cardinality(O)
  <2>1. IsFiniteSet(X)
    <3>1. IsFiniteSet(Threads \X Pgts)
      BY <1>2, PgtAssumption, FS_Product
    <3>2. X \in SUBSET (Threads \X Pgts)
      BY <1>1
    <3> QED BY <3>1, <3>2, FS_Subset
  <2>2. ASSUME NEW x \in X
        PROVE  /\ x[1] \in Threads /\ x[2] \in 1..Len(tbls[x[1]]) /\ x = <<x[1], x[2]>>
               /\ tbls[x[1]][x[2]] \in Own(x[1])
    <3>1. x[1] \in Threads /\ x[2] \in Pgts /\ x = <<x[1], x[2]>> /\ x[2] <= Len(tbls[x[1]])
      BY <1>1
    <3>2. tbls[x[1]] \in Seq(Pgts) /\ x[2] \in 1..Len(tbls[x[1]])
      BY <1>3, <3>1 DEF Pgts
    <3> QED BY <3>1, <3>2 DEF Own, Range
  <2>3. PICK f : f = [x \in X |-> tbls[x[1]][x[2]]]
    OBVIOUS
  <2>4. f \in [X -> O]
    BY <1>1, <2>2, <2>3
  <2>5. ASSUME NEW p \in O PROVE \E x \in X : f[x] = p
    <3>1. PICK t \in Threads : p \in Own(t)
      BY <1>1
    <3>2. PICK i \in DOMAIN tbls[t] : p = tbls[t][i]
      BY <3>1 DEF Own, Range
    <3>3. i \in 1..Len(tbls[t]) /\ Len(tbls[t]) \in Nat
      BY <1>3, <3>2
    <3>4. i \in Pgts /\ i <= Len(tbls[t])
      BY <1>5, <3>3, PgtAssumption DEF Pgts
    <3>5. <<t, i>> \in X
      BY <1>1, <3>4
    <3> QED BY <2>3, <3>2, <3>5
  <2>6. ASSUME NEW x \in X, NEW y \in X, f[x] = f[y] PROVE x = y
    <3>1. /\ tbls[x[1]][x[2]] = tbls[y[1]][y[2]]
      BY <2>3, <2>6
    <3>2. x[1] = y[1]
      BY <2>2, <3>1 DEF ShareInv
    <3>3. x[2] = y[2]
      BY <1>3, <2>2, <3>1, <3>2 DEF Once
    <3> QED BY <2>2, <3>2, <3>3
  <2>7. f \in Surjection(X, O) /\ f \in Injection(X, O)
    <3>1. DOMAIN f = X
      BY <2>4
    <3> QED BY <2>4, <2>5, <2>6, <3>1, Zenon DEF Surjection, Injection, IsInjective
  <2> QED BY <2>1, <2>7, FS_Surjection
<1>8. Pgts = (freeList \cup Cached) \cup O
  BY <1>1, <1>3, <1>4, <1>6 DEF ShareInv
<1>9. freeList \cap Cached = {} /\ (freeList \cup Cached) \cap O = {}
  BY <1>1 DEF ShareInv
<1>10. Cardinality({}) = 0
  BY FS_EmptySet
<1>11. /\ IsFiniteSet(freeList \cup Cached)
       /\ Cardinality(freeList \cup Cached) = Cardinality(freeList) + Cardinality(Cached) - 0
  <2>1. /\ IsFiniteSet(freeList \cup Cached)
        /\ Cardinality(freeList \cup Cached)
             = Cardinality(freeList) + Cardinality(Cached) - Cardinality(freeList \cap Cached)
    BY <1>4, <1>6, FS_Union
  <2> QED BY <1>9, <1>10, <2>1
<1>12. Cardinality(Pgts) = Cardinality(freeList \cup Cached) + Cardinality(O) - 0
  BY <1>6, <1>8, <1>9, <1>10, <1>11, FS_Union
<1>13. Cardinality(freeList) \in Nat /\ Cardinality(Cached) \in Nat /\ Cardinality(O) \in Nat
  BY <1>4, <1>6, FS_CardinalityType
<1> QED BY <1>1, <1>4, <1>7, <1>11, <1>12, <1>13

-----------------------------------------------------------------------------
(* The theorems.                                                           *)

\* All tables are free at first.
LEMMA InitInv ==
    ASSUME Init
    PROVE  PInv
<1>1. /\ pgt = [p \in Pgts |-> Unused] /\ freeList = Pgts /\ cacheList = <<>>
      /\ tbls = [t \in Threads |-> <<>>] /\ tsdCtx = [t \in Threads |-> NoCtx]
      /\ target = [t \in Threads |-> NoCtx] /\ pc = [t \in Threads |-> "run"]
      /\ asleep = {} /\ regions = [c \in Ctxs |-> {}] /\ live = {}
  BY DEF Init
<1>2. Shape
  BY <1>1, Empties DEF Shape
<1>3. Cached = {} /\ \A t \in Threads : Own(t) = {} /\ tbls[t] = <<>>
  BY <1>1, Empties DEF Cached, Own
<1>4. ShareInv
  <2>1. Once(cacheList) /\ \A t \in Threads : Once(tbls[t])
    BY <1>1, <1>3, Empties
  <2> QED BY <1>1, <1>3, <2>1 DEF ShareInv
<1>5. \A t \in Threads : CtxsOf(t) = {} /\ tsdCtx[t] = NoCtx /\ target[t] = NoCtx /\ pc[t] = "run"
  BY <1>1 DEF CtxsOf
<1>6. CtxInv
  BY <1>5 DEF CtxInv, CtxOK
<1>7. OwnInv /\ RunsOnOwnTables
  BY <1>3, <1>5 DEF OwnInv, RunsOnOwnTables
<1>8. NoStaleTable
  BY <1>1 DEF NoStaleTable
<1> QED BY <1>2, <1>4, <1>6, <1>7, <1>8 DEF PInv

\* Every step of the pool and its callers keeps the invariant.
LEMMA NextInv ==
    ASSUME PInv, [Next]_vars
    PROVE  PInv'
<1>1. CASE Next
  <2>1. ASSUME NEW t \in Threads, NEW c \in Ctxs \cup {NoCtx}, SetCtx(t, c) PROVE PInv'
    BY <2>1, SetCtxKeeps
  <2>2. ASSUME NEW t \in Threads, PgtFree(t) PROVE PInv'
    BY <2>2, PgtFreeKeeps
  <2>3. ASSUME NEW t \in Threads, PgtAlloc(t) PROVE PInv'
    BY <2>3, PgtAllocKeeps
  <2>4. ASSUME NEW t \in Threads, NEW r \in Regions, VmMap(t, r) PROVE PInv'
    BY <2>4, VmMapKeeps
  <2>5. ASSUME NEW t \in Threads, NEW r \in Regions, VmUnmap(t, r) PROVE PInv'
    BY <2>5, VmUnmapKeeps
  <2>6. ASSUME NEW t \in Threads, NEW u \in Touched, PagerFault(t, u) PROVE PInv'
    BY <2>6, PagerFaultKeeps
  <2>7. ASSUME NEW c \in Ctxs, CreateCtx(c) PROVE PInv'
    BY <2>7, CreateCtxKeeps
  <2>8. ASSUME NEW c \in Ctxs, PgtFlushCtx(c) PROVE PInv'
    BY <2>8, PgtFlushCtxKeeps
  <2>9. ASSUME NEW p \in Pgts, NEW u \in Touched, PagerEvict(p, u) PROVE PInv'
    BY <2>9, PagerEvictKeeps
  <2> QED BY <1>1, <2>1, <2>2, <2>3, <2>4, <2>5, <2>6, <2>7, <2>8, <2>9 DEF Next
<1>2. CASE UNCHANGED vars
  <2>1. /\ pgt' = pgt /\ freeList' = freeList /\ cacheList' = cacheList /\ tbls' = tbls
        /\ tsdCtx' = tsdCtx /\ target' = target /\ pc' = pc /\ asleep' = asleep
        /\ regions' = regions /\ live' = live
    BY <1>2 DEF vars
  <2>2. Shape'
    BY <2>1 DEF PInv, Shape
  <2>3. ShareInv'
    BY <2>1, ShareSame DEF PInv
  <2>4. NoStaleTable'
    BY <2>1, NoStaleIs DEF PInv
  <2>5. \A u \in Threads : Alone(u)
    BY <2>1 DEF Alone, PInv, CtxInv, CtxOK
  <2> QED BY <2>2, <2>3, <2>4, <2>5, FrameNone
<1> QED BY <1>1, <1>2

\* The inductive invariant holds throughout.
THEOREM Invariance == Spec => []PInv
<1>1. Init => PInv
  BY InitInv
<1>2. PInv /\ [Next]_vars => PInv'
  BY NextInv
<1> QED BY <1>1, <1>2, PTL DEF Spec

\* While a TA runs, the list of its thread holds the tables of its context,
\* one for each address and in order, as set_pg_region() takes for granted.
THEOREM TasRunOnOwnTables == Spec => []RunsOnOwnTables
<1>1. PInv => RunsOnOwnTables
  BY DEF PInv
<1> QED BY <1>1, Invariance, PTL

\* A table that is kept for a context never outlives what the pager knows of
\* it: its context exists, the pager's entries are of mapped paged regions, and
\* the context has no second table for the address.
THEOREM NoTableIsStale == Spec => []NoStaleTable
<1>1. PInv => NoStaleTable
  BY DEF PInv
<1> QED BY <1>1, Invariance, PTL

\* Types, and no table is lost or shared by the free list, the cache list and
\* the lists of the threads.
THEOREM TypeCorrect == Spec => []TypeOK
<1>1. ASSUME PInv PROVE TypeOK
  <2>1. Shape /\ ShareInv
    BY <1>1 DEF PInv
  <2>2. Pgts = freeList \cup Range(cacheList) \cup UNION {Range(tbls[t]) : t \in Threads}
    <3>1. Cached \subseteq Pgts /\ \A t \in Threads : Own(t) \subseteq Pgts
      BY <2>1 DEF Cached, Own, Shape, Range
    <3>2. Pgts = freeList \cup Cached \cup UNION {Own(t) : t \in Threads}
      BY <2>1, <3>1 DEF Shape, ShareInv
    <3> QED BY <3>2 DEF Cached, Own
  <2> QED BY <2>1, <2>2, Counted DEF TypeOK, Shape, Table
<1> QED BY <1>1, Invariance, PTL
==============================================================================
