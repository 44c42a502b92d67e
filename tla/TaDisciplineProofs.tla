-------------------------- MODULE TaDisciplineProofs --------------------------
(***************************************************************************)
(* More about sessions and TA contexts, for clients and TAs that are       *)
(* Disciplined, on top of AInv of TaManagerProofs.                         *)
(*                                                                         *)
(* That no thread goes through a destroyed context needs Core: who means   *)
(* which session, that a context stays on tee_ctxes as long as a call uses *)
(* it, and that one call destroys it.  One lemma per action shows that it  *)
(* is kept.  The same for Turn: what the single-instance lock counts,      *)
(* while the flags of a TA are not known before its first open.  And the   *)
(* same for Neat: who will close each session, drop each reference, give   *)
(* back each lock, clear each busy flag and destroy each context.          *)
(***************************************************************************)
EXTENDS TaManagerProofs

\* Clients close a session only after their calls on it have returned, as the
\* TEE client API asks, only TAs that take one session at a time panic, and
\* the core is built without CFG_SECURE_DATA_PATH.
Disciplined ==
    /\ ~CloseRaces /\ ~SecureDataPath
    /\ \A u \in MayPanic : "multi" \notin Flags[u]

\* f acts for its client on a session that is still there.
Act(f) == \/ f.op \in {"invoke", "cancel"}
          \/ f.op = "close" /\ f.pc \notin {"clear", "release", "destroy", "drain"}

\* f has made a session and its client does not know it yet.
HalfOpen(f) == f.op = "open" /\ f.pc # "open_init"

\* In lists L and sessions S, f's client means session s.
Names(L, S, f, s) == On(s, L[f.own]) /\ S[s].id = f.id

\* The session f means: there until f has closed it, and for its client to use
\* unless f closes it.
Stake(f, s) == /\ Names(lists, sess, f, s) /\ (Ref(f) => f.s = s)
               /\ f.op = "close" <=> s \notin usable

\* Calls are on sessions that exist ...
StakeInv == \A x \in Pl : Act(fr[x]) => \E s \in Sessions : Stake(fr[x], s)
\* ... and are not half-open, ...
ApartInv == \A x, y \in Pl :
    Act(fr[x]) /\ HalfOpen(fr[y]) /\ fr[x].own = fr[y].own => sess[fr[y].s].id # fr[x].id
\* ... a close is the only call on its session, ...
CloseInv == \A x, y \in Pl :
    Act(fr[x]) /\ Act(fr[y]) /\ fr[x].op = "close" /\ fr[x].own = fr[y].own /\ fr[x].id = fr[y].id => x = y
\* ... and so is an open ...
OpenInv == \A x, y \in Pl : HalfOpen(fr[x]) /\ HalfOpen(fr[y]) /\ fr[x].s = fr[y].s => x = y
\* ... of a session its client cannot use yet.
UsableInv == \A s \in usable :
    /\ \E o \in Owners : On(s, lists[o])
    /\ \A y \in Pl : HalfOpen(fr[y]) => fr[y].s # s

\* Whose sessions the calls are on.
ActInv == StakeInv /\ ApartInv /\ CloseInv /\ OpenInv /\ UsableInv

\* A context that is not shared, or not loaded yet, has one session at most.
OnceInv == \A c \in Ctxs :
    ctx[c].state # "unused" /\ ("multi" \notin Flags[ctx[c].u] \/ ~ctx[c].loaded) => ctx[c].ref <= 1

\* A panicked context is destroyed by the call that finds it, and not entered.
PanicInv ==
    /\ \A c \in Ctxs : ctx[c].state # "unused" /\ ctx[c].panicked => ctx[c].u \in MayPanic
    /\ \A x \in Pl : fr[x].pc = "inv_destroy" => ctx[fr[x].c].panicked
    /\ \A x \in Pl : fr[x].pc \in LivePcs => ~ctx[fr[x].c].panicked

\* A context stays on tee_ctxes as long as it is used, one call destroys it, and
\* a session has no other context than one on tee_ctxes or one that the call on
\* that session destroys.
WholeInv ==
    /\ \A x \in Pl : Uses(fr[x]) /\ ~Ending(fr[x]) => On(fr[x].c, ctxes)
    /\ \A x, y \in Pl : Ending(fr[x]) /\ Ending(fr[y]) /\ fr[x].c = fr[y].c => x = y
    /\ \A s \in Sessions : sess[s].state = "live" /\ sess[s].ctx # NoCtx =>
          \/ On(sess[s].ctx, ctxes)
          \/ \E y \in Pl : fr[y].op = "invoke" /\ Ending(fr[y]) /\ fr[y].s = s

\* What holds for disciplined clients, until a fault.
Core == ActInv /\ OnceInv /\ PanicInv /\ WholeInv

\* What a frame is, by operation and place.
LEMMA ActSays ==
    ASSUME NEW f, Shape(f)
    PROVE  /\ Past(f) => Act(f) \/ HalfOpen(f)
           /\ HalfOpen(f) => Ref(f) /\ f.op = "open" /\ ~Grip(f) /\ ~Act(f)
           /\ Act(f) => f # Null /\ f.op # "open"
           /\ Past(f) /\ ~HalfOpen(f) => Grip(f)
           /\ Claims(f) => ~HalfOpen(f)
           /\ f = Null => ~Act(f) /\ ~HalfOpen(f) /\ f.pc \notin LivePcs /\ f.pc # "inv_destroy" /\ ~Ending(f)
<1>1. f = Null => f.op = "none" /\ f.pc = "none"
  BY DEF Null
<1> QED BY <1>1 DEF Shape, OpenShape, InvokeShape, CloseShape, Past, Act, HalfOpen, Ref, Grip, Claims, LivePcs, BusyPcs, Ending, EndPcs

\* A list has one session with an id.
LEMMA OneNamed ==
    ASSUME TypeOK, NEW o \in Owners, NEW r \in Sessions, NEW s \in Sessions,
           On(r, lists[o]), On(s, lists[o]), sess[r].id = sess[s].id
    PROVE  r = s
BY DEF On, TypeOK

\* The contexts stay what they are.
CtxCalm == \A c \in Ctxs :
    /\ ctx'[c].state = ctx[c].state /\ ctx'[c].u = ctx[c].u /\ ctx'[c].ref = ctx[c].ref
    /\ (ctx'[c].panicked <=> ctx[c].panicked) /\ (ctx[c].loaded => ctx'[c].loaded)

\* Sessions keep their ids.
SameIds == \A s \in Sessions : sess'[s].id = sess[s].id

\* No session is made, or gets another context.
SessFewer == \A s \in Sessions : sess'[s].state = "live" =>
    sess[s].state = "live" /\ (sess'[s].ctx = sess[s].ctx \/ sess'[s].ctx = NoCtx)

\* f goes on as g: on the same session, with the same context.
ActQuiet(f, g) ==
    /\ Act(g) => /\ Act(f) /\ g.op = f.op /\ g.own = f.own /\ g.id = f.id
                 /\ Ref(g) => (Ref(f) /\ g.s = f.s) \/ Names(lists, sess, g, g.s)
    /\ HalfOpen(g) => HalfOpen(f) /\ g.s = f.s /\ g.own = f.own

\* The same for contexts.
CtxQuiet(f, g) ==
    /\ g.pc = "inv_destroy" => ctx[g.c].panicked
    /\ g.pc \in LivePcs => (f.pc \in LivePcs /\ g.c = f.c) \/ ~ctx[g.c].panicked
    /\ Uses(g) => (Uses(f) /\ g.c = f.c) \/ On(g.c, ctxes)
    /\ Ending(g) <=> Ending(f)
    /\ Ending(f) => g.c = f.c /\ g.s = f.s /\ g.op = f.op

\* A step that changes no list keeps ActInv.
LEMMA ActMove ==
    ASSUME AInv, AInv', fault = "none", fault' = "none", ActInv, NEW p, NEW g, Moved(p, g), UNCHANGED <<lists, usable>>, SameIds,
           ActQuiet(fr[p], g)
    PROVE  ActInv'
<1>1. /\ p \in Pl /\ fr'[p] = g /\ \A x \in Pl : x # p => fr'[x] = fr[x]
  BY DEF Moved
<1>2. TypeOK /\ ShapeInv /\ HomeInv /\ ShapeInv' /\ HomeInv'
  BY DEF AInv, Good
<1>3. \A x \in Pl : Act(fr'[x]) => Act(fr[x]) /\ fr'[x].op = fr[x].op /\ fr'[x].own = fr[x].own /\ fr'[x].id = fr[x].id
  BY <1>1 DEF ActQuiet
<1>4. \A x \in Pl : HalfOpen(fr'[x]) => HalfOpen(fr[x]) /\ fr'[x].s = fr[x].s /\ fr'[x].own = fr[x].own
  BY <1>1 DEF ActQuiet
<1>5. \A x \in Pl : HalfOpen(fr[x]) => fr[x].s \in Sessions
  <2> TAKE x \in Pl
  <2>1. Shape(fr[x])
    BY <1>2 DEF ShapeInv
  <2> QED BY <2>1, ActSays, ShapeSays
<1>6. StakeInv'
  <2> SUFFICES ASSUME NEW x \in Pl, Act(fr'[x])
               PROVE  \E s \in Sessions : Stake(fr[x], s)'
    BY DEF StakeInv
  <2>1. PICK s \in Sessions : Stake(fr[x], s)
    BY <1>3 DEF ActInv, StakeInv
  <2>2. Names(lists', sess', fr'[x], s)
    BY <1>3, <2>1 DEF Stake, Names, SameIds
  <2>3. fr'[x].op = "close" <=> s \notin usable'
    BY <1>3, <2>1 DEF Stake
  <2>4. Ref(fr'[x]) => fr'[x].s = s
    <3> SUFFICES ASSUME Ref(fr'[x])
                 PROVE  fr'[x].s = s
      OBVIOUS
    <3>1. CASE Ref(fr[x]) /\ fr'[x].s = fr[x].s
      BY <2>1, <3>1 DEF Stake
    <3>2. CASE ~(Ref(fr[x]) /\ fr'[x].s = fr[x].s)
      <4>1. x = p
        BY <1>1, <3>2
      <4>2. Names(lists, sess, g, g.s) /\ g.own = fr[x].own /\ g.id = fr[x].id
        BY <1>1, <3>2, <4>1 DEF ActQuiet
      <4>3. g.s \in Sessions /\ fr[x].own \in Owners
        BY <1>1, <1>2, <4>1, ShapeSays DEF ShapeInv
      <4>4. On(s, lists[fr[x].own]) /\ sess[s].id = fr[x].id
        BY <2>1 DEF Stake, Names
      <4>5. On(g.s, lists[fr[x].own]) /\ sess[g.s].id = sess[s].id
        BY <4>2, <4>4 DEF Names
      <4> QED BY <1>1, <1>2, <4>1, <4>3, <4>4, <4>5, OneNamed
    <3> QED BY <3>1, <3>2
  <2> QED BY <2>2, <2>3, <2>4 DEF Stake
<1>7. ApartInv'
  <2> SUFFICES ASSUME NEW x \in Pl, NEW y \in Pl, Act(fr'[x]), HalfOpen(fr'[y]), fr'[x].own = fr'[y].own
               PROVE  sess'[fr'[y].s].id # fr'[x].id
    BY DEF ApartInv
  <2> QED BY <1>3, <1>4, <1>5 DEF ActInv, ApartInv, SameIds
<1>8. CloseInv'
  BY <1>3 DEF ActInv, CloseInv
<1>9. OpenInv'
  BY <1>4 DEF ActInv, OpenInv
<1>10. UsableInv'
  BY <1>4 DEF ActInv, UsableInv
<1> QED BY <1>6, <1>7, <1>8, <1>9, <1>10 DEF ActInv

\* Sessions that stay what they are.
LEMMA LikeSays ==
    ASSUME SessLike
    PROVE  SameIds /\ SessFewer
BY DEF SessLike, SameIds, SessFewer

\* Calls go on, and their contexts panic or not as before.
LEMMA PanicMove ==
    ASSUME AInv', fault' = "none", PanicInv, NEW p, NEW g, Moved(p, g),
           \A c \in Ctxs : ctx'[c].state # "unused" /\ ctx'[c].panicked => ctx'[c].u \in MayPanic,
           \A x \in Pl : x # p /\ Uses(fr[x]) /\ ~Ending(fr[x]) /\ fr[x].c \in Ctxs =>
              (ctx'[fr[x].c].panicked <=> ctx[fr[x].c].panicked),
           g.pc = "inv_destroy" => ctx'[g.c].panicked, g.pc \in LivePcs => ~ctx'[g.c].panicked
    PROVE  PanicInv'
<1>1. /\ p \in Pl /\ fr'[p] = g /\ \A x \in Pl : x # p => fr'[x] = fr[x]
  BY DEF Moved
<1>2. ASSUME NEW x \in Pl, fr'[x].pc = "inv_destroy" \/ fr'[x].pc \in LivePcs
      PROVE  Uses(fr'[x]) /\ ~Ending(fr'[x]) /\ fr'[x].c \in Ctxs
  <2>1. Shape(fr'[x])
    BY DEF AInv, Good, ShapeInv
  <2>2. fr'[x] # Null
    BY <1>2 DEF Null, LivePcs, BusyPcs
  <2>3. fr'[x].op \in {"open", "invoke", "close", "cancel"}
    BY <2>1, <2>2 DEF Shape, Frame
  <2>4. ~Ending(fr'[x])
    BY <1>2 DEF Ending, EndPcs, LivePcs, BusyPcs
  <2>5. Past(fr'[x]) \/ Claims(fr'[x])
    BY <1>2, <2>1, <2>3 DEF Shape, OpenShape, InvokeShape, CloseShape, LivePcs, BusyPcs, EndPcs, Past, Claims
  <2>6. Uses(fr'[x])
    BY <2>5 DEF Uses
  <2> QED BY <2>1, <2>4, <2>6, ShapeSays
<1>3. \A x \in Pl : fr'[x].pc = "inv_destroy" => ctx'[fr'[x].c].panicked
  BY <1>1, <1>2 DEF PanicInv
<1>4. \A x \in Pl : fr'[x].pc \in LivePcs => ~ctx'[fr'[x].c].panicked
  BY <1>1, <1>2 DEF PanicInv
<1> QED BY <1>3, <1>4 DEF PanicInv

\* A step that changes no list of contexts keeps WholeInv.
LEMMA WholeMove ==
    ASSUME WholeInv, NEW p, NEW g, Moved(p, g), UNCHANGED ctxes, SessFewer, CtxQuiet(fr[p], g)
    PROVE  WholeInv'
<1>1. /\ p \in Pl /\ fr'[p] = g /\ \A x \in Pl : x # p => fr'[x] = fr[x]
  BY DEF Moved
<1>2. \A x \in Pl : Uses(fr'[x]) /\ ~Ending(fr'[x]) => On(fr'[x].c, ctxes')
  BY <1>1 DEF WholeInv, CtxQuiet
<1>3. \A x, y \in Pl : Ending(fr'[x]) /\ Ending(fr'[y]) /\ fr'[x].c = fr'[y].c => x = y
  <2>1. \A x \in Pl : Ending(fr'[x]) => Ending(fr[x]) /\ fr'[x].c = fr[x].c
    BY <1>1 DEF CtxQuiet
  <2> QED BY <2>1 DEF WholeInv
<1>4. ASSUME NEW s \in Sessions, sess'[s].state = "live", sess'[s].ctx # NoCtx
      PROVE  \/ On(sess'[s].ctx, ctxes')
             \/ \E y \in Pl : fr'[y].op = "invoke" /\ Ending(fr'[y]) /\ fr'[y].s = s
  <2>1. sess[s].state = "live" /\ sess'[s].ctx = sess[s].ctx
    BY <1>4 DEF SessFewer
  <2>2. CASE On(sess[s].ctx, ctxes)
    BY <2>1, <2>2
  <2>3. CASE ~On(sess[s].ctx, ctxes)
    <3>1. PICK y \in Pl : fr[y].op = "invoke" /\ Ending(fr[y]) /\ fr[y].s = s
      BY <1>4, <2>1, <2>3 DEF WholeInv
    <3>2. fr'[y].op = "invoke" /\ Ending(fr'[y]) /\ fr'[y].s = s
      BY <1>1, <3>1 DEF CtxQuiet
    <3> QED BY <3>2
  <2> QED BY <2>2, <2>3
<1> QED BY <1>2, <1>3, <1>4 DEF WholeInv

\* A step that changes no list of contexts keeps the rest.
LEMMA CtxMove ==
    ASSUME AInv, AInv', fault = "none", fault' = "none", OnceInv, PanicInv, WholeInv, NEW p, NEW g, Moved(p, g),
           UNCHANGED ctxes, SessFewer, CtxCalm, CtxQuiet(fr[p], g)
    PROVE  OnceInv' /\ PanicInv' /\ WholeInv'
<1>1. /\ p \in Pl /\ fr'[p] = g
  BY DEF Moved
<1>2. Shape(fr[p]) /\ Shape(g)
  BY <1>1 DEF AInv, Good, ShapeInv
<1>3. OnceInv'
  BY DEF OnceInv, CtxCalm
<1>4. \A c \in Ctxs : ctx'[c].state # "unused" /\ ctx'[c].panicked => ctx'[c].u \in MayPanic
  BY DEF PanicInv, CtxCalm
<1>5. g.pc = "inv_destroy" \/ g.pc \in LivePcs => g.c \in Ctxs
  <2> SUFFICES ASSUME g.pc = "inv_destroy" \/ g.pc \in LivePcs
               PROVE  g.c \in Ctxs
    OBVIOUS
  <2>1. g # Null
    BY DEF Null, LivePcs, BusyPcs
  <2>2. g.op \in {"open", "invoke", "close", "cancel"}
    BY <1>2, <2>1 DEF Shape, Frame
  <2> QED BY <1>2, <2>2 DEF Shape, OpenShape, InvokeShape, CloseShape, LivePcs, BusyPcs, EndPcs
<1>6. g.pc = "inv_destroy" => ctx'[g.c].panicked
  BY <1>5 DEF CtxQuiet, CtxCalm
<1>7. g.pc \in LivePcs => ~ctx'[g.c].panicked
  BY <1>1, <1>5 DEF CtxQuiet, CtxCalm, PanicInv
<1>8. \A x \in Pl : x # p /\ Uses(fr[x]) /\ ~Ending(fr[x]) /\ fr[x].c \in Ctxs => (ctx'[fr[x].c].panicked <=> ctx[fr[x].c].panicked)
  BY DEF CtxCalm
<1>9. PanicInv'
  BY <1>4, <1>6, <1>7, <1>8, PanicMove
<1>10. WholeInv'
  BY WholeMove
<1> QED BY <1>3, <1>9, <1>10

\* A context with one reference at most has one session at most.
LEMMA OneClaim ==
    ASSUME AInv, fault = "none", NEW c \in Ctxs, ctx[c].ref <= 1, NEW r, NEW s,
           r \in ClaimsOn(sess, fr, c), s \in ClaimsOn(sess, fr, c)
    PROVE  r = s
<1>1. TypeOK /\ Good
  BY DEF AInv
<1>2. IsFiniteSet(ClaimsOn(sess, fr, c))
  <2>1. IsFiniteSet(Sessions)
    BY FS_Interval, TaManagerAssumption DEF Sessions
  <2>2. ClaimsOn(sess, fr, c) \subseteq Sessions
    BY DEF ClaimsOn
  <2> QED BY <2>1, <2>2, FS_Subset
<1>3. PICK S : S = ClaimsOn(sess, fr, c)
  OBVIOUS
<1>4. Cardinality(S) \in Nat /\ (Cardinality(S) = 0 => S = {}) /\ (Cardinality(S) = 1 => \E e : S = {e})
  BY <1>2, <1>3, FS_CardinalityType, FS_EmptySet, FS_Singleton
<1>5. ctx[c].ref \in Nat
  BY <1>1 DEF TypeOK, Context
<1>6. Cardinality(S) <= 1
  BY <1>1, <1>3, <1>4, <1>5 DEF Good, CountInv
<1> QED BY <1>3, <1>4, <1>6

\* A call that uses a context is on a session of it.
LEMMA UsesClaim ==
    ASSUME AInv, fault = "none", Core, NEW x \in Pl, Uses(fr[x]), ~Ending(fr[x])
    PROVE  /\ fr[x].c \in Ctxs /\ On(fr[x].c, ctxes) /\ fr[x].s \in Sessions
           /\ fr[x].s \in ClaimsOn(sess, fr, fr[x].c)
<1>1. TypeOK /\ Good
  BY DEF AInv
<1>2. PICK c : c = fr[x].c
  OBVIOUS
<1>3. /\ Shape(fr[x]) /\ c \in Ctxs
  BY <1>1, <1>2, ShapeSays DEF Good, ShapeInv
<1>4. On(c, ctxes)
  BY <1>2 DEF Core, WholeInv
<1>5. Past(fr[x]) \/ Claims(fr[x])
  BY DEF Uses
<1>6. /\ Ref(fr[x]) => fr[x].s \in Sessions /\ sess[fr[x].s].state = "live"
      /\ Claims(fr[x]) => fr[x].s \in Sessions
      /\ Past(fr[x]) => Ref(fr[x])
  BY <1>1, FrameSays DEF Good
<1>7. fr[x].s \in ClaimsOn(sess, fr, c)
  <2>1. CASE Claims(fr[x])
    BY <1>2, <1>6, <2>1 DEF ClaimsOn
  <2>2. CASE Past(fr[x])
    <3>1. sess[fr[x].s].ctx = c
      BY <1>1, <1>2, <1>4, <2>2 DEF Good, LinkInv
    <3> QED BY <1>6, <2>2, <3>1 DEF ClaimsOn
  <2> QED BY <1>5, <2>1, <2>2
<1> QED BY <1>2, <1>3, <1>4, <1>5, <1>6, <1>7

\* Two calls that use a context with one reference are the same.
LEMMA Alone ==
    ASSUME AInv, fault = "none", Core, NEW x \in Pl, NEW y \in Pl, Uses(fr[x]), ~Ending(fr[x]),
           Uses(fr[y]), ~Ending(fr[y]), fr[x].c = fr[y].c, ctx[fr[x].c].ref <= 1
    PROVE  x = y
<1>1. TypeOK /\ Good
  BY DEF AInv
<1>2. fr[x].s = fr[y].s
  <2>1. /\ fr[x].c \in Ctxs /\ fr[x].s \in ClaimsOn(sess, fr, fr[x].c) /\ fr[y].s \in ClaimsOn(sess, fr, fr[x].c)
    BY UsesClaim
  <2> QED BY <2>1, OneClaim
<1>3. ASSUME NEW z \in Pl, Uses(fr[z]), ~Ending(fr[z])
      PROVE  /\ HalfOpen(fr[z]) => Ref(fr[z]) /\ fr[z].s \in Sessions /\ sess[fr[z].s].state = "live"
             /\ ~HalfOpen(fr[z]) => Grip(fr[z]) /\ (Gone(fr[z]) \/ (Act(fr[z]) /\ Ref(fr[z])))
  <2>1. Shape(fr[z])
    BY <1>1 DEF Good, ShapeInv
  <2>2. HalfOpen(fr[z]) => Ref(fr[z])
    BY <2>1, ActSays
  <2>3. ~HalfOpen(fr[z]) => Grip(fr[z]) /\ (Gone(fr[z]) \/ (Act(fr[z]) /\ Ref(fr[z])))
    BY <1>3, <2>1, ActSays, ShapeSays DEF Uses
  <2> QED BY <1>1, <2>2, <2>3, FrameSays DEF Good
<1>4. ASSUME NEW v \in Pl, NEW w \in Pl, Uses(fr[v]), ~Ending(fr[v]), Uses(fr[w]), ~Ending(fr[w]),
             HalfOpen(fr[v]), ~HalfOpen(fr[w]), fr[v].s = fr[w].s
      PROVE  FALSE
  <2>1. Ref(fr[v]) /\ fr[v].s \in Sessions /\ sess[fr[v].s].state = "live"
    BY <1>3, <1>4
  <2>2. Act(fr[w]) /\ Ref(fr[w])
    BY <1>1, <1>3, <1>4, <2>1 DEF Good, GripInv
  <2>3. PICK s \in Sessions : Stake(fr[w], s)
    BY <2>2 DEF Core, ActInv, StakeInv
  <2>4. s = fr[w].s /\ On(s, lists[fr[w].own]) /\ sess[s].id = fr[w].id
    BY <2>2, <2>3 DEF Stake, Names
  <2>5. On(s, lists[fr[v].own])
    BY <1>1, <1>4, <2>1, <2>4 DEF Good, HomeInv
  <2>6. fr[v].own \in Owners /\ fr[w].own \in Owners
    BY <1>1, FrameSays DEF Good
  <2>7. fr[v].own = fr[w].own
    BY <1>1, <2>4, <2>5, <2>6 DEF Good, HomeInv
  <2> QED BY <1>4, <2>2, <2>4, <2>7 DEF Core, ActInv, ApartInv
<1>5. CASE HalfOpen(fr[x]) /\ HalfOpen(fr[y])
  BY <1>2, <1>5 DEF Core, ActInv, OpenInv
<1>6. CASE ~HalfOpen(fr[x]) /\ ~HalfOpen(fr[y])
  BY <1>1, <1>2, <1>3, <1>6 DEF Good, GripInv
<1> QED BY <1>2, <1>4, <1>5, <1>6

\* The innermost frame of t is replaced by g, and Core is kept.
LEMMA QuietSet ==
    ASSUME AInv, AInv', fault = "none", fault' = "none", Core, NEW t \in Threads, stack[t] # <<>>, NEW g \in Frame, SetTop(t, g),
           UNCHANGED <<lists, ctxes, usable>>, SessLike, CtxCalm, ActQuiet(Top(t), g), CtxQuiet(Top(t), g)
    PROVE  Core'
<1>1. fr[TopP(t)] = Top(t) /\ stack \in [Threads -> Seq(Frame)]
  BY AtSays
<1>2. Moved(TopP(t), g)
  BY <1>1, MoveSet
<1>3. ActQuiet(fr[TopP(t)], g) /\ CtxQuiet(fr[TopP(t)], g)
  BY <1>1
<1>4. ActInv'
  BY <1>2, <1>3, ActMove, LikeSays DEF Core
<1>5. OnceInv' /\ PanicInv' /\ WholeInv'
  BY <1>2, <1>3, CtxMove, LikeSays DEF Core
<1> QED BY <1>4, <1>5 DEF Core

\* A call returns, and Core is kept.
LEMMA QuietPop ==
    ASSUME AInv, AInv', fault = "none", fault' = "none", Core, NEW t \in Threads, stack[t] # <<>>, Return(t), ~Ending(Top(t)),
           UNCHANGED <<lists, ctxes, usable>>, SessLike, CtxCalm
    PROVE  Core'
<1>1. fr[TopP(t)] = Top(t) /\ stack \in [Threads -> Seq(Frame)]
  BY AtSays
<1>2. Moved(TopP(t), Null)
  BY <1>1, MovePop
<1>3. Shape(Null)
  <2>1. fr'[TopP(t)] = Null /\ TopP(t) \in Pl
    BY <1>2 DEF Moved
  <2>2. ShapeInv'
    BY DEF AInv, Good
  <2> QED BY <2>1, <2>2 DEF ShapeInv
<1>4. /\ ~Act(Null) /\ ~HalfOpen(Null) /\ Null.pc \notin LivePcs /\ Null.pc # "inv_destroy" /\ ~Ending(Null) /\ ~Uses(Null)
  BY <1>3, ActSays, ShapeSays
<1>5. ActQuiet(fr[TopP(t)], Null)
  BY <1>4 DEF ActQuiet
<1>6. CtxQuiet(fr[TopP(t)], Null)
  BY <1>1, <1>4 DEF CtxQuiet
<1>7. ActInv'
  BY <1>2, <1>5, ActMove, LikeSays DEF Core
<1>8. OnceInv' /\ PanicInv' /\ WholeInv'
  BY <1>2, <1>6, CtxMove, LikeSays DEF Core
<1> QED BY <1>7, <1>8 DEF Core

\* f goes on as g, by its program counter.
LEMMA GoesQuiet ==
    ASSUME NEW f \in Frame, Shape(f), NEW g \in Frame, Goes(f, g), g.id = f.id, g.pc = "inv_destroy" => ctx[g.c].panicked
    PROVE  ActQuiet(f, g) /\ CtxQuiet(f, g)
<1>1. /\ g.op = f.op /\ g.own = f.own /\ g.s = f.s /\ g.c = f.c /\ g.via = f.via
  BY DEF Goes
<1>2. ActQuiet(f, g)
  <2>1. Act(g) => Act(f)
    BY <1>1 DEF Act, Goes, BusyPcs, LeaveTa, AfterClear
  <2>2. Act(g) /\ Ref(g) => Ref(f)
    BY <1>1 DEF Act, Goes, BusyPcs, LeaveTa, AfterClear, Ref, Shape, Frame
  <2>3. HalfOpen(g) => HalfOpen(f)
    BY <1>1 DEF HalfOpen, Goes, BusyPcs, Shape, OpenShape
  <2> QED BY <1>1, <2>1, <2>2, <2>3 DEF ActQuiet
<1>3. CtxQuiet(f, g)
  <2>1. g.pc \in LivePcs => f.pc \in LivePcs
    BY <1>1 DEF Goes, BusyPcs, LivePcs, LeaveTa, AfterClear, Shape, OpenShape, InvokeShape, CloseShape, Frame
  <2>2. Ending(g) <=> Ending(f)
    BY <1>1 DEF Goes, BusyPcs, LivePcs, LeaveTa, AfterClear, Ending, EndPcs, Shape, OpenShape, InvokeShape, CloseShape, Frame
  <2>3. Uses(g) => Uses(f)
    <3>1. StepOK(f, g)
      BY GoesOK
    <3> QED BY <2>2, <3>1, <1>1 DEF Goes, Uses, Past, Claims, Shape, OpenShape, InvokeShape, CloseShape, LivePcs, BusyPcs, EndPcs, Ending, LeaveTa, AfterClear, Frame
  <2> QED BY <1>1, <2>1, <2>2, <2>3 DEF CtxQuiet
<1> QED BY <1>2, <1>3

\* The innermost call of t goes on as g, on its session and context.
Going(t, g) ==
    /\ fault = "none" /\ stack[t] # <<>> /\ g \in Frame /\ SetTop(t, g) /\ Goes(Top(t), g) /\ g.id = Top(t).id
    /\ UNCHANGED <<sess, ctxes, lists, usable>>

\* Such a step keeps Core.
LEMMA GoingCore ==
    ASSUME AInv, AInv', fault' = "none", Core, NEW t \in Threads, NEW g, Going(t, g), CtxCalm,
           g.pc = "inv_destroy" => ctx[g.c].panicked
    PROVE  Core'
<1>1. /\ fault = "none" /\ stack[t] # <<>> /\ g \in Frame /\ SetTop(t, g) /\ Goes(Top(t), g) /\ g.id = Top(t).id
      /\ UNCHANGED <<sess, ctxes, lists, usable>>
  BY DEF Going
<1>2. Top(t) \in Frame /\ Shape(Top(t))
  BY <1>1, AtSays
<1>3. ActQuiet(Top(t), g) /\ CtxQuiet(Top(t), g)
  BY <1>1, <1>2, GoesQuiet
<1>4. SessLike
  BY <1>1 DEF SessLike
<1> QED BY <1>1, <1>3, <1>4, QuietSet

\* g is f at pc.
Same(f, g) == g.op = f.op /\ g.own = f.own /\ g.s = f.s /\ g.c = f.c /\ g.via = f.via /\ g.id = f.id

\* A change of context c, as seen by the others.
CtxOnly(c) ==
    /\ c \in Ctxs /\ \A d \in Ctxs : d # c => ctx'[d] = ctx[d]
    /\ ctx'[c].state = ctx[c].state /\ ctx'[c].u = ctx[c].u /\ ctx'[c].ref = ctx[c].ref

\* ctx->busy is set ...
LEMMA BusySet ==
    ASSUME NEW r \in Context, NEW e, e = [r EXCEPT !.busy = TRUE]
    PROVE  e.busy /\ e.loaded = r.loaded /\ e.initializing = r.initializing /\ e.panicked = r.panicked
<1>1. e.busy
  BY DEF Context
<1>2. e.loaded = r.loaded /\ e.initializing = r.initializing /\ e.panicked = r.panicked
  BY DEF Context
<1> QED BY <1>1, <1>2

\* ... and cleared.
LEMMA BusyCleared ==
    ASSUME NEW r \in Context, NEW e, e = [r EXCEPT !.busy = FALSE, !.initializing = FALSE]
    PROVE  e.busy = FALSE /\ e.initializing = FALSE /\ e.loaded = r.loaded /\ e.panicked = r.panicked
<1>1. e.busy = FALSE /\ e.initializing = FALSE
  BY Zenon DEF Context
<1>2. e.loaded = r.loaded /\ e.panicked = r.panicked
  BY DEF Context
<1> QED BY <1>1, <1>2

\* tee_ta_try_set_busy of a concurrent TA.
LEMMA BusyConcurrentIs ==
    ASSUME AInv, NEW t \in Threads, BusyConcurrent(t)
    PROVE  \E g : /\ Going(t, g) /\ g.pc = "enter" /\ UNCHANGED <<ctx, si, waitq, fault>>
                  /\ ~NonConc(ctx[g.c]) /\ Top(t).pc = "busy" /\ Same(Top(t), g)
<1>1. /\ fault = "none" /\ stack[t] # <<>> /\ Top(t).pc = "busy"
      /\ UNCHANGED <<sess, ctx, ctxes, lists, si, waitq, usable, fault>>
      /\ SetTop(t, [Top(t) EXCEPT !.pc = "enter"]) /\ "concurrent" \in CtxFlags(Top(t).c)
  BY DEF BusyConcurrent, At, Goto
<1>2. PICK g : g = [Top(t) EXCEPT !.pc = "enter"]
  OBVIOUS
<1>3. Top(t) \in Frame
  BY <1>1, AtSays
<1>4. /\ g \in Frame /\ g.pc = "enter" /\ Same(Top(t), g)
  BY <1>2, <1>3, GotoIs DEF Pcs, Same
<1>5. Goes(Top(t), g)
  BY <1>1, <1>4 DEF Goes, BusyPcs, Same
<1>6. ~NonConc(ctx[g.c])
  BY <1>1, <1>4 DEF NonConc, FlagsIn, CtxFlags, Same
<1>7. SetTop(t, g) /\ g.id = Top(t).id
  BY <1>1, <1>2, <1>4 DEF Same
<1> QED BY <1>1, <1>4, <1>5, <1>6, <1>7 DEF Going

\* A wait in tee_ta_try_set_busy.
LEMMA WaitOnIs ==
    ASSUME AInv, fault = "none", NEW t \in Threads, stack[t] # <<>>, NEW pc \in BusyPcs, NEW cv,
           Top(t).pc \in BusyPcs, WaitOn(t, pc, cv)
    PROVE  \E g : /\ Going(t, g) /\ g.pc = pc /\ UNCHANGED <<ctx, si, fault>>
                  /\ waitq' = Wait(waitq, t, cv) /\ Same(Top(t), g)
<1>1. /\ UNCHANGED <<sess, ctx, ctxes, lists, si, usable, fault>> /\ SetTop(t, [Top(t) EXCEPT !.pc = pc])
      /\ waitq' = Wait(waitq, t, cv)
  BY DEF WaitOn, Goto
<1>2. PICK g : g = [Top(t) EXCEPT !.pc = pc]
  OBVIOUS
<1>3. Top(t) \in Frame /\ pc \in Pcs
  BY AtSays DEF BusyPcs, Pcs
<1>4. /\ g \in Frame /\ g.pc = pc /\ Same(Top(t), g)
  BY <1>2, <1>3, GotoIs DEF Same
<1>5. Goes(Top(t), g) /\ SetTop(t, g) /\ g.id = Top(t).id
  BY <1>1, <1>2, <1>4 DEF Goes, BusyPcs, Same
<1> QED BY <1>1, <1>4, <1>5 DEF Going

\* tee_ta_try_set_busy has set the flag.
Granted(t, g) ==
    /\ Going(t, g) /\ g.pc = "enter" /\ Same(Top(t), g) /\ Exclusive(t) /\ UNCHANGED <<waitq, fault>>
    /\ CtxOnly(g.c) /\ ~ctx[g.c].busy /\ ctx'[g.c].busy /\ (ctx'[g.c].loaded <=> ctx[g.c].loaded)
    /\ (ctx'[g.c].initializing <=> ctx[g.c].initializing) /\ (ctx'[g.c].panicked <=> ctx[g.c].panicked)
    /\ \/ SiReady(t) /\ si'.thread = t /\ si'.count = si.count + 1
       \/ PastInit(t) /\ ~Single(g.c) /\ UNCHANGED si
       \/ At(t, "wait_busy") /\ UNCHANGED si

\* BusyGranted in terms of frames.
LEMMA BusyGrantedIs ==
    ASSUME AInv, NEW t \in Threads, BusyGranted(t)
    PROVE  \E g : Granted(t, g)
<1>1. PICK c : c = Top(t).c
  OBVIOUS
<1>2. /\ Exclusive(t) /\ ~ctx[c].busy
      /\ \/ SiReady(t) /\ si' = [thread |-> t, count |-> si.count + 1]
         \/ PastInit(t) /\ ~Single(c) /\ UNCHANGED si
         \/ At(t, "wait_busy") /\ UNCHANGED si
      /\ ctx' = [ctx EXCEPT ![c].busy = TRUE] /\ SetTop(t, [Top(t) EXCEPT !.pc = "enter"])
      /\ UNCHANGED <<sess, ctxes, lists, waitq, usable, fault>>
  BY <1>1 DEF BusyGranted, Goto
<1>3. /\ fault = "none" /\ stack[t] # <<>> /\ Top(t).pc \in BusyPcs /\ c \in Ctxs
      /\ Top(t) \in Frame /\ TypeOK
  BY <1>1, <1>2, ExclusiveSays
<1>4. PICK g : g = [Top(t) EXCEPT !.pc = "enter"]
  OBVIOUS
<1>5. /\ g \in Frame /\ g.pc = "enter" /\ Same(Top(t), g) /\ g.c = c
  BY <1>1, <1>3, <1>4, GotoIs DEF Pcs, Same
<1>6. Goes(Top(t), g) /\ g.id = Top(t).id
  BY <1>3, <1>5 DEF Goes, Same
<1>7. PICK e : e = [ctx[c] EXCEPT !.busy = TRUE]
  OBVIOUS
<1>8. /\ e \in Context /\ e.state = ctx[c].state /\ e.u = ctx[c].u /\ e.ref = ctx[c].ref
  BY <1>3, <1>7 DEF TypeOK, Context
<1>9. e.busy /\ (e.loaded <=> ctx[c].loaded) /\ (e.initializing <=> ctx[c].initializing) /\ (e.panicked <=> ctx[c].panicked)
  <2>1. ctx[c] \in Context
    BY <1>3 DEF TypeOK
  <2> QED BY <1>7, <2>1, BusySet
<1>10. ctx' = Upd(ctx, c, e) /\ ctx \in [Ctxs -> Context]
  BY <1>2, <1>3, <1>7 DEF Upd, TypeOK
<1>11. ctx'[c] = e /\ \A d \in Ctxs : d # c => ctx'[d] = ctx[d]
  BY <1>3, <1>10 DEF Upd
<1>12. CtxOnly(g.c)
  BY <1>3, <1>5, <1>8, <1>11 DEF CtxOnly
<1>13. Going(t, g)
  BY <1>2, <1>3, <1>4, <1>5, <1>6 DEF Going
<1>14. \/ SiReady(t) /\ si'.thread = t /\ si'.count = si.count + 1
       \/ PastInit(t) /\ ~Single(g.c) /\ UNCHANGED si
       \/ At(t, "wait_busy") /\ UNCHANGED si
  BY <1>2, <1>5
<1>15. /\ ctx'[g.c].busy /\ (ctx'[g.c].loaded <=> ctx[g.c].loaded)
       /\ (ctx'[g.c].initializing <=> ctx[g.c].initializing) /\ (ctx'[g.c].panicked <=> ctx[g.c].panicked)
  BY <1>5, <1>9, <1>11
<1>16. Exclusive(t) /\ ~ctx[g.c].busy /\ UNCHANGED <<waitq, fault>>
  BY <1>2, <1>5
<1> QED BY <1>5, <1>12, <1>13, <1>14, <1>15, <1>16 DEF Granted

\* tee_ta_try_set_busy gives up.
Refused(t, g) ==
    /\ Going(t, g) /\ g.pc = "open_put" /\ Same(Top(t), g) /\ Exclusive(t) /\ UNCHANGED <<ctx, si, fault>>
    /\ g.res = "err" /\ g.op = "open" /\ Top(t).pc \in BusyPcs
    /\ waitq' = Signal(waitq, SiCv) \/ UNCHANGED waitq

\* BusyRefused in terms of frames: the call is an open, or the core panics.
LEMMA BusyRefusedIs ==
    ASSUME AInv, NEW t \in Threads, BusyRefused(t), fault' = "none"
    PROVE  \E g : Refused(t, g)
<1>1. /\ Exclusive(t) /\ (waitq' = Signal(waitq, SiCv) \/ UNCHANGED waitq)
      /\ fault' = IF Top(t).op = "open" THEN fault ELSE "panic"
      /\ SetTop(t, [Top(t) EXCEPT !.pc = "open_put", !.res = "err"])
      /\ UNCHANGED <<sess, ctx, ctxes, lists, si, usable>>
  BY DEF BusyRefused
<1>2. /\ fault = "none" /\ stack[t] # <<>> /\ Top(t).pc \in BusyPcs /\ Top(t) \in Frame /\ Shape(Top(t))
  BY <1>1, ExclusiveSays
<1>3. PICK g : g = [Top(t) EXCEPT !.pc = "open_put", !.res = "err"]
  OBVIOUS
<1>4. /\ g \in Frame /\ g.pc = "open_put" /\ Same(Top(t), g) /\ g.res = "err"
  BY <1>2, <1>3 DEF Frame, Pcs, Same
<1>5. Top(t).op = "open" /\ UNCHANGED fault
  BY <1>1, <1>2
<1>6. Goes(Top(t), g) /\ g.id = Top(t).id /\ g.op = "open"
  BY <1>2, <1>4, <1>5 DEF Goes, Same
<1>7. Going(t, g)
  BY <1>1, <1>2, <1>3, <1>4, <1>6 DEF Going
<1> QED BY <1>1, <1>2, <1>4, <1>5, <1>6, <1>7 DEF Refused

\* tee_ta_clear_busy of a concurrent TA.
LEMMA ClearConcurrentIs ==
    ASSUME AInv, NEW t \in Threads, ClearConcurrent(t)
    PROVE  \E g : /\ Going(t, g) /\ Same(Top(t), g) /\ UNCHANGED <<ctx, si, waitq, fault>>
                  /\ g.pc \in {"open_put", "inv_post", "release"} /\ Top(t).pc = "clear" /\ ~NonConc(ctx[g.c])
<1>1. /\ fault = "none" /\ stack[t] # <<>> /\ Top(t).pc = "clear" /\ SetTop(t, [Top(t) EXCEPT !.pc = AfterClear(Top(t).op)])
      /\ UNCHANGED <<sess, ctx, ctxes, lists, si, waitq, usable, fault>>
      /\ Valid(t) /\ "concurrent" \in CtxFlags(Deref(Top(t)))
  BY DEF ClearConcurrent, At, Goto
<1>2. Top(t) \in Frame /\ Shape(Top(t)) /\ Deref(Top(t)) = Top(t).c
  BY <1>1, AtSays, DerefIs DEF DerefPcs
<1>3. PICK a : a = AfterClear(Top(t).op)
  OBVIOUS
<1>4. a \in {"open_put", "inv_post", "release"}
  BY <1>1, <1>2, <1>3 DEF AfterClear, Shape, Frame
<1>5. PICK g : g = [Top(t) EXCEPT !.pc = a]
  OBVIOUS
<1>6. /\ g \in Frame /\ g.pc = a /\ Same(Top(t), g)
  BY <1>2, <1>4, <1>5, GotoIs DEF Pcs, Same
<1>7. Goes(Top(t), g) /\ g.id = Top(t).id /\ SetTop(t, g)
  BY <1>1, <1>3, <1>4, <1>5, <1>6 DEF Goes, Same
<1>8. Going(t, g)
  BY <1>1, <1>6, <1>7 DEF Going
<1>9. ~NonConc(ctx[g.c])
  BY <1>1, <1>2, <1>6 DEF NonConc, FlagsIn, CtxFlags, Same
<1> QED BY <1>1, <1>4, <1>6, <1>8, <1>9

\* tee_ta_clear_busy.
Cleared(t, g) ==
    /\ Going(t, g) /\ Same(Top(t), g) /\ g.pc \in {"open_put", "inv_post", "release"} /\ Top(t).pc = "clear"
    /\ CtxOnly(g.c) /\ ~ctx'[g.c].busy /\ ~ctx'[g.c].initializing
    /\ (ctx'[g.c].loaded <=> ctx[g.c].loaded) /\ (ctx'[g.c].panicked <=> ctx[g.c].panicked)
    /\ NonConc(ctx[g.c])
    /\ LET unlock == ~ctx[g.c].initializing /\ Single(g.c)
           last == unlock /\ si.count = 1
       IN  /\ si'.thread = IF last THEN NoThread ELSE si.thread
           /\ si'.count = IF unlock /\ si.count > 0 THEN si.count - 1 ELSE si.count
           /\ waitq' = IF last THEN Signal(Signal(waitq, BusyCv(g.c)), SiCv) ELSE Signal(waitq, BusyCv(g.c))
           /\ fault' = IF ctx[g.c].busy /\ (unlock => si.thread = t /\ si.count > 0) THEN fault ELSE "assert"

\* ClearBusy in terms of frames.
LEMMA ClearBusyIs ==
    ASSUME AInv, NEW t \in Threads, ClearBusy(t)
    PROVE  \E g : Cleared(t, g)
<1>1. PICK c : c = Deref(Top(t))
  OBVIOUS
<1>2. PICK a : a = AfterClear(Top(t).op)
  OBVIOUS
<1> DEFINE unlock == ~ctx[c].initializing /\ Single(c)
           last == unlock /\ si.count = 1
<1>3. /\ fault = "none" /\ stack[t] # <<>> /\ Top(t).pc = "clear" /\ Valid(t)
      /\ "concurrent" \notin CtxFlags(c) /\ SetTop(t, [Top(t) EXCEPT !.pc = a])
      /\ UNCHANGED <<sess, ctxes, lists, usable>>
      /\ ctx' = [ctx EXCEPT ![c].busy = FALSE, ![c].initializing = FALSE]
      /\ si' = [thread |-> IF last THEN NoThread ELSE si.thread,
                count |-> IF unlock /\ si.count > 0 THEN si.count - 1 ELSE si.count]
      /\ waitq' = IF last THEN Signal(Signal(waitq, BusyCv(c)), SiCv) ELSE Signal(waitq, BusyCv(c))
      /\ fault' = IF ctx[c].busy /\ (unlock => si.thread = t /\ si.count > 0) THEN fault ELSE "assert"
  BY <1>1, <1>2 DEF ClearBusy, At, Goto, CAssert
<1>4. /\ Top(t).c = c /\ c \in Ctxs /\ Top(t) \in Frame /\ Shape(Top(t)) /\ TypeOK
  BY <1>1, <1>3, AtSays, DerefIs DEF DerefPcs
<1>5. a \in {"open_put", "inv_post", "release"}
  BY <1>2, <1>3, <1>4 DEF AfterClear, Shape, Frame
<1>6. PICK g : g = [Top(t) EXCEPT !.pc = a]
  OBVIOUS
<1>7. /\ g \in Frame /\ g.pc = a /\ Same(Top(t), g) /\ g.c = c
  BY <1>4, <1>5, <1>6, GotoIs DEF Pcs, Same
<1>8. Goes(Top(t), g) /\ g.id = Top(t).id
  BY <1>2, <1>3, <1>5, <1>7 DEF Goes, Same
<1>9. PICK e : e = [ctx[c] EXCEPT !.busy = FALSE, !.initializing = FALSE]
  OBVIOUS
<1>10. /\ e \in Context /\ e.state = ctx[c].state /\ e.u = ctx[c].u /\ e.ref = ctx[c].ref
  BY <1>4, <1>9 DEF TypeOK, Context
<1>11. ~e.busy /\ ~e.initializing /\ (e.loaded <=> ctx[c].loaded) /\ (e.panicked <=> ctx[c].panicked)
  <2>1. ctx[c] \in Context
    BY <1>4 DEF TypeOK
  <2> QED BY <1>9, <2>1, BusyCleared
<1>12. ctx' = Upd(ctx, c, e) /\ ctx \in [Ctxs -> Context]
  BY <1>3, <1>4, <1>9 DEF Upd, TypeOK
<1>13. ctx'[c] = e /\ \A d \in Ctxs : d # c => ctx'[d] = ctx[d]
  BY <1>4, <1>12 DEF Upd
<1>14. CtxOnly(g.c)
  BY <1>4, <1>7, <1>10, <1>13 DEF CtxOnly
<1>15. Going(t, g)
  BY <1>3, <1>6, <1>7, <1>8 DEF Going
<1>16. NonConc(ctx[g.c])
  BY <1>3, <1>7 DEF NonConc, FlagsIn, CtxFlags
<1>17. si'.thread = (IF last THEN NoThread ELSE si.thread) /\ si'.count = IF unlock /\ si.count > 0 THEN si.count - 1 ELSE si.count
  BY <1>3
<1>18. ~ctx'[g.c].busy /\ ~ctx'[g.c].initializing /\ (ctx'[g.c].loaded <=> ctx[g.c].loaded) /\ (ctx'[g.c].panicked <=> ctx[g.c].panicked)
  BY <1>7, <1>11, <1>13
<1> QED BY <1>3, <1>5, <1>7, <1>14, <1>15, <1>16, <1>17, <1>18 DEF Cleared

\* A call enters the TA, or the entry fails.
Entered(t, g) ==
    /\ Going(t, g) /\ Same(Top(t), g) /\ Top(t).pc = "enter" /\ UNCHANGED <<si, waitq, fault>> /\ g.c \in Ctxs
    /\ \/ /\ g.pc = "in_ta" /\ (ctx[g.c].loaded \/ g.op = "open") /\ CtxOnly(g.c) /\ ctx'[g.c].loaded
          /\ (ctx'[g.c].busy <=> ctx[g.c].busy) /\ (ctx'[g.c].initializing <=> ctx[g.c].initializing)
          /\ (ctx'[g.c].panicked <=> ctx[g.c].panicked)
       \/ g.pc \in {"unlink", "clear"} /\ g.pc = LeaveTa(Top(t)) /\ UNCHANGED ctx

\* ldelf has stored the flags.
LEMMA LoadSet ==
    ASSUME NEW r \in Context, NEW e, e = [r EXCEPT !.loaded = TRUE]
    PROVE  e.loaded /\ e.busy = r.busy /\ e.initializing = r.initializing /\ e.panicked = r.panicked
<1>1. e.loaded
  BY DEF Context
<1>2. e.busy = r.busy /\ e.initializing = r.initializing /\ e.panicked = r.panicked
  BY DEF Context
<1> QED BY <1>1, <1>2

\* EnterTa in terms of frames.
LEMMA EnterTaIs ==
    ASSUME AInv, NEW t \in Threads, EnterTa(t)
    PROVE  \E g : Entered(t, g)
<1>1. PICK f : f = Top(t)
  OBVIOUS
<1>2. PICK c : c = sess[f.s].ctx
  OBVIOUS
<1>3. /\ fault = "none" /\ stack[t] # <<>> /\ f.pc = "enter" /\ Valid(t)
      /\ UNCHANGED <<sess, ctxes, lists, si, waitq, usable, fault>>
      /\ \/ /\ ctx[c].loaded \/ f.op = "open"
            /\ ctx' = [ctx EXCEPT ![c].loaded = TRUE] /\ SetTop(t, [f EXCEPT !.pc = "in_ta"])
         \/ SetTop(t, [f EXCEPT !.pc = LeaveTa(f), !.res = "err"]) /\ UNCHANGED ctx
  BY <1>1, <1>2 DEF EnterTa, At, Goto
<1>4. f.c = c /\ c \in Ctxs /\ f \in Frame /\ Shape(f) /\ TypeOK
  <2>1. Deref(f) = f.c /\ f.c \in Ctxs
    BY <1>1, <1>3, DerefIs DEF DerefPcs
  <2>2. f \in Frame /\ Shape(f) /\ TypeOK
    BY <1>1, <1>3, AtSays
  <2> QED BY <1>2, <1>3, <2>1, <2>2 DEF Deref
<1>5. CASE /\ ctx[c].loaded \/ f.op = "open"
           /\ ctx' = [ctx EXCEPT ![c].loaded = TRUE] /\ SetTop(t, [f EXCEPT !.pc = "in_ta"])
  <2>1. PICK g : g = [f EXCEPT !.pc = "in_ta"]
    OBVIOUS
  <2>2. g \in Frame /\ g.pc = "in_ta" /\ Same(f, g) /\ g.c = c /\ g.op = f.op /\ g.id = f.id
    BY <1>4, <2>1 DEF Frame, Pcs, Same
  <2>3. Goes(f, g) /\ SetTop(t, g)
    BY <1>3, <1>5, <2>1, <2>2 DEF Goes, Same
  <2>4. Going(t, g)
    BY <1>1, <1>3, <2>2, <2>3 DEF Going
  <2>5. PICK e : e = [ctx[c] EXCEPT !.loaded = TRUE]
    OBVIOUS
  <2>6. ctx[c] \in Context /\ ctx \in [Ctxs -> Context]
    BY <1>4 DEF TypeOK
  <2>7. /\ e \in Context /\ e.state = ctx[c].state /\ e.u = ctx[c].u /\ e.ref = ctx[c].ref
    BY <2>5, <2>6 DEF Context
  <2>8. e.loaded /\ e.busy = ctx[c].busy /\ e.initializing = ctx[c].initializing /\ e.panicked = ctx[c].panicked
    BY <2>5, <2>6, LoadSet
  <2>9. ctx' = Upd(ctx, c, e)
    BY <1>5, <2>5 DEF Upd
  <2>10. ctx'[c] = e /\ \A d \in Ctxs : d # c => ctx'[d] = ctx[d]
    BY <1>4, <2>6, <2>9 DEF Upd
  <2>11. CtxOnly(g.c)
    BY <1>4, <2>2, <2>7, <2>10 DEF CtxOnly
  <2>12. /\ ctx'[g.c].loaded
         /\ (ctx'[g.c].busy <=> ctx[g.c].busy) /\ (ctx'[g.c].initializing <=> ctx[g.c].initializing)
         /\ (ctx'[g.c].panicked <=> ctx[g.c].panicked)
    BY <2>2, <2>8, <2>10
  <2>13. Same(Top(t), g) /\ Top(t).pc = "enter" /\ UNCHANGED <<si, waitq, fault>> /\ g.c \in Ctxs /\ g.pc = "in_ta" /\ (ctx[g.c].loaded \/ g.op = "open")
    BY <1>1, <1>3, <1>4, <1>5, <2>2
  <2> QED BY <2>4, <2>11, <2>12, <2>13 DEF Entered
<1>6. CASE SetTop(t, [f EXCEPT !.pc = LeaveTa(f), !.res = "err"]) /\ UNCHANGED ctx
  <2>1. PICK g : g = [f EXCEPT !.pc = LeaveTa(f), !.res = "err"]
    OBVIOUS
  <2>2. g \in Frame /\ g.pc = LeaveTa(f) /\ Same(f, g) /\ g.c = c /\ g.op = f.op /\ g.id = f.id
    BY <1>4, <2>1, LeaveIs DEF Frame, Same
  <2>3. Goes(f, g) /\ SetTop(t, g) /\ g.pc \in {"unlink", "clear"}
    BY <1>3, <1>4, <1>6, <2>1, <2>2, LeaveIs DEF Goes, Same
  <2>4. Going(t, g)
    BY <1>1, <1>3, <2>2, <2>3 DEF Going
  <2>5. Same(Top(t), g) /\ Top(t).pc = "enter" /\ UNCHANGED <<si, waitq, fault>> /\ g.c \in Ctxs /\ g.pc = LeaveTa(Top(t))
    BY <1>1, <1>3, <1>4, <2>2
  <2> QED BY <1>6, <2>3, <2>4, <2>5 DEF Entered
<1> QED BY <1>3, <1>5, <1>6

\* A call leaves the TA.
Left(t, g) ==
    /\ Going(t, g) /\ Same(Top(t), g) /\ Top(t).pc = "in_ta" /\ UNCHANGED <<si, waitq, fault>>
    /\ g.pc \in {"unlink", "clear"} /\ g.pc = LeaveTa(Top(t))

\* TaReturn in terms of frames.
LEMMA TaReturnIs ==
    ASSUME AInv, NEW t \in Threads, TaReturn(t)
    PROVE  \E g : Left(t, g) /\ UNCHANGED ctx
<1>1. PICK f : f = Top(t)
  OBVIOUS
<1>2. PICK r \in {"ok", "err"} :
      /\ fault = "none" /\ stack[t] # <<>> /\ f.pc = "in_ta"
      /\ UNCHANGED <<sess, ctx, ctxes, lists, si, waitq, usable, fault>>
      /\ SetTop(t, [f EXCEPT !.pc = LeaveTa(f), !.res = IF f.op = "open" THEN r ELSE @])
  BY <1>1 DEF TaReturn, At
<1>3. f \in Frame
  BY <1>1, <1>2, AtSays
<1>4. PICK g : g = [f EXCEPT !.pc = LeaveTa(f), !.res = IF f.op = "open" THEN r ELSE @]
  OBVIOUS
<1>5. /\ g \in Frame /\ g.pc = LeaveTa(f) /\ Same(f, g) /\ g.id = f.id
  BY <1>3, <1>4, LeaveIs DEF Frame, Same
<1>6. Goes(f, g) /\ SetTop(t, g) /\ g.pc \in {"unlink", "clear"}
  BY <1>2, <1>3, <1>4, <1>5, LeaveIs DEF Goes, Same
<1>7. Going(t, g)
  BY <1>1, <1>2, <1>5, <1>6 DEF Going
<1>8. Same(Top(t), g) /\ Top(t).pc = "in_ta" /\ UNCHANGED <<si, waitq, fault, ctx>> /\ g.pc = LeaveTa(Top(t))
  BY <1>1, <1>2, <1>5
<1> QED BY <1>6, <1>7, <1>8 DEF Left

\* TaPanic in terms of frames.
LEMMA TaPanicIs ==
    ASSUME AInv, NEW t \in Threads, TaPanic(t)
    PROVE  \E g : /\ Left(t, g) /\ CtxOnly(g.c) /\ ctx[g.c].u \in MayPanic
                  /\ ctx'[g.c].loaded = ctx[g.c].loaded /\ ctx'[g.c].busy = ctx[g.c].busy
                  /\ ctx'[g.c].initializing = ctx[g.c].initializing
<1>1. PICK f : f = Top(t)
  OBVIOUS
<1>2. PICK c : c = f.c
  OBVIOUS
<1>3. /\ fault = "none" /\ stack[t] # <<>> /\ f.pc = "in_ta" /\ ctx[c].u \in MayPanic
      /\ UNCHANGED <<sess, ctxes, lists, si, waitq, usable, fault>>
      /\ ctx' = [ctx EXCEPT ![c].panicked = TRUE] /\ SetTop(t, [f EXCEPT !.pc = LeaveTa(f), !.res = "err"])
  BY <1>1, <1>2 DEF TaPanic, At
<1>4. f \in Frame /\ TypeOK /\ c \in Ctxs
  <2>1. f \in Frame /\ TypeOK /\ Shape(f)
    BY <1>1, <1>3, AtSays
  <2> QED BY <1>2, <1>3, <2>1, ShapeSays DEF HoldsBusy, Uses
<1>5. PICK g : g = [f EXCEPT !.pc = LeaveTa(f), !.res = "err"]
  OBVIOUS
<1>6. /\ g \in Frame /\ g.pc = LeaveTa(f) /\ Same(f, g) /\ g.id = f.id /\ g.c = c
  BY <1>2, <1>4, <1>5, LeaveIs DEF Frame, Same
<1>7. Goes(f, g) /\ SetTop(t, g) /\ g.pc \in {"unlink", "clear"}
  BY <1>3, <1>4, <1>5, <1>6, LeaveIs DEF Goes, Same
<1>8. Going(t, g)
  BY <1>1, <1>3, <1>6, <1>7 DEF Going
<1>9. PICK e : e = [ctx[c] EXCEPT !.panicked = TRUE]
  OBVIOUS
<1>10. ctx[c] \in Context /\ ctx \in [Ctxs -> Context]
  BY <1>4 DEF TypeOK
<1>11. e.state = ctx[c].state /\ e.u = ctx[c].u /\ e.ref = ctx[c].ref
  BY <1>9, <1>10 DEF Context
<1>12. e.loaded = ctx[c].loaded /\ e.busy = ctx[c].busy /\ e.initializing = ctx[c].initializing
  BY <1>9, <1>10 DEF Context
<1>13. ctx' = Upd(ctx, c, e)
  BY <1>3, <1>9 DEF Upd
<1>14. ctx'[c] = e /\ \A d \in Ctxs : d # c => ctx'[d] = ctx[d]
  BY <1>4, <1>10, <1>13 DEF Upd
<1>15. CtxOnly(g.c)
  BY <1>4, <1>6, <1>11, <1>14 DEF CtxOnly
<1>16. Left(t, g)
  BY <1>1, <1>3, <1>6, <1>7, <1>8 DEF Left
<1>17. ctx[g.c].u \in MayPanic /\ ctx'[g.c].loaded = ctx[g.c].loaded /\ ctx'[g.c].busy = ctx[g.c].busy
       /\ ctx'[g.c].initializing = ctx[g.c].initializing
  BY <1>3, <1>6, <1>12, <1>14
<1> QED BY <1>15, <1>16, <1>17

\* Find in terms of frames: entry_close_session goes on.
LEMMA FindIsGet ==
    ASSUME AInv, NEW t \in Threads, Find(t)
    PROVE  /\ fault = "none" /\ stack[t] # <<>> /\ Top(t).pc = "find"
           /\ UNCHANGED <<sess, ctx, ctxes, lists, si, waitq, usable, fault>>
           /\ \/ Return(t) /\ FindIn(lists[Top(t).own], Top(t).id) = NoSess
              \/ \E g : Going(t, g) /\ g.pc = "get"
<1>1. /\ fault = "none" /\ stack[t] # <<>> /\ Top(t).pc = "find"
      /\ UNCHANGED <<sess, ctx, ctxes, lists, si, waitq, usable, fault>>
      /\ \/ Return(t) /\ FindIn(lists[Top(t).own], Top(t).id) = NoSess
         \/ SetTop(t, [Top(t) EXCEPT !.pc = "get"])
  BY DEF Find, At, Goto
<1>2. CASE SetTop(t, [Top(t) EXCEPT !.pc = "get"])
  <2>1. Top(t) \in Frame
    BY <1>1, AtSays
  <2>2. PICK g : g = [Top(t) EXCEPT !.pc = "get"]
    OBVIOUS
  <2>3. /\ g \in Frame /\ g.pc = "get" /\ Same(Top(t), g) /\ g.id = Top(t).id
    BY <2>1, <2>2 DEF Frame, Pcs, Same
  <2>4. Goes(Top(t), g) /\ SetTop(t, g)
    BY <1>1, <1>2, <2>2, <2>3 DEF Goes, Same
  <2>5. Going(t, g)
    BY <1>1, <2>3, <2>4 DEF Going
  <2> QED BY <1>1, <2>3, <2>5
<1> QED BY <1>1, <1>2

\* Destroy in terms of frames.
LEMMA DestroyIs ==
    ASSUME AInv, NEW t \in Threads, Destroy(t)
    PROVE  \E g : Going(t, g) /\ g.pc = "drain" /\ Same(Top(t), g) /\ Top(t).pc = "destroy" /\ UNCHANGED <<ctx, si, waitq>>
<1>1. /\ fault = "none" /\ stack[t] # <<>> /\ Top(t).pc = "destroy"
      /\ UNCHANGED <<sess, ctx, ctxes, lists, si, waitq, usable>> /\ SetTop(t, [Top(t) EXCEPT !.pc = "drain"])
  BY DEF Destroy, At, Goto
<1>2. Top(t) \in Frame
  BY <1>1, AtSays
<1>3. PICK g : g = [Top(t) EXCEPT !.pc = "drain"]
  OBVIOUS
<1>4. /\ g \in Frame /\ g.pc = "drain" /\ Same(Top(t), g) /\ g.id = Top(t).id
  BY <1>2, <1>3 DEF Frame, Pcs, Same
<1>5. Goes(Top(t), g) /\ SetTop(t, g)
  BY <1>1, <1>3, <1>4 DEF Goes, Same
<1>6. Going(t, g)
  BY <1>1, <1>4, <1>5 DEF Going
<1> QED BY <1>1, <1>4, <1>6

\* InvPost in terms of frames.
LEMMA InvPostIs ==
    ASSUME AInv, NEW t \in Threads, InvPost(t)
    PROVE  \E g : /\ Going(t, g) /\ Same(Top(t), g) /\ Top(t).pc = "inv_post" /\ UNCHANGED <<ctx, si, waitq, fault>>
                  /\ \/ g.pc = "inv_destroy" /\ ctx[g.c].panicked
                     \/ g.pc = "put" /\ ~ctx[g.c].panicked
<1>1. PICK c : c = Deref(Top(t))
  OBVIOUS
<1>2. PICK a : a = IF ctx[c].panicked THEN "inv_destroy" ELSE "put"
  OBVIOUS
<1>3. /\ fault = "none" /\ stack[t] # <<>> /\ Top(t).pc = "inv_post" /\ Valid(t)
      /\ UNCHANGED <<sess, ctx, ctxes, lists, si, waitq, usable, fault>> /\ SetTop(t, [Top(t) EXCEPT !.pc = a])
  BY <1>1, <1>2 DEF InvPost, At, Goto
<1>4. Top(t) \in Frame /\ Top(t).c = c
  BY <1>1, <1>3, AtSays, DerefIs DEF DerefPcs
<1>5. PICK g : g = [Top(t) EXCEPT !.pc = a]
  OBVIOUS
<1>6. /\ g \in Frame /\ g.pc = a /\ Same(Top(t), g) /\ g.id = Top(t).id /\ g.c = c
  BY <1>2, <1>4, <1>5 DEF Frame, Pcs, Same
<1>7. Goes(Top(t), g) /\ SetTop(t, g)
  BY <1>2, <1>3, <1>5, <1>6 DEF Goes, Same
<1>8. Going(t, g)
  BY <1>3, <1>6, <1>7 DEF Going
<1> QED BY <1>2, <1>3, <1>6, <1>8

\* Reference counts and locks are not looked at by Core.
LEMMA SessLikes ==
    ASSUME TypeOK, NEW s \in Sessions, NEW k, NEW l
    PROVE  /\ sess' = SessRef(s, k) => SessLike
           /\ sess' = [sess EXCEPT ![s].lock = l] => SessLike
           /\ sess' = [sess EXCEPT ![s].ref = k, ![s].lock = l] => SessLike
           /\ sess' = [sess EXCEPT ![s].unlink = TRUE] => SessLike
<1>1. sess \in [Sessions -> Session]
  BY DEF TypeOK
<1>2. sess' = SessRef(s, k) => SessLike
  BY <1>1 DEF SessRef, SessLike, Session
<1>3. sess' = [sess EXCEPT ![s].lock = l] => SessLike
  BY <1>1 DEF SessLike, Session
<1>4. sess' = [sess EXCEPT ![s].ref = k, ![s].lock = l] => SessLike
  BY <1>1 DEF SessLike, Session
<1>5. sess' = [sess EXCEPT ![s].unlink = TRUE] => SessLike
  BY <1>1 DEF SessLike, Session
<1> QED BY <1>2, <1>3, <1>4, <1>5

\* Contexts that do not change.
LEMMA CalmSame ==
    ASSUME UNCHANGED ctx
    PROVE  CtxCalm
BY DEF CtxCalm

\* A change of flags other than panicked.
LEMMA CalmOnly ==
    ASSUME NEW c, CtxOnly(c), ctx'[c].panicked <=> ctx[c].panicked, ctx[c].loaded => ctx'[c].loaded
    PROVE  CtxCalm
BY DEF CtxCalm, CtxOnly

\* Nothing but the wait queue changes.
LEMMA CoreStill ==
    ASSUME Core, UNCHANGED <<sess, ctx, ctxes, lists, stack, usable>>
    PROVE  Core'
<1>1. UNCHANGED fr
  BY DEF fr
<1>2. ActInv'
  BY <1>1 DEF Core, ActInv, StakeInv, Stake, ApartInv, CloseInv, OpenInv, UsableInv
<1>3. OnceInv' /\ PanicInv' /\ WholeInv'
  BY <1>1 DEF Core, OnceInv, PanicInv, WholeInv
<1> QED BY <1>2, <1>3 DEF Core

\* tee_ta_try_set_busy keeps Core.
LEMMA BusyCore ==
    ASSUME AInv, AInv', fault' = "none", Core, NEW t \in Threads,
           BusyConcurrent(t) \/ BusyWait(t) \/ SiWait(t) \/ BusyGranted(t) \/ BusyRefused(t)
    PROVE  Core'
<1>1. CASE BusyConcurrent(t)
  <2>1. PICK g : Going(t, g) /\ g.pc = "enter" /\ UNCHANGED ctx
    BY <1>1, BusyConcurrentIs
  <2> QED BY <2>1, CalmSame, GoingCore
<1>2. CASE BusyWait(t) \/ SiWait(t)
  <2>1. Exclusive(t) /\ \E pc \in BusyPcs : \E cv : WaitOn(t, pc, cv)
    BY <1>2 DEF BusyWait, SiWait, BusyPcs
  <2>2. PICK pc \in BusyPcs : \E cv : WaitOn(t, pc, cv)
    BY <2>1
  <2>3. PICK cv : WaitOn(t, pc, cv)
    BY <2>2
  <2>4. fault = "none" /\ stack[t] # <<>> /\ Top(t).pc \in BusyPcs
    BY <2>1, ExclusiveSays
  <2>5. PICK g : Going(t, g) /\ g.pc = pc /\ UNCHANGED ctx
    BY <2>3, <2>4, WaitOnIs
  <2>6. g.pc # "inv_destroy"
    BY <2>5 DEF BusyPcs
  <2> QED BY <2>5, <2>6, CalmSame, GoingCore
<1>3. CASE BusyGranted(t)
  <2>1. PICK g : Granted(t, g)
    BY <1>3, BusyGrantedIs
  <2>2. Going(t, g) /\ g.pc = "enter" /\ CtxCalm
    BY <2>1, CalmOnly DEF Granted
  <2> QED BY <2>2, GoingCore
<1>4. CASE BusyRefused(t)
  <2>1. PICK g : Refused(t, g)
    BY <1>4, BusyRefusedIs
  <2>2. Going(t, g) /\ g.pc = "open_put" /\ CtxCalm
    BY <2>1, CalmSame DEF Refused
  <2> QED BY <2>2, GoingCore
<1> QED BY <1>1, <1>2, <1>3, <1>4

\* tee_ta_clear_busy keeps Core.
LEMMA ClearCore ==
    ASSUME AInv, AInv', fault' = "none", Core, NEW t \in Threads, ClearConcurrent(t) \/ ClearBusy(t)
    PROVE  Core'
<1>1. CASE ClearConcurrent(t)
  <2>1. PICK g : Going(t, g) /\ g.pc \in {"open_put", "inv_post", "release"} /\ UNCHANGED ctx
    BY <1>1, ClearConcurrentIs
  <2> QED BY <2>1, CalmSame, GoingCore
<1>2. CASE ClearBusy(t)
  <2>1. PICK g : Cleared(t, g)
    BY <1>2, ClearBusyIs
  <2>2. Going(t, g) /\ g.pc \in {"open_put", "inv_post", "release"} /\ CtxCalm
    BY <2>1, CalmOnly DEF Cleared
  <2> QED BY <2>2, GoingCore
<1> QED BY <1>1, <1>2

\* Entering a TA and returning from it keeps Core.
LEMMA TaCore ==
    ASSUME AInv, AInv', fault' = "none", Core, NEW t \in Threads, EnterTa(t) \/ TaReturn(t)
    PROVE  Core'
<1>1. CASE EnterTa(t)
  <2>1. PICK g : Entered(t, g)
    BY <1>1, EnterTaIs
  <2>2. Going(t, g) /\ g.pc \in {"in_ta", "unlink", "clear"}
    BY <2>1 DEF Entered
  <2>3. CtxCalm
    BY <2>1, CalmOnly, CalmSame DEF Entered
  <2> QED BY <2>2, <2>3, GoingCore
<1>2. CASE TaReturn(t)
  <2>1. PICK g : Left(t, g) /\ UNCHANGED ctx
    BY <1>2, TaReturnIs
  <2>2. Going(t, g) /\ g.pc \in {"unlink", "clear"}
    BY <2>1 DEF Left
  <2> QED BY <2>1, <2>2, CalmSame, GoingCore
<1> QED BY <1>1, <1>2

\* What follows an invocation, and destroy_context up to ops->destroy.
LEMMA PostCore ==
    ASSUME AInv, AInv', fault' = "none", Core, NEW t \in Threads, InvPost(t) \/ Destroy(t)
    PROVE  Core'
<1>1. CASE InvPost(t)
  <2>1. PICK g : Going(t, g) /\ UNCHANGED ctx /\ (g.pc = "inv_destroy" => ctx[g.c].panicked)
    BY <1>1, InvPostIs
  <2> QED BY <2>1, CalmSame, GoingCore
<1>2. CASE Destroy(t)
  <2>1. PICK g : Going(t, g) /\ g.pc = "drain" /\ UNCHANGED ctx
    BY <1>2, DestroyIs
  <2> QED BY <2>1, CalmSame, GoingCore
<1> QED BY <1>1, <1>2

\* Calls that return without having done anything.
LEMMA NothingCore ==
    ASSUME AInv, AInv', fault' = "none", Core, NEW t \in Threads, OpenFails(t) \/ Find(t) \/ GetNothing(t)
    PROVE  Core'
<1>1. /\ fault = "none" /\ stack[t] # <<>> /\ Top(t).pc \in {"open_init", "find", "get"}
      /\ UNCHANGED <<sess, ctx, ctxes, lists, usable>>
      /\ Return(t) \/ \E g : Going(t, g) /\ g.pc = "get"
  BY FindIsGet DEF OpenFails, GetNothing, At
<1>2. CASE Return(t)
  <2>1. ~Ending(Top(t)) /\ SessLike
    BY <1>1 DEF Ending, EndPcs, SessLike
  <2> QED BY <1>1, <1>2, <2>1, CalmSame, QuietPop
<1>3. CASE \E g : Going(t, g) /\ g.pc = "get"
  <2>1. PICK g : Going(t, g) /\ g.pc = "get"
    BY <1>3
  <2> QED BY <1>1, <2>1, CalmSame, GoingCore
<1> QED BY <1>1, <1>2, <1>3

\* tee_ta_put_session keeps Core.
LEMMA PutCore ==
    ASSUME AInv, AInv', fault' = "none", Core, NEW t \in Threads, Put(t)
    PROVE  Core'
<1>1. PICK s : s = Top(t).s
  OBVIOUS
<1>2. PICK l : l = IF sess[s].lock = t THEN NoThread ELSE sess[s].lock
  OBVIOUS
<1>3. PICK n : n = sess[s].ref - 1
  OBVIOUS
<1>4. /\ fault = "none" /\ stack[t] # <<>> /\ Top(t).pc = "put" /\ Return(t)
      /\ UNCHANGED <<ctx, ctxes, lists, usable>>
      /\ sess' = [sess EXCEPT ![s].ref = n, ![s].lock = l]
  <2>1. sess' = [sess EXCEPT ![s].ref = @ - 1, ![s].lock = IF sess[s].lock = t THEN NoThread ELSE @]
    BY <1>1 DEF Put
  <2>2. sess' = [sess EXCEPT ![s].ref = n, ![s].lock = l]
    BY <1>2, <1>3, <2>1
  <2> QED BY <2>2 DEF Put, At
<1>5. TypeOK /\ Top(t) \in Frame /\ Shape(Top(t))
  BY <1>4, AtSays
<1>6. s \in Sessions
  BY <1>1, <1>4, <1>5 DEF Shape, OpenShape, InvokeShape, CloseShape, LivePcs, BusyPcs, EndPcs, Frame
<1>7. SessLike /\ ~Ending(Top(t))
  BY <1>4, <1>5, <1>6, SessLikes DEF Ending, EndPcs
<1> QED BY <1>4, <1>7, CalmSame, QuietPop

\* tee_ta_get_session keeps Core.
LEMMA GetCore ==
    ASSUME AInv, AInv', fault' = "none", Core, NEW t \in Threads, Get(t)
    PROVE  Core'
<1>1. PICK f : f = Top(t)
  OBVIOUS
<1>2. PICK s : s = FindIn(lists[f.own], f.id)
  OBVIOUS
<1>3. PICK l : l = IF f.op # "cancel" THEN t ELSE sess[s].lock
  OBVIOUS
<1>4. PICK n : n = sess[s].ref + 1
  OBVIOUS
<1>5. /\ fault = "none" /\ stack[t] # <<>> /\ f.pc = "get" /\ s # NoSess
      /\ UNCHANGED <<ctx, ctxes, lists, usable>>
      /\ sess' = SessRef(s, 1) \/ sess' = [sess EXCEPT ![s].ref = n, ![s].lock = l]
      /\ \/ f.op # "cancel" /\ SetTop(t, [f EXCEPT !.s = s, !.pc = "wait_lock"])
         \/ SetTop(t, [f EXCEPT !.s = s, !.pc = AfterGet(f.op)])
  <2>1. /\ fault = "none" /\ stack[t] # <<>> /\ f.pc = "get" /\ s # NoSess
        /\ UNCHANGED <<ctx, ctxes, lists, usable>>
        /\ \/ f.op # "cancel" /\ sess' = SessRef(s, 1) /\ SetTop(t, [f EXCEPT !.s = s, !.pc = "wait_lock"])
           \/ /\ sess' = [sess EXCEPT ![s].ref = @ + 1, ![s].lock = IF f.op # "cancel" THEN t ELSE @]
              /\ SetTop(t, [f EXCEPT !.s = s, !.pc = AfterGet(f.op)])
    BY <1>1, <1>2 DEF Get, At
  <2>2. sess' = [sess EXCEPT ![s].ref = @ + 1, ![s].lock = IF f.op # "cancel" THEN t ELSE @] =>
            sess' = [sess EXCEPT ![s].ref = n, ![s].lock = l]
    BY <1>3, <1>4
  <2> QED BY <2>1, <2>2
<1>6. f \in Frame /\ Shape(f) /\ TypeOK /\ f.own \in Owners
  BY <1>1, <1>5, AtSays, ShapeSays
<1>7. f.op \in {"invoke", "close", "cancel"} /\ ~Ending(f)
  BY <1>5, <1>6 DEF Shape, OpenShape, LivePcs, BusyPcs, Frame, Ending, EndPcs
<1>8. s \in Sessions /\ On(s, lists[f.own]) /\ sess[s].id = f.id
  <2>1. s # NoSess
    BY <1>5
  <2>2. PICK o \in Owners : o = f.own
    BY <1>6
  <2>3. TypeOK /\ s = FindIn(lists[o], f.id)
    BY <1>2, <1>6, <2>2
  <2> QED BY <2>1, <2>2, <2>3, FindIs
<1>9. SessLike /\ CtxCalm
  <2>1. UNCHANGED ctx
    BY <1>5
  <2>0. TypeOK /\ s \in Sessions
    BY <1>6, <1>8
  <2>2. CASE sess' = SessRef(s, 1)
    BY <2>0, <2>1, <2>2, SessLikes, CalmSame
  <2>3. CASE sess' = [sess EXCEPT ![s].ref = n, ![s].lock = l]
    BY <2>0, <2>1, <2>3, SessLikes, CalmSame
  <2> QED BY <1>5, <2>2, <2>3
<1>10. PICK a \in Pcs : /\ SetTop(t, [f EXCEPT !.s = s, !.pc = a])
                        /\ a \in {"wait_lock", "inv_chk", "close_chk", "put"}
                        /\ (f.op = "cancel" => a = "put") /\ (f.op = "close" => a \in {"wait_lock", "close_chk"})
                        /\ (f.op = "invoke" => a \in {"wait_lock", "inv_chk"})
  <2>1. /\ AfterGet(f.op) \in Pcs /\ (f.op = "invoke" => AfterGet(f.op) = "inv_chk") /\ (f.op = "close" => AfterGet(f.op) = "close_chk")
        /\ (f.op = "cancel" => AfterGet(f.op) = "put")
    BY <1>6, <1>7, AfterGetIs
  <2>2. "wait_lock" \in Pcs
    BY DEF Pcs
  <2> QED BY <1>5, <1>7, <2>1, <2>2
<1>11. PICK g : g = [f EXCEPT !.s = s, !.pc = a]
  OBVIOUS
<1>12. /\ g \in Frame /\ g.op = f.op /\ g.pc = a /\ g.own = f.own /\ g.s = s /\ g.via = f.via /\ g.id = f.id
  BY <1>6, <1>8, <1>11 DEF Frame
<1>13. f.via = "null"
  BY <1>5, <1>6, <1>7 DEF Shape, InvokeShape, CloseShape
<1>14. ActQuiet(f, g)
  <2>1. Act(f)
    BY <1>5, <1>7 DEF Act
  <2>2. Names(lists, sess, g, g.s)
    BY <1>8, <1>12 DEF Names
  <2>3. ~HalfOpen(g)
    BY <1>7, <1>12 DEF HalfOpen
  <2> QED BY <1>12, <2>1, <2>2, <2>3 DEF ActQuiet
<1>15. CtxQuiet(f, g)
  <2>1. g.via = "null" /\ g.op \in {"invoke", "close", "cancel"}
    BY <1>7, <1>12, <1>13
  <2>2. g.pc \in {"wait_lock", "inv_chk", "close_chk", "put"} /\ (g.op = "invoke" => g.pc \in {"wait_lock", "inv_chk"})
    BY <1>10, <1>12
  <2>3. ~Ending(g) /\ g.pc \notin LivePcs /\ g.pc # "inv_destroy"
    BY <2>2 DEF Ending, EndPcs, LivePcs, BusyPcs
  <2>4. ~Past(g) /\ ~Claims(g)
    BY <2>1, <2>2 DEF Past, Claims
  <2> QED BY <1>7, <2>3, <2>4 DEF CtxQuiet, Uses
<1> QED BY <1>1, <1>5, <1>9, <1>10, <1>11, <1>12, <1>14, <1>15, QuietSet

\* A thread that wakes up in tee_ta_get_session keeps Core.
LEMMA GetWokenCore ==
    ASSUME AInv, AInv', fault' = "none", Core, NEW t \in Threads, GetWoken(t)
    PROVE  Core'
<1>1. PICK f : f = Top(t)
  OBVIOUS
<1>2. PICK s : s = f.s
  OBVIOUS
<1>3. PICK a : a = AfterGet(f.op)
  OBVIOUS
<1>4. /\ fault = "none" /\ stack[t] # <<>> /\ f.pc = "wait_lock"
      /\ UNCHANGED <<ctx, ctxes, lists, usable>>
      /\ \/ sess' = SessRef(s, -1) /\ Return(t)
         \/ UNCHANGED <<sess, stack>>
         \/ sess' = [sess EXCEPT ![s].lock = t] /\ SetTop(t, [f EXCEPT !.pc = a])
  BY <1>1, <1>2, <1>3 DEF GetWoken, At, Goto
<1>5. f \in Frame /\ Shape(f) /\ TypeOK
  BY <1>1, <1>4, AtSays
<1>6. /\ f.op \in {"invoke", "close"} /\ f.via = "null" /\ Ref(f) /\ ~Ending(f) /\ s \in Sessions
  BY <1>2, <1>4, <1>5 DEF Shape, OpenShape, InvokeShape, CloseShape, LivePcs, BusyPcs, EndPcs, Frame, Ref, Ending
<1>7. CASE sess' = SessRef(s, -1) /\ Return(t)
  <2>1. SessLike
    BY <1>5, <1>6, <1>7, SessLikes
  <2> QED BY <1>1, <1>4, <1>6, <1>7, <2>1, CalmSame, QuietPop
<1>8. CASE UNCHANGED <<sess, stack>>
  BY <1>4, <1>8, CoreStill
<1>9. CASE sess' = [sess EXCEPT ![s].lock = t] /\ SetTop(t, [f EXCEPT !.pc = a])
  <2>1. SessLike
    BY <1>5, <1>6, <1>9, SessLikes
  <2>2. /\ a \in Pcs /\ (f.op = "invoke" => a = "inv_chk") /\ (f.op = "close" => a = "close_chk")
    BY <1>3, <1>5, <1>6, AfterGetIs
  <2>3. PICK g : g = [f EXCEPT !.pc = a]
    OBVIOUS
  <2>4. /\ g \in Frame /\ g.op = f.op /\ g.pc = a /\ g.own = f.own /\ g.s = f.s /\ g.via = f.via /\ g.id = f.id
    BY <1>5, <2>2, <2>3, GotoIs
  <2>5. ActQuiet(f, g)
    BY <1>4, <1>6, <2>2, <2>4 DEF ActQuiet, Act, HalfOpen
  <2>6. CtxQuiet(f, g)
    BY <1>4, <1>6, <2>2, <2>4 DEF CtxQuiet, Uses, Past, Claims, Ending, EndPcs, LivePcs, BusyPcs
  <2> QED BY <1>1, <1>4, <1>9, <2>1, <2>3, <2>4, <2>5, <2>6, CalmSame, QuietSet
<1> QED BY <1>4, <1>7, <1>8, <1>9

\* A session that is being opened has no other calls on it.
LEMMA HalfApart ==
    ASSUME AInv, fault = "none", Core, NEW x \in Pl, NEW y \in Pl, NEW s \in Sessions, Stake(fr[x], s), Act(fr[x]), HalfOpen(fr[y])
    PROVE  fr[y].s # s
<1> SUFFICES ASSUME fr[y].s = s
             PROVE  FALSE
  OBVIOUS
<1>1. TypeOK /\ Good
  BY DEF AInv
<1>2. Shape(fr[y]) /\ Shape(fr[x])
  BY <1>1 DEF Good, ShapeInv
<1>3. Ref(fr[y]) /\ fr[y].own \in Owners /\ fr[x].own \in Owners
  BY <1>2, ActSays, ShapeSays
<1>4. On(s, lists[fr[y].own])
  BY <1>1, <1>3 DEF Good, HomeInv
<1>5. On(s, lists[fr[x].own]) /\ sess[s].id = fr[x].id
  BY DEF Stake, Names
<1>6. fr[x].own = fr[y].own
  BY <1>1, <1>3, <1>4, <1>5 DEF Good, HomeInv
<1> QED BY <1>5, <1>6 DEF Core, ActInv, ApartInv

\* Who has the lock of a session, or opens it, finds its context on tee_ctxes.
LEMMA LivesOn ==
    ASSUME AInv, fault = "none", Core, NEW x \in Pl, Ref(fr[x]), ~Ending(fr[x]), HalfOpen(fr[x]) \/ Grip(fr[x]),
           sess[fr[x].s].ctx # NoCtx
    PROVE  On(sess[fr[x].s].ctx, ctxes)
<1>1. TypeOK /\ Good
  BY DEF AInv
<1>2. fr[x].s \in Sessions /\ sess[fr[x].s].state = "live"
  BY <1>1, FrameSays DEF Good
<1> SUFFICES ASSUME NEW y \in Pl, fr[y].op = "invoke", Ending(fr[y]), fr[y].s = fr[x].s
             PROVE  FALSE
  BY <1>2 DEF Core, WholeInv
<1>3. Act(fr[y]) /\ Ref(fr[y]) /\ Grip(fr[y])
  BY DEF Act, Ref, Grip, Ending, EndPcs
<1>4. CASE Grip(fr[x])
  BY <1>1, <1>3, <1>4 DEF Good, GripInv
<1>5. CASE HalfOpen(fr[x])
  <2>1. PICK s \in Sessions : Stake(fr[y], s)
    BY <1>3 DEF Core, ActInv, StakeInv
  <2>2. s = fr[x].s
    BY <1>3, <2>1 DEF Stake
  <2> QED BY <1>3, <1>5, <2>1, <2>2, HalfApart
<1> QED BY <1>4, <1>5

\* tee_ta_invoke_command up to tee_ta_set_busy keeps Core.
LEMMA InvChkCore ==
    ASSUME AInv, AInv', fault' = "none", Core, NEW t \in Threads, InvChk(t)
    PROVE  Core'
<1>1. PICK f : f = Top(t)
  OBVIOUS
<1>2. PICK c : c = sess[f.s].ctx
  OBVIOUS
<1>3. PICK a : a = CASE c = NoCtx -> "put" [] c # NoCtx /\ ctx[c].panicked -> "inv_destroy" [] OTHER -> "busy"
  OBVIOUS
<1>4. /\ fault = "none" /\ stack[t] # <<>> /\ f.pc = "inv_chk"
      /\ UNCHANGED <<sess, ctx, ctxes, lists, si, waitq, usable, fault>>
      /\ SetTop(t, [f EXCEPT !.c = c, !.pc = a])
  BY <1>1, <1>2, <1>3 DEF InvChk, At
<1>5. f \in Frame /\ Shape(f) /\ TypeOK /\ TopP(t) \in Pl /\ fr[TopP(t)] = f
  BY <1>1, <1>4, AtSays
<1>6. f.op = "invoke" /\ f.s \in Sessions /\ f.via = "null"
  BY <1>4, <1>5 DEF Shape, OpenShape, InvokeShape, CloseShape, LivePcs, BusyPcs, EndPcs, Frame
<1>7. /\ c \in Ctxs \cup {NoCtx} /\ a \in {"put", "inv_destroy", "busy"} /\ (a # "put" => c # NoCtx)
      /\ (a = "inv_destroy" => ctx[c].panicked) /\ (a = "busy" => ~ctx[c].panicked)
  <2>1. c \in Ctxs \cup {NoCtx}
    BY <1>2, <1>5, <1>6 DEF TypeOK, Session
  <2> QED BY <1>3, <2>1
<1>8. PICK g : g = [f EXCEPT !.c = c, !.pc = a]
  OBVIOUS
<1>9. /\ g \in Frame /\ g.pc = a /\ g.op = "invoke" /\ g.own = f.own /\ g.s = f.s /\ g.c = c /\ g.via = "null" /\ g.id = f.id
  <2>1. f \in Frame /\ f.op = "invoke" /\ f.via = "null" /\ c \in Ctxs \cup {NoCtx} /\ a \in Pcs
    BY <1>5, <1>6, <1>7 DEF Pcs
  <2> QED BY <1>8, <2>1 DEF Frame
<1>10. Ref(f) /\ Grip(f) /\ ~Ending(f) /\ ~Ending(g) /\ Act(f) /\ ~HalfOpen(g)
  BY <1>4, <1>6, <1>7, <1>9 DEF Ref, Grip, Ending, EndPcs, Act, HalfOpen
<1>11. c # NoCtx => On(c, ctxes)
  <2>1. fault = "none"
    BY <1>4
  <2>2. Ref(fr[TopP(t)]) /\ Grip(fr[TopP(t)]) /\ ~Ending(fr[TopP(t)]) /\ c = sess[fr[TopP(t)].s].ctx /\ TopP(t) \in Pl
    BY <1>2, <1>5, <1>10
  <2> QED BY <2>1, <2>2, LivesOn
<1>12. ActQuiet(f, g)
  BY <1>6, <1>9, <1>10 DEF ActQuiet
<1>13. CtxQuiet(f, g)
  <2>1. Uses(g) => On(g.c, ctxes)
    BY <1>7, <1>9, <1>10, <1>11 DEF Uses, Past, Claims
  <2>2. g.pc \in LivePcs => ~ctx[g.c].panicked
    BY <1>7, <1>9 DEF LivePcs, BusyPcs
  <2> QED BY <1>7, <1>9, <1>10, <2>1, <2>2 DEF CtxQuiet
<1>14. SessLike /\ CtxCalm
  BY <1>4, CalmSame DEF SessLike
<1> QED BY <1>1, <1>4, <1>8, <1>9, <1>12, <1>13, <1>14, QuietSet

\* tee_ta_close_session up to tee_ta_set_busy keeps Core.
LEMMA CloseChkCore ==
    ASSUME AInv, AInv', fault' = "none", Core, NEW t \in Threads, CloseChk(t)
    PROVE  Core'
<1>1. PICK f : f = Top(t)
  OBVIOUS
<1>2. PICK c : c = sess[f.s].ctx
  OBVIOUS
<1>3. PICK v : v = CASE c = NoCtx -> "null" [] c # NoCtx /\ ctx[c].panicked -> "dead" [] OTHER -> "live"
  OBVIOUS
<1>4. PICK a : a = IF v = "live" THEN "busy" ELSE "unlink"
  OBVIOUS
<1>5. /\ fault = "none" /\ stack[t] # <<>> /\ f.pc = "close_chk"
      /\ UNCHANGED <<sess, ctx, ctxes, lists, si, waitq, usable, fault>>
      /\ SetTop(t, [f EXCEPT !.c = c, !.via = v, !.pc = a])
  BY <1>1, <1>2, <1>3, <1>4 DEF CloseChk, At
<1>6. f \in Frame /\ Shape(f) /\ TypeOK /\ TopP(t) \in Pl /\ fr[TopP(t)] = f
  BY <1>1, <1>5, AtSays
<1>7. f.op = "close" /\ f.s \in Sessions /\ f.via = "null"
  BY <1>5, <1>6 DEF Shape, OpenShape, InvokeShape, CloseShape, LivePcs, BusyPcs, EndPcs, Frame
<1>8. /\ c \in Ctxs \cup {NoCtx} /\ v \in {"null", "dead", "live"} /\ (v # "null" => c # NoCtx)
      /\ (v = "live" => ~ctx[c].panicked)
      /\ a \in {"busy", "unlink"} /\ (a = "busy" => v = "live")
  <2>1. c \in Ctxs \cup {NoCtx}
    BY <1>2, <1>6, <1>7 DEF TypeOK, Session
  <2>2. v \in {"null", "dead", "live"} /\ (v # "null" => c # NoCtx) /\ (v = "live" => ~ctx[c].panicked)
    BY <1>3
  <2> QED BY <1>4, <2>1, <2>2
<1>9. PICK g : g = [f EXCEPT !.c = c, !.via = v, !.pc = a]
  OBVIOUS
<1>10. /\ g \in Frame /\ g.pc = a /\ g.op = "close" /\ g.own = f.own /\ g.s = f.s /\ g.c = c /\ g.via = v /\ g.id = f.id
  <2>1. f \in Frame /\ f.op = "close" /\ v \in {"null", "dead", "live"} /\ c \in Ctxs \cup {NoCtx} /\ a \in Pcs
    BY <1>6, <1>7, <1>8 DEF Pcs
  <2> QED BY <1>9, <2>1 DEF Frame
<1>11. Ref(f) /\ Grip(f) /\ ~Ending(f) /\ ~Ending(g) /\ Act(f) /\ ~HalfOpen(g)
  BY <1>5, <1>7, <1>8, <1>10 DEF Ref, Grip, Ending, EndPcs, Act, HalfOpen
<1>12. c # NoCtx => On(c, ctxes)
  <2>1. fault = "none"
    BY <1>5
  <2>2. Ref(fr[TopP(t)]) /\ Grip(fr[TopP(t)]) /\ ~Ending(fr[TopP(t)]) /\ c = sess[fr[TopP(t)].s].ctx /\ TopP(t) \in Pl
    BY <1>2, <1>6, <1>11
  <2> QED BY <2>1, <2>2, LivesOn
<1>13. ActQuiet(f, g)
  BY <1>7, <1>10, <1>11 DEF ActQuiet
<1>14. CtxQuiet(f, g)
  <2>1. Uses(g) => On(g.c, ctxes)
    BY <1>8, <1>10, <1>11, <1>12 DEF Uses, Past, Claims
  <2>2. g.pc \in LivePcs => ~ctx[g.c].panicked
    BY <1>8, <1>10 DEF LivePcs, BusyPcs
  <2> QED BY <1>8, <1>10, <1>11, <2>1, <2>2 DEF CtxQuiet
<1>15. SessLike /\ CtxCalm
  BY <1>5, CalmSame DEF SessLike
<1> QED BY <1>1, <1>5, <1>9, <1>10, <1>13, <1>14, <1>15, QuietSet

\* A failed open goes on as the close of its session.
LEMMA InsteadCore ==
    ASSUME AInv, AInv', fault = "none", fault' = "none", Core, NEW t \in Threads, stack[t] # <<>>, NEW g \in Frame, SetTop(t, g),
           HalfOpen(Top(t)), g.op = "close", g.pc = "get", g.via = "null", g.own = Top(t).own, g.s = Top(t).s,
           g.id = sess[Top(t).s].id, UNCHANGED <<lists, ctxes, usable>>, SessLike, CtxCalm
    PROVE  Core'
<1>1. PICK p : p = TopP(t)
  OBVIOUS
<1>2. fr[p] = Top(t) /\ stack \in [Threads -> Seq(Frame)] /\ TypeOK /\ Good /\ Shape(fr[p])
  BY <1>1, AtSays
<1>3. Moved(p, g)
  BY <1>1, <1>2, MoveSet
<1>4. p \in Pl /\ fr'[p] = g /\ \A x \in Pl : x # p => fr'[x] = fr[x]
  BY <1>3 DEF Moved
<1>5. HalfOpen(fr[p]) /\ g.own = fr[p].own /\ g.s = fr[p].s /\ g.id = sess[fr[p].s].id
  BY <1>2
<1>6. Ref(fr[p]) /\ fr[p].s \in Sessions /\ fr[p].own \in Owners /\ fr[p].op = "open"
  BY <1>2, <1>5, ActSays, ShapeSays
<1>7. ~Ref(g) /\ ~HalfOpen(g) /\ Act(g) /\ ~Past(g) /\ ~Claims(g) /\ ~Ending(g) /\ g.pc \notin LivePcs
  BY DEF Ref, HalfOpen, Act, Past, Claims, Ending, EndPcs, LivePcs, BusyPcs
<1>8. \A x \in Pl : HalfOpen(fr[x]) => Ref(fr[x]) /\ fr[x].s \in Sessions /\ On(fr[x].s, lists[fr[x].own])
  <2> SUFFICES ASSUME NEW x \in Pl, HalfOpen(fr[x])
               PROVE  Ref(fr[x]) /\ fr[x].s \in Sessions /\ On(fr[x].s, lists[fr[x].own])
    OBVIOUS
  <2>1. Shape(fr[x])
    BY <1>2 DEF Good, ShapeInv
  <2>2. Ref(fr[x]) /\ fr[x].s \in Sessions
    BY <2>1, ActSays, ShapeSays
  <2> QED BY <1>2, <2>2 DEF Good, HomeInv
<1>9. StakeInv'
  <2> SUFFICES ASSUME NEW x \in Pl, Act(fr'[x])
               PROVE  \E s \in Sessions : Stake(fr[x], s)'
    BY DEF StakeInv
  <2>1. CASE x = p
    <3>1. Names(lists', sess', g, fr[p].s)
      BY <1>4, <1>5, <1>6, <1>8 DEF Names, SessLike
    <3>2. fr[p].s \notin usable'
      BY <1>4, <1>5 DEF Core, ActInv, UsableInv
    <3>3. PICK s \in Sessions : s = fr[p].s
      BY <1>6
    <3>4. Stake(fr[x], s)'
      BY <1>4, <1>7, <2>1, <3>1, <3>2, <3>3 DEF Stake
    <3> QED BY <3>4
  <2>2. CASE x # p
    <3>1. fr'[x] = fr[x]
      BY <1>4, <2>2
    <3>2. PICK s \in Sessions : Stake(fr[x], s)
      BY <3>1 DEF Core, ActInv, StakeInv
    <3>3. Stake(fr[x], s)'
      BY <3>1, <3>2 DEF Stake, Names, SessLike
    <3> QED BY <3>3
  <2> QED BY <2>1, <2>2
<1>10. ApartInv'
  <2> SUFFICES ASSUME NEW x \in Pl, NEW y \in Pl, Act(fr'[x]), HalfOpen(fr'[y]), fr'[x].own = fr'[y].own
               PROVE  sess'[fr'[y].s].id # fr'[x].id
    BY DEF ApartInv
  <2>1. y # p /\ fr'[y] = fr[y] /\ HalfOpen(fr[y])
    BY <1>4, <1>7
  <2>2. sess'[fr'[y].s].id = sess[fr[y].s].id
    BY <1>8, <2>1 DEF SessLike
  <2>3. CASE x = p
    <3> SUFFICES ASSUME sess[fr[y].s].id = sess[fr[p].s].id
                 PROVE  FALSE
      BY <1>4, <1>5, <2>2, <2>3
    <3>1. fr[y].own = fr[p].own
      BY <1>4, <1>5, <2>1, <2>3
    <3>2. fr[y].s = fr[p].s
      BY <1>2, <1>4, <1>5, <1>6, <1>8, <2>1, <3>1, OneNamed
    <3> QED BY <1>4, <1>5, <2>1, <3>2 DEF Core, ActInv, OpenInv
  <2>4. CASE x # p
    BY <1>4, <2>1, <2>2, <2>4 DEF Core, ActInv, ApartInv
  <2> QED BY <2>3, <2>4
<1>11. CloseInv'
  <2>1. ASSUME NEW x \in Pl, x # p, Act(fr'[x]), fr'[x].own = g.own, fr'[x].id = g.id
        PROVE  FALSE
    BY <1>4, <1>5, <2>1 DEF Core, ActInv, ApartInv
  <2> SUFFICES ASSUME NEW x \in Pl, NEW y \in Pl, Act(fr'[x]), Act(fr'[y]), fr'[x].op = "close",
                      fr'[x].own = fr'[y].own, fr'[x].id = fr'[y].id
               PROVE  x = y
    BY DEF CloseInv
  <2>2. CASE x # p /\ y # p
    BY <1>4, <2>2 DEF Core, ActInv, CloseInv
  <2> QED BY <1>4, <2>1, <2>2
<1>12. \A x \in Pl : HalfOpen(fr'[x]) => fr'[x] = fr[x]
  BY <1>4, <1>7
<1>13. OpenInv'
  BY <1>12 DEF Core, ActInv, OpenInv
<1>14. UsableInv'
  BY <1>12 DEF Core, ActInv, UsableInv
<1>15. CtxQuiet(fr[p], g)
  <2>1. ~Ending(fr[p])
    BY <1>2, <1>6 DEF Shape, OpenShape, Ending, EndPcs, LivePcs, BusyPcs
  <2> QED BY <1>7, <2>1 DEF CtxQuiet, Uses
<1>16. OnceInv' /\ PanicInv' /\ WholeInv'
  BY <1>3, <1>15, CtxMove, LikeSays DEF Core
<1> QED BY <1>9, <1>10, <1>11, <1>13, <1>14, <1>16 DEF Core, ActInv

\* tee_ta_open_session up to tee_ta_try_set_busy keeps Core.
LEMMA OpenChkCore ==
    ASSUME AInv, AInv', fault' = "none", Core, NEW t \in Threads, OpenChk(t)
    PROVE  Core'
<1>1. PICK f : f = Top(t)
  OBVIOUS
<1>2. PICK c : c = sess[f.s].ctx
  OBVIOUS
<1>3. /\ fault = "none" /\ stack[t] # <<>> /\ f.pc = "open_chk"
      /\ UNCHANGED <<sess, ctx, ctxes, lists, si, waitq, usable, fault>>
      /\ IF c = NoCtx \/ ctx[c].panicked THEN SetTop(t, CloseInstead(f))
         ELSE SetTop(t, [f EXCEPT !.c = c, !.pc = "busy"])
  BY <1>1, <1>2 DEF OpenChk, At
<1>4. TypeOK /\ f \in Frame /\ Shape(f) /\ Good /\ f.own \in Owners /\ TopP(t) \in Pl /\ fr[TopP(t)] = f
  BY <1>1, <1>3, AtSays, ShapeSays
<1>5. f.op = "open" /\ f.s \in Sessions /\ f.via = "null"
  BY <1>3, <1>4 DEF Shape, OpenShape, InvokeShape, CloseShape, LivePcs, BusyPcs, EndPcs, Frame
<1>6. c \in Ctxs \cup {NoCtx} /\ sess[f.s].id \in 0..MaxId
  BY <1>2, <1>4, <1>5 DEF TypeOK, Session
<1>7. SessLike /\ CtxCalm
  BY <1>3, CalmSame DEF SessLike
<1>8. HalfOpen(f) /\ Ref(f) /\ ~Ending(f)
  BY <1>3, <1>5 DEF HalfOpen, Ref, Ending, EndPcs
<1>9. CASE c = NoCtx \/ ctx[c].panicked
  <2>1. PICK g : g = CloseInstead(f)
    OBVIOUS
  <2>2. /\ g \in Frame /\ g.op = "close" /\ g.pc = "get" /\ g.own = f.own /\ g.s = f.s /\ g.via = "null" /\ g.id = sess[f.s].id
    BY <1>4, <1>5, <1>6, <2>1 DEF CloseInstead, Frame, Pcs
  <2>3. SetTop(t, g)
    BY <1>3, <1>9, <2>1
  <2> QED BY <1>1, <1>3, <1>7, <1>8, <2>2, <2>3, InsteadCore
<1>10. CASE c # NoCtx /\ ~ctx[c].panicked
  <2>1. PICK g : g = [f EXCEPT !.c = c, !.pc = "busy"]
    OBVIOUS
  <2>2. /\ g \in Frame /\ g.op = "open" /\ g.pc = "busy" /\ g.own = f.own /\ g.s = f.s /\ g.via = "null"
        /\ g.c = c /\ g.id = f.id
    BY <1>4, <1>5, <1>6, <1>10, <2>1 DEF Frame, Pcs
  <2>3. On(c, ctxes)
    BY <1>2, <1>3, <1>4, <1>8, <1>10, LivesOn
  <2>4. ActQuiet(f, g)
    BY <1>8, <2>2 DEF ActQuiet, Act
  <2>5. CtxQuiet(f, g)
    BY <1>8, <1>10, <2>2, <2>3 DEF CtxQuiet, Ending, EndPcs
  <2>6. SetTop(t, g)
    BY <1>3, <1>10, <2>1
  <2> QED BY <1>1, <1>3, <1>7, <2>2, <2>4, <2>5, <2>6, QuietSet
<1> QED BY <1>9, <1>10

\* Half-open sessions are on the lists of those who open them.
LEMMA HalfOn ==
    ASSUME AInv, fault = "none", NEW x \in Pl, HalfOpen(fr[x])
    PROVE  Ref(fr[x]) /\ fr[x].s \in Sessions /\ fr[x].own \in Owners /\ On(fr[x].s, lists[fr[x].own])
<1>1. Good
  BY DEF AInv
<1>2. Shape(fr[x])
  BY <1>1 DEF Good, ShapeInv
<1>3. Ref(fr[x]) /\ fr[x].s \in Sessions /\ fr[x].own \in Owners
  BY <1>2, ActSays, ShapeSays
<1> QED BY <1>1, <1>3 DEF Good, HomeInv

\* A session is there for its client.
LEMMA OpenedAct ==
    ASSUME AInv, AInv', fault = "none", fault' = "none", Core, NEW p, Moved(p, Null), HalfOpen(fr[p]), NEW s, s = fr[p].s,
           usable' = usable \cup {s}, UNCHANGED lists, SessLike
    PROVE  ActInv'
<1>1. p \in Pl /\ fr'[p] = Null /\ \A x \in Pl : x # p => fr'[x] = fr[x]
  BY DEF Moved
<1>2. s \in Sessions /\ fr[p].own \in Owners /\ On(s, lists[fr[p].own])
  BY <1>1, HalfOn
<1>3. ~Act(Null) /\ ~HalfOpen(Null)
  BY NullSays, ActSays
<1>4. \A x \in Pl : (Act(fr'[x]) \/ HalfOpen(fr'[x])) => x # p /\ fr'[x] = fr[x]
  BY <1>1, <1>3
<1>5. StakeInv'
  <2> SUFFICES ASSUME NEW x \in Pl, Act(fr'[x])
               PROVE  \E r \in Sessions : Stake(fr[x], r)'
    BY DEF StakeInv
  <2>1. fr'[x] = fr[x] /\ Act(fr[x])
    BY <1>4
  <2>2. PICK r \in Sessions : Stake(fr[x], r)
    BY <2>1 DEF Core, ActInv, StakeInv
  <2>3. r # s
    BY <1>1, <2>1, <2>2, HalfApart
  <2>4. Stake(fr[x], r)'
    BY <2>1, <2>2, <2>3 DEF Stake, Names, SessLike
  <2> QED BY <2>4
<1>6. ApartInv'
  <2> SUFFICES ASSUME NEW x \in Pl, NEW y \in Pl, Act(fr'[x]), HalfOpen(fr'[y]), fr'[x].own = fr'[y].own
               PROVE  sess'[fr'[y].s].id # fr'[x].id
    BY DEF ApartInv
  <2>1. fr'[x] = fr[x] /\ fr'[y] = fr[y]
    BY <1>4
  <2>2. fr[y].s \in Sessions
    BY <2>1, HalfOn
  <2> QED BY <2>1, <2>2 DEF Core, ActInv, ApartInv, SessLike
<1>7. CloseInv'
  BY <1>4 DEF Core, ActInv, CloseInv
<1>8. OpenInv'
  BY <1>4 DEF Core, ActInv, OpenInv
<1>9. UsableInv'
  <2> SUFFICES ASSUME NEW r \in usable'
               PROVE  (\E o \in Owners : On(r, lists'[o])) /\ \A y \in Pl : HalfOpen(fr'[y]) => fr'[y].s # r
    BY DEF UsableInv
  <2>1. CASE r \in usable
    BY <1>4, <2>1 DEF Core, ActInv, UsableInv
  <2>2. CASE r = s
    BY <1>1, <1>2, <1>4, <2>2 DEF Core, ActInv, OpenInv
  <2> QED BY <2>1, <2>2
<1> QED BY <1>5, <1>6, <1>7, <1>8, <1>9 DEF ActInv

\* The end of tee_ta_open_session keeps Core.
LEMMA OpenPutCore ==
    ASSUME AInv, AInv', fault' = "none", Core, NEW t \in Threads, OpenPut(t)
    PROVE  Core'
<1>1. PICK f : f = Top(t)
  OBVIOUS
<1>2. PICK s : s = f.s
  OBVIOUS
<1>3. /\ fault = "none" /\ stack[t] # <<>> /\ f.pc = "open_put"
      /\ sess' = SessRef(s, -1) /\ UNCHANGED <<ctx, ctxes, lists>>
      /\ \/ SetTop(t, CloseInstead(f)) /\ UNCHANGED usable
         \/ Return(t) /\ usable' = usable \cup {s}
  BY <1>1, <1>2 DEF OpenPut, At
<1>4. f \in Frame /\ Shape(f) /\ TypeOK /\ fr[TopP(t)] = f /\ TopP(t) \in Pl /\ stack \in [Threads -> Seq(Frame)]
  BY <1>1, <1>3, AtSays
<1>5. f.op = "open" /\ f.via = "null" /\ s \in Sessions
  BY <1>2, <1>3, <1>4 DEF Shape, OpenShape, InvokeShape, CloseShape, LivePcs, BusyPcs, EndPcs, Frame
<1>6. HalfOpen(f) /\ ~Ending(f)
  BY <1>3, <1>5 DEF HalfOpen, Ending, EndPcs
<1>7. SessLike
  <2>1. sess' = SessRef(s, -1)
    BY <1>3
  <2> QED BY <1>4, <1>5, <2>1, SessLikes
<1>8. CtxCalm
  BY <1>3, CalmSame
<1>9. CASE SetTop(t, CloseInstead(f)) /\ UNCHANGED usable
  <2>1. PICK g : g = CloseInstead(f)
    OBVIOUS
  <2>2. sess[s].id \in 0..MaxId
    BY <1>4, <1>5 DEF TypeOK, Session
  <2>3. /\ g \in Frame /\ g.op = "close" /\ g.pc = "get" /\ g.own = f.own /\ g.s = f.s /\ g.via = "null" /\ g.id = sess[f.s].id
    BY <1>2, <1>4, <1>5, <2>1, <2>2 DEF CloseInstead, Frame, Pcs
  <2>4. SetTop(t, g) /\ fault = "none" /\ stack[t] # <<>> /\ UNCHANGED <<lists, ctxes, usable>>
    BY <1>3, <1>9, <2>1
  <2> QED BY <1>1, <1>6, <1>7, <1>8, <2>3, <2>4, InsteadCore
<1>10. CASE Return(t) /\ usable' = usable \cup {s}
  <2>1. Moved(TopP(t), Null) /\ fault = "none" /\ UNCHANGED <<lists, ctxes>>
    BY <1>3, <1>4, <1>10, MovePop
  <2>2. ActInv'
    <3>1. HalfOpen(fr[TopP(t)]) /\ s = fr[TopP(t)].s
      BY <1>2, <1>4, <1>6
    <3> QED BY <1>7, <1>10, <2>1, <3>1, OpenedAct
  <2>3. CtxQuiet(fr[TopP(t)], Null)
    <3>1. /\ Null.pc \notin LivePcs /\ Null.pc # "inv_destroy" /\ ~Ending(Null) /\ ~Uses(Null)
      BY NullSays, ActSays
    <3> QED BY <1>4, <1>6, <3>1 DEF CtxQuiet
  <2>4. OnceInv' /\ PanicInv' /\ WholeInv'
    BY <1>7, <1>8, <2>1, <2>3, CtxMove, LikeSays DEF Core
  <2> QED BY <2>2, <2>4 DEF Core
<1> QED BY <1>3, <1>9, <1>10

\* A call is made: it uses no context yet.
LEMMA PushCtx ==
    ASSUME AInv, AInv', fault = "none", fault' = "none", Core, NEW p, NEW g, Moved(p, g), fr[p] = Null, g.via = "null",
           \/ g.op = "open" /\ g.pc = "open_init"
           \/ g.op = "close" /\ g.pc \in {"find", "get"}
           \/ g.op \in {"invoke", "cancel"} /\ g.pc = "get",
           UNCHANGED <<sess, ctx, ctxes>>
    PROVE  OnceInv' /\ PanicInv' /\ WholeInv'
<1>1. ~Ending(g) /\ g.pc \notin LivePcs /\ g.pc # "inv_destroy" /\ ~Past(g) /\ ~Claims(g)
  BY DEF Ending, EndPcs, LivePcs, BusyPcs, Past, Claims
<1>2. ~Ending(fr[p])
  BY NullSays
<1>3. CtxQuiet(fr[p], g)
  BY <1>1, <1>2 DEF CtxQuiet, Uses
<1>4. SessLike /\ CtxCalm
  BY CalmSame DEF SessLike
<1> QED BY <1>3, <1>4, CtxMove, LikeSays DEF Core

\* A client that opens a session keeps Core.
LEMMA CallOpenCore ==
    ASSUME AInv, AInv', fault' = "none", Core, NEW t \in Threads, CallOpen(t)
    PROVE  Core'
<1>1. PICK u \in Uuids : /\ CanCall(t) /\ Push(t, Call("open", Caller(t), u, 0))
                         /\ UNCHANGED <<sess, ctx, ctxes, lists, si, waitq, usable, fault>>
  BY DEF CallOpen
<1>2. PICK g : g = Call("open", Caller(t), u, 0)
  OBVIOUS
<1>3. 0 \in 0..MaxId
  BY TaManagerAssumption
<1>4. /\ g \in Frame /\ g.op = "open" /\ g.own = Caller(t) /\ g.via = "null" /\ g.pc = "open_init"
  BY <1>1, <1>2, <1>3, CallerIs, CallIs
<1>5. fault = "none" /\ stack \in [Threads -> Seq(Frame)]
  BY <1>1, CallerIs DEF TypeOK
<1>6. Push(t, g)
  BY <1>1, <1>2
<1>7. PICK p \in Pl : Moved(p, g) /\ fr[p] = Null
  BY <1>4, <1>5, <1>6, MovePush
<1>8. OnceInv' /\ PanicInv' /\ WholeInv'
  BY <1>1, <1>4, <1>5, <1>7, PushCtx
<1>9. ActQuiet(fr[p], g)
  BY <1>4 DEF ActQuiet, Act, HalfOpen
<1>10. ActInv'
  BY <1>1, <1>5, <1>7, <1>9, ActMove, LikeSays DEF Core, SessLike
<1> QED BY <1>8, <1>10 DEF Core

\* A call on a session its client may use ...
LEMMA PushAct ==
    ASSUME AInv, AInv', fault = "none", fault' = "none", Core, NEW p, NEW g, Moved(p, g), fr[p] = Null, g.own \in Owners,
           g.op \in {"invoke", "cancel", "close"}, g.pc = "get" \/ (g.op = "close" /\ g.pc = "find"), NEW s \in Sessions, On(s, lists[g.own]),
           g.id = sess[s].id, UNCHANGED <<sess, lists>>,
           \A y \in Pl : HalfOpen(fr[y]) => fr[y].s # s,
           \/ g.op # "close" /\ s \in usable /\ UNCHANGED usable
           \/ /\ g.op = "close" /\ usable' = usable \ {s}
              /\ \A y \in Pl : Act(fr[y]) /\ fr[y].own = g.own => fr[y].id # g.id
    PROVE  ActInv'
<1>1. p \in Pl /\ fr'[p] = g /\ \A x \in Pl : x # p => fr'[x] = fr[x]
  BY DEF Moved
<1>2. TypeOK /\ Good
  BY DEF AInv
<1>3. ~Ref(g) /\ ~HalfOpen(g)
  BY DEF Ref, HalfOpen
<1>4. \A x \in Pl : HalfOpen(fr'[x]) => fr'[x] = fr[x]
  BY <1>1, <1>3
<1>5. ASSUME NEW x \in Pl, NEW r \in Sessions, Act(fr[x]), Stake(fr[x], r)
      PROVE  (r \in usable <=> r \in usable') /\ (fr[x].own = g.own /\ fr[x].id = g.id => r = s)
  <2>1. On(r, lists[fr[x].own]) /\ sess[r].id = fr[x].id
    BY <1>5 DEF Stake, Names
  <2>2. fr[x].own = g.own /\ fr[x].id = g.id => r = s
    BY <1>2, <2>1, OneNamed
  <2>3. fr[x].own \in Owners
    BY <1>2, FrameSays DEF Good
  <2>4. r = s => fr[x].own = g.own /\ fr[x].id = g.id
    BY <1>2, <2>1, <2>3 DEF Good, HomeInv
  <2> QED BY <1>5, <2>2, <2>4
<1>6. StakeInv'
  <2> SUFFICES ASSUME NEW x \in Pl, Act(fr'[x])
               PROVE  \E r \in Sessions : Stake(fr[x], r)'
    BY DEF StakeInv
  <2>1. CASE x = p
    <3>1. Stake(fr[x], s)'
      BY <1>1, <1>3, <2>1 DEF Stake, Names
    <3> QED BY <3>1
  <2>2. CASE x # p
    <3>1. fr'[x] = fr[x] /\ Act(fr[x])
      BY <1>1, <2>2
    <3>2. PICK r \in Sessions : Stake(fr[x], r)
      BY <3>1 DEF Core, ActInv, StakeInv
    <3>3. r \in usable <=> r \in usable'
      BY <1>5, <3>1, <3>2
    <3>4. Stake(fr[x], r)'
      BY <3>1, <3>2, <3>3 DEF Stake, Names
    <3> QED BY <3>4
  <2> QED BY <2>1, <2>2
<1>7. ApartInv'
  <2> SUFFICES ASSUME NEW x \in Pl, NEW y \in Pl, Act(fr'[x]), HalfOpen(fr'[y]), fr'[x].own = fr'[y].own
               PROVE  sess'[fr'[y].s].id # fr'[x].id
    BY DEF ApartInv
  <2>1. fr'[y] = fr[y] /\ HalfOpen(fr[y])
    BY <1>4
  <2>2. fr[y].s \in Sessions /\ On(fr[y].s, lists[fr[y].own])
    BY <2>1, HalfOn
  <2>3. CASE x = p
    BY <1>1, <1>2, <2>1, <2>2, <2>3, OneNamed
  <2>4. CASE x # p
    BY <1>1, <2>1, <2>4 DEF Core, ActInv, ApartInv
  <2> QED BY <2>3, <2>4
<1>8. CloseInv'
  <2> SUFFICES ASSUME NEW x \in Pl, NEW y \in Pl, Act(fr'[x]), Act(fr'[y]), fr'[x].op = "close",
                      fr'[x].own = fr'[y].own, fr'[x].id = fr'[y].id
               PROVE  x = y
    BY DEF CloseInv
  <2>1. CASE x # p /\ y # p
    BY <1>1, <2>1 DEF Core, ActInv, CloseInv
  <2>2. CASE x = p /\ y # p
    BY <1>1, <2>2
  <2>3. CASE x # p /\ y = p
    <3>1. fr'[x] = fr[x] /\ Act(fr[x]) /\ fr[x].op = "close" /\ fr[x].own = g.own /\ fr[x].id = g.id
      BY <1>1, <2>3
    <3>2. PICK r \in Sessions : Stake(fr[x], r)
      BY <3>1 DEF Core, ActInv, StakeInv
    <3>3. r = s /\ r \notin usable
      BY <1>5, <3>1, <3>2 DEF Stake
    <3> QED BY <3>1, <3>3
  <2> QED BY <2>1, <2>2, <2>3
<1>9. OpenInv'
  BY <1>4 DEF Core, ActInv, OpenInv
<1>10. UsableInv'
  BY <1>4 DEF Core, ActInv, UsableInv
<1> QED BY <1>6, <1>7, <1>8, <1>9, <1>10 DEF ActInv

\* ... such as an invocation ...
LEMMA CallInvokeCore ==
    ASSUME AInv, AInv', fault' = "none", Core, NEW t \in Threads, CallInvoke(t)
    PROVE  Core'
<1>1. PICK s \in usable, op \in {"invoke", "cancel"} :
         /\ CanCall(t) /\ s \in Range(lists[Caller(t)])
         /\ Push(t, Call(op, Caller(t), AnyUuid, sess[s].id))
         /\ UNCHANGED <<sess, ctx, ctxes, lists, si, waitq, usable, fault>>
  BY DEF CallInvoke
<1>2. TypeOK /\ s \in Sessions /\ sess[s].id \in 0..MaxId /\ Caller(t) \in Owners /\ fault = "none"
  BY <1>1, CallerIs DEF TypeOK, Session
<1>3. PICK g : g = Call(op, Caller(t), AnyUuid, sess[s].id)
  OBVIOUS
<1>4. /\ g \in Frame /\ g.op = op /\ g.own = Caller(t) /\ g.via = "null" /\ g.pc = "get" /\ g.id = sess[s].id
  BY <1>1, <1>2, <1>3, CallIs, AnyUuidIs
<1>5. Push(t, g)
  BY <1>1, <1>3
<1>6. PICK p \in Pl : Moved(p, g) /\ fr[p] = Null
  BY <1>2, <1>4, <1>5, MovePush DEF TypeOK
<1>7. OnceInv' /\ PanicInv' /\ WholeInv'
  BY <1>1, <1>2, <1>4, <1>6, PushCtx
<1>8. On(s, lists[g.own])
  <2>1. lists[g.own] \in Seq(Sessions)
    BY <1>2, <1>4 DEF TypeOK
  <2> QED BY <1>1, <1>4, <2>1, RangeIs DEF On
<1>9. \A y \in Pl : HalfOpen(fr[y]) => fr[y].s # s
  BY <1>1 DEF Core, ActInv, UsableInv
<1>10. ActInv'
  <2>1. g.op # "close" /\ g.op \in {"invoke", "cancel", "close"} /\ g.own \in Owners /\ UNCHANGED <<sess, lists, usable>>
    BY <1>1, <1>2, <1>4
  <2> QED BY <1>2, <1>4, <1>6, <1>8, <1>9, <2>1, PushAct
<1> QED BY <1>7, <1>10 DEF Core

\* ... or a close, when its other calls on the session have returned ...
LEMMA CallCloseCore ==
    ASSUME AInv, AInv', fault' = "none", Core, Disciplined, NEW t \in Threads, CallClose(t)
    PROVE  Core'
<1>1. PICK s \in usable :
         /\ CanCall(t) /\ s \in Range(lists[Caller(t)])
         /\ \A v \in Threads : \A i \in 1..Len(stack[v]) :
                \/ stack[v][i].op = "open"
                \/ stack[v][i].own # Caller(t) \/ stack[v][i].id # sess[s].id
         /\ Push(t, Call("close", Caller(t), AnyUuid, sess[s].id)) /\ usable' = usable \ {s}
         /\ UNCHANGED <<sess, ctx, ctxes, lists, si, waitq, fault>>
  BY DEF CallClose, Disciplined
<1>2. TypeOK /\ s \in Sessions /\ sess[s].id \in 0..MaxId /\ Caller(t) \in Owners /\ fault = "none"
  BY <1>1, CallerIs DEF TypeOK, Session
<1>3. PICK g : g = Call("close", Caller(t), AnyUuid, sess[s].id)
  OBVIOUS
<1>4. /\ g \in Frame /\ g.op = "close" /\ g.own = Caller(t) /\ g.via = "null" /\ g.pc = "find" /\ g.id = sess[s].id
  BY <1>2, <1>3, CallIs, AnyUuidIs
<1>5. Push(t, g)
  BY <1>1, <1>3
<1>6. PICK p \in Pl : Moved(p, g) /\ fr[p] = Null
  BY <1>2, <1>4, <1>5, MovePush DEF TypeOK
<1>7. UNCHANGED <<sess, ctx, ctxes, lists>> /\ usable' = usable \ {s}
  BY <1>1
<1>8. OnceInv' /\ PanicInv' /\ WholeInv'
  BY <1>2, <1>4, <1>6, <1>7, PushCtx
<1>9. On(s, lists[g.own])
  <2>1. lists[g.own] \in Seq(Sessions) /\ s \in Range(lists[g.own])
    BY <1>1, <1>2, <1>4 DEF TypeOK
  <2> QED BY <2>1, RangeIs DEF On
<1>10. \A y \in Pl : HalfOpen(fr[y]) => fr[y].s # s
  BY <1>1 DEF Core, ActInv, UsableInv
<1>11. \A y \in Pl : Act(fr[y]) /\ fr[y].own = g.own => fr[y].id # g.id
  <2> SUFFICES ASSUME NEW y \in Pl, Act(fr[y]), fr[y].own = g.own, fr[y].id = g.id
               PROVE  FALSE
    OBVIOUS
  <2>1. fr[y] # Null /\ fr[y].op # "open"
    BY <1>2, ActSays DEF AInv, Good, ShapeInv
  <2>2. PICK v \in Threads, i \in Depth : y = <<v, i>>
    BY DEF Pl
  <2>3. fr[y] = stack[v][i] /\ i \in 1..Len(stack[v])
    BY <1>2, <2>1, <2>2, FrIs DEF TypeOK, Depth
  <2> QED BY <1>1, <1>4, <2>1, <2>2, <2>3
<1>12. ActInv'
  <2>1. g.own \in Owners
    BY <1>2, <1>4
  <2> QED BY <1>2, <1>4, <1>6, <1>7, <1>9, <1>10, <1>11, <2>1, PushAct
<1> QED BY <1>8, <1>12 DEF Core

\* Nobody else calls for a TA that is destroyed.
LEMMA DrainAlone ==
    ASSUME AInv, fault = "none", Core, NEW t \in Threads, stack[t] # <<>>, Top(t).pc = "drain", NEW x \in Pl, fr[x] # Null
    PROVE  fr[x].own # Top(t).c
<1> SUFFICES ASSUME fr[x].own = Top(t).c
             PROVE  FALSE
  OBVIOUS
<1>1. TypeOK /\ Good /\ TopP(t) \in Pl /\ fr[TopP(t)] = Top(t) /\ Shape(Top(t)) /\ fr[<<TopP(t)[1], TopP(t)[2] + 1>>] = Null
  BY AtSays
<1>2. Ending(Top(t)) /\ Uses(Top(t))
  BY DEF Ending, EndPcs, Uses
<1>3. Top(t).c \in Ctxs
  BY <1>1, <1>2, ShapeSays
<1>4. Top(t).c # NW
  BY <1>3 DEF Ctxs, NW
<1>5. /\ x[2] > 1 /\ fr[<<x[1], x[2] - 1>>].pc \in {"in_ta", "drain"} /\ fr[<<x[1], x[2] - 1>>].c = Top(t).c
  BY <1>1, <1>4 DEF Good, StackInv
<1>6. PICK y : y = <<x[1], x[2] - 1>>
  OBVIOUS
<1>7. y \in Pl /\ x = <<y[1], y[2] + 1>>
  BY <1>5, <1>6 DEF Pl, Depth
<1>8. Shape(fr[y])
  BY <1>1, <1>7 DEF Good, ShapeInv
<1>9. CASE fr[y].pc = "in_ta"
  <2>1. HoldsBusy(fr[y]) /\ ~Ending(fr[y])
    BY <1>9 DEF HoldsBusy, Ending, EndPcs
  <2>2. Uses(fr[y])
    BY <1>8, <2>1, ShapeSays DEF Uses
  <2>3. On(Top(t).c, ctxes)
    BY <1>5, <1>6, <1>7, <2>1, <2>2 DEF Core, WholeInv
  <2> QED BY <1>1, <1>2, <2>3 DEF Good, UsedInv
<1>10. CASE fr[y].pc = "drain"
  <2>1. Ending(fr[y])
    BY <1>10 DEF Ending, EndPcs
  <2>2. y = TopP(t)
    BY <1>1, <1>2, <1>5, <1>6, <1>7, <2>1 DEF Core, WholeInv
  <2> QED BY <1>1, <1>7, <2>2
<1> QED BY <1>5, <1>6, <1>9, <1>10

\* ... or the close by free_utc.
LEMMA DrainCore ==
    ASSUME AInv, AInv', fault' = "none", Core, NEW t \in Threads, Drain(t)
    PROVE  Core'
<1>1. PICK c : c = Top(t).c
  OBVIOUS
<1>2. PICK s : s = Head(lists[c])
  OBVIOUS
<1>3. /\ fault = "none" /\ stack[t] # <<>> /\ Top(t).pc = "drain" /\ lists[c] # <<>>
      /\ Push(t, [Call("close", c, ctx[c].u, sess[s].id) EXCEPT !.pc = "get"]) /\ usable' = usable \ {s}
      /\ UNCHANGED <<sess, ctx, ctxes, lists, si, waitq, fault>>
  BY <1>1, <1>2 DEF Drain, At
<1>4. Shape(Top(t)) /\ TypeOK
  BY <1>3, AtSays
<1>5. c \in Ctxs /\ c \in Owners
  BY <1>1, <1>3, <1>4, ShapeSays DEF Uses, Ending, EndPcs, Owners
<1>6. s \in Sessions /\ On(s, lists[c])
  <2>1. lists[c] \in Seq(Sessions)
    BY <1>4, <1>5 DEF TypeOK
  <2>2. lists[c] # <<>>
    BY <1>3
  <2>3. s = lists[c][1] /\ 1 \in 1..Len(lists[c])
    BY <1>2, <2>1, <2>2
  <2> QED BY <2>1, <2>3 DEF On
<1>7. sess[s].id \in 0..MaxId /\ ctx[c].u \in Uuids
  BY <1>4, <1>5, <1>6 DEF TypeOK, Session, Context
<1>8. PICK h : h = Call("close", c, ctx[c].u, sess[s].id)
  OBVIOUS
<1>9. /\ h \in Frame /\ h.op = "close" /\ h.own = c /\ h.via = "null" /\ h.id = sess[s].id
  BY <1>5, <1>6, <1>7, <1>8, CallIs
<1>10. PICK g : g = [h EXCEPT !.pc = "get"]
  OBVIOUS
<1>11. /\ g \in Frame /\ g.op = "close" /\ g.own = c /\ g.via = "null" /\ g.pc = "get" /\ g.id = sess[s].id
  BY <1>9, <1>10, GotoIs DEF Pcs
<1>12. Push(t, g) /\ UNCHANGED <<sess, ctx, ctxes, lists>> /\ usable' = usable \ {s} /\ fault = "none"
  BY <1>3, <1>8, <1>10
<1>13. PICK p \in Pl : Moved(p, g) /\ fr[p] = Null
  BY <1>4, <1>11, <1>12, MovePush DEF TypeOK
<1>14. OnceInv' /\ PanicInv' /\ WholeInv'
  BY <1>11, <1>12, <1>13, PushCtx
<1>15. \A y \in Pl : fr[y] # Null => fr[y].own # c
  BY <1>1, <1>3, DrainAlone
<1>16. \A y \in Pl : Shape(fr[y])
  BY <1>12 DEF AInv, Good, ShapeInv
<1>17. \A y \in Pl : Act(fr[y]) /\ fr[y].own = g.own => fr[y].id # g.id
  BY <1>11, <1>15, <1>16, ActSays
<1>18. \A y \in Pl : HalfOpen(fr[y]) => fr[y].s # s
  <2> SUFFICES ASSUME NEW y \in Pl, HalfOpen(fr[y]), fr[y].s = s
               PROVE  FALSE
    OBVIOUS
  <2>1. fr[y].own \in Owners /\ On(s, lists[fr[y].own])
    BY <1>12, HalfOn
  <2>2. fr[y].own = c
    BY <1>5, <1>6, <1>12, <2>1 DEF AInv, Good, HomeInv
  <2>3. fr[y] # Null
    BY <1>16, ActSays
  <2> QED BY <1>15, <2>2, <2>3
<1>19. ActInv'
  <2>1. On(s, lists[g.own]) /\ g.own \in Owners
    BY <1>5, <1>6, <1>11
  <2> QED BY <1>6, <1>11, <1>12, <1>13, <1>17, <1>18, <2>1, PushAct
<1> QED BY <1>14, <1>19 DEF Core

\* A TA that may panic has one session, so that a panic leaves no call behind.
LEMMA PanicsAlone ==
    ASSUME AInv, fault = "none", Core, Disciplined, NEW c \in Ctxs, ctx[c].state # "unused", ctx[c].u \in MayPanic
    PROVE  ctx[c].ref <= 1
BY DEF Disciplined, Core, OnceInv

\* A TA that panics keeps Core.
LEMMA TaPanicCore ==
    ASSUME AInv, AInv', fault' = "none", Core, Disciplined, NEW t \in Threads, TaPanic(t)
    PROVE  Core'
<1>1. PICK g : /\ Left(t, g) /\ CtxOnly(g.c) /\ ctx[g.c].u \in MayPanic /\ ctx'[g.c].loaded = ctx[g.c].loaded
  BY TaPanicIs
<1>2. PICK c : c = g.c
  OBVIOUS
<1>3. PICK p : p = TopP(t)
  OBVIOUS
<1>4. /\ fault = "none" /\ stack[t] # <<>> /\ g \in Frame /\ SetTop(t, g) /\ Goes(Top(t), g) /\ g.id = Top(t).id
      /\ UNCHANGED <<sess, ctxes, lists, usable>> /\ Top(t).pc = "in_ta" /\ g.pc \in {"unlink", "clear"} /\ Same(Top(t), g)
  BY <1>1 DEF Left, Going
<1>5. /\ TypeOK /\ Good /\ p \in Pl /\ fr[p] = Top(t) /\ Top(t) \in Frame /\ Shape(Top(t)) /\ stack \in [Threads -> Seq(Frame)]
  BY <1>3, <1>4, AtSays
<1>6. Moved(p, g)
  BY <1>3, <1>4, <1>5, MoveSet
<1>7. ActQuiet(fr[p], g) /\ CtxQuiet(fr[p], g)
  BY <1>4, <1>5, GoesQuiet
<1>8. SameIds /\ SessFewer
  BY <1>4 DEF SameIds, SessFewer
<1>9. ActInv'
  BY <1>4, <1>6, <1>7, <1>8, ActMove DEF Core
<1>10. WholeInv'
  BY <1>4, <1>6, <1>7, <1>8, WholeMove DEF Core
<1>11. c \in Ctxs /\ (\A d \in Ctxs : d # c => ctx'[d] = ctx[d])
       /\ ctx'[c].state = ctx[c].state /\ ctx'[c].u = ctx[c].u /\ ctx'[c].ref = ctx[c].ref /\ ctx'[c].loaded = ctx[c].loaded
       /\ ctx[c].u \in MayPanic
  BY <1>1, <1>2 DEF CtxOnly
<1>12. OnceInv'
  <2> SUFFICES ASSUME NEW d \in Ctxs, ctx'[d].state # "unused", "multi" \notin Flags[ctx'[d].u] \/ ~ctx'[d].loaded
               PROVE  ctx'[d].ref <= 1
    BY DEF OnceInv
  <2> QED BY <1>11 DEF Core, OnceInv
<1>13. Uses(fr[p]) /\ ~Ending(fr[p]) /\ fr[p].c = c
  <2>1. HoldsBusy(fr[p])
    BY <1>4, <1>5 DEF HoldsBusy
  <2>2. ~Ending(fr[p])
    BY <1>4, <1>5 DEF Ending, EndPcs
  <2> QED BY <1>2, <1>4, <1>5, <2>1, <2>2, ShapeSays DEF Uses, Same
<1>14. ctx[c].ref <= 1
  <2>1. ctx[c].state # "unused"
    BY <1>5, <1>13 DEF Good, UsedInv
  <2> QED BY <1>4, <1>11, <2>1, PanicsAlone
<1>15. \A x \in Pl : x # p /\ Uses(fr[x]) /\ ~Ending(fr[x]) /\ fr[x].c \in Ctxs => (ctx'[fr[x].c].panicked <=> ctx[fr[x].c].panicked)
  <2> SUFFICES ASSUME NEW x \in Pl, x # p, Uses(fr[x]), ~Ending(fr[x]), fr[x].c \in Ctxs
               PROVE  fr[x].c # c
    BY <1>11
  <2> QED BY <1>4, <1>5, <1>13, <1>14, Alone
<1>16. \A d \in Ctxs : ctx'[d].state # "unused" /\ ctx'[d].panicked => ctx'[d].u \in MayPanic
  BY <1>11 DEF Core, PanicInv
<1>17. g.pc # "inv_destroy" /\ g.pc \notin LivePcs
  BY <1>4 DEF LivePcs, BusyPcs
<1>18. PanicInv'
  BY <1>6, <1>15, <1>16, <1>17, PanicMove DEF Core
<1> QED BY <1>9, <1>10, <1>12, <1>18 DEF Core

\* A context is taken off tee_ctxes by the last call that uses it.
LEMMA WholeEnds ==
    ASSUME AInv, fault = "none", Core, NEW p, NEW g, NEW c, Moved(p, g), Uses(fr[p]), ~Ending(fr[p]), c = fr[p].c,
           g.c = c, Ending(g), ctx[c].ref <= 1, \A d \in Ctxs : On(d, ctxes') <=> On(d, ctxes) /\ d # c, SessFewer,
           \A r \in Sessions : sess'[r].state = "live" /\ sess'[r].ctx = c => g.op = "invoke" /\ g.s = r
    PROVE  WholeInv'
<1>1. p \in Pl /\ fr'[p] = g /\ \A x \in Pl : x # p => fr'[x] = fr[x]
  BY DEF Moved
<1>2. TypeOK /\ Good
  BY DEF AInv
<1>3. c \in Ctxs /\ On(c, ctxes)
  BY <1>1, UsesClaim
<1>4. ASSUME NEW x \in Pl, Uses(fr'[x]), ~Ending(fr'[x])
      PROVE  On(fr'[x].c, ctxes')
  <2>1. x # p /\ fr'[x] = fr[x]
    BY <1>1, <1>4
  <2>2. fr[x].c \in Ctxs /\ On(fr[x].c, ctxes)
    BY <1>4, <2>1, UsesClaim
  <2>3. fr[x].c # c
    BY <1>1, <1>4, <2>1, Alone
  <2> QED BY <2>1, <2>2, <2>3
<1>5. ASSUME NEW x \in Pl, x # p, Ending(fr'[x])
      PROVE  fr'[x].c # c /\ fr'[x] = fr[x] /\ Ending(fr[x])
  BY <1>1, <1>2, <1>3, <1>5 DEF Good, UsedInv
<1>6. ASSUME NEW x \in Pl, NEW y \in Pl, Ending(fr'[x]), Ending(fr'[y]), fr'[x].c = fr'[y].c
      PROVE  x = y
  <2>1. CASE x # p /\ y # p
    BY <1>5, <1>6, <2>1 DEF Core, WholeInv
  <2> QED BY <1>1, <1>5, <1>6, <2>1
<1>7. ASSUME NEW r \in Sessions, sess'[r].state = "live", sess'[r].ctx # NoCtx
      PROVE  \/ On(sess'[r].ctx, ctxes')
             \/ \E y \in Pl : fr'[y].op = "invoke" /\ Ending(fr'[y]) /\ fr'[y].s = r
  <2>1. sess[r].state = "live" /\ sess'[r].ctx = sess[r].ctx
    BY <1>7 DEF SessFewer
  <2>2. CASE sess[r].ctx = c
    BY <1>1, <1>7, <2>1, <2>2
  <2>3. CASE sess[r].ctx # c /\ On(sess[r].ctx, ctxes)
    <3>1. sess[r].ctx \in Ctxs
      BY <1>2, <1>7, <2>1 DEF TypeOK, Session
    <3> QED BY <2>1, <2>3, <3>1
  <2>4. CASE ~On(sess[r].ctx, ctxes)
    <3>1. PICK y \in Pl : fr[y].op = "invoke" /\ Ending(fr[y]) /\ fr[y].s = r
      BY <1>7, <2>1, <2>4 DEF Core, WholeInv
    <3>2. y # p /\ fr'[y] = fr[y]
      BY <1>1, <3>1
    <3> QED BY <3>1, <3>2
  <2> QED BY <2>2, <2>3, <2>4
<1> QED BY <1>4, <1>6, <1>7 DEF WholeInv

\* destroy_ta_ctx_from_session keeps Core.
LEMMA DestroyTaCtxCore ==
    ASSUME AInv, AInv', fault' = "none", Core, Disciplined, NEW t \in Threads, DestroyTaCtx(t)
    PROVE  Core'
<1>1. PICK s \in Sessions, c \in Ctxs, g \in Frame :
             /\ fault = "none" /\ stack[t] # <<>> /\ Top(t).pc = "inv_destroy" /\ Top(t).op = "invoke"
             /\ s = Top(t).s /\ c = Top(t).c /\ sess[s].ctx = c /\ ctx[c].state = "live"
             /\ SetTop(t, g) /\ UNCHANGED <<ctx, lists, si, waitq, usable>>
             /\ g.op = "invoke" /\ g.pc = "destroy" /\ g.own = Top(t).own /\ g.s = s /\ g.c = c /\ g.via = "null"
             /\ g.id = Top(t).id
             /\ fault' = IF Cardinality(Referring(c) \ {s}) + 1 = ctx[c].ref THEN "none" ELSE "assert"
             /\ sess' \in [Sessions -> Session]
             /\ \A r \in Sessions : sess'[r] = IF r \in Referring(c) \ {s} THEN [sess[r] EXCEPT !.ctx = NoCtx] ELSE sess[r]
             /\ ctxes' = Without(ctxes, {c})
  BY DestroyTaCtxIs
<1>2. PICK p : p = TopP(t)
  OBVIOUS
<1>3. fault = "none" /\ stack[t] # <<>> /\ SetTop(t, g) /\ UNCHANGED <<ctx, lists, usable>>
  BY <1>1
<1>4. /\ TypeOK /\ Good /\ p \in Pl /\ fr[p] = Top(t) /\ stack \in [Threads -> Seq(Frame)]
  BY <1>2, <1>3, AtSays
<1>5. /\ fr[p].pc = "inv_destroy" /\ fr[p].op = "invoke" /\ fr[p].s = s /\ fr[p].c = c /\ g.own = fr[p].own
      /\ g.id = fr[p].id /\ g.s = s /\ g.c = c /\ g.op = "invoke" /\ g.pc = "destroy"
  BY <1>1, <1>4
<1>6. Moved(p, g)
  BY <1>2, <1>3, <1>4, MoveSet
<1>7. \A r \in Sessions : /\ sess'[r].state = sess[r].state /\ sess'[r].id = sess[r].id
                          /\ sess'[r].ctx = sess[r].ctx \/ sess'[r].ctx = NoCtx
  <2> TAKE r \in Sessions
  <2>1. sess[r] \in Session
    BY <1>4 DEF TypeOK
  <2>2. sess'[r] = sess[r] \/ sess'[r] = [sess[r] EXCEPT !.ctx = NoCtx]
    BY <1>1
  <2> QED BY <2>1, <2>2 DEF Session
<1>8. SameIds /\ SessFewer
  BY <1>7 DEF SameIds, SessFewer
<1>9. Uses(fr[p]) /\ ~Ending(fr[p]) /\ Act(fr[p]) /\ Ref(fr[p]) /\ Ending(g) /\ ~HalfOpen(g)
  BY <1>5 DEF Uses, Past, Ending, EndPcs, Act, Ref, HalfOpen
<1>10. ActInv'
  <2>1. ActQuiet(fr[p], g)
    BY <1>5, <1>9 DEF ActQuiet
  <2> QED BY <1>3, <1>6, <1>8, <2>1, ActMove DEF Core
<1>11. ctx[c].ref <= 1
  <2>1. ctx[c].panicked
    BY <1>4, <1>5 DEF Core, PanicInv
  <2>2. ctx[c].state # "unused"
    BY <1>4, <1>5, <1>9 DEF Good, UsedInv
  <2>3. ctx[c].u \in MayPanic
    BY <2>1, <2>2 DEF Core, PanicInv
  <2> QED BY <1>3, <2>2, <2>3, PanicsAlone
<1>12. \A d \in Ctxs : On(d, ctxes') <=> On(d, ctxes) /\ d # c
  <2>1. ctxes \in Seq(Ctxs) /\ ctxes' = Without(ctxes, {c})
    BY <1>1, <1>4 DEF TypeOK
  <2> QED BY <2>1, CtxesWithout
<1>13. ASSUME NEW r \in Sessions, sess'[r].state = "live", sess'[r].ctx = c
       PROVE  g.op = "invoke" /\ g.s = r
  <2>1. sess[r].state = "live" /\ sess[r].ctx = c
    <3>1. NoCtx \notin Ctxs
      BY TaManagerAssumption DEF Ctxs
    <3> QED BY <1>7, <1>13, <3>1
  <2>2. r \in ClaimsOn(sess, fr, c)
    BY <2>1 DEF ClaimsOn
  <2>3. s \in ClaimsOn(sess, fr, c)
    BY <1>3, <1>4, <1>5, <1>9, UsesClaim
  <2>4. r = s
    BY <1>3, <1>11, <2>2, <2>3, OneClaim
  <2> QED BY <1>5, <2>4
<1>14. WholeInv'
  BY <1>3, <1>5, <1>6, <1>8, <1>9, <1>11, <1>12, <1>13, WholeEnds
<1>15. OnceInv'
  BY <1>3 DEF Core, OnceInv
<1>16. PanicInv'
  <2>1. g.pc # "inv_destroy" /\ g.pc \notin LivePcs
    BY <1>5 DEF LivePcs, BusyPcs
  <2>2. \A d \in Ctxs : ctx'[d].state # "unused" /\ ctx'[d].panicked => ctx'[d].u \in MayPanic
    BY <1>3 DEF Core, PanicInv
  <2> QED BY <1>3, <1>6, <2>1, <2>2, PanicMove DEF Core
<1> QED BY <1>10, <1>14, <1>15, <1>16 DEF Core

\* The context of a close loses a reference, and Core is kept.
LEMMA ReleaseCore ==
    ASSUME AInv, AInv', fault' = "none", Core, NEW t \in Threads, Release(t)
    PROVE  Core'
<1>1. PICK p, f, c, g : Drops(t, p, f, c, g)
  BY ReleaseIs
<1>2. /\ fault = "none" /\ stack[t] # <<>> /\ f = Top(t) /\ p = TopP(t) /\ f.op = "close" /\ f.pc = "release" /\ f.via # "null"
      /\ c = f.c /\ c \in Ctxs /\ Moved(p, g) /\ UNCHANGED <<sess, lists, usable>>
  BY <1>1 DEF Drops
<1>3. /\ \A d \in Ctxs : d # c => ctx'[d] = ctx[d]
      /\ ctx'[c].state = ctx[c].state /\ ctx'[c].u = ctx[c].u /\ ctx'[c].loaded = ctx[c].loaded
      /\ ctx'[c].panicked = ctx[c].panicked /\ ctx'[c].ref = ctx[c].ref - 1 /\ ctx[c].ref \in Nat
  BY <1>1 DEF Drops
<1>4. /\ TypeOK /\ Good /\ p \in Pl /\ fr[p] = f /\ f \in Frame
  BY <1>2, AtSays
<1>5. Gone(f) /\ Claims(f) /\ Uses(f) /\ ~Ending(f) /\ ~Act(f) /\ ~HalfOpen(f)
  BY <1>2 DEF Gone, Claims, Uses, Ending, EndPcs, Act, HalfOpen
<1>6. SameIds /\ SessFewer
  BY <1>2 DEF SameIds, SessFewer
<1>7. OnceInv'
  <2> SUFFICES ASSUME NEW d \in Ctxs, ctx'[d].state # "unused", "multi" \notin Flags[ctx'[d].u] \/ ~ctx'[d].loaded
               PROVE  ctx'[d].ref <= 1
    BY DEF OnceInv
  <2>1. CASE d = c
    <3>1. ctx[c].ref <= 1
      BY <1>2, <1>3, <2>1 DEF Core, OnceInv
    <3> QED BY <1>3, <2>1, <3>1
  <2>2. CASE d # c
    BY <1>3, <2>2 DEF Core, OnceInv
  <2> QED BY <2>1, <2>2
<1>8. \A d \in Ctxs : (ctx'[d].panicked <=> ctx[d].panicked) /\ ctx'[d].u = ctx[d].u /\ ctx'[d].state = ctx[d].state
  BY <1>2, <1>3
<1>9. \A d \in Ctxs : ctx'[d].state # "unused" /\ ctx'[d].panicked => ctx'[d].u \in MayPanic
  BY <1>8 DEF Core, PanicInv
<1>10. \A x \in Pl : x # p /\ Uses(fr[x]) /\ ~Ending(fr[x]) /\ fr[x].c \in Ctxs => (ctx'[fr[x].c].panicked <=> ctx[fr[x].c].panicked)
  BY <1>8
<1>11. CASE /\ ctx[c].ref = 1 /\ g.op = "close" /\ g.pc = "destroy" /\ g.own = f.own /\ g.s = f.s /\ g.c = c
            /\ \A d \in Ctxs : On(d, ctxes') <=> On(d, ctxes) /\ d # c
  <2>1. ~Act(g) /\ ~HalfOpen(g) /\ Ending(g) /\ g.pc # "inv_destroy" /\ g.pc \notin LivePcs
    BY <1>11 DEF Act, HalfOpen, Ending, EndPcs, LivePcs, BusyPcs
  <2>2. ActInv'
    <3>1. ActQuiet(fr[p], g)
      BY <2>1 DEF ActQuiet
    <3> QED BY <1>2, <1>6, <3>1, ActMove DEF Core
  <2>3. PanicInv'
    BY <1>2, <1>9, <1>10, <2>1, PanicMove DEF Core
  <2>4. ASSUME NEW r \in Sessions, sess'[r].state = "live", sess'[r].ctx = c
        PROVE  FALSE
    <3>1. r \in ClaimsOn(sess, fr, c)
      BY <1>2, <2>4 DEF ClaimsOn
    <3>2. f.s \in ClaimsOn(sess, fr, c) /\ sess[f.s].state # "live"
      BY <1>2, <1>4, <1>5, ReleaseClaims
    <3>3. r = f.s
      <4>1. ctx[c].ref <= 1
        BY <1>11
      <4> QED BY <1>2, <3>1, <3>2, <4>1, OneClaim
    <3> QED BY <1>2, <2>4, <3>2, <3>3
  <2>5. WholeInv'
    <3>1. ctx[c].ref <= 1 /\ \A d \in Ctxs : On(d, ctxes') <=> On(d, ctxes) /\ d # c
      BY <1>11
    <3>2. Uses(fr[p]) /\ ~Ending(fr[p]) /\ c = fr[p].c /\ g.c = c
      BY <1>2, <1>4, <1>5, <1>11
    <3> QED BY <1>2, <1>6, <2>1, <2>4, <3>1, <3>2, WholeEnds
  <2> QED BY <1>7, <2>2, <2>3, <2>5 DEF Core
<1>12. CASE g = Null /\ UNCHANGED ctxes
  <2>1. /\ ~Act(g) /\ ~HalfOpen(g) /\ g.pc \notin LivePcs /\ g.pc # "inv_destroy" /\ ~Ending(g) /\ ~Uses(g)
    BY <1>12, NullSays, ActSays
  <2>2. ActInv'
    <3>1. ActQuiet(fr[p], g)
      BY <2>1 DEF ActQuiet
    <3> QED BY <1>2, <1>6, <3>1, ActMove DEF Core
  <2>3. PanicInv'
    BY <1>2, <1>9, <1>10, <2>1, PanicMove DEF Core
  <2>4. WholeInv'
    <3>1. CtxQuiet(fr[p], g)
      BY <1>4, <1>5, <2>1 DEF CtxQuiet
    <3> QED BY <1>2, <1>6, <1>12, <3>1, WholeMove DEF Core
  <2> QED BY <1>7, <2>2, <2>3, <2>4 DEF Core
<1>13. \/ /\ ctx[c].ref = 1 /\ g.op = "close" /\ g.pc = "destroy" /\ g.own = f.own /\ g.s = f.s /\ g.c = c
          /\ \A d \in Ctxs : On(d, ctxes') <=> On(d, ctxes) /\ d # c
       \/ g = Null /\ UNCHANGED ctxes
  BY <1>1 DEF Drops
<1> QED BY <1>11, <1>12, <1>13

\* The end of destroy_context, and of destroy_ta_ctx_from_session, keeps Core.
LEMMA FreeCtxCore ==
    ASSUME AInv, AInv', fault' = "none", Core, NEW t \in Threads, FreeCtx(t)
    PROVE  Core'
<1>1. PICK f : f = Top(t)
  OBVIOUS
<1>2. PICK c : c = f.c
  OBVIOUS
<1>3. /\ fault = "none" /\ stack[t] # <<>> /\ f.pc = "drain"
      /\ ctx' = [ctx EXCEPT ![c].state = "freed"]
      /\ \/ f.op = "invoke" /\ SetTop(t, [f EXCEPT !.pc = "put"]) /\ sess' = [sess EXCEPT ![f.s].ctx = NoCtx]
         \/ f.op # "invoke" /\ Return(t) /\ UNCHANGED sess
      /\ UNCHANGED <<ctxes, lists, si, waitq, usable, fault>>
  BY <1>1, <1>2 DEF FreeCtx, At, Goto
<1>4. PICK p : p = TopP(t)
  OBVIOUS
<1>5. fault = "none" /\ stack[t] # <<>> /\ f.pc = "drain" /\ UNCHANGED <<ctxes, lists, usable>>
  BY <1>3
<1>6. /\ TypeOK /\ Good /\ p \in Pl /\ fr[p] = f /\ f \in Frame /\ Shape(f) /\ stack \in [Threads -> Seq(Frame)]
  BY <1>1, <1>4, <1>5, AtSays
<1>7. /\ f.op \in {"invoke", "close"} /\ Ending(f) /\ Uses(f) /\ (f.op = "invoke" => f.s \in Sessions /\ Ref(f) /\ Act(f))
  BY <1>5, <1>6 DEF Shape, OpenShape, InvokeShape, LivePcs, BusyPcs, Frame, Ending, EndPcs, Uses, Ref, Act
<1>8. c \in Ctxs /\ ctx[c].state # "unused"
  <2>1. c \in Ctxs
    BY <1>2, <1>6, <1>7, ShapeSays
  <2> QED BY <1>2, <1>6, <1>7, <2>1 DEF Good, UsedInv
<1>9. \A d \in Ctxs : /\ ctx'[d].state # "unused" => ctx[d].state # "unused"
                      /\ ctx'[d].u = ctx[d].u /\ ctx'[d].ref = ctx[d].ref /\ ctx'[d].loaded = ctx[d].loaded
                      /\ ctx'[d].panicked = ctx[d].panicked
  <2>1. PICK e : e = [ctx[c] EXCEPT !.state = "freed"]
    OBVIOUS
  <2>2. ctx[c] \in Context /\ ctx \in [Ctxs -> Context]
    BY <1>6, <1>8 DEF TypeOK
  <2>3. e.u = ctx[c].u /\ e.ref = ctx[c].ref /\ e.loaded = ctx[c].loaded /\ e.panicked = ctx[c].panicked
    BY <2>1, <2>2 DEF Context
  <2>4. ctx' = Upd(ctx, c, e)
    BY <1>3, <2>1 DEF Upd
  <2>5. ctx'[c] = e /\ \A d \in Ctxs : d # c => ctx'[d] = ctx[d]
    BY <1>8, <2>2, <2>4 DEF Upd
  <2> QED BY <1>8, <2>3, <2>5
<1>10. OnceInv'
  BY <1>9 DEF Core, OnceInv
<1>11. \A d \in Ctxs : ctx'[d].state # "unused" /\ ctx'[d].panicked => ctx'[d].u \in MayPanic
  BY <1>9 DEF Core, PanicInv
<1>12. \A x \in Pl : x # p /\ Uses(fr[x]) /\ ~Ending(fr[x]) /\ fr[x].c \in Ctxs => (ctx'[fr[x].c].panicked <=> ctx[fr[x].c].panicked)
  BY <1>9
<1>13. PICK g : /\ Moved(p, g) /\ SameIds /\ SessFewer /\ ~Uses(g) /\ g.pc # "inv_destroy" /\ g.pc \notin LivePcs /\ ActQuiet(fr[p], g)
                /\ f.op = "invoke" => sess'[f.s].ctx = NoCtx
  <2>1. CASE f.op = "invoke" /\ SetTop(t, [f EXCEPT !.pc = "put"]) /\ sess' = [sess EXCEPT ![f.s].ctx = NoCtx]
    <3>1. PICK g : g = [f EXCEPT !.pc = "put"]
      OBVIOUS
    <3>2. /\ g \in Frame /\ g.op = "invoke" /\ g.pc = "put" /\ g.own = f.own /\ g.s = f.s /\ g.id = f.id
      BY <1>6, <2>1, <3>1, GotoIs DEF Pcs
    <3>3. Moved(p, g)
      <4>1. SetTop(t, g)
        BY <2>1, <3>1
      <4> QED BY <1>4, <1>5, <1>6, <3>2, <4>1, MoveSet
    <3>4. ~Uses(g) /\ g.pc # "inv_destroy" /\ g.pc \notin LivePcs /\ ~HalfOpen(g)
      BY <3>2 DEF Uses, Past, Claims, Ending, EndPcs, LivePcs, BusyPcs, HalfOpen
    <3>5. ActQuiet(fr[p], g)
      BY <1>6, <1>7, <2>1, <3>2, <3>4 DEF ActQuiet
    <3>6. f.s \in Sessions /\ sess \in [Sessions -> Session]
      BY <1>6, <1>7, <2>1 DEF TypeOK
    <3>7. SameIds /\ SessFewer /\ sess'[f.s].ctx = NoCtx
      BY <2>1, <3>6 DEF SameIds, SessFewer, Session
    <3> QED BY <3>3, <3>4, <3>5, <3>7
  <2>2. CASE f.op # "invoke" /\ Return(t) /\ UNCHANGED sess
    <3>1. Moved(p, Null)
      BY <1>4, <1>5, <1>6, <2>2, MovePop
    <3>2. /\ ~Act(Null) /\ ~HalfOpen(Null) /\ Null.pc \notin LivePcs /\ Null.pc # "inv_destroy" /\ ~Uses(Null)
      BY NullSays, ActSays
    <3>3. ActQuiet(fr[p], Null)
      BY <3>2 DEF ActQuiet
    <3>4. SameIds /\ SessFewer
      BY <2>2 DEF SameIds, SessFewer
    <3> QED BY <2>2, <3>1, <3>2, <3>3, <3>4
  <2> QED BY <1>3, <2>1, <2>2
<1>14. ActInv'
  BY <1>5, <1>13, ActMove DEF Core
<1>15. PanicInv'
  BY <1>11, <1>12, <1>13, PanicMove DEF Core
<1>16. WholeInv'
  <2>1. fr'[p] = g /\ \A x \in Pl : x # p => fr'[x] = fr[x]
    BY <1>13 DEF Moved
  <2>2. \A x \in Pl : Uses(fr'[x]) => x # p /\ fr'[x] = fr[x]
    BY <1>13, <2>1
  <2>3. \A x \in Pl : Uses(fr'[x]) /\ ~Ending(fr'[x]) => On(fr'[x].c, ctxes')
    BY <1>5, <2>2 DEF Core, WholeInv
  <2>4. \A x, y \in Pl : Ending(fr'[x]) /\ Ending(fr'[y]) /\ fr'[x].c = fr'[y].c => x = y
    BY <2>2 DEF Core, WholeInv, Uses
  <2>5. ASSUME NEW r \in Sessions, sess'[r].state = "live", sess'[r].ctx # NoCtx
        PROVE  \/ On(sess'[r].ctx, ctxes')
               \/ \E y \in Pl : fr'[y].op = "invoke" /\ Ending(fr'[y]) /\ fr'[y].s = r
    <3>1. sess[r].state = "live" /\ sess'[r].ctx = sess[r].ctx
      BY <1>13, <2>5 DEF SessFewer
    <3>2. CASE On(sess[r].ctx, ctxes)
      BY <1>5, <3>1, <3>2
    <3>3. CASE ~On(sess[r].ctx, ctxes)
      <4>1. PICK y \in Pl : fr[y].op = "invoke" /\ Ending(fr[y]) /\ fr[y].s = r
        BY <2>5, <3>1, <3>3 DEF Core, WholeInv
      <4>2. y # p
        BY <1>6, <1>13, <2>5, <4>1
      <4>3. fr'[y] = fr[y]
        BY <2>1, <4>2
      <4> QED BY <4>1, <4>3
    <3> QED BY <3>2, <3>3
  <2> QED BY <2>3, <2>4, <2>5 DEF WholeInv
<1> QED BY <1>10, <1>14, <1>15, <1>16 DEF Core

\* A close takes its session off the list: nobody else means it.
LEMMA FreedAct ==
    ASSUME AInv, AInv', fault = "none", fault' = "none", Core, NEW p, NEW g, Moved(p, g), ~Act(g), ~HalfOpen(g),
           Act(fr[p]), fr[p].op = "close", Ref(fr[p]), NEW s, s = fr[p].s, UNCHANGED usable, SameIds,
           \A o \in Owners : \A r \in Sessions : On(r, lists[o]) /\ r # s => On(r, lists'[o])
    PROVE  ActInv'
<1>1. p \in Pl /\ fr'[p] = g /\ \A x \in Pl : x # p => fr'[x] = fr[x]
  BY DEF Moved
<1>2. TypeOK /\ ShapeInv /\ HomeInv
  BY DEF AInv, Good
<1>3. PICK w : w = fr[p].own
  OBVIOUS
<1>4. s \in Sessions /\ w \in Owners /\ On(s, lists[w]) /\ sess[s].id = fr[p].id /\ s \notin usable
  <2>1. PICK r \in Sessions : Stake(fr[p], r)
    BY <1>1 DEF Core, ActInv, StakeInv
  <2>2. r = s
    BY <2>1 DEF Stake
  <2> QED BY <1>1, <1>2, <1>3, <2>1, <2>2, FrameSays DEF Stake, Names
<1>5. \A x \in Pl : (Act(fr'[x]) \/ HalfOpen(fr'[x])) => x # p /\ fr'[x] = fr[x]
  BY <1>1
<1>6. StakeInv'
  <2> SUFFICES ASSUME NEW x \in Pl, Act(fr'[x])
               PROVE  \E r \in Sessions : Stake(fr[x], r)'
    BY DEF StakeInv
  <2>1. x # p /\ fr'[x] = fr[x] /\ Act(fr[x])
    BY <1>5
  <2>2. PICK r \in Sessions : Stake(fr[x], r)
    BY <2>1 DEF Core, ActInv, StakeInv
  <2>3. On(r, lists[fr[x].own]) /\ sess[r].id = fr[x].id /\ fr[x].own \in Owners
    BY <1>2, <2>2, FrameSays DEF Stake, Names
  <2>4. r # s
    <3> SUFFICES ASSUME r = s
                 PROVE  FALSE
      OBVIOUS
    <3>1. fr[x].own = w
      BY <1>2, <1>4, <2>3 DEF HomeInv
    <3> QED BY <1>1, <1>3, <1>4, <2>1, <2>3, <3>1 DEF Core, ActInv, CloseInv
  <2>5. Names(lists', sess', fr'[x], r)
    BY <2>1, <2>3, <2>4 DEF Names, SameIds
  <2>6. Stake(fr[x], r)'
    BY <2>1, <2>2, <2>5 DEF Stake
  <2> QED BY <2>6
<1>7. ApartInv'
  <2> SUFFICES ASSUME NEW x \in Pl, NEW y \in Pl, Act(fr'[x]), HalfOpen(fr'[y]), fr'[x].own = fr'[y].own
               PROVE  sess'[fr'[y].s].id # fr'[x].id
    BY DEF ApartInv
  <2>1. fr'[x] = fr[x] /\ fr'[y] = fr[y]
    BY <1>5
  <2>2. fr[y].s \in Sessions
    BY <2>1, HalfOn
  <2> QED BY <2>1, <2>2 DEF Core, ActInv, ApartInv, SameIds
<1>8. CloseInv'
  BY <1>5 DEF Core, ActInv, CloseInv
<1>9. OpenInv'
  BY <1>5 DEF Core, ActInv, OpenInv
<1>10. UsableInv'
  <2> SUFFICES ASSUME NEW r \in usable'
               PROVE  (\E o \in Owners : On(r, lists'[o])) /\ \A y \in Pl : HalfOpen(fr'[y]) => fr'[y].s # r
    BY DEF UsableInv
  <2>1. r \in usable /\ r \in Sessions /\ r # s
    BY <1>2, <1>4 DEF TypeOK
  <2> QED BY <1>5, <2>1 DEF Core, ActInv, UsableInv
<1> QED BY <1>6, <1>7, <1>8, <1>9, <1>10 DEF ActInv

\* tee_ta_unlink_session ends, and Core is kept.
LEMMA FreeCore ==
    ASSUME AInv, AInv', fault = "none", fault' = "none", Core, NEW t \in Threads, stack[t] # <<>>,
           Top(t).op = "close", Top(t).pc \in {"unlink", "wait_refc"},
           FreeSession(t), NEW s, s = Top(t).s, \A r \in Sessions : r # s => sess'[r] = sess[r],
           sess'[s].state = "freed", sess'[s].id = sess[s].id, UNCHANGED <<ctx, ctxes, usable>>
    PROVE  Core'
<1>1. PICK g : /\ Frees(Top(t), g) /\ Moved(TopP(t), g) /\ stack' \in [Threads -> Seq(Frame)]
               /\ lists' = Upd(lists, Top(t).own, Without(lists[Top(t).own], {Top(t).s}))
  BY FreeSessionIs
<1>2. PICK p : p = TopP(t)
  OBVIOUS
<1>3. PICK f : f = Top(t)
  OBVIOUS
<1>4. /\ TypeOK /\ p \in Pl /\ fr[p] = f /\ f \in Frame /\ Shape(f)
  BY <1>2, <1>3, AtSays
<1>5. /\ Shape(g) /\ ~Ref(g) /\ ~Past(g) /\ ~Ending(g) /\ (Claims(g) <=> f.via # "null") /\ (Claims(f) <=> f.via # "null")
      /\ (Claims(g) => g.c = f.c) /\ Ref(f) /\ f.s \in Sessions /\ f.own \in Owners
  BY <1>1, <1>3, <1>4, FreesSays
<1>6. ~Act(g) /\ ~HalfOpen(g) /\ g.pc \notin LivePcs /\ g.pc # "inv_destroy"
  <2>1. CASE g = Null
    BY <2>1, NullSays, ActSays
  <2>2. CASE g.op = "close" /\ g.pc \in {"clear", "release"}
    BY <2>2 DEF Act, HalfOpen, LivePcs, BusyPcs
  <2> QED BY <1>1, <2>1, <2>2 DEF Frees
<1>7. Act(f) /\ f.op = "close" /\ ~Ending(f) /\ s \in Sessions
  BY <1>3, <1>5 DEF Act, Ending, EndPcs
<1>8. SameIds /\ SessFewer
  BY DEF SameIds, SessFewer
<1>9. \A o \in Owners : \A r \in Sessions : On(r, lists[o]) /\ r # s => On(r, lists'[o])
  <2>1. PICK w : w = f.own
    OBVIOUS
  <2>2. PICK m : m = Without(lists[w], {s})
    OBVIOUS
  <2>3. lists \in [Owners -> Seq(Sessions)] /\ w \in Owners /\ lists[w] \in Seq(Sessions)
    BY <1>4, <1>5, <2>1 DEF TypeOK
  <2>4. \A d \in Sessions : On(d, lists[w]) /\ d # s => On(d, m)
    <3>1. /\ Without(lists[w], {s}) \in Seq(Sessions)
          /\ \A e \in Sessions : (\E k \in 1..Len(Without(lists[w], {s})) : Without(lists[w], {s})[k] = e)
                                <=> (e \notin {s} /\ \E k \in 1..Len(lists[w]) : lists[w][k] = e)
      BY <2>3, WithoutFacts, Zenon
    <3>2. \A e \in Sessions : (\E k \in 1..Len(m) : m[k] = e) <=> (e \notin {s} /\ \E k \in 1..Len(lists[w]) : lists[w][k] = e)
      BY <2>2, <3>1
    <3> QED BY <3>2 DEF On
  <2>5. lists' = Upd(lists, w, m)
    BY <1>1, <1>3, <2>1, <2>2
  <2>6. lists'[w] = m /\ \A o \in Owners : o # w => lists'[o] = lists[o]
    BY <2>3, <2>5 DEF Upd
  <2> QED BY <2>4, <2>6
<1>10. Moved(p, g) /\ s = fr[p].s /\ Act(fr[p]) /\ fr[p].op = "close" /\ Ref(fr[p])
  BY <1>1, <1>2, <1>3, <1>4, <1>5, <1>7
<1>11. ActInv'
  BY <1>6, <1>8, <1>9, <1>10, FreedAct
<1>12. CtxQuiet(fr[p], g)
  BY <1>4, <1>5, <1>6, <1>7 DEF CtxQuiet, Uses
<1>13. OnceInv' /\ PanicInv' /\ WholeInv'
  BY <1>8, <1>10, <1>12, CalmSame, CtxMove DEF Core
<1> QED BY <1>11, <1>13 DEF Core

\* tee_ta_unlink_session keeps Core ...
LEMMA UnlinkCore ==
    ASSUME AInv, AInv', fault' = "none", Core, NEW t \in Threads, Unlink(t)
    PROVE  Core'
<1>1. PICK f : f = Top(t)
  OBVIOUS
<1>2. PICK s : s = f.s
  OBVIOUS
<1>4. PICK e : e = [sess[s] EXCEPT !.unlink = TRUE]
  OBVIOUS
<1>5. PICK S : S = [sess EXCEPT ![s].unlink = TRUE]
  OBVIOUS
<1>6. /\ fault = "none" /\ stack[t] # <<>> /\ f.pc = "unlink" /\ UNCHANGED <<ctx, ctxes, usable>>
      /\ \/ sess' = S /\ Goto(t, "wait_refc") /\ UNCHANGED lists
         \/ sess' = [S EXCEPT ![s].state = "freed"] /\ FreeSession(t)
  BY <1>1, <1>2, <1>5 DEF Unlink, At
<1>7. f \in Frame /\ Shape(f) /\ TypeOK
  BY <1>1, <1>6, AtSays
<1>8. f.op = "close" /\ s \in Sessions
  BY <1>2, <1>6, <1>7 DEF Shape, OpenShape, InvokeShape, CloseShape, LivePcs, BusyPcs, EndPcs, Frame
<1>9. sess[s] \in Session /\ sess \in [Sessions -> Session]
  BY <1>7, <1>8 DEF TypeOK
<1>10. e \in Session /\ e.id = sess[s].id
  BY <1>4, <1>9 DEF Session
<1>11. S = Upd(sess, s, e)
  BY <1>4, <1>5, <1>9 DEF Upd
<1>12. S \in [Sessions -> Session] /\ S[s] = e /\ \A r \in Sessions : r # s => S[r] = sess[r]
  BY <1>8, <1>9, <1>10, <1>11 DEF Upd
<1>13. fault = "none" /\ stack[t] # <<>> /\ UNCHANGED <<ctx, ctxes, usable>>
  BY <1>6
<1>15. CASE sess' = S /\ Goto(t, "wait_refc") /\ UNCHANGED lists
  <2>1. PICK g : g = [f EXCEPT !.pc = "wait_refc"]
    OBVIOUS
  <2>2. /\ g \in Frame /\ g.pc = "wait_refc" /\ g.op = f.op /\ g.own = f.own /\ g.s = f.s /\ g.c = f.c
        /\ g.via = f.via /\ g.id = f.id
    BY <1>7, <2>1 DEF Frame, Pcs
  <2>3. SetTop(t, g) /\ UNCHANGED lists
    BY <1>1, <1>15, <2>1 DEF Goto
  <2>4. SessLike
    BY <1>5, <1>7, <1>8, <1>15, SessLikes
  <2>5. ActQuiet(f, g)
    BY <1>6, <1>8, <2>2 DEF ActQuiet, Act, HalfOpen, Ref
  <2>6. CtxQuiet(f, g)
    BY <1>6, <1>8, <2>2 DEF CtxQuiet, Uses, Past, Claims, Ending, EndPcs, LivePcs, BusyPcs
  <2> QED BY <1>1, <1>13, <2>2, <2>3, <2>4, <2>5, <2>6, CalmSame, QuietSet
<1>16. CASE sess' = [S EXCEPT ![s].state = "freed"] /\ FreeSession(t)
  <2>2. PICK d : d = [e EXCEPT !.state = "freed"]
    OBVIOUS
  <2>3. d \in Session /\ d.state = "freed" /\ d.id = sess[s].id
    BY <1>10, <2>2 DEF Session
  <2>4. sess' = Upd(S, s, d)
    BY <1>12, <1>16, <2>2 DEF Upd
  <2>5. sess'[s] = d /\ \A r \in Sessions : r # s => sess'[r] = sess[r]
    BY <1>8, <1>12, <2>3, <2>4 DEF Upd
  <2>6. FreeSession(t) /\ Top(t).op = "close" /\ Top(t).pc \in {"unlink", "wait_refc"} /\ s = Top(t).s
    BY <1>1, <1>2, <1>6, <1>8, <1>16
  <2>7. sess'[s].state = "freed" /\ sess'[s].id = sess[s].id
    BY <2>3, <2>5
  <2> QED BY <1>13, <2>5, <2>6, <2>7, FreeCore
<1> QED BY <1>6, <1>15, <1>16

\* ... and so does a thread that wakes up in it.
LEMMA UnlinkWokenCore ==
    ASSUME AInv, AInv', fault' = "none", Core, NEW t \in Threads, UnlinkWoken(t)
    PROVE  Core'
<1>1. PICK f : f = Top(t)
  OBVIOUS
<1>2. PICK s : s = f.s
  OBVIOUS
<1>3. /\ fault = "none" /\ stack[t] # <<>> /\ f.pc = "wait_refc" /\ UNCHANGED <<ctx, ctxes, usable>>
      /\ \/ UNCHANGED <<sess, lists, stack>>
         \/ sess' = [sess EXCEPT ![s].state = "freed"] /\ FreeSession(t)
  BY <1>1, <1>2 DEF UnlinkWoken, At
<1>4. f \in Frame /\ Shape(f) /\ TypeOK
  BY <1>1, <1>3, AtSays
<1>5. f.op = "close" /\ s \in Sessions
  BY <1>2, <1>3, <1>4 DEF Shape, OpenShape, InvokeShape, CloseShape, LivePcs, BusyPcs, EndPcs, Frame
<1>7. CASE UNCHANGED <<sess, lists, stack>>
  BY <1>3, <1>7, CoreStill
<1>8. CASE sess' = [sess EXCEPT ![s].state = "freed"] /\ FreeSession(t)
  <2>1. sess[s] \in Session /\ sess \in [Sessions -> Session]
    BY <1>4, <1>5 DEF TypeOK
  <2>2. PICK d : d = [sess[s] EXCEPT !.state = "freed"]
    OBVIOUS
  <2>3. d \in Session /\ d.state = "freed" /\ d.id = sess[s].id
    BY <2>1, <2>2 DEF Session
  <2>4. sess' = Upd(sess, s, d)
    BY <1>8, <2>1, <2>2 DEF Upd
  <2>5. sess'[s] = d /\ \A r \in Sessions : r # s => sess'[r] = sess[r]
    BY <1>5, <2>1, <2>3, <2>4 DEF Upd
  <2>6. FreeSession(t) /\ Top(t).op = "close" /\ Top(t).pc \in {"unlink", "wait_refc"} /\ s = Top(t).s
        /\ fault = "none" /\ stack[t] # <<>> /\ UNCHANGED <<ctx, ctxes, usable>>
    BY <1>1, <1>2, <1>3, <1>5, <1>8
  <2>7. sess'[s].state = "freed" /\ sess'[s].id = sess[s].id
    BY <2>3, <2>5
  <2> QED BY <2>5, <2>6, <2>7, FreeCore
<1> QED BY <1>3, <1>7, <1>8

\* t has made session s on context c and goes on as g.
Opened(t, c, s, g) ==
    /\ sess[s].state = "unused" /\ SetTop(t, g)
    /\ \A r \in Sessions : r # s => sess'[r] = sess[r]
    /\ sess'[s].state = "live" /\ sess'[s].ctx = c
    /\ lists'[g.own] = Append(lists[g.own], s)
    /\ \A o \in Owners : o # g.own => lists'[o] = lists[o]
    /\ \A r \in Sessions : On(r, lists[g.own]) => sess[r].id # sess'[s].id
    /\ g.op = "open" /\ g.pc = "open_chk" /\ g.own \in Owners /\ g.s = s /\ Top(t).op = "open" /\ Top(t).pc = "open_init"

\* NewSession in terms of frames.
LEMMA OpenedIs ==
    ASSUME AInv, fault = "none", NEW t \in Threads, stack[t] # <<>>, Top(t).pc = "open_init", NEW c \in Ctxs, NewSession(t, c)
    PROVE  \E s \in Sessions, g \in Frame : Opened(t, c, s, g)
<1>1. PICK s \in Sessions, g \in Frame :
              /\ sess[s].state = "unused" /\ SetTop(t, g)
              /\ sess' \in [Sessions -> Session] /\ \A r \in Sessions : r # s => sess'[r] = sess[r]
              /\ sess'[s].state = "live" /\ sess'[s].ctx = c /\ sess'[s].ref = 1 /\ sess'[s].lock = NoThread
              /\ ~sess'[s].unlink /\ sess'[s].id # 0
              /\ lists' \in [Owners -> Seq(Sessions)] /\ lists'[g.own] = Append(lists[g.own], s)
              /\ \A o \in Owners : o # g.own => lists'[o] = lists[o]
              /\ \A r \in Sessions : On(r, lists[g.own]) => sess[r].id # sess'[s].id
              /\ g.op = "open" /\ g.pc = "open_chk" /\ g.own = Top(t).own /\ g.own \in Owners /\ g.s = s
              /\ g.via = "null" /\ Top(t).op = "open"
  BY NewSessionIs
<1> QED BY <1>1 DEF Opened

\* The new session is nobody else's.
LEMMA OpenedApart ==
    ASSUME AInv, AInv', fault = "none", fault' = "none", Core, NEW t \in Threads, stack[t] # <<>>, NEW c, NEW s \in Sessions, NEW g \in Frame,
           Opened(t, c, s, g), NEW p, p = TopP(t), Moved(p, g), UNCHANGED usable
    PROVE  ActInv'
<1>1. p \in Pl /\ fr'[p] = g /\ \A x \in Pl : x # p => fr'[x] = fr[x]
  BY DEF Moved
<1>2. TypeOK /\ ShapeInv /\ HomeInv /\ lists \in [Owners -> Seq(Sessions)]
  BY DEF AInv, Good, TypeOK
<1>3. /\ sess[s].state = "unused" /\ \A r \in Sessions : r # s => sess'[r] = sess[r]
  BY DEF Opened
<1>4. /\ g.op = "open" /\ g.own \in Owners /\ g.s = s /\ HalfOpen(g) /\ ~Act(g)
  BY DEF Opened, HalfOpen, Act
<1>5. \A o \in Owners : \A r \in Sessions : On(r, lists[o]) => r # s /\ On(r, lists'[o]) /\ sess'[r].id = sess[r].id
  <2> SUFFICES ASSUME NEW o \in Owners, NEW r \in Sessions, On(r, lists[o])
               PROVE  r # s /\ On(r, lists'[o]) /\ sess'[r].id = sess[r].id
    OBVIOUS
  <2>1. r # s
    BY <1>2, <1>3 DEF HomeInv
  <2>2. CASE o # g.own
    BY <1>3, <2>1, <2>2 DEF Opened
  <2>3. CASE o = g.own
    <3>1. lists[o] \in Seq(Sessions) /\ lists'[o] = Append(lists[o], s)
      BY <1>2, <2>3 DEF Opened
    <3>2. On(r, lists'[o])
      BY <3>1, OnAppend
    <3> QED BY <1>3, <2>1, <3>2
  <2> QED BY <2>2, <2>3
<1>6. \A r \in Sessions : On(r, lists[g.own]) => sess[r].id # sess'[s].id
  BY DEF Opened
<1>7. \A x \in Pl : Act(fr'[x]) => x # p /\ fr'[x] = fr[x]
  BY <1>1, <1>4
<1>8. ASSUME NEW x \in Pl, Act(fr[x])
      PROVE  \E r \in Sessions : Stake(fr[x], r) /\ On(r, lists[fr[x].own]) /\ sess[r].id = fr[x].id /\ fr[x].own \in Owners
  <2>1. PICK r \in Sessions : Stake(fr[x], r)
    BY <1>8 DEF Core, ActInv, StakeInv
  <2> QED BY <1>2, <2>1, FrameSays DEF Stake, Names
<1>9. \A y \in Pl : HalfOpen(fr[y]) => fr[y].s \in Sessions /\ fr[y].s # s
  <2> SUFFICES ASSUME NEW y \in Pl, HalfOpen(fr[y])
               PROVE  fr[y].s \in Sessions /\ fr[y].s # s
    OBVIOUS
  <2>1. fr[y].s \in Sessions /\ fr[y].own \in Owners /\ On(fr[y].s, lists[fr[y].own])
    BY HalfOn
  <2> QED BY <1>5, <2>1
<1>10. StakeInv'
  <2> SUFFICES ASSUME NEW x \in Pl, Act(fr'[x])
               PROVE  \E r \in Sessions : Stake(fr[x], r)'
    BY DEF StakeInv
  <2>1. fr'[x] = fr[x] /\ Act(fr[x])
    BY <1>7
  <2>2. PICK r \in Sessions : Stake(fr[x], r) /\ On(r, lists[fr[x].own]) /\ sess[r].id = fr[x].id /\ fr[x].own \in Owners
    BY <1>8, <2>1
  <2>3. Names(lists', sess', fr'[x], r)
    BY <1>5, <2>1, <2>2 DEF Names
  <2>4. Stake(fr[x], r)'
    BY <2>1, <2>2, <2>3 DEF Stake
  <2> QED BY <2>4
<1>11. ApartInv'
  <2> SUFFICES ASSUME NEW x \in Pl, NEW y \in Pl, Act(fr'[x]), HalfOpen(fr'[y]), fr'[x].own = fr'[y].own
               PROVE  sess'[fr'[y].s].id # fr'[x].id
    BY DEF ApartInv
  <2>1. fr'[x] = fr[x] /\ Act(fr[x])
    BY <1>7
  <2>2. CASE y # p
    <3>1. fr'[y] = fr[y] /\ HalfOpen(fr[y])
      BY <1>1, <2>2
    <3>2. sess'[fr[y].s] = sess[fr[y].s]
      BY <1>3, <1>9, <3>1
    <3> QED BY <2>1, <3>1, <3>2 DEF Core, ActInv, ApartInv
  <2>3. CASE y = p
    <3>1. PICK r \in Sessions : Stake(fr[x], r) /\ On(r, lists[fr[x].own]) /\ sess[r].id = fr[x].id /\ fr[x].own \in Owners
      BY <1>8, <2>1
    <3>2. fr[x].own = g.own
      BY <1>1, <2>1, <2>3
    <3> QED BY <1>1, <1>4, <1>6, <2>1, <2>3, <3>1, <3>2
  <2> QED BY <2>2, <2>3
<1>12. CloseInv'
  BY <1>7 DEF Core, ActInv, CloseInv
<1>13. OpenInv'
  <2> SUFFICES ASSUME NEW x \in Pl, NEW y \in Pl, HalfOpen(fr'[x]), HalfOpen(fr'[y]), fr'[x].s = fr'[y].s
               PROVE  x = y
    BY DEF OpenInv
  <2>1. CASE x # p /\ y # p
    BY <1>1, <2>1 DEF Core, ActInv, OpenInv
  <2>2. CASE x = p \/ y = p
    BY <1>1, <1>4, <1>9, <2>2
  <2> QED BY <2>1, <2>2
<1>14. UsableInv'
  <2> SUFFICES ASSUME NEW r \in usable'
               PROVE  (\E o \in Owners : On(r, lists'[o])) /\ \A y \in Pl : HalfOpen(fr'[y]) => fr'[y].s # r
    BY DEF UsableInv
  <2>1. r \in usable /\ r \in Sessions
    BY <1>2 DEF TypeOK
  <2>2. PICK o \in Owners : On(r, lists[o])
    BY <2>1 DEF Core, ActInv, UsableInv
  <2>3. r # s /\ On(r, lists'[o])
    BY <1>5, <2>1, <2>2
  <2>4. \A y \in Pl : HalfOpen(fr'[y]) => fr'[y].s # r
    BY <1>1, <1>4, <2>1, <2>3 DEF Core, ActInv, UsableInv
  <2> QED BY <2>3, <2>4
<1> QED BY <1>10, <1>11, <1>12, <1>13, <1>14 DEF ActInv

\* The context of a new session is not in use, or may be shared.
NewCalm(c) ==
    /\ ctx'[c].panicked => ctx'[c].u \in MayPanic
    /\ ctx[c].state # "unused" => (ctx'[c].panicked <=> ctx[c].panicked)
    /\ "multi" \notin Flags[ctx'[c].u] \/ ~ctx'[c].loaded => ctx'[c].ref <= 1

\* A new session keeps Core.
LEMMA NewCore ==
    ASSUME AInv, AInv', fault = "none", fault' = "none", Core, NEW t \in Threads, stack[t] # <<>>, Top(t).pc = "open_init",
           NEW c \in Ctxs, NewSession(t, c), UNCHANGED usable,
           \A d \in Ctxs : d # c => ctx'[d] = ctx[d], \A d \in Ctxs : On(d, ctxes') <=> On(d, ctxes) \/ d = c, NewCalm(c)
    PROVE  Core'
<1>1. PICK s \in Sessions, g \in Frame : Opened(t, c, s, g)
  BY OpenedIs
<1>2. PICK p : p = TopP(t)
  OBVIOUS
<1>3. TypeOK /\ Good /\ stack \in [Threads -> Seq(Frame)] /\ p \in Pl /\ fr[p] = Top(t)
  BY <1>2, AtSays
<1>4. Moved(p, g)
  <2>1. SetTop(t, g)
    BY <1>1 DEF Opened
  <2> QED BY <1>2, <1>3, <2>1, MoveSet
<1>5. fr'[p] = g /\ \A x \in Pl : x # p => fr'[x] = fr[x]
  BY <1>4 DEF Moved
<1>6. ActInv'
  BY <1>1, <1>2, <1>4, OpenedApart
<1>7. OnceInv'
  BY DEF NewCalm, Core, OnceInv
<1>8. g.op = "open" /\ g.pc = "open_chk" /\ fr[p].op = "open"
  BY <1>1, <1>3 DEF Opened
<1>9. g.pc \notin LivePcs /\ g.pc # "inv_destroy" /\ ~Uses(g) /\ ~Ending(g)
  BY <1>8 DEF LivePcs, BusyPcs, Uses, Past, Claims, Ending, EndPcs
<1>10. PanicInv'
  <2>1. \A d \in Ctxs : ctx'[d].state # "unused" /\ ctx'[d].panicked => ctx'[d].u \in MayPanic
    BY DEF NewCalm, Core, PanicInv
  <2>2. \A x \in Pl : x # p /\ Uses(fr[x]) /\ ~Ending(fr[x]) /\ fr[x].c \in Ctxs => (ctx'[fr[x].c].panicked <=> ctx[fr[x].c].panicked)
    BY <1>3 DEF NewCalm, Good, UsedInv
  <2> QED BY <1>4, <1>9, <2>1, <2>2, PanicMove DEF Core
<1>11. \A x \in Pl : Uses(fr'[x]) /\ ~Ending(fr'[x]) => On(fr'[x].c, ctxes')
  <2> SUFFICES ASSUME NEW x \in Pl, Uses(fr'[x]), ~Ending(fr'[x])
               PROVE  On(fr'[x].c, ctxes')
    OBVIOUS
  <2>1. fr'[x] = fr[x]
    BY <1>5, <1>9
  <2>2. fr[x].c \in Ctxs
    BY <1>3, <2>1, FrameSays DEF Good
  <2> QED BY <2>1, <2>2 DEF Core, WholeInv
<1>12. \A x, y \in Pl : Ending(fr'[x]) /\ Ending(fr'[y]) /\ fr'[x].c = fr'[y].c => x = y
  BY <1>5, <1>9 DEF Core, WholeInv
<1>13. ASSUME NEW r \in Sessions, sess'[r].state = "live", sess'[r].ctx # NoCtx
       PROVE  \/ On(sess'[r].ctx, ctxes')
              \/ \E y \in Pl : fr'[y].op = "invoke" /\ Ending(fr'[y]) /\ fr'[y].s = r
  <2>1. CASE r = s
    BY <1>1, <2>1 DEF Opened
  <2>2. CASE r # s
    <3>1. sess'[r] = sess[r]
      BY <1>1, <2>2 DEF Opened
    <3>2. sess[r].ctx \in Ctxs
      BY <1>3, <1>13, <3>1 DEF TypeOK, Session
    <3>3. CASE On(sess[r].ctx, ctxes)
      BY <3>1, <3>2, <3>3
    <3>4. CASE ~On(sess[r].ctx, ctxes)
      <4>1. PICK y \in Pl : fr[y].op = "invoke" /\ Ending(fr[y]) /\ fr[y].s = r
        BY <1>13, <3>1, <3>4 DEF Core, WholeInv
      <4>2. fr'[y] = fr[y]
        BY <1>5, <1>8, <4>1
      <4> QED BY <4>1, <4>2
    <3> QED BY <3>3, <3>4
  <2> QED BY <2>1, <2>2
<1>14. WholeInv'
  BY <1>11, <1>12, <1>13 DEF WholeInv
<1> QED BY <1>6, <1>7, <1>10, <1>14 DEF Core

\* tee_ta_init_session_with_context keeps Core ...
LEMMA OpenReuseCore ==
    ASSUME AInv, AInv', fault' = "none", Core, NEW t \in Threads, OpenReuse(t)
    PROVE  Core'
<1>1. PICK c : c = CtxFind(Top(t).u)
  OBVIOUS
<1>2. /\ fault = "none" /\ stack[t] # <<>> /\ Top(t).pc = "open_init" /\ Shareable(c)
      /\ "multi" \in CtxFlags(c) \/ ctx[c].ref = 0
      /\ ctx' = [ctx EXCEPT ![c].ref = @ + 1] /\ NewSession(t, c)
      /\ UNCHANGED <<ctxes, usable>>
  BY <1>1 DEF OpenReuse, At
<1>3. TypeOK /\ Good
  BY <1>2, AtSays
<1>4. c \in Ctxs /\ On(c, ctxes)
  BY <1>1, <1>2, <1>3, CtxFindIs DEF Shareable
<1>5. PICK e : e = [ctx[c] EXCEPT !.ref = @ + 1]
  OBVIOUS
<1>6. ctx \in [Ctxs -> Context] /\ ctx[c] \in Context
  BY <1>3, <1>4 DEF TypeOK
<1>7. e.u = ctx[c].u /\ e.ref = ctx[c].ref + 1 /\ e.loaded = ctx[c].loaded
  BY <1>5, <1>6 DEF Context
<1>8. e.panicked = ctx[c].panicked
  BY <1>5, <1>6 DEF Context
<1>9. ctx'[c] = e /\ \A d \in Ctxs : d # c => ctx'[d] = ctx[d]
  BY <1>2, <1>4, <1>5, <1>6
<1>10. ctx[c].state = "live" /\ ctx[c].loaded /\ ("multi" \notin Flags[ctx[c].u] => ctx[c].ref = 0)
  <2>1. Shareable(c) /\ ("multi" \in CtxFlags(c) \/ ctx[c].ref = 0)
    BY <1>2
  <2>2. ctx[c].state = "live"
    BY <1>3, <1>4 DEF Good, UsedInv
  <2>3. "single" \in CtxFlags(c)
    BY <2>1 DEF Shareable
  <2>4. ctx[c].loaded
    BY <2>3 DEF CtxFlags
  <2>5. CtxFlags(c) = Flags[ctx[c].u]
    BY <2>4 DEF CtxFlags
  <2> QED BY <2>1, <2>2, <2>4, <2>5
<1>11. NewCalm(c)
  <2>1. ctx'[c].panicked <=> ctx[c].panicked
    BY <1>8, <1>9
  <2>2. ctx'[c].panicked => ctx'[c].u \in MayPanic
    BY <1>4, <1>7, <1>9, <1>10, <2>1 DEF Core, PanicInv
  <2>3. "multi" \notin Flags[ctx'[c].u] \/ ~ctx'[c].loaded => ctx'[c].ref <= 1
    <3>1. ctx'[c].u = ctx[c].u /\ ctx'[c].ref = ctx[c].ref + 1
      BY <1>7, <1>9
    <3>2. ctx'[c].loaded
      BY <1>7, <1>9, <1>10, Zenon
    <3>3. ctx[c].ref = 0 => ctx'[c].ref <= 1
      BY <3>1
    <3> QED BY <1>10, <3>1, <3>2, <3>3
  <2> QED BY <2>1, <2>2, <2>3 DEF NewCalm
<1>12. fault = "none" /\ stack[t] # <<>> /\ Top(t).pc = "open_init" /\ NewSession(t, c) /\ UNCHANGED <<ctxes, usable>>
  BY <1>2
<1> QED BY <1>4, <1>9, <1>11, <1>12, NewCore

\* ... and so does a new context.
LEMMA OpenLoadCore ==
    ASSUME AInv, AInv', fault' = "none", Core, NEW t \in Threads, OpenLoad(t)
    PROVE  Core'
<1>1. PICK c \in Ctxs : Loads(t, c)
  BY OpenLoadIs
<1>2. /\ fault = "none" /\ stack[t] # <<>> /\ Top(t).pc = "open_init" /\ NewSession(t, c)
      /\ UNCHANGED usable /\ ctx[c].state = "unused" /\ ctxes' = Append(ctxes, c)
      /\ (\A d \in Ctxs : d # c => ctx'[d] = ctx[d])
  BY <1>1 DEF Loads
<1>3. ctx'[c].ref = 1 /\ ~ctx'[c].panicked
  BY <1>1 DEF Loads
<1>4. ctxes \in Seq(Ctxs)
  BY DEF AInv, TypeOK
<1>5. \A d \in Ctxs : On(d, ctxes') <=> On(d, ctxes) \/ d = c
  BY <1>2, <1>4, OnAppend
<1>6. NewCalm(c)
  BY <1>2, <1>3 DEF NewCalm
<1> QED BY <1>2, <1>5, <1>6, NewCore

\* Nothing is open at first.
LEMMA InitCore == ASSUME Init PROVE Core
<1>1. \A x \in Pl : fr[x] = Null
  BY InitFr
<1>2. ~Act(Null) /\ ~HalfOpen(Null) /\ Null.pc \notin LivePcs /\ Null.pc # "inv_destroy" /\ ~Ending(Null) /\ ~Uses(Null)
  BY NullSays, ActSays
<1>3. usable = {} /\ (\A s \in Sessions : sess[s] = NullSession) /\ (\A c \in Ctxs : ctx[c] = NullContext)
  BY DEF Init
<1>4. (\A s \in Sessions : sess[s].state = "unused") /\ (\A c \in Ctxs : ctx[c].state = "unused")
  BY <1>3 DEF NullSession, NullContext
<1>5. ActInv
  BY <1>1, <1>2, <1>3 DEF ActInv, StakeInv, ApartInv, CloseInv, OpenInv, UsableInv
<1>6. OnceInv /\ PanicInv /\ WholeInv
  BY <1>1, <1>2, <1>4 DEF OnceInv, PanicInv, WholeInv
<1> QED BY <1>5, <1>6 DEF Core

\* Whoever takes a step has not seen a fault.
LEMMA StepsGo ==
    ASSUME NEW t \in Threads, Step(t) \/ CallOpen(t) \/ CallInvoke(t) \/ CallClose(t)
    PROVE  fault = "none"
<1>1. \A pc : At(t, pc) => fault = "none"
  BY DEF At
<1>2. CanCall(t) => fault = "none"
  BY DEF CanCall
<1>3. Exclusive(t) => fault = "none"
  BY <1>1 DEF Exclusive
<1>4. CASE CallOpen(t) \/ CallInvoke(t) \/ CallClose(t)
  BY <1>2, <1>4 DEF CallOpen, CallInvoke, CallClose
<1>5. CASE OpenReuse(t) \/ OpenLoad(t) \/ OpenFails(t) \/ OpenChk(t) \/ OpenPut(t)
  BY <1>1, <1>5 DEF OpenReuse, OpenLoad, OpenFails, OpenChk, OpenPut
<1>6. CASE BusyConcurrent(t) \/ BusyWait(t) \/ SiWait(t) \/ BusyGranted(t) \/ BusyRefused(t) \/ ClearConcurrent(t) \/ ClearBusy(t)
  BY <1>1, <1>3, <1>6 DEF BusyConcurrent, BusyWait, SiWait, BusyGranted, BusyRefused, ClearConcurrent, ClearBusy
<1>7. CASE EnterTa(t) \/ TaReturn(t) \/ TaPanic(t)
  BY <1>1, <1>7 DEF EnterTa, TaReturn, TaPanic
<1>8. CASE Find(t) \/ GetNothing(t) \/ Get(t) \/ GetWoken(t) \/ Put(t)
  BY <1>1, <1>8 DEF Find, GetNothing, Get, GetWoken, Put
<1>9. CASE InvChk(t) \/ InvPost(t) \/ DestroyTaCtx(t)
  BY <1>1, <1>9 DEF InvChk, InvPost, DestroyTaCtx
<1>10. CASE CloseChk(t) \/ Unlink(t) \/ UnlinkWoken(t) \/ Release(t)
  BY <1>1, <1>10 DEF CloseChk, Unlink, UnlinkWoken, Release
<1>11. CASE Destroy(t) \/ Drain(t) \/ FreeCtx(t)
  BY <1>1, <1>11 DEF Destroy, Drain, FreeCtx
<1>12. CASE CheckParamsFails(t)
  BY <1>1, <1>12 DEF CheckParamsFails
<1> QED BY <1>4, <1>5, <1>6, <1>7, <1>8, <1>9, <1>10, <1>11, <1>12 DEF Step

\* Every step of the core keeps Core.
LEMMA StepCore ==
    ASSUME AInv, AInv', fault = "none", fault' = "none", Core, Disciplined, NEW t \in Threads, Step(t)
    PROVE  Core'
<1>1. CASE OpenReuse(t) \/ OpenLoad(t) \/ OpenFails(t) \/ OpenChk(t) \/ OpenPut(t)
  BY <1>1, OpenReuseCore, OpenLoadCore, NothingCore, OpenChkCore, OpenPutCore
<1>2. CASE BusyConcurrent(t) \/ BusyWait(t) \/ SiWait(t) \/ BusyGranted(t) \/ BusyRefused(t) \/ ClearConcurrent(t) \/ ClearBusy(t)
  BY <1>2, BusyCore, ClearCore
<1>3. CASE EnterTa(t) \/ TaReturn(t) \/ TaPanic(t)
  BY <1>3, TaCore, TaPanicCore
<1>4. CASE Find(t) \/ GetNothing(t) \/ Get(t) \/ GetWoken(t) \/ Put(t)
  BY <1>4, NothingCore, GetCore, GetWokenCore, PutCore
<1>5. CASE InvChk(t) \/ InvPost(t) \/ DestroyTaCtx(t)
  BY <1>5, InvChkCore, PostCore, DestroyTaCtxCore
<1>6. CASE CloseChk(t) \/ Unlink(t) \/ UnlinkWoken(t) \/ Release(t)
  BY <1>6, CloseChkCore, UnlinkCore, UnlinkWokenCore, ReleaseCore
<1>7. CASE Destroy(t) \/ Drain(t) \/ FreeCtx(t)
  BY <1>7, PostCore, DrainCore, FreeCtxCore
<1>8. ~CheckParamsFails(t)
  BY DEF CheckParamsFails, Disciplined
<1> QED BY <1>1, <1>2, <1>3, <1>4, <1>5, <1>6, <1>7, <1>8 DEF Step

\* Core holds until a fault.
CoreInv == fault = "none" => Core

\* Every step keeps it.
LEMMA NextCore ==
    ASSUME AInv, CoreInv, Disciplined, [Next]_vars
    PROVE  CoreInv'
<1> SUFFICES ASSUME fault' = "none"
             PROVE  Core'
  BY DEF CoreInv
<1>1. AInv'
  BY NextA
<1>2. CASE Next
  <2>1. PICK t \in Threads : Step(t) \/ CallOpen(t) \/ CallInvoke(t) \/ CallClose(t)
    BY <1>2 DEF Next
  <2>2. fault = "none" /\ Core
    BY <2>1, StepsGo DEF CoreInv
  <2> QED BY <1>1, <2>1, <2>2, StepCore, CallOpenCore, CallInvokeCore, CallCloseCore
<1>3. CASE UNCHANGED vars
  <2>1. UNCHANGED <<sess, ctx, ctxes, lists, stack, usable, fault>>
    BY <1>3 DEF vars
  <2> QED BY <2>1, CoreStill DEF CoreInv
<1> QED BY <1>2, <1>3

\* For disciplined clients, CoreInv is an invariant, next to AInv.
THEOREM CoreInvariance == Disciplined => (Spec => [](AInv /\ CoreInv))
<1> SUFFICES ASSUME Disciplined
             PROVE  Spec => [](AInv /\ CoreInv)
  OBVIOUS
<1>1. Init => AInv /\ CoreInv
  BY InitA, InitCore DEF CoreInv
<1>2. AInv /\ CoreInv /\ [Next]_vars => (AInv /\ CoreInv)'
  BY NextA, NextCore
<1> QED BY <1>1, <1>2, PTL DEF Spec

\* Whoever goes through a context uses it, and the one of its session.
LEMMA DerefSays ==
    ASSUME NEW f \in Frame, Shape(f), f.pc \in DerefPcs
    PROVE  Uses(f) /\ ~Ending(f) /\ f.c \in Ctxs /\ (Deref(f) # f.c => Past(f) /\ Deref(f) = sess[f.s].ctx)
<1>1. f.op \in {"open", "invoke", "close", "cancel"}
  BY DEF Frame
<1>2. ~Ending(f)
  BY DEF Ending, EndPcs, DerefPcs
<1>3. Past(f) \/ Claims(f)
  BY <1>1 DEF Shape, OpenShape, InvokeShape, CloseShape, LivePcs, BusyPcs, EndPcs, DerefPcs, Past, Claims
<1>4. f.pc = "enter" \/ (f.op = "invoke" /\ f.pc \in {"clear", "inv_post", "inv_destroy"}) => Past(f)
  BY <1>1 DEF Shape, OpenShape, InvokeShape, CloseShape, LivePcs, BusyPcs, EndPcs, Past
<1>5. Uses(f) /\ f.c \in Ctxs
  BY <1>3, ShapeSays DEF Uses
<1> QED BY <1>2, <1>4, <1>5 DEF Deref

\* No thread goes through a context that another one has destroyed, whatever
\* the TAs and the interleaving of the calls, as long as clients are
\* disciplined (tee_ta_open_session, tee_ta_invoke_command,
\* tee_ta_close_session).
THEOREM NoneDangles == Disciplined => (Spec => []NoDanglingCtx)
<1>1. ASSUME AInv, CoreInv PROVE NoDanglingCtx
  <2> SUFFICES ASSUME fault = "none", NEW t \in Threads, stack[t] # <<>>
               PROVE  Valid(t)
    BY DEF NoDanglingCtx
  <2> SUFFICES ASSUME Top(t).pc \in DerefPcs
               PROVE  Deref(Top(t)) # NoCtx /\ ctx[Deref(Top(t))].state = "live"
    BY DEF Valid
  <2>1. Core
    BY <1>1 DEF CoreInv
  <2>2. PICK f : f = Top(t)
    OBVIOUS
  <2>3. TypeOK /\ Good /\ TopP(t) \in Pl /\ fr[TopP(t)] = f /\ f \in Frame /\ Shape(f)
    BY <1>1, <2>2, AtSays
  <2>4. Uses(f) /\ ~Ending(f) /\ f.c \in Ctxs /\ (Deref(f) # f.c => Past(f) /\ Deref(f) = sess[f.s].ctx)
    BY <2>2, <2>3, DerefSays
  <2>5. On(f.c, ctxes)
    BY <2>1, <2>3, <2>4 DEF Core, WholeInv
  <2>6. ctx[f.c].state = "live"
    BY <2>3, <2>4, <2>5 DEF Good, UsedInv
  <2>7. Past(f) => sess[f.s].ctx = f.c
    BY <2>3, <2>5 DEF Good, LinkInv
  <2>8. NoCtx \notin Ctxs
    BY TaManagerAssumption DEF Ctxs
  <2> QED BY <2>2, <2>4, <2>6, <2>7, <2>8
<1> QED BY <1>1, CoreInvariance, PTL

\* One thread at a time runs in a TA that is not concurrent, and none in a TA
\* that panicked, as long as clients are disciplined (tee_ta_try_set_busy,
\* destroy_ta_ctx_from_session).
THEOREM OneThreadRuns == Disciplined => (Spec => []OneThreadPerTa)
<1>1. ASSUME AInv, CoreInv, TaExclusive PROVE OneThreadPerTa
  <2> SUFFICES ASSUME fault = "none", NEW t \in Threads, NEW f \in Frames(t), f.pc = "in_ta"
               PROVE  ~ctx[f.c].panicked
    BY <1>1 DEF OneThreadPerTa
  <2>1. PICK x \in Pl : fr[x] = f
    BY <1>1, FramesAre DEF AInv
  <2>2. fr[x].pc \in LivePcs
    BY <2>1 DEF LivePcs
  <2>3. PanicInv
    BY <1>1 DEF CoreInv, Core
  <2> QED BY <2>1, <2>2, <2>3 DEF PanicInv
<1> QED BY <1>1, CoreInvariance, OneThreadInTa, PTL

\* f opens a session and has yet to enter the TA.
Starts(f) == f.op = "open" /\ f.pc \in BusyPcs \cup {"open_chk", "enter"}

\* With contexts C and sessions S: the TA that f is about to enter for an open
\* has its flags, or its context is still marked as initializing.
Begun(C, S, f) == Starts(f) /\ S[f.s].ctx \in Ctxs => C[S[f.s].ctx].loaded \/ C[S[f.s].ctx].initializing

\* With contexts C: f waits for the single-instance lock only if the TA is a
\* single-instance one, and for the busy flag alone only if it is not.
Queued(C, f) == (f.pc = "wait_si" => SingleIn(C[f.c])) /\ (f.pc = "wait_busy" => ~SingleIn(C[f.c]))

\* With contexts C: f is a call into a single-instance TA that the lock counts.
Counted(C, f) == HoldsBusy(f) /\ SingleIn(C[f.c]) /\ ~C[f.c].initializing /\ NonConc(C[f.c])

\* The places of those calls.
Holders(C, F) == {x \in Pl : Counted(C, F[x])}

\* The first open is under way where it has to be, ...
BegunInv == \A x \in Pl : Begun(ctx, sess, fr[x])
\* ... calls wait for the right thing, ...
QueueInv == \A x \in Pl : Queued(ctx, fr[x])
\* ... a TA that is loaded stays busy until its first open has come back, ...
FirstInv == \A c \in Ctxs : ctx[c].state # "unused" /\ ctx[c].loaded /\ ctx[c].initializing => ctx[c].busy
\* ... and the lock counts the calls of its thread.
SiInv == /\ IsFiniteSet(Holders(ctx, fr)) /\ Cardinality(Holders(ctx, fr)) = si.count
         /\ \A x \in Holders(ctx, fr) : x[1] = si.thread
         /\ si.count = 0 <=> si.thread = NoThread

\* What holds of the single-instance lock, until a fault.
Turn == BegunInv /\ QueueInv /\ FirstInv /\ SiInv

\* A step may make new contexts, and sets no more than the busy flag of the
\* others.
CtxSteady == \A c \in Ctxs :
    /\ ctx[c].state # "unused" => /\ ctx'[c].u = ctx[c].u /\ (ctx'[c].loaded <=> ctx[c].loaded)
                                  /\ (ctx'[c].initializing <=> ctx[c].initializing) /\ (ctx[c].busy => ctx'[c].busy)
    /\ ctx'[c].state # "unused" /\ ctx'[c].loaded /\ ctx'[c].initializing => ctx[c].state # "unused"

\* Sessions that are live keep their context or lose it.
SessFade == \A s \in Sessions : sess[s].state = "live" => sess'[s].ctx \in {sess[s].ctx, NoCtx}

\* Whoever waits for a TA or has set its busy flag uses an allocated context.
LEMMA BusyUses ==
    ASSUME AInv, fault = "none", NEW x \in Pl, fr[x].pc \in BusyPcs \/ HoldsBusy(fr[x])
    PROVE  Uses(fr[x]) /\ ~Ending(fr[x]) /\ fr[x].c \in Ctxs /\ ctx[fr[x].c].state # "unused"
<1>1. TypeOK /\ Good
  BY DEF AInv
<1>2. PICK f : f = fr[x]
  OBVIOUS
<1>3. Shape(f)
  BY <1>1, <1>2 DEF Good, ShapeInv
<1>4. f.pc \in BusyPcs => f \in Frame /\ f.pc \in DerefPcs
  <2>1. f.pc \in BusyPcs => f # Null
    BY DEF BusyPcs, Null
  <2> QED BY <1>3, <2>1, ShapeSays DEF BusyPcs, DerefPcs
<1>5. f.pc \in BusyPcs => Uses(f) /\ ~Ending(f)
  BY <1>3, <1>4, DerefSays
<1>6. HoldsBusy(f) => Uses(f) /\ ~Ending(f)
  <2>1. HoldsBusy(f) => ~Ending(f)
    BY DEF HoldsBusy, Ending, EndPcs
  <2> QED BY <1>3, <2>1, ShapeSays DEF Uses
<1>7. Uses(f) /\ ~Ending(f) /\ f.c \in Ctxs
  BY <1>2, <1>3, <1>5, <1>6, ShapeSays
<1> QED BY <1>1, <1>2, <1>7 DEF Good, UsedInv

\* The same flags say the same.
LEMMA FlagsSame ==
    ASSUME NEW e, NEW d, e.u = d.u, e.loaded <=> d.loaded
    PROVE  (SingleIn(e) <=> SingleIn(d)) /\ (NonConc(e) <=> NonConc(d))
BY DEF SingleIn, NonConc, FlagsIn

\* A step that leaves the flags alone keeps what Turn says of the flags.
LEMMA TurnRest ==
    ASSUME AInv, fault = "none", Turn, NEW p, NEW g, Moved(p, g), CtxSteady, SessFade,
           Queued(ctx', g), Begun(ctx', sess', g)
    PROVE  BegunInv' /\ QueueInv' /\ FirstInv'
<1>1. TypeOK /\ Good /\ BegunInv /\ QueueInv /\ FirstInv /\ SiInv
  BY DEF AInv, Turn
<1>2. p \in Pl /\ fr'[p] = g /\ \A x \in Pl : x # p => fr'[x] = fr[x]
  BY DEF Moved
<1>3. \A c \in Ctxs : ctx[c].state # "unused" =>
          (SingleIn(ctx'[c]) <=> SingleIn(ctx[c])) /\ (NonConc(ctx'[c]) <=> NonConc(ctx[c])) /\ (ctx'[c].initializing <=> ctx[c].initializing)
  BY FlagsSame DEF CtxSteady
<1>4. QueueInv'
  <2> SUFFICES ASSUME NEW x \in Pl PROVE Queued(ctx', fr'[x])
    BY DEF QueueInv
  <2>1. CASE x = p
    BY <1>2, <2>1
  <2>2. CASE x # p
    <3>1. fr'[x] = fr[x] /\ Queued(ctx, fr[x])
      BY <1>1, <1>2, <2>2 DEF QueueInv
    <3>2. fr[x].pc \in {"wait_si", "wait_busy"} => fr[x].c \in Ctxs /\ ctx[fr[x].c].state # "unused"
      BY BusyUses DEF BusyPcs
    <3> QED BY <1>3, <3>1, <3>2 DEF Queued
  <2> QED BY <2>1, <2>2
<1>5. FirstInv'
  BY <1>1 DEF FirstInv, CtxSteady
<1>6. BegunInv'
  <2> SUFFICES ASSUME NEW x \in Pl PROVE Begun(ctx', sess', fr'[x])
    BY DEF BegunInv
  <2>1. CASE x = p
    BY <1>2, <2>1
  <2>2. CASE x # p
    <3>1. fr'[x] = fr[x] /\ Begun(ctx, sess, fr[x])
      BY <1>1, <1>2, <2>2 DEF BegunInv
    <3>2. PICK f : f = fr[x]
      OBVIOUS
    <3> SUFFICES ASSUME Starts(f), sess'[f.s].ctx \in Ctxs
                 PROVE  ctx'[sess'[f.s].ctx].loaded \/ ctx'[sess'[f.s].ctx].initializing
      BY <3>1, <3>2 DEF Begun
    <3>3. HalfOpen(f)
      BY DEF Starts, HalfOpen, BusyPcs
    <3>4. Ref(f)
      BY <3>3 DEF HalfOpen, Ref
    <3>5. f.s \in Sessions /\ sess[f.s].state = "live"
      BY <1>1, <3>2, <3>4, FrameSays DEF Good
    <3>6. NoCtx \notin Ctxs
      BY TaManagerAssumption DEF Ctxs
    <3>7. sess'[f.s].ctx = sess[f.s].ctx
      BY <3>5, <3>6 DEF SessFade
    <3>8. PICK c \in Ctxs : c = sess[f.s].ctx
      BY <3>7
    <3>9. ctx[c].state # "unused"
      BY <1>1, <3>5, <3>6, <3>8 DEF Good, UsedInv
    <3>10. ctx[c].loaded \/ ctx[c].initializing
      BY <3>1, <3>2, <3>8 DEF Begun
    <3>11. ctx'[c].loaded \/ ctx'[c].initializing
      BY <3>9, <3>10 DEF CtxSteady
    <3> QED BY <3>7, <3>8, <3>11
  <2> QED BY <2>1, <2>2
<1> QED BY <1>4, <1>5, <1>6

\* Calls that others make are counted as before.
LEMMA CountedSame ==
    ASSUME AInv, fault = "none", CtxSteady, NEW x \in Pl
    PROVE  Counted(ctx', fr[x]) <=> Counted(ctx, fr[x])
<1>1. \A c \in Ctxs : ctx[c].state # "unused" =>
          (SingleIn(ctx'[c]) <=> SingleIn(ctx[c])) /\ (NonConc(ctx'[c]) <=> NonConc(ctx[c])) /\ (ctx'[c].initializing <=> ctx[c].initializing)
  BY FlagsSame DEF CtxSteady
<1>2. HoldsBusy(fr[x]) => fr[x].c \in Ctxs /\ ctx[fr[x].c].state # "unused"
  BY BusyUses
<1> QED BY <1>1, <1>2 DEF Counted

\* A step that leaves flags and the lock alone keeps Turn if its call does.
LEMMA TurnQuiet ==
    ASSUME AInv, fault = "none", Turn, NEW p, NEW g, Moved(p, g), UNCHANGED si, CtxSteady, SessFade,
           Counted(ctx', g) <=> Counted(ctx, fr[p]), Queued(ctx', g), Begun(ctx', sess', g)
    PROVE  Turn'
<1>1. SiInv
  BY DEF Turn
<1>2. p \in Pl /\ fr'[p] = g /\ \A x \in Pl : x # p => fr'[x] = fr[x]
  BY DEF Moved
<1>3. \A x \in Pl : Counted(ctx', fr'[x]) <=> Counted(ctx, fr[x])
  BY <1>2, CountedSame
<1>4. Holders(ctx', fr') = Holders(ctx, fr)
  BY <1>3 DEF Holders
<1>5. SiInv'
  BY <1>1, <1>4 DEF SiInv
<1> QED BY <1>5, TurnRest DEF Turn

\* f is neither in a TA nor about to enter one, nor does it wait.
Aside(f) == ~HoldsBusy(f) /\ f.pc \notin {"wait_si", "wait_busy"} /\ ~Starts(f)

\* A step between such places keeps Turn.
LEMMA TurnAside ==
    ASSUME AInv, fault = "none", Turn, NEW p, NEW g, Moved(p, g), UNCHANGED si, CtxSteady, SessFade,
           ~HoldsBusy(fr[p]), Aside(g)
    PROVE  Turn'
<1>1. (Counted(ctx', g) <=> Counted(ctx, fr[p])) /\ Queued(ctx', g) /\ Begun(ctx', sess', g)
  BY DEF Aside, Counted, Queued, Begun
<1> QED BY <1>1, TurnQuiet

\* What leaves the contexts and sessions alone does what these lemmas ask.
LEMMA SteadySame ==
    /\ UNCHANGED ctx => CtxSteady
    /\ UNCHANGED sess => SessFade
    /\ SessLike => SessFade
BY DEF CtxSteady, SessFade, SessLike

\* The frame that replaces the innermost one is a frame.
LEMMA SetMoves ==
    ASSUME AInv, AInv', fault = "none", NEW t \in Threads, stack[t] # <<>>, NEW g, SetTop(t, g)
    PROVE  g \in Frame /\ Moved(TopP(t), g)
<1>1. stack \in [Threads -> Seq(Frame)] /\ stack' \in [Threads -> Seq(Frame)]
  BY DEF AInv, TypeOK
<1>2. PICK l \in Seq(Frame) : l = stack[t]
  BY <1>1
<1>3. Len(l) \in Nat \ {0} /\ Len(l) \in DOMAIN l
  BY <1>2
<1>4. stack'[t] = [l EXCEPT ![Len(l)] = g]
  BY <1>1, <1>2 DEF SetTop
<1>5. stack'[t][Len(l)] = g /\ Len(stack'[t]) = Len(l)
  BY <1>1, <1>3, <1>4
<1>6. g \in Frame
  BY <1>1, <1>3, <1>5
<1>7. Moved(TopP(t), g)
  BY <1>1, <1>6, MoveSet
<1> QED BY <1>6, <1>7

\* Where a call is that has neither to do with the busy flag nor with waiting.
OutPcs == {"open_init", "open_put", "find", "get", "wait_lock", "put", "inv_chk", "inv_post", "inv_destroy", "close_chk",
           "release", "wait_init", "destroy", "drain"}

\* There it is aside.
LEMMA OutAside ==
    ASSUME NEW f, f.pc \in OutPcs, f.pc = "wait_init" => f.op # "open"
    PROVE  Aside(f) /\ ~HoldsBusy(f)
BY DEF OutPcs, Aside, HoldsBusy, Starts, BusyPcs

\* So it is when there is no call at all.
LEMMA NullAside == Aside(Null) /\ ~HoldsBusy(Null)
BY DEF Null, Aside, HoldsBusy, Starts

\* The innermost call goes aside ...
LEMMA AsideSet ==
    ASSUME AInv, AInv', fault = "none", Turn, NEW t \in Threads, stack[t] # <<>>, NEW g, SetTop(t, g),
           UNCHANGED si, CtxSteady, SessFade, ~HoldsBusy(Top(t)), Aside(g)
    PROVE  Turn'
<1>1. Moved(TopP(t), g)
  BY SetMoves
<1>2. fr[TopP(t)] = Top(t)
  BY AtSays
<1> QED BY <1>1, <1>2, TurnAside

\* ... or returns ...
LEMMA AsidePop ==
    ASSUME AInv, fault = "none", Turn, NEW t \in Threads, stack[t] # <<>>, Return(t),
           UNCHANGED si, CtxSteady, SessFade, ~HoldsBusy(Top(t))
    PROVE  Turn'
<1>1. stack \in [Threads -> Seq(Frame)] /\ fr[TopP(t)] = Top(t)
  BY AtSays
<1>2. Moved(TopP(t), Null)
  BY <1>1, MovePop
<1> QED BY <1>1, <1>2, NullAside, TurnAside

\* ... or a new one begins.
LEMMA AsidePush ==
    ASSUME AInv, fault = "none", Turn, NEW t \in Threads, NEW g \in Frame, Push(t, g),
           UNCHANGED <<si, ctx, sess>>, g.pc \in {"open_init", "find", "get"}
    PROVE  Turn'
<1>1. stack \in [Threads -> Seq(Frame)]
  BY DEF AInv, TypeOK
<1>2. PICK p \in Pl : Moved(p, g) /\ fr[p] = Null
  BY <1>1, MovePush
<1>3. Aside(g) /\ CtxSteady /\ SessFade
  BY OutAside, SteadySame DEF OutPcs
<1> QED BY <1>2, <1>3, NullAside, TurnAside

\* Calls by clients and by free_utc.
LEMMA CallTurn ==
    ASSUME AInv, Turn, NEW t \in Threads, CallOpen(t) \/ CallInvoke(t) \/ CallClose(t) \/ Drain(t)
    PROVE  Turn'
<1>1. AInv'
  BY CallOpenA, CallInvokeA, CallCloseA, DrainA
<1>2. stack' \in [Threads -> Seq(Frame)] /\ stack \in [Threads -> Seq(Frame)]
  BY <1>1 DEF AInv, TypeOK
<1>3. UNCHANGED <<si, ctx, sess>> /\ fault = "none"
  BY DEF CallOpen, CallInvoke, CallClose, Drain, CanCall, At
<1>4. \E g : Push(t, g) /\ g.pc \in {"open_init", "find", "get"}
  <2>1. CASE CallOpen(t)
    <3>1. PICK u \in Uuids : Push(t, Call("open", Caller(t), u, 0))
      BY <2>1 DEF CallOpen
    <3>2. Call("open", Caller(t), u, 0).pc = "open_init"
      BY DEF Call
    <3> QED BY <3>1, <3>2
  <2>2. CASE CallInvoke(t)
    <3>1. PICK s \in usable, op \in {"invoke", "cancel"} : Push(t, Call(op, Caller(t), AnyUuid, sess[s].id))
      BY <2>2 DEF CallInvoke
    <3>2. Call(op, Caller(t), AnyUuid, sess[s].id).pc = "get"
      BY DEF Call
    <3> QED BY <3>1, <3>2
  <2>3. CASE CallClose(t)
    <3>1. PICK s \in usable : Push(t, Call("close", Caller(t), AnyUuid, sess[s].id))
      BY <2>3 DEF CallClose
    <3>2. Call("close", Caller(t), AnyUuid, sess[s].id).pc = "find"
      BY DEF Call
    <3> QED BY <3>1, <3>2
  <2>4. CASE Drain(t)
    <3>1. PICK h, c, u, id : h = Call("close", c, u, id) /\ Push(t, [h EXCEPT !.pc = "get"])
      BY <2>4 DEF Drain
    <3>2. [h EXCEPT !.pc = "get"].pc = "get"
      BY <3>1 DEF Call
    <3> QED BY <3>1, <3>2
  <2> QED BY <2>1, <2>2, <2>3, <2>4
<1>5. PICK g : Push(t, g) /\ g.pc \in {"open_init", "find", "get"}
  BY <1>4
<1>6. g \in Frame
  <2>1. PICK l \in Seq(Frame) : l = stack[t]
    BY <1>2
  <2>2. stack'[t] = Append(l, g)
    BY <1>2, <1>5, <2>1 DEF Push
  <2>3. stack'[t] \in Seq(Frame) /\ Len(l) \in Nat /\ Len(stack'[t]) = Len(l) + 1 /\ stack'[t][Len(l) + 1] = g
    BY <1>2, <2>1, <2>2
  <2> QED BY <2>3
<1> QED BY <1>3, <1>5, <1>6, AsidePush

\* Returning with nothing done, and getting and putting a session.
LEMMA NothingTurn ==
    ASSUME AInv, AInv', Turn, NEW t \in Threads, OpenFails(t) \/ Find(t) \/ GetNothing(t)
    PROVE  Turn'
<1>1. fault = "none" /\ stack[t] # <<>> /\ UNCHANGED <<si, ctx, sess>> /\ Top(t).pc \in {"open_init", "find", "get"}
  BY DEF OpenFails, Find, GetNothing, At
<1>2. Return(t) \/ SetTop(t, [Top(t) EXCEPT !.pc = "get"])
  BY DEF OpenFails, Find, GetNothing, Goto
<1>3. Top(t) \in Frame
  BY <1>1, AtSays
<1>4. PICK g : g = [Top(t) EXCEPT !.pc = "get"]
  OBVIOUS
<1>5. g.pc = "get"
  BY <1>3, <1>4 DEF Frame
<1>6. Aside(g) /\ ~HoldsBusy(Top(t)) /\ CtxSteady /\ SessFade
  BY <1>1, <1>5, OutAside, SteadySame DEF OutPcs
<1> QED BY <1>1, <1>2, <1>4, <1>6, AsideSet, AsidePop

\* What the operations do to a session leaves its context, or takes it away.
LEMMA FadeOf ==
    ASSUME TypeOK, NEW s, NEW k, NEW l
    PROVE  /\ sess' = [sess EXCEPT ![s].ref = k] => SessFade
           /\ sess' = [sess EXCEPT ![s].lock = l] => SessFade
           /\ sess' = [sess EXCEPT ![s].ref = k, ![s].lock = l] => SessFade
           /\ sess' = [sess EXCEPT ![s].unlink = TRUE] => SessFade
           /\ sess' = [sess EXCEPT ![s].state = "freed"] => SessFade
           /\ sess' = [[sess EXCEPT ![s].unlink = TRUE] EXCEPT ![s].state = "freed"] => SessFade
           /\ sess' = [sess EXCEPT ![s].ctx = NoCtx] => SessFade
<1>1. sess \in [Sessions -> Session]
  BY DEF TypeOK
<1> QED BY <1>1 DEF SessFade, Session

\* tee_ta_get_session keeps Turn, ...
LEMMA GetTurn ==
    ASSUME AInv, AInv', Turn, NEW t \in Threads, Get(t)
    PROVE  Turn'
<1>1. PICK f : f = Top(t)
  OBVIOUS
<1>2. PICK s : s = FindIn(lists[f.own], f.id)
  OBVIOUS
<1>3. PICK l : l = IF f.op # "cancel" THEN t ELSE sess[s].lock
  OBVIOUS
<1>4. PICK n : n = sess[s].ref + 1
  OBVIOUS
<1>5. fault = "none" /\ stack[t] # <<>> /\ UNCHANGED <<ctx, si>> /\ f.pc = "get"
  BY <1>1 DEF Get, At
<1>6. f \in Frame /\ Shape(f) /\ TypeOK
  BY <1>1, <1>5, AtSays
<1>7. f.op \in {"invoke", "close", "cancel"}
  BY <1>5, <1>6 DEF Shape, OpenShape, LivePcs, BusyPcs, Frame
<1>8. SessFade
  <2>1. \/ sess' = [sess EXCEPT ![s].ref = n]
        \/ sess' = [sess EXCEPT ![s].ref = n, ![s].lock = l]
    BY <1>1, <1>2, <1>3, <1>4 DEF Get, SessRef
  <2>2. TypeOK
    BY <1>6
  <2>3. CASE sess' = [sess EXCEPT ![s].ref = n]
    BY <2>2, <2>3, FadeOf
  <2>4. CASE sess' = [sess EXCEPT ![s].ref = n, ![s].lock = l]
    BY <2>2, <2>4, FadeOf
  <2> QED BY <2>1, <2>3, <2>4
<1>9. PICK a \in {"wait_lock", "inv_chk", "close_chk", "put"} : SetTop(t, [f EXCEPT !.s = s, !.pc = a])
  <2>1. SetTop(t, [f EXCEPT !.s = s, !.pc = "wait_lock"]) \/ SetTop(t, [f EXCEPT !.s = s, !.pc = AfterGet(f.op)])
    BY <1>1, <1>2 DEF Get
  <2>2. AfterGet(f.op) \in {"wait_lock", "inv_chk", "close_chk", "put"}
    BY <1>7 DEF AfterGet
  <2> QED BY <2>1, <2>2
<1>10. PICK g : g = [f EXCEPT !.s = s, !.pc = a]
  OBVIOUS
<1>11. g.pc = a
  BY <1>6, <1>10 DEF Frame
<1>12. Aside(g) /\ ~HoldsBusy(f) /\ CtxSteady
  BY <1>5, <1>11, OutAside, SteadySame DEF OutPcs
<1> QED BY <1>1, <1>5, <1>8, <1>9, <1>10, <1>12, AsideSet

\* ... also when it wakes up, ...
LEMMA GetWokenTurn ==
    ASSUME AInv, AInv', Turn, NEW t \in Threads, GetWoken(t)
    PROVE  Turn'
<1>1. PICK f : f = Top(t)
  OBVIOUS
<1>2. PICK n : n = sess[f.s].ref - 1
  OBVIOUS
<1>3. PICK a : a = AfterGet(f.op)
  OBVIOUS
<1>4. /\ fault = "none" /\ stack[t] # <<>> /\ f.pc = "wait_lock" /\ UNCHANGED <<ctx, si>>
      /\ \/ sess' = [sess EXCEPT ![f.s].ref = n] /\ Return(t)
         \/ UNCHANGED <<sess, stack>>
         \/ sess' = [sess EXCEPT ![f.s].lock = t] /\ SetTop(t, [f EXCEPT !.pc = a])
  <2>1. sess' = SessRef(f.s, -1) => sess' = [sess EXCEPT ![f.s].ref = n]
    BY <1>2 DEF SessRef
  <2>2. /\ fault = "none" /\ stack[t] # <<>> /\ f.pc = "wait_lock" /\ UNCHANGED <<ctx, si>>
        /\ \/ sess' = SessRef(f.s, -1) /\ Return(t)
           \/ UNCHANGED <<sess, stack>>
           \/ sess' = [sess EXCEPT ![f.s].lock = t] /\ SetTop(t, [f EXCEPT !.pc = a])
    BY <1>1, <1>3 DEF GetWoken, At, Goto
  <2> QED BY <2>1, <2>2
<1>5. f \in Frame /\ Shape(f) /\ TypeOK
  BY <1>1, <1>4, AtSays
<1>6. f.op \in {"invoke", "close"}
  BY <1>4, <1>5 DEF Shape, OpenShape, LivePcs, BusyPcs, Frame
<1>7. ~HoldsBusy(f) /\ CtxSteady
  BY <1>4, OutAside, SteadySame DEF OutPcs
<1>8. CASE sess' = [sess EXCEPT ![f.s].ref = n] /\ Return(t)
  BY <1>1, <1>4, <1>5, <1>7, <1>8, FadeOf, AsidePop
<1>9. CASE UNCHANGED <<sess, stack>>
  <2>1. fr' = fr /\ UNCHANGED <<sess, ctx, si>>
    BY <1>4, <1>9 DEF fr
  <2> QED BY <2>1 DEF Turn, BegunInv, QueueInv, FirstInv, SiInv
<1>10. CASE sess' = [sess EXCEPT ![f.s].lock = t] /\ SetTop(t, [f EXCEPT !.pc = a])
  <2>1. SessFade
    BY <1>5, <1>10, FadeOf
  <2>2. PICK g : g = [f EXCEPT !.pc = a]
    OBVIOUS
  <2>3. a \in {"inv_chk", "close_chk"}
    BY <1>3, <1>6 DEF AfterGet
  <2>4. g.pc = a
    BY <1>5, <2>2 DEF Frame
  <2>5. Aside(g)
    BY <2>3, <2>4, OutAside DEF OutPcs
  <2> QED BY <1>1, <1>4, <1>7, <1>10, <2>1, <2>2, <2>5, AsideSet
<1> QED BY <1>4, <1>8, <1>9, <1>10

\* ... and so does tee_ta_put_session.
LEMMA PutTurn ==
    ASSUME AInv, AInv', Turn, NEW t \in Threads, Put(t)
    PROVE  Turn'
<1>1. PICK s : s = Top(t).s
  OBVIOUS
<1>2. PICK l : l = IF sess[s].lock = t THEN NoThread ELSE sess[s].lock
  OBVIOUS
<1>3. PICK n : n = sess[s].ref - 1
  OBVIOUS
<1>4. fault = "none" /\ stack[t] # <<>> /\ Top(t).pc = "put" /\ Return(t) /\ UNCHANGED <<ctx, si>>
  BY DEF Put, At
<1>5. sess' = [sess EXCEPT ![s].ref = n, ![s].lock = l]
  <2>1. sess' = [sess EXCEPT ![s].ref = @ - 1, ![s].lock = IF sess[s].lock = t THEN NoThread ELSE @]
    BY <1>1 DEF Put
  <2> QED BY <1>2, <1>3, <2>1
<1>6. TypeOK
  BY DEF AInv
<1>7. SessFade
  BY <1>5, <1>6, FadeOf
<1>8. ~HoldsBusy(Top(t)) /\ CtxSteady
  BY <1>4, OutAside, SteadySame DEF OutPcs
<1> QED BY <1>4, <1>7, <1>8, AsidePop

\* The end of tee_ta_open_session keeps Turn.
LEMMA OpenPutTurn ==
    ASSUME AInv, AInv', Turn, NEW t \in Threads, OpenPut(t)
    PROVE  Turn'
<1>1. PICK f : f = Top(t)
  OBVIOUS
<1>2. PICK n : n = sess[f.s].ref - 1
  OBVIOUS
<1>3. PICK g : g = CloseInstead(f)
  OBVIOUS
<1>4. /\ fault = "none" /\ stack[t] # <<>> /\ f.pc = "open_put" /\ UNCHANGED <<ctx, si>>
      /\ SetTop(t, g) \/ Return(t)
  BY <1>1, <1>3 DEF OpenPut, At
<1>5. f \in Frame /\ TypeOK
  BY <1>1, <1>4, AtSays
<1>6. SessFade
  <2>1. sess' = [sess EXCEPT ![f.s].ref = n]
    <3>1. sess' = SessRef(f.s, -1)
      BY <1>1 DEF OpenPut
    <3> QED BY <1>2, <3>1 DEF SessRef
  <2> QED BY <1>5, <2>1, FadeOf
<1>7. g.pc = "get"
  BY <1>3, <1>5 DEF Frame, CloseInstead
<1>8. Aside(g) /\ ~HoldsBusy(f) /\ CtxSteady
  BY <1>4, <1>7, OutAside, SteadySame DEF OutPcs
<1> QED BY <1>1, <1>4, <1>6, <1>8, AsideSet, AsidePop

\* tee_ta_open_session after tee_ta_init_session keeps Turn.
LEMMA OpenChkTurn ==
    ASSUME AInv, AInv', Turn, NEW t \in Threads, OpenChk(t)
    PROVE  Turn'
<1>1. PICK f : f = Top(t)
  OBVIOUS
<1>2. PICK c : c = sess[f.s].ctx
  OBVIOUS
<1>3. /\ fault = "none" /\ stack[t] # <<>> /\ f.pc = "open_chk" /\ UNCHANGED <<sess, ctx, si>>
      /\ SetTop(t, CloseInstead(f)) \/ SetTop(t, [f EXCEPT !.c = c, !.pc = "busy"])
  BY <1>1, <1>2 DEF OpenChk, At
<1>4. f \in Frame /\ Shape(f) /\ TopP(t) \in Pl /\ fr[TopP(t)] = f
  BY <1>1, <1>3, AtSays
<1>5. ~HoldsBusy(f) /\ CtxSteady /\ SessFade
  BY <1>3, SteadySame DEF HoldsBusy
<1>6. CASE SetTop(t, CloseInstead(f))
  <2>1. PICK g : g = CloseInstead(f)
    OBVIOUS
  <2>2. g.pc = "get"
    BY <1>4, <2>1 DEF Frame, CloseInstead
  <2>3. Aside(g)
    BY <2>2, OutAside DEF OutPcs
  <2> QED BY <1>1, <1>3, <1>5, <1>6, <2>1, <2>3, AsideSet
<1>7. CASE SetTop(t, [f EXCEPT !.c = c, !.pc = "busy"])
  <2>1. PICK g : g = [f EXCEPT !.c = c, !.pc = "busy"]
    OBVIOUS
  <2>2. g.pc = "busy" /\ g.op = f.op /\ g.s = f.s
    BY <1>4, <2>1 DEF Frame
  <2>3. f.op = "open"
    BY <1>3, <1>4 DEF Shape, InvokeShape, CloseShape, LivePcs, BusyPcs, EndPcs, Frame
  <2>4. Begun(ctx, sess, f) /\ Starts(f)
    BY <1>3, <1>4, <2>3 DEF Turn, BegunInv, Starts
  <2>5. Begun(ctx', sess', g)
    BY <1>3, <2>2, <2>4 DEF Begun
  <2>6. ~Counted(ctx', g) /\ ~Counted(ctx, f) /\ Queued(ctx', g)
    BY <1>5, <2>2 DEF Counted, Queued, HoldsBusy
  <2>7. Moved(TopP(t), g)
    BY <1>3, <1>7, <2>1, SetMoves
  <2> QED BY <1>3, <1>4, <1>5, <2>5, <2>6, <2>7, TurnQuiet
<1> QED BY <1>3, <1>6, <1>7

\* What comes before and after the TA in tee_ta_invoke_command, and what comes
\* before it in tee_ta_close_session, keep Turn.
LEMMA ChkTurn ==
    ASSUME AInv, AInv', Turn, NEW t \in Threads, InvChk(t) \/ CloseChk(t) \/ InvPost(t) \/ Destroy(t)
    PROVE  Turn'
<1>1. PICK f : f = Top(t)
  OBVIOUS
<1>2. PICK c : c = sess[f.s].ctx
  OBVIOUS
<1>3. fault = "none" /\ stack[t] # <<>> /\ f.pc \in {"inv_chk", "close_chk", "inv_post", "destroy"} /\ UNCHANGED <<sess, ctx, si>>
  BY <1>1 DEF InvChk, CloseChk, InvPost, Destroy, At
<1>4. f \in Frame /\ Shape(f)
  BY <1>1, <1>3, AtSays
<1>5. ~HoldsBusy(f) /\ CtxSteady /\ SessFade /\ f.op # "open"
  <2>1. f.op # "open"
    BY <1>3, <1>4 DEF Shape, OpenShape, LivePcs, BusyPcs
  <2> QED BY <1>3, <2>1, SteadySame DEF HoldsBusy
<1>6. \E g : /\ SetTop(t, g) /\ g.op = f.op
             /\ \/ g.pc \in {"put", "inv_destroy", "busy", "drain"}
                \/ g.pc = "unlink" /\ g.via # "live"
  <2>1. CASE InvChk(t)
    <3>1. PICK a : SetTop(t, [f EXCEPT !.c = c, !.pc = a]) /\ a \in {"put", "inv_destroy", "busy"}
      BY <1>1, <1>2, <2>1 DEF InvChk
    <3>2. PICK g : g = [f EXCEPT !.c = c, !.pc = a]
      OBVIOUS
    <3>3. g.op = f.op /\ g.pc = a
      BY <1>4, <3>2 DEF Frame
    <3> QED BY <3>1, <3>2, <3>3
  <2>2. CASE CloseChk(t)
    <3>1. PICK via : /\ SetTop(t, [f EXCEPT !.c = c, !.via = via, !.pc = IF via = "live" THEN "busy" ELSE "unlink"])
                     /\ via \in {"null", "dead", "live"}
      BY <1>1, <1>2, <2>2 DEF CloseChk
    <3>2. PICK a : a = IF via = "live" THEN "busy" ELSE "unlink"
      OBVIOUS
    <3>3. PICK g : g = [f EXCEPT !.c = c, !.via = via, !.pc = a]
      OBVIOUS
    <3>4. g.op = f.op /\ g.pc = a /\ g.via = via
      BY <1>4, <3>3 DEF Frame
    <3>5. g.pc = "busy" \/ (g.pc = "unlink" /\ g.via # "live")
      BY <3>2, <3>4
    <3> QED BY <3>1, <3>2, <3>3, <3>4, <3>5
  <2>3. CASE InvPost(t) \/ Destroy(t)
    <3>1. PICK a : SetTop(t, [f EXCEPT !.pc = a]) /\ a \in {"put", "inv_destroy", "drain"}
      BY <1>1, <2>3 DEF InvPost, Destroy, Goto
    <3>2. PICK g : g = [f EXCEPT !.pc = a]
      OBVIOUS
    <3>3. g.op = f.op /\ g.pc = a
      BY <1>4, <3>2 DEF Frame
    <3> QED BY <3>1, <3>2, <3>3
  <2> QED BY <2>1, <2>2, <2>3
<1>7. PICK g : /\ SetTop(t, g) /\ g.op = f.op
               /\ \/ g.pc \in {"put", "inv_destroy", "busy", "drain"}
                  \/ g.pc = "unlink" /\ g.via # "live"
  BY <1>6
<1>8. Aside(g)
  BY <1>5, <1>7 DEF Aside, HoldsBusy, Starts
<1> QED BY <1>1, <1>3, <1>5, <1>7, <1>8, AsideSet

\* destroy_ta_ctx_from_session and the end of destroy_context keep Turn.
LEMMA DestroyTurn ==
    ASSUME AInv, AInv', Turn, NEW t \in Threads, DestroyTaCtx(t)
    PROVE  Turn'
<1>1. PICK s \in Sessions, c \in Ctxs, g \in Frame :
             /\ fault = "none" /\ stack[t] # <<>> /\ Top(t).pc = "inv_destroy" /\ Top(t).op = "invoke"
             /\ s = Top(t).s /\ c = Top(t).c /\ sess[s].ctx = c /\ ctx[c].state = "live"
             /\ SetTop(t, g) /\ UNCHANGED <<ctx, lists, si, waitq, usable>>
             /\ g.op = "invoke" /\ g.pc = "destroy" /\ g.own = Top(t).own /\ g.s = s /\ g.c = c /\ g.via = "null"
             /\ g.id = Top(t).id
             /\ fault' = IF Cardinality(Referring(c) \ {s}) + 1 = ctx[c].ref THEN "none" ELSE "assert"
             /\ sess' \in [Sessions -> Session]
             /\ \A r \in Sessions : sess'[r] = IF r \in Referring(c) \ {s} THEN [sess[r] EXCEPT !.ctx = NoCtx] ELSE sess[r]
             /\ ctxes' = Without(ctxes, {c})
  BY DestroyTaCtxIs
<1>2. SessFade
  <2>1. sess \in [Sessions -> Session]
    BY DEF AInv, TypeOK
  <2>2. ASSUME NEW r \in Sessions PROVE sess'[r].ctx \in {sess[r].ctx, NoCtx}
    <3>1. sess'[r] = [sess[r] EXCEPT !.ctx = NoCtx] \/ sess'[r] = sess[r]
      BY <1>1
    <3> QED BY <2>1, <3>1 DEF Session
  <2> QED BY <2>2 DEF SessFade
<1>3. fault = "none" /\ stack[t] # <<>> /\ SetTop(t, g) /\ UNCHANGED <<ctx, si>> /\ Top(t).pc = "inv_destroy" /\ g.pc = "destroy"
  BY <1>1
<1>4. Aside(g) /\ ~HoldsBusy(Top(t)) /\ CtxSteady
  BY <1>3, OutAside, SteadySame DEF OutPcs
<1> QED BY <1>2, <1>3, <1>4, AsideSet

\* The context changes its state or its count, and nothing else.
LEMMA SteadyOf ==
    ASSUME TypeOK, NEW c, NEW k
    PROVE  /\ ctx' = [ctx EXCEPT ![c].state = "freed"] /\ (c \in Ctxs => ctx[c].state # "unused") => CtxSteady
           /\ ctx' = [ctx EXCEPT ![c].ref = k] => CtxSteady
<1>1. ctx \in [Ctxs -> Context]
  BY DEF TypeOK
<1>2. \A d \in Ctxs : ctx[d] \in Context
  BY <1>1
<1>3. ASSUME ctx' = [ctx EXCEPT ![c].state = "freed"], c \in Ctxs => ctx[c].state # "unused" PROVE CtxSteady
  <2> SUFFICES ASSUME NEW d \in Ctxs
               PROVE /\ ctx'[d].u = ctx[d].u /\ (ctx'[d].loaded <=> ctx[d].loaded)
                     /\ (ctx'[d].initializing <=> ctx[d].initializing) /\ (ctx'[d].busy <=> ctx[d].busy)
                     /\ ctx'[d].state # "unused" => ctx[d].state # "unused"
    BY DEF CtxSteady
  <2>1. CASE d # c
    BY <1>1, <1>3, <2>1
  <2>2. CASE d = c
    <3>1. ctx'[c] = [ctx[c] EXCEPT !.state = "freed"] /\ ctx[c] \in Context
      BY <1>1, <1>2, <1>3, <2>2
    <3>2. PICK r \in Context : r = ctx[c]
      BY <3>1
    <3>3. PICK e : e = [r EXCEPT !.state = "freed"]
      OBVIOUS
    <3>4. e.u = r.u
      BY <3>3 DEF Context
    <3>5. e.loaded = r.loaded /\ e.initializing = r.initializing /\ e.busy = r.busy
      BY <3>3, Zenon DEF Context
    <3> QED BY <1>3, <2>2, <3>1, <3>2, <3>3, <3>4, <3>5
  <2> QED BY <2>1, <2>2
<1>4. ASSUME ctx' = [ctx EXCEPT ![c].ref = k] PROVE CtxSteady
  <2> SUFFICES ASSUME NEW d \in Ctxs
               PROVE /\ ctx'[d].u = ctx[d].u /\ (ctx'[d].loaded <=> ctx[d].loaded)
                     /\ (ctx'[d].initializing <=> ctx[d].initializing) /\ (ctx'[d].busy <=> ctx[d].busy)
                     /\ ctx'[d].state = ctx[d].state
    BY DEF CtxSteady
  <2>1. CASE d # c
    BY <1>1, <1>4, <2>1
  <2>2. CASE d = c
    <3>1. ctx'[c] = [ctx[c] EXCEPT !.ref = k] /\ ctx[c] \in Context
      BY <1>1, <1>2, <1>4, <2>2
    <3>2. PICK r \in Context : r = ctx[c]
      BY <3>1
    <3>3. PICK e : e = [r EXCEPT !.ref = k]
      OBVIOUS
    <3>4. e.u = r.u /\ e.state = r.state
      BY <3>3 DEF Context
    <3>5. e.loaded = r.loaded /\ e.initializing = r.initializing /\ e.busy = r.busy
      BY <3>3, Zenon DEF Context
    <3> QED BY <2>2, <3>1, <3>2, <3>3, <3>4, <3>5
  <2> QED BY <2>1, <2>2
<1> QED BY <1>3, <1>4

\* The end of destroy_context keeps Turn, ...
LEMMA FreeCtxTurn ==
    ASSUME AInv, AInv', Turn, NEW t \in Threads, FreeCtx(t)
    PROVE  Turn'
<1>1. PICK f : f = Top(t)
  OBVIOUS
<1>2. PICK g : g = [f EXCEPT !.pc = "put"]
  OBVIOUS
<1>3. /\ fault = "none" /\ stack[t] # <<>> /\ f.pc = "drain" /\ UNCHANGED si
      /\ ctx' = [ctx EXCEPT ![f.c].state = "freed"]
      /\ \/ SetTop(t, g) /\ sess' = [sess EXCEPT ![f.s].ctx = NoCtx]
         \/ Return(t) /\ UNCHANGED sess
  BY <1>1, <1>2 DEF FreeCtx, At, Goto
<1>4. f \in Frame /\ TypeOK /\ Good /\ TopP(t) \in Pl /\ fr[TopP(t)] = f
  BY <1>1, <1>3, AtSays
<1>5. Uses(f)
  BY <1>3 DEF Uses, Ending, EndPcs
<1>6. ctx[f.c].state # "unused"
  BY <1>4, <1>5 DEF Good, UsedInv
<1>7. CtxSteady
  BY <1>3, <1>4, <1>6, SteadyOf
<1>8. SessFade
  BY <1>3, <1>4, FadeOf, SteadySame
<1>9. g.pc = "put"
  BY <1>2, <1>4 DEF Frame
<1>10. Aside(g) /\ ~HoldsBusy(f)
  BY <1>3, <1>9, OutAside DEF OutPcs
<1> QED BY <1>1, <1>3, <1>7, <1>8, <1>10, AsideSet, AsidePop

\* ... and so does the release of a context.
LEMMA ReleaseTurn ==
    ASSUME AInv, AInv', Turn, NEW t \in Threads, Release(t)
    PROVE  Turn'
<1>1. PICK f : f = Top(t)
  OBVIOUS
<1>2. PICK g : g = [f EXCEPT !.pc = "destroy"]
  OBVIOUS
<1>3. PICK k : k = ctx[f.c].ref - 1
  OBVIOUS
<1>4. /\ fault = "none" /\ stack[t] # <<>> /\ f.pc = "release" /\ UNCHANGED <<sess, si>>
      /\ SetTop(t, g) \/ Return(t)
  BY <1>1, <1>2 DEF Release, At, Goto
<1>5. ctx' = [ctx EXCEPT ![f.c].ref = k]
  BY <1>1, <1>3 DEF Release
<1>6. f \in Frame /\ TypeOK
  BY <1>1, <1>4, AtSays
<1>7. CtxSteady /\ SessFade
  BY <1>4, <1>5, <1>6, SteadyOf, SteadySame
<1>8. g.pc = "destroy"
  BY <1>2, <1>6 DEF Frame
<1>9. Aside(g) /\ ~HoldsBusy(f)
  BY <1>4, <1>8, OutAside DEF OutPcs
<1> QED BY <1>1, <1>4, <1>7, <1>9, AsideSet, AsidePop

\* A call that keeps its busy flag, if it has it, keeps Turn.
LEMMA TurnKept ==
    ASSUME AInv, fault = "none", Turn, NEW p, NEW g, Moved(p, g), UNCHANGED <<si, ctx>>, SessFade,
           HoldsBusy(g) <=> HoldsBusy(fr[p]), HoldsBusy(g) => g.c = fr[p].c,
           g.pc \notin {"wait_si", "wait_busy"}, ~Starts(g)
    PROVE  Turn'
<1>1. CtxSteady /\ Queued(ctx', g) /\ Begun(ctx', sess', g)
  BY SteadySame DEF Queued, Begun
<1>2. Counted(ctx', g) <=> Counted(ctx, fr[p])
  BY DEF Counted
<1> QED BY <1>1, <1>2, TurnQuiet

\* tee_ta_unlink_session and what follows keep Turn.
LEMMA FreeTurn ==
    ASSUME AInv, Turn, fault = "none", NEW t \in Threads, stack[t] # <<>>, Top(t).op = "close", Top(t).pc \in {"unlink", "wait_refc"},
           FreeSession(t), SessFade, UNCHANGED <<si, ctx>>
    PROVE  Turn'
<1>1. PICK f : f = Top(t)
  OBVIOUS
<1>2. PICK g : Frees(f, g) /\ Moved(TopP(t), g)
  BY <1>1, FreeSessionIs
<1>3. fr[TopP(t)] = f /\ f \in Frame /\ Shape(f)
  BY <1>1, AtSays
<1>4. f.op = "close" /\ f.pc \in {"unlink", "wait_refc"}
  BY <1>1
<1>5. CASE f.via = "null" /\ g = Null
  <2>1. ~HoldsBusy(f)
    BY <1>4, <1>5 DEF HoldsBusy
  <2> QED BY <1>2, <1>3, <1>5, <2>1, NullAside, SteadySame, TurnAside
<1>6. CASE g.op = "close" /\ g.c = f.c /\ g.via = f.via /\ g.pc = IF f.via = "live" THEN "clear" ELSE "release"
  <2>1. ~Starts(g) /\ g.pc \notin {"wait_si", "wait_busy"}
    BY <1>6 DEF Starts
  <2>2. HoldsBusy(g) <=> HoldsBusy(f)
    BY <1>4, <1>6 DEF HoldsBusy
  <2> QED BY <1>2, <1>3, <1>6, <2>1, <2>2, TurnKept
<1> QED BY <1>2, <1>5, <1>6 DEF Frees

\* As above, for the thread that comes first and the one that wakes up.
LEMMA UnlinkTurn ==
    ASSUME AInv, AInv', Turn, NEW t \in Threads, Unlink(t) \/ UnlinkWoken(t)
    PROVE  Turn'
<1>1. PICK f : f = Top(t)
  OBVIOUS
<1>2. fault = "none" /\ stack[t] # <<>> /\ f.pc \in {"unlink", "wait_refc"} /\ UNCHANGED <<si, ctx>>
  BY <1>1 DEF Unlink, UnlinkWoken, At
<1>3. f \in Frame /\ Shape(f) /\ fr[TopP(t)] = f /\ TypeOK
  BY <1>1, <1>2, AtSays
<1>4. f.op = "close"
  BY <1>2, <1>3 DEF Shape, OpenShape, InvokeShape, LivePcs, BusyPcs, EndPcs, Frame
<1>5. CASE FreeSession(t)
  <2>1. \/ sess' = [[sess EXCEPT ![f.s].unlink = TRUE] EXCEPT ![f.s].state = "freed"]
        \/ sess' = [sess EXCEPT ![f.s].unlink = TRUE]
        \/ sess' = [sess EXCEPT ![f.s].state = "freed"]
        \/ UNCHANGED sess
    BY <1>1 DEF Unlink, UnlinkWoken
  <2>2. SessFade
    <3>1. CASE sess' = [[sess EXCEPT ![f.s].unlink = TRUE] EXCEPT ![f.s].state = "freed"]
      BY <1>3, <3>1, FadeOf
    <3>2. CASE sess' = [sess EXCEPT ![f.s].unlink = TRUE]
      BY <1>3, <3>2, FadeOf
    <3>3. CASE sess' = [sess EXCEPT ![f.s].state = "freed"]
      BY <1>3, <3>3, FadeOf
    <3>4. CASE UNCHANGED sess
      BY <3>4, SteadySame
    <3> QED BY <2>1, <3>1, <3>2, <3>3, <3>4
  <2> QED BY <1>1, <1>2, <1>4, <1>5, <2>2, FreeTurn
<1>6. CASE UNCHANGED <<sess, stack>>
  <2>1. fr' = fr /\ UNCHANGED <<sess, ctx, si>>
    BY <1>2, <1>6 DEF fr
  <2> QED BY <2>1 DEF Turn, BegunInv, QueueInv, FirstInv, SiInv
<1>7. CASE f.pc = "unlink" /\ sess' = [sess EXCEPT ![f.s].unlink = TRUE] /\ SetTop(t, [f EXCEPT !.pc = "wait_refc"])
  <2>1. SessFade
    BY <1>3, <1>7, FadeOf
  <2>2. PICK g : g = [f EXCEPT !.pc = "wait_refc"]
    OBVIOUS
  <2>3. g.pc = "wait_refc" /\ g.op = f.op /\ g.c = f.c /\ g.via = f.via
    BY <1>3, <2>2 DEF Frame
  <2>4. ~Starts(g) /\ g.pc \notin {"wait_si", "wait_busy"} /\ (HoldsBusy(g) <=> HoldsBusy(f))
    BY <1>4, <1>7, <2>3 DEF Starts, HoldsBusy
  <2>5. Moved(TopP(t), g)
    BY <1>2, <1>7, <2>2, SetMoves
  <2> QED BY <1>2, <1>3, <2>1, <2>3, <2>4, <2>5, TurnKept
<1>8. \/ FreeSession(t)
      \/ UNCHANGED <<sess, stack>>
      \/ f.pc = "unlink" /\ sess' = [sess EXCEPT ![f.s].unlink = TRUE] /\ SetTop(t, [f EXCEPT !.pc = "wait_refc"])
  BY <1>1 DEF Unlink, UnlinkWoken, Goto, At
<1> QED BY <1>5, <1>6, <1>7, <1>8

\* The innermost call of t goes on as g.
LEMMA GoingMoves ==
    ASSUME AInv, NEW t \in Threads, NEW g, Going(t, g)
    PROVE  /\ fault = "none" /\ stack[t] # <<>> /\ TopP(t) \in Pl /\ TopP(t)[1] = t /\ fr[TopP(t)] = Top(t)
           /\ Top(t) \in Frame /\ Shape(Top(t)) /\ Moved(TopP(t), g) /\ UNCHANGED sess /\ SessFade
           /\ g.op = Top(t).op /\ g.s = Top(t).s /\ g.c = Top(t).c /\ g.via = Top(t).via
<1>1. /\ fault = "none" /\ stack[t] # <<>> /\ g \in Frame /\ SetTop(t, g) /\ UNCHANGED sess
      /\ g.op = Top(t).op /\ g.s = Top(t).s /\ g.c = Top(t).c /\ g.via = Top(t).via
  BY DEF Going, Goes
<1>2. /\ stack \in [Threads -> Seq(Frame)] /\ TopP(t) \in Pl /\ TopP(t)[1] = t /\ fr[TopP(t)] = Top(t)
      /\ Top(t) \in Frame /\ Shape(Top(t))
  BY <1>1, AtSays
<1>3. Moved(TopP(t), g)
  BY <1>1, <1>2, MoveSet
<1>4. SessFade
  BY <1>1, SteadySame
<1> QED BY <1>1, <1>2, <1>3, <1>4

\* The context of a call that has its busy flag or waits for it is the one of
\* its session.
LEMMA BusyLinks ==
    ASSUME AInv, fault = "none", Core, NEW x \in Pl, Past(fr[x]), ~Ending(fr[x])
    PROVE  sess[fr[x].s].ctx = fr[x].c /\ fr[x].c \in Ctxs
<1>1. Uses(fr[x])
  BY DEF Uses
<1>2. fr[x].c \in Ctxs /\ On(fr[x].c, ctxes)
  BY <1>1, UsesClaim
<1>3. LinkInv
  BY DEF AInv, Good
<1> QED BY <1>2, <1>3 DEF LinkInv

\* An open on a context with one session is the only call on it.
LEMMA OpensAlone ==
    ASSUME AInv, fault = "none", Core, NEW x \in Pl, NEW y \in Pl, Uses(fr[y]), ~Ending(fr[y]), HalfOpen(fr[x]),
           sess[fr[x].s].ctx = fr[y].c, ctx[fr[y].c].ref <= 1
    PROVE  x = y
<1>1. TypeOK /\ Good /\ ActInv
  BY DEF AInv, Core
<1>2. fr[y].c \in Ctxs /\ fr[y].s \in Sessions /\ fr[y].s \in ClaimsOn(sess, fr, fr[y].c)
  BY UsesClaim
<1>3. Ref(fr[x]) /\ fr[x].s \in Sessions
  BY HalfOn
<1>4. sess[fr[x].s].state = "live"
  BY <1>1, <1>3, FrameSays DEF Good
<1>5. fr[x].s \in ClaimsOn(sess, fr, fr[y].c)
  BY <1>3, <1>4 DEF ClaimsOn
<1>6. fr[x].s = fr[y].s
  BY <1>2, <1>5, OneClaim
<1>7. Shape(fr[y])
  BY <1>1 DEF Good, ShapeInv
<1>8. Past(fr[y]) \/ Gone(fr[y])
  BY <1>7, ShapeSays DEF Uses
<1>9. CASE HalfOpen(fr[y])
  BY <1>1, <1>6, <1>9 DEF ActInv, OpenInv
<1>10. CASE Past(fr[y]) /\ ~HalfOpen(fr[y])
  <2>1. Act(fr[y]) /\ Ref(fr[y])
    BY <1>7, <1>10, ActSays, ShapeSays
  <2>2. PICK s \in Sessions : Stake(fr[y], s)
    BY <1>1, <2>1 DEF ActInv, StakeInv
  <2>3. fr[y].s = s
    BY <2>1, <2>2 DEF Stake
  <2>4. fr[x].s # s
    BY <2>1, <2>2, HalfApart
  <2> QED BY <1>6, <2>3, <2>4
<1>11. CASE Gone(fr[y])
  <2>1. sess[fr[y].s].state = "freed"
    BY <1>1, <1>11 DEF Good, GripInv
  <2> QED BY <1>4, <1>6, <2>1
<1> QED BY <1>8, <1>9, <1>10, <1>11

\* A call that goes on to wait, or in, is about to enter the same TA.
LEMMA GoingBegun ==
    ASSUME AInv, Turn, NEW t \in Threads, NEW g, Going(t, g), Top(t).pc \in BusyPcs,
           \A c \in Ctxs : (ctx'[c].loaded <=> ctx[c].loaded) /\ (ctx'[c].initializing <=> ctx[c].initializing)
    PROVE  Begun(ctx', sess', g)
<1>1. PICK f : f = Top(t)
  OBVIOUS
<1>2. TopP(t) \in Pl /\ fr[TopP(t)] = f /\ UNCHANGED sess /\ g.op = f.op /\ g.s = f.s
  BY <1>1, GoingMoves
<1>3. Begun(ctx, sess, f)
  BY <1>2 DEF Turn, BegunInv
<1>4. Starts(g) => Starts(f)
  BY <1>1, <1>2 DEF Starts
<1> QED BY <1>2, <1>3, <1>4 DEF Begun

\* CtxFlags and the flags of a context are the same.
LEMMA SingleIs == \A c : Single(c) <=> SingleIn(ctx[c])
BY DEF Single, SingleIn, CtxFlags, FlagsIn

\* Waiting in tee_ta_try_set_busy keeps Turn.
LEMMA WaitTurn ==
    ASSUME AInv, Turn, NEW t \in Threads, BusyWait(t) \/ SiWait(t)
    PROVE  Turn'
<1>1. PICK f : f = Top(t)
  OBVIOUS
<1>2. Exclusive(t) /\ \E pc \in BusyPcs : \E cv : WaitOn(t, pc, cv) /\ Queued(ctx, [f EXCEPT !.pc = pc])
  <2>1. TypeOK /\ fault = "none" /\ stack[t] # <<>>
    <3>1. Exclusive(t)
      BY DEF BusyWait, SiWait
    <3> QED BY <3>1, ExclusiveSays
  <2>2. TopP(t) \in Pl /\ fr[TopP(t)] = f /\ f \in Frame
    BY <1>1, <2>1, AtSays
  <2>3. Queued(ctx, f)
    BY <2>2 DEF Turn, QueueInv
  <2>4. \A pc : [f EXCEPT !.pc = pc].pc = pc /\ [f EXCEPT !.pc = pc].c = f.c
    BY <2>2 DEF Frame
  <2>5. CASE BusyWait(t)
    <3>1. \/ WaitOn(t, "wait_init", BusyCv(f.c))
          \/ WaitOn(t, "wait_busy", BusyCv(f.c)) /\ (~Single(f.c) \/ f.pc = "wait_busy")
      BY <1>1, <2>5 DEF BusyWait, At
    <3>2. CASE WaitOn(t, "wait_init", BusyCv(f.c))
      <4>1. Queued(ctx, [f EXCEPT !.pc = "wait_init"])
        BY <2>4 DEF Queued
      <4> QED BY <2>5, <3>2, <4>1 DEF BusyWait, BusyPcs
    <3>3. CASE WaitOn(t, "wait_busy", BusyCv(f.c)) /\ (~Single(f.c) \/ f.pc = "wait_busy")
      <4>0. ~SingleIn(ctx[f.c])
        BY <2>3, <3>3, SingleIs DEF Queued
      <4>1. Queued(ctx, [f EXCEPT !.pc = "wait_busy"])
        BY <2>4, <4>0 DEF Queued
      <4> QED BY <2>5, <3>3, <4>1 DEF BusyWait, BusyPcs
    <3> QED BY <3>1, <3>2, <3>3
  <2>6. CASE SiWait(t)
    <3>1. WaitOn(t, "wait_si", SiCv) /\ (Single(f.c) \/ f.pc = "wait_si")
      BY <1>1, <2>6 DEF SiWait, At
    <3>2. SingleIn(ctx[f.c])
      BY <2>3, <3>1, SingleIs DEF Queued
    <3>3. Queued(ctx, [f EXCEPT !.pc = "wait_si"])
      BY <2>4, <3>2 DEF Queued
    <3> QED BY <2>6, <3>1, <3>3 DEF SiWait, BusyPcs
  <2> QED BY <2>5, <2>6
<1>3. PICK pc \in BusyPcs : \E cv : WaitOn(t, pc, cv) /\ Queued(ctx, [f EXCEPT !.pc = pc])
  BY <1>2
<1>4. PICK cv : WaitOn(t, pc, cv) /\ Queued(ctx, [f EXCEPT !.pc = pc])
  BY <1>3
<1>5. fault = "none" /\ stack[t] # <<>> /\ f.pc \in BusyPcs /\ f \in Frame
  BY <1>1, <1>2, ExclusiveSays
<1>6. PICK g : Going(t, g) /\ g.pc = pc /\ UNCHANGED <<ctx, si>> /\ Same(f, g)
  BY <1>1, <1>4, <1>5, WaitOnIs
<1>7. Queued(ctx, g)
  <2>1. [f EXCEPT !.pc = pc].pc = pc /\ [f EXCEPT !.pc = pc].c = f.c
    BY <1>5 DEF Frame
  <2> QED BY <1>4, <1>6, <2>1 DEF Queued, Same
<1>8. Moved(TopP(t), g) /\ fr[TopP(t)] = f /\ SessFade
  BY <1>1, <1>6, GoingMoves
<1>9. Begun(ctx', sess', g) /\ CtxSteady
  BY <1>1, <1>5, <1>6, GoingBegun, SteadySame
<1>10. ~Counted(ctx', g) /\ ~Counted(ctx, f)
  BY <1>5, <1>6 DEF Counted, HoldsBusy, BusyPcs
<1>11. Queued(ctx', g)
  BY <1>6, <1>7
<1> QED BY <1>5, <1>6, <1>8, <1>9, <1>10, <1>11, TurnQuiet

\* Concurrent TAs are no matter of Turn; nor is a call that is refused.
LEMMA ConcurrentTurn ==
    ASSUME AInv, AInv', fault' = "none", Turn, NEW t \in Threads, BusyConcurrent(t) \/ ClearConcurrent(t) \/ BusyRefused(t)
    PROVE  Turn'
<1>1. CASE BusyConcurrent(t)
  <2>1. PICK g : /\ Going(t, g) /\ g.pc = "enter" /\ UNCHANGED <<ctx, si, waitq, fault>>
                 /\ ~NonConc(ctx[g.c]) /\ Top(t).pc = "busy" /\ Same(Top(t), g)
    BY <1>1, BusyConcurrentIs
  <2>2. fault = "none" /\ Moved(TopP(t), g) /\ fr[TopP(t)] = Top(t) /\ SessFade /\ CtxSteady
    BY <2>1, GoingMoves, SteadySame
  <2>3. Begun(ctx', sess', g)
    BY <2>1, GoingBegun DEF BusyPcs
  <2>4. ~Counted(ctx', g) /\ ~Counted(ctx, Top(t)) /\ Queued(ctx', g)
    BY <2>1 DEF Counted, HoldsBusy, Queued
  <2> QED BY <2>1, <2>2, <2>3, <2>4, TurnQuiet
<1>2. CASE ClearConcurrent(t)
  <2>1. PICK g : /\ Going(t, g) /\ Same(Top(t), g) /\ UNCHANGED <<ctx, si, waitq, fault>>
                 /\ g.pc \in {"open_put", "inv_post", "release"} /\ Top(t).pc = "clear" /\ ~NonConc(ctx[g.c])
    BY <1>2, ClearConcurrentIs
  <2>2. fault = "none" /\ Moved(TopP(t), g) /\ fr[TopP(t)] = Top(t) /\ SessFade /\ CtxSteady
    BY <2>1, GoingMoves, SteadySame
  <2>3. Aside(g)
    BY <2>1, OutAside DEF OutPcs
  <2>4. ~Counted(ctx', g) /\ ~Counted(ctx, Top(t)) /\ Queued(ctx', g) /\ Begun(ctx', sess', g)
    BY <2>1, <2>3 DEF Counted, Aside, Queued, Begun, Same
  <2> QED BY <2>1, <2>2, <2>4, TurnQuiet
<1>3. CASE BusyRefused(t)
  <2>1. PICK g : Refused(t, g)
    BY <1>3, BusyRefusedIs
  <2>2. Going(t, g) /\ g.pc = "open_put" /\ UNCHANGED <<ctx, si>> /\ Top(t).pc \in BusyPcs
    BY <2>1 DEF Refused
  <2>3. fault = "none" /\ Moved(TopP(t), g) /\ fr[TopP(t)] = Top(t) /\ SessFade /\ CtxSteady
    BY <2>2, GoingMoves, SteadySame
  <2>4. Aside(g) /\ ~HoldsBusy(Top(t))
    BY <2>2, OutAside DEF OutPcs, HoldsBusy, BusyPcs
  <2> QED BY <2>2, <2>3, <2>4, TurnAside
<1> QED BY <1>1, <1>2, <1>3

\* Setting the busy flag, and with it the single-instance lock, keeps Turn.
LEMMA GrantedTurn ==
    ASSUME AInv, AInv', Turn, NEW t \in Threads, BusyGranted(t)
    PROVE  Turn'
<1>1. PICK g : Granted(t, g)
  BY BusyGrantedIs
<1>2. PICK f : f = Top(t)
  OBVIOUS
<1>3. PICK p : p = TopP(t)
  OBVIOUS
<1>4. /\ Going(t, g) /\ g.pc = "enter" /\ g.c = f.c /\ Exclusive(t)
      /\ CtxOnly(g.c) /\ ~ctx[g.c].busy /\ ctx'[g.c].busy /\ (ctx'[g.c].loaded <=> ctx[g.c].loaded)
      /\ (ctx'[g.c].initializing <=> ctx[g.c].initializing)
  BY <1>1, <1>2 DEF Granted, Same
<1>5. \/ SiReady(t) /\ si'.thread = t /\ si'.count = si.count + 1
      \/ PastInit(t) /\ ~Single(g.c) /\ UNCHANGED si
      \/ At(t, "wait_busy") /\ UNCHANGED si
  BY <1>1 DEF Granted
<1>6. fault = "none" /\ f.pc \in BusyPcs /\ f.c \in Ctxs /\ NonConc(ctx[f.c]) /\ ctx[f.c].state = "live"
  BY <1>2, <1>4, ExclusiveSays
<1>7. p \in Pl /\ p[1] = t /\ fr[p] = f /\ Moved(p, g) /\ SessFade
  BY <1>2, <1>3, <1>4, GoingMoves
<1>8. \A c \in Ctxs : /\ ctx'[c].u = ctx[c].u /\ (ctx'[c].loaded <=> ctx[c].loaded) /\ (ctx'[c].initializing <=> ctx[c].initializing)
                      /\ (ctx[c].busy => ctx'[c].busy) /\ ctx'[c].state = ctx[c].state
  BY <1>4 DEF CtxOnly
<1>9. CtxSteady
  BY <1>8 DEF CtxSteady
<1>10. Begun(ctx', sess', g)
  BY <1>2, <1>4, <1>6, <1>8, GoingBegun
<1>11. Queued(ctx', g) /\ ~Counted(ctx, f) /\ HoldsBusy(g)
  BY <1>4, <1>6 DEF Queued, Counted, HoldsBusy, BusyPcs
<1>12. Queued(ctx, f)
  BY <1>7 DEF Turn, QueueInv
<1>13. (SingleIn(ctx'[f.c]) <=> SingleIn(ctx[f.c])) /\ (NonConc(ctx'[f.c]) <=> NonConc(ctx[f.c]))
  BY <1>6, <1>8, FlagsSame
<1>14. CASE UNCHANGED si /\ ~SingleIn(ctx[f.c])
  <2>1. ~Counted(ctx', g)
    BY <1>4, <1>13, <1>14 DEF Counted
  <2> QED BY <1>6, <1>7, <1>9, <1>10, <1>11, <1>14, <2>1, TurnQuiet
<1>15. CASE SiReady(t) /\ si'.thread = t /\ si'.count = si.count + 1
  <2>1. SingleIn(ctx[f.c]) /\ si.thread \in {NoThread, t}
    <3>1. Single(f.c) \/ f.pc = "wait_si"
      BY <1>2, <1>15 DEF SiReady, At
    <3>2. SingleIn(ctx[f.c])
      BY <1>12, <3>1, SingleIs DEF Queued
    <3> QED BY <1>15, <3>2 DEF SiReady
  <2>2. ~ctx[f.c].initializing
    <3>1. ctx[f.c].loaded
      BY <2>1 DEF SingleIn, FlagsIn
    <3> QED BY <1>4, <1>6, <3>1 DEF Turn, FirstInv
  <2>3. Counted(ctx', g)
    BY <1>4, <1>6, <1>8, <1>11, <1>13, <2>1, <2>2 DEF Counted
  <2>4. PICK H : H = Holders(ctx, fr)
    OBVIOUS
  <2>5. /\ IsFiniteSet(H) /\ Cardinality(H) = si.count /\ (\A x \in H : x[1] = si.thread)
        /\ (si.count = 0 <=> si.thread = NoThread)
    BY <2>4 DEF Turn, SiInv
  <2>6. p \notin H
    BY <1>7, <1>11, <2>4 DEF Holders
  <2>7. Holders(ctx', fr') = H \cup {p}
    <3>1. \A x \in Pl : x # p => (Counted(ctx', fr'[x]) <=> Counted(ctx, fr[x]))
      BY <1>6, <1>7, <1>9, CountedSame DEF Moved
    <3>2. Counted(ctx', fr'[p])
      BY <1>7, <2>3 DEF Moved
    <3> QED BY <1>7, <2>4, <3>1, <3>2 DEF Holders
  <2>8. IsFiniteSet(H \cup {p}) /\ Cardinality(H \cup {p}) = si.count + 1 /\ si.count \in Nat
    BY <2>5, <2>6, FS_AddElement, FS_CardinalityType
  <2>9. \A x \in H \cup {p} : x[1] = t
    <3>1. CASE si.thread = NoThread
      <4>1. H = {}
        BY <2>5, <3>1, FS_EmptySet
      <4> QED BY <1>7, <4>1
    <3>2. CASE si.thread = t
      BY <1>7, <2>5, <3>2
    <3> QED BY <2>1, <3>1, <3>2
  <2>10. t # NoThread
    BY TaManagerAssumption
  <2>11. SiInv'
    <3>1. IsFiniteSet(Holders(ctx', fr')) /\ Cardinality(Holders(ctx', fr')) = si'.count
      BY <1>15, <2>7, <2>8
    <3>2. \A x \in Holders(ctx', fr') : x[1] = si'.thread
      BY <1>15, <2>7, <2>9
    <3>3. si'.count # 0 /\ si'.thread # NoThread
      BY <1>15, <2>8, <2>10
    <3> QED BY <3>1, <3>2, <3>3 DEF SiInv
  <2>12. BegunInv' /\ QueueInv' /\ FirstInv'
    BY <1>6, <1>7, <1>9, <1>10, <1>11, TurnRest
  <2> QED BY <2>11, <2>12 DEF Turn
<1>16. \/ SiReady(t) /\ si'.thread = t /\ si'.count = si.count + 1
       \/ UNCHANGED si /\ ~SingleIn(ctx[f.c])
  BY <1>2, <1>4, <1>5, <1>12, SingleIs DEF Queued, At
<1> QED BY <1>14, <1>15, <1>16

\* Clearing it, and with the last call the lock, keeps Turn.
LEMMA ClearedTurn ==
    ASSUME AInv, AInv', fault' = "none", Core, Turn, NEW t \in Threads, ClearBusy(t)
    PROVE  Turn'
<1>1. PICK g : Cleared(t, g)
  BY ClearBusyIs
<1>2. PICK f : f = Top(t)
  OBVIOUS
<1>3. PICK p : p = TopP(t)
  OBVIOUS
<1>4. PICK c : c = f.c
  OBVIOUS
<1>5. /\ Going(t, g) /\ g.c = c /\ g.pc \in {"open_put", "inv_post", "release"} /\ f.pc = "clear"
      /\ CtxOnly(c) /\ ~ctx'[c].busy /\ ~ctx'[c].initializing
      /\ (ctx'[c].loaded <=> ctx[c].loaded) /\ NonConc(ctx[c])
  BY <1>1, <1>2, <1>4 DEF Cleared, Same
<1>6. fault = "none" /\ p \in Pl /\ p[1] = t /\ fr[p] = f /\ Moved(p, g) /\ SessFade /\ UNCHANGED sess
  BY <1>2, <1>3, <1>5, GoingMoves
<1>7. c \in Ctxs /\ (\A d \in Ctxs : d # c => ctx'[d] = ctx[d]) /\ ctx'[c].u = ctx[c].u
  BY <1>5 DEF CtxOnly
<1>8. HoldsBusy(f) /\ Aside(g)
  BY <1>5, OutAside DEF HoldsBusy, OutPcs
<1>9. \A x \in Pl : x # p /\ HoldsBusy(fr[x]) => fr[x].c # c
  <2>1. HoldInv
    BY DEF AInv
  <2> QED BY <1>4, <1>5, <1>6, <1>8, <2>1 DEF HoldInv
<1>10. \A x \in Pl : HoldsBusy(fr[x]) => fr[x].c \in Ctxs
  BY <1>6, BusyUses
<1>11. \A x \in Pl : x # p => (Counted(ctx', fr'[x]) <=> Counted(ctx, fr[x]))
  BY <1>6, <1>7, <1>9, <1>10 DEF Moved, Counted
<1>12. ~Counted(ctx', fr'[p])
  BY <1>6, <1>8 DEF Moved, Counted, Aside
<1>13. PICK H : H = Holders(ctx, fr)
  OBVIOUS
<1>14. /\ IsFiniteSet(H) /\ Cardinality(H) = si.count /\ (\A x \in H : x[1] = si.thread)
       /\ (si.count = 0 <=> si.thread = NoThread)
  BY <1>13 DEF Turn, SiInv
<1>15. si.count \in Nat
  BY <1>14, FS_CardinalityType
<1>16. Holders(ctx', fr') = H \ {p}
  BY <1>6, <1>11, <1>12, <1>13 DEF Holders
<1>17. PICK unlock \in BOOLEAN : unlock <=> ~ctx[c].initializing /\ Single(c)
  OBVIOUS
<1>18. p \in H <=> unlock
  BY <1>4, <1>5, <1>6, <1>8, <1>13, <1>17, SingleIs DEF Holders, Counted
<1>19. /\ si'.thread = IF unlock /\ si.count = 1 THEN NoThread ELSE si.thread
       /\ si'.count = IF unlock /\ si.count > 0 THEN si.count - 1 ELSE si.count
  BY <1>1, <1>2, <1>4, <1>5, <1>17 DEF Cleared
<1>20. SiInv'
  <2>1. CASE ~unlock
    <3>1. Holders(ctx', fr') = H
      BY <1>16, <1>18, <2>1
    <3>2. si'.thread = si.thread /\ si'.count = si.count
      BY <1>19, <2>1
    <3> QED BY <1>14, <3>1, <3>2 DEF SiInv
  <2>2. CASE unlock
    <3>1. p \in H
      BY <1>18, <2>2
    <3>2. IsFiniteSet(H \ {p}) /\ Cardinality(H \ {p}) = si.count - 1
      BY <1>14, <3>1, FS_RemoveElement
    <3>3. si.count > 0
      <4>1. si.count # 0
        BY <1>14, <3>1, FS_EmptySet
      <4> QED BY <1>15, <4>1
    <3>4. si'.count = si.count - 1 /\ si'.thread = IF si.count = 1 THEN NoThread ELSE si.thread
      BY <1>19, <2>2, <3>3
    <3>5. \A x \in H \ {p} : x[1] = si'.thread
      <4>1. CASE si.count = 1
        <5>1. Cardinality(H \ {p}) = 0
          BY <3>2, <4>1
        <5>2. H \ {p} = {}
          BY <3>2, <5>1, FS_EmptySet
        <5> QED BY <5>2
      <4>2. CASE si.count # 1
        BY <1>14, <3>4, <4>2
      <4> QED BY <4>1, <4>2
    <3>6. si'.count = 0 <=> si'.thread = NoThread
      BY <1>14, <1>15, <3>3, <3>4
    <3>7. IsFiniteSet(Holders(ctx', fr')) /\ Cardinality(Holders(ctx', fr')) = si'.count
      BY <1>16, <3>2, <3>4
    <3>8. \A x \in Holders(ctx', fr') : x[1] = si'.thread
      BY <1>16, <3>5
    <3> QED BY <3>6, <3>7, <3>8 DEF SiInv
  <2> QED BY <2>1, <2>2
<1>21. FirstInv'
  BY <1>5, <1>7 DEF Turn, FirstInv
<1>22. QueueInv'
  <2> SUFFICES ASSUME NEW x \in Pl PROVE Queued(ctx', fr'[x])
    BY DEF QueueInv
  <2>1. CASE x = p
    BY <1>6, <1>8, <2>1 DEF Moved, Aside, Queued
  <2>2. CASE x # p
    <3>1. fr'[x] = fr[x] /\ Queued(ctx, fr[x])
      BY <1>6, <2>2 DEF Moved, Turn, QueueInv
    <3>2. fr[x].pc \in {"wait_si", "wait_busy"} => fr[x].c \in Ctxs
      BY <1>6, BusyUses DEF BusyPcs
    <3>3. SingleIn(ctx'[c]) <=> SingleIn(ctx[c])
      BY <1>5, <1>7, FlagsSame
    <3> QED BY <1>7, <3>1, <3>2, <3>3 DEF Queued
  <2> QED BY <2>1, <2>2
<1>23. BegunInv'
  <2> SUFFICES ASSUME NEW x \in Pl, Starts(fr'[x]), sess'[fr'[x].s].ctx \in Ctxs
               PROVE  ctx'[sess'[fr'[x].s].ctx].loaded \/ ctx'[sess'[fr'[x].s].ctx].initializing
    BY DEF BegunInv, Begun
  <2>1. x # p /\ fr'[x] = fr[x]
    BY <1>6, <1>8 DEF Moved, Aside
  <2>2. PICK d \in Ctxs : d = sess[fr[x].s].ctx /\ d = sess'[fr'[x].s].ctx
    BY <1>6, <2>1
  <2>3. ctx[d].loaded \/ ctx[d].initializing
    BY <2>1, <2>2 DEF Turn, BegunInv, Begun
  <2>4. CASE d # c
    BY <1>7, <2>2, <2>3, <2>4
  <2>5. CASE d = c
    <3>1. CASE ctx[c].loaded
      BY <1>5, <2>2, <2>5, <3>1
    <3>2. CASE ~ctx[c].loaded
      <4>1. HalfOpen(fr[x])
        BY <2>1 DEF Starts, HalfOpen, BusyPcs
      <4>2. Uses(fr[p]) /\ ~Ending(fr[p]) /\ ctx[c].state # "unused"
        BY <1>4, <1>6, <1>8, BusyUses
      <4>3. ctx[c].ref <= 1
        BY <1>7, <3>2, <4>2 DEF Core, OnceInv
      <4>4. x = p
        BY <1>4, <1>6, <2>2, <2>5, <4>1, <4>2, <4>3, OpensAlone
      <4> QED BY <2>1, <4>4
    <3> QED BY <3>1, <3>2
  <2> QED BY <2>4, <2>5
<1> QED BY <1>20, <1>21, <1>22, <1>23 DEF Turn

\* Running ldelf and entering the TA keeps Turn.
LEMMA EnterTurn ==
    ASSUME AInv, AInv', Core, Turn, NEW t \in Threads, EnterTa(t)
    PROVE  Turn'
<1>1. PICK g : Entered(t, g)
  BY EnterTaIs
<1>2. PICK f : f = Top(t)
  OBVIOUS
<1>3. PICK p : p = TopP(t)
  OBVIOUS
<1>4. PICK c : c = f.c
  OBVIOUS
<1>5. Going(t, g) /\ f.pc = "enter" /\ UNCHANGED si /\ c \in Ctxs /\ Same(f, g)
  BY <1>1, <1>2, <1>4 DEF Entered, Same
<1>6. /\ fault = "none" /\ p \in Pl /\ fr[p] = f /\ Moved(p, g) /\ SessFade /\ UNCHANGED sess
      /\ f \in Frame /\ Shape(f) /\ g.op = f.op /\ g.c = c /\ g.s = f.s /\ g.via = f.via
  BY <1>2, <1>3, <1>4, <1>5, GoingMoves
<1>7. HoldsBusy(f) /\ ctx[c].state # "unused" /\ Uses(f) /\ ~Ending(f)
  <2>1. HoldsBusy(f)
    BY <1>5 DEF HoldsBusy
  <2> QED BY <1>4, <1>6, <2>1, BusyUses
<1>8. CASE g.pc \in {"unlink", "clear"} /\ g.pc = LeaveTa(f) /\ UNCHANGED ctx
  <2>1. f.op = "close" => f.via = "live"
    BY <1>5, <1>6 DEF Shape, CloseShape, LivePcs
  <2>2. HoldsBusy(g)
    BY <1>6, <1>8, <2>1 DEF LeaveTa, HoldsBusy
  <2>3. g.pc \notin {"wait_si", "wait_busy"} /\ ~Starts(g)
    BY <1>8 DEF Starts, BusyPcs
  <2> QED BY <1>4, <1>5, <1>6, <1>7, <1>8, <2>2, <2>3, TurnKept
<1>9. CASE /\ g.pc = "in_ta" /\ (ctx[c].loaded \/ f.op = "open") /\ CtxOnly(c) /\ ctx'[c].loaded
           /\ (ctx'[c].busy <=> ctx[c].busy) /\ (ctx'[c].initializing <=> ctx[c].initializing)
  <2>1. ctx'[c].u = ctx[c].u /\ ctx'[c].state = ctx[c].state /\ \A d \in Ctxs : d # c => ctx'[d] = ctx[d]
    BY <1>9 DEF CtxOnly
  <2>2. HoldsBusy(g) /\ Queued(ctx', g) /\ ~Starts(g)
    BY <1>9 DEF HoldsBusy, Queued, Starts, BusyPcs
  <2>3. Begun(ctx', sess', g)
    BY <2>2 DEF Begun
  <2>4. CASE ctx[c].loaded
    <3>1. CtxSteady
      BY <1>7, <1>9, <2>1, <2>4 DEF CtxSteady
    <3>2. (SingleIn(ctx'[c]) <=> SingleIn(ctx[c])) /\ (NonConc(ctx'[c]) <=> NonConc(ctx[c]))
      BY <1>9, <2>1, <2>4, FlagsSame
    <3>3. Counted(ctx', g) <=> Counted(ctx, f)
      BY <1>4, <1>6, <1>7, <1>9, <2>2, <3>2 DEF Counted
    <3> QED BY <1>5, <1>6, <2>2, <2>3, <3>1, <3>3, TurnQuiet
  <2>5. CASE ~ctx[c].loaded
    <3>1. f.op = "open" /\ Past(f)
      BY <1>5, <1>9, <2>5 DEF Past
    <3>2. sess[f.s].ctx = c
      BY <1>4, <1>6, <1>7, <3>1, BusyLinks
    <3>3. ctx[c].initializing
      <4>1. Begun(ctx, sess, f) /\ Starts(f)
        BY <1>5, <1>6, <3>1 DEF Turn, BegunInv, Starts
      <4> QED BY <1>5, <2>5, <3>2, <4>1 DEF Begun
    <3>4. NonConc(ctx[c]) /\ ~SingleIn(ctx[c])
      BY <2>5 DEF NonConc, SingleIn, FlagsIn
    <3>5. HoldInv /\ ctx[c].ref <= 1
      BY <1>5, <1>7, <2>5 DEF AInv, Core, OnceInv
    <3>6. ctx[c].busy /\ \A x \in Pl : x # p /\ HoldsBusy(fr[x]) => fr[x].c # c
      BY <1>4, <1>6, <1>7, <3>4, <3>5 DEF HoldInv
    <3>7. ~Counted(ctx', g) /\ ~Counted(ctx, f)
      BY <1>4, <1>6, <1>9, <3>3, <3>4 DEF Counted
    <3>8. \A x \in Pl : HoldsBusy(fr[x]) => fr[x].c \in Ctxs
      BY <1>6, BusyUses
    <3>9. \A x \in Pl : Counted(ctx', fr'[x]) <=> Counted(ctx, fr[x])
      <4> TAKE x \in Pl
      <4>1. CASE x = p
        BY <1>6, <3>7, <4>1 DEF Moved
      <4>2. CASE x # p
        BY <1>6, <2>1, <3>6, <3>8, <4>2 DEF Moved, Counted
      <4> QED BY <4>1, <4>2
    <3>10. Holders(ctx', fr') = Holders(ctx, fr)
      BY <3>9 DEF Holders
    <3>11. SiInv'
      BY <1>5, <3>10 DEF Turn, SiInv
    <3>12. FirstInv'
      BY <1>9, <2>1, <3>6 DEF Turn, FirstInv
    <3>13. QueueInv'
      <4> SUFFICES ASSUME NEW x \in Pl PROVE Queued(ctx', fr'[x])
        BY DEF QueueInv
      <4>1. CASE x = p
        BY <1>6, <2>2, <4>1 DEF Moved
      <4>2. CASE x # p
        <5>1. fr'[x] = fr[x] /\ Queued(ctx, fr[x])
          BY <1>6, <4>2 DEF Moved, Turn, QueueInv
        <5>2. fr[x].pc \in {"wait_si", "wait_busy"} => Uses(fr[x]) /\ ~Ending(fr[x]) /\ fr[x].c \in Ctxs
          BY <1>6, BusyUses DEF BusyPcs
        <5>3. fr[x].pc \in {"wait_si", "wait_busy"} => fr[x].c # c
          BY <1>4, <1>6, <1>7, <3>5, <4>2, <5>2, Alone
        <5> QED BY <2>1, <5>1, <5>2, <5>3 DEF Queued
      <4> QED BY <4>1, <4>2
    <3>14. BegunInv'
      <4> SUFFICES ASSUME NEW x \in Pl, Starts(fr'[x]), sess'[fr'[x].s].ctx \in Ctxs
                   PROVE  ctx'[sess'[fr'[x].s].ctx].loaded \/ ctx'[sess'[fr'[x].s].ctx].initializing
        BY DEF BegunInv, Begun
      <4>1. x # p /\ fr'[x] = fr[x]
        BY <1>6, <2>2 DEF Moved
      <4>2. PICK d \in Ctxs : d = sess[fr[x].s].ctx /\ d = sess'[fr'[x].s].ctx
        BY <1>6, <4>1
      <4>3. ctx[d].loaded \/ ctx[d].initializing
        BY <4>1, <4>2 DEF Turn, BegunInv, Begun
      <4>4. ctx'[d].loaded \/ ctx'[d].initializing
        BY <1>9, <2>1, <4>3
      <4> QED BY <4>2, <4>4
    <3> QED BY <3>11, <3>12, <3>13, <3>14 DEF Turn
  <2> QED BY <2>4, <2>5
<1> QED BY <1>1, <1>2, <1>4, <1>5, <1>8, <1>9 DEF Entered, Same

\* Leaving the TA, by a return or a panic, keeps Turn.
LEMMA LeaveTurn ==
    ASSUME AInv, AInv', Turn, NEW t \in Threads, TaReturn(t) \/ TaPanic(t)
    PROVE  Turn'
<1>1. PICK g : /\ Left(t, g)
               /\ \/ UNCHANGED ctx
                  \/ /\ CtxOnly(g.c) /\ ctx'[g.c].loaded = ctx[g.c].loaded /\ ctx'[g.c].busy = ctx[g.c].busy
                     /\ ctx'[g.c].initializing = ctx[g.c].initializing
  <2>1. CASE TaReturn(t)
    BY <2>1, TaReturnIs
  <2>2. CASE TaPanic(t)
    <3>1. PICK g : /\ Left(t, g) /\ CtxOnly(g.c) /\ ctx[g.c].u \in MayPanic
                   /\ ctx'[g.c].loaded = ctx[g.c].loaded /\ ctx'[g.c].busy = ctx[g.c].busy
                   /\ ctx'[g.c].initializing = ctx[g.c].initializing
      BY <2>2, TaPanicIs
    <3> QED BY <3>1
  <2> QED BY <2>1, <2>2
<1>2. PICK f : f = Top(t)
  OBVIOUS
<1>3. PICK p : p = TopP(t)
  OBVIOUS
<1>4. Going(t, g) /\ f.pc = "in_ta" /\ UNCHANGED si /\ g.pc \in {"unlink", "clear"} /\ g.pc = LeaveTa(f)
  BY <1>1, <1>2 DEF Left
<1>5. /\ fault = "none" /\ p \in Pl /\ fr[p] = f /\ Moved(p, g) /\ SessFade
      /\ f \in Frame /\ Shape(f) /\ g.op = f.op /\ g.c = f.c /\ g.via = f.via
  BY <1>2, <1>3, <1>4, GoingMoves
<1>6. HoldsBusy(f) /\ HoldsBusy(g)
  <2>1. f.op = "close" => f.via = "live"
    BY <1>4, <1>5 DEF Shape, CloseShape, LivePcs
  <2> QED BY <1>4, <1>5, <2>1 DEF LeaveTa, HoldsBusy
<1>7. Queued(ctx', g) /\ Begun(ctx', sess', g)
  BY <1>4 DEF Queued, Begun, Starts, BusyPcs
<1>8. f.c \in Ctxs
  BY <1>5, <1>6, BusyUses
<1>9. \A c \in Ctxs : /\ ctx'[c].u = ctx[c].u /\ (ctx'[c].loaded <=> ctx[c].loaded) /\ (ctx'[c].initializing <=> ctx[c].initializing)
                      /\ (ctx[c].busy => ctx'[c].busy) /\ ctx'[c].state = ctx[c].state
  BY <1>1 DEF CtxOnly
<1>10. CtxSteady
  BY <1>9 DEF CtxSteady
<1>11. (SingleIn(ctx'[f.c]) <=> SingleIn(ctx[f.c])) /\ (NonConc(ctx'[f.c]) <=> NonConc(ctx[f.c]))
  BY <1>8, <1>9, FlagsSame
<1>12. Counted(ctx', g) <=> Counted(ctx, f)
  BY <1>5, <1>6, <1>8, <1>9, <1>11 DEF Counted
<1> QED BY <1>4, <1>5, <1>7, <1>10, <1>12, TurnQuiet

\* A new session keeps Turn.
LEMMA NewTurn ==
    ASSUME AInv, AInv', Turn, fault = "none", NEW t \in Threads, stack[t] # <<>>, Top(t).pc = "open_init", NEW c \in Ctxs,
           NewSession(t, c), UNCHANGED si, CtxSteady, ctx'[c].loaded \/ ctx'[c].initializing
    PROVE  Turn'
<1>1. PICK s \in Sessions, g \in Frame : Opened(t, c, s, g)
  BY OpenedIs
<1>2. /\ SetTop(t, g) /\ sess[s].state = "unused" /\ sess'[s].ctx = c /\ g.s = s /\ g.pc = "open_chk" /\ g.op = "open"
      /\ \A r \in Sessions : r # s => sess'[r] = sess[r]
  BY <1>1 DEF Opened
<1>3. Moved(TopP(t), g) /\ fr[TopP(t)] = Top(t)
  BY <1>2, SetMoves, AtSays
<1>4. SessFade
  BY <1>2 DEF SessFade
<1>5. ~Counted(ctx', g) /\ ~Counted(ctx, Top(t)) /\ Queued(ctx', g)
  BY <1>2 DEF Counted, HoldsBusy, Queued
<1>6. Begun(ctx', sess', g)
  BY <1>2 DEF Begun
<1> QED BY <1>3, <1>4, <1>5, <1>6, TurnQuiet

\* So does tee_ta_init_session, whether the context is there or new.
LEMMA OpenTurn ==
    ASSUME AInv, AInv', Turn, NEW t \in Threads, OpenReuse(t) \/ OpenLoad(t)
    PROVE  Turn'
<1>1. CASE OpenReuse(t)
  <2>1. PICK c : c = CtxFind(Top(t).u)
    OBVIOUS
  <2>2. PICK k : k = ctx[c].ref + 1
    OBVIOUS
  <2>3. /\ fault = "none" /\ stack[t] # <<>> /\ Top(t).pc = "open_init" /\ Shareable(c) /\ NewSession(t, c) /\ UNCHANGED si
        /\ ctx' = [ctx EXCEPT ![c].ref = k]
    BY <1>1, <2>1, <2>2 DEF OpenReuse, At
  <2>4. TypeOK
    BY DEF AInv
  <2>5. c \in Ctxs /\ ctx[c].loaded
    BY <2>1, <2>3, <2>4, CtxFindIs DEF Shareable, CtxFlags
  <2>6. On(c, ctxes) /\ c # NoCtx
    BY <2>1, <2>3, <2>4, CtxFindIs DEF Shareable
  <2>7. ctx[c].state # "unused"
    BY <2>3, <2>5, <2>6 DEF AInv, Good, UsedInv
  <2>8. CtxSteady
    BY <2>3, <2>4, SteadyOf
  <2>9. ctx'[c].loaded
    BY <2>5, <2>7, <2>8 DEF CtxSteady
  <2> QED BY <2>3, <2>5, <2>8, <2>9, NewTurn
<1>2. CASE OpenLoad(t)
  <2>1. PICK c \in Ctxs : Loads(t, c)
    BY <1>2, OpenLoadIs
  <2>2. /\ fault = "none" /\ stack[t] # <<>> /\ Top(t).pc = "open_init" /\ NewSession(t, c) /\ UNCHANGED si
        /\ ctx[c].state = "unused" /\ \A d \in Ctxs : d # c => ctx'[d] = ctx[d]
    BY <2>1 DEF Loads
  <2>3. (ctx'[c].loaded <=> Top(t).u \in Pseudo) /\ (ctx'[c].initializing <=> Top(t).u \notin Pseudo)
    BY <2>1 DEF Loads
  <2>4. CtxSteady
    BY <2>2, <2>3 DEF CtxSteady
  <2> QED BY <2>2, <2>3, <2>4, NewTurn
<1> QED BY <1>1, <1>2

\* No call is counted at first.
LEMMA InitTurn == ASSUME Init PROVE Turn
<1>1. \A x \in Pl : fr[x] = Null
  BY InitFr
<1>2. ~Starts(Null) /\ ~HoldsBusy(Null) /\ Null.pc \notin {"wait_si", "wait_busy"}
  BY NullAside DEF Aside
<1>3. BegunInv /\ QueueInv
  BY <1>1, <1>2 DEF BegunInv, QueueInv, Begun, Queued
<1>4. FirstInv
  BY DEF Init, FirstInv, NullContext
<1>5. Holders(ctx, fr) = {}
  BY <1>1, <1>2 DEF Holders, Counted
<1>6. si.count = 0 /\ si.thread = NoThread
  BY DEF Init
<1>7. IsFiniteSet({}) /\ Cardinality({}) = 0
  BY FS_EmptySet
<1>8. SiInv
  BY <1>5, <1>6, <1>7 DEF SiInv
<1> QED BY <1>3, <1>4, <1>8 DEF Turn

\* Every step of the core keeps Turn.
LEMMA StepTurn ==
    ASSUME AInv, AInv', fault' = "none", Core, Turn, Disciplined, NEW t \in Threads, Step(t)
    PROVE  Turn'
<1>1. CASE OpenReuse(t) \/ OpenLoad(t) \/ OpenFails(t) \/ OpenChk(t) \/ OpenPut(t)
  BY <1>1, OpenTurn, NothingTurn, OpenChkTurn, OpenPutTurn
<1>2. CASE BusyConcurrent(t) \/ BusyWait(t) \/ SiWait(t) \/ BusyGranted(t) \/ BusyRefused(t) \/ ClearConcurrent(t) \/ ClearBusy(t)
  BY <1>2, ConcurrentTurn, WaitTurn, GrantedTurn, ClearedTurn
<1>3. CASE EnterTa(t) \/ TaReturn(t) \/ TaPanic(t)
  BY <1>3, EnterTurn, LeaveTurn
<1>4. CASE Find(t) \/ GetNothing(t) \/ Get(t) \/ GetWoken(t) \/ Put(t)
  BY <1>4, NothingTurn, GetTurn, GetWokenTurn, PutTurn
<1>5. CASE InvChk(t) \/ InvPost(t) \/ DestroyTaCtx(t)
  BY <1>5, ChkTurn, DestroyTurn
<1>6. CASE CloseChk(t) \/ Unlink(t) \/ UnlinkWoken(t) \/ Release(t)
  BY <1>6, ChkTurn, UnlinkTurn, ReleaseTurn
<1>7. CASE Destroy(t) \/ Drain(t) \/ FreeCtx(t)
  BY <1>7, ChkTurn, CallTurn, FreeCtxTurn
<1>8. ~CheckParamsFails(t)
  BY DEF CheckParamsFails, Disciplined
<1> QED BY <1>1, <1>2, <1>3, <1>4, <1>5, <1>6, <1>7, <1>8 DEF Step

\* Turn holds until a fault.
TurnInv == fault = "none" => Turn

\* Every step keeps it.
LEMMA NextTurn ==
    ASSUME AInv, CoreInv, TurnInv, Disciplined, [Next]_vars
    PROVE  TurnInv'
<1> SUFFICES ASSUME fault' = "none"
             PROVE  Turn'
  BY DEF TurnInv
<1>1. AInv'
  BY NextA
<1>2. CASE Next
  <2>1. PICK t \in Threads : Step(t) \/ CallOpen(t) \/ CallInvoke(t) \/ CallClose(t)
    BY <1>2 DEF Next
  <2>2. fault = "none" /\ Core /\ Turn
    BY <2>1, StepsGo DEF CoreInv, TurnInv
  <2> QED BY <1>1, <2>1, <2>2, StepTurn, CallTurn
<1>3. CASE UNCHANGED vars
  <2>1. UNCHANGED <<sess, ctx, si, fault>> /\ fr' = fr
    BY <1>3 DEF vars, fr
  <2> QED BY <2>1 DEF TurnInv, Turn, BegunInv, QueueInv, FirstInv, SiInv
<1> QED BY <1>2, <1>3

\* The calls SiCountMatches counts.
LEMMA HoldersAre ==
    ASSUME TypeOK
    PROVE  UNION {{<<t, i>> : i \in {j \in 1..Len(stack[t]) : /\ HoldsBusy(stack[t][j]) /\ Single(stack[t][j].c)
                                                           /\ ~ctx[stack[t][j].c].initializing
                                                           /\ "concurrent" \notin CtxFlags(stack[t][j].c)}} : t \in Threads}
              = Holders(ctx, fr)
<1>1. stack \in [Threads -> Seq(Frame)]
  BY DEF TypeOK
<1>2. \A v \in Threads, i \in Depth : fr[<<v, i>>] = IF i <= Len(stack[v]) THEN stack[v][i] ELSE Null
  BY <1>1, FrIs
<1>3. \A v \in Threads : Len(stack[v]) \in Nat
  BY <1>1
<1>4. \A f : Counted(ctx, f) <=> HoldsBusy(f) /\ Single(f.c) /\ ~ctx[f.c].initializing /\ "concurrent" \notin CtxFlags(f.c)
  BY DEF Counted, Single, SingleIn, NonConc, FlagsIn, CtxFlags
<1> DEFINE W == UNION {{<<t, i>> : i \in {j \in 1..Len(stack[t]) : /\ HoldsBusy(stack[t][j]) /\ Single(stack[t][j].c)
                                                           /\ ~ctx[stack[t][j].c].initializing
                                                           /\ "concurrent" \notin CtxFlags(stack[t][j].c)}} : t \in Threads}
<1>5. ASSUME NEW x \in W PROVE x \in Holders(ctx, fr)
  <2>0. PICK t \in Threads : \E i \in 1..Len(stack[t]) :
           x = <<t, i>> /\ HoldsBusy(stack[t][i]) /\ Single(stack[t][i].c)
             /\ ~ctx[stack[t][i].c].initializing /\ "concurrent" \notin CtxFlags(stack[t][i].c)
    BY <1>5
  <2>1. PICK i \in 1..Len(stack[t]) :
           x = <<t, i>> /\ HoldsBusy(stack[t][i]) /\ Single(stack[t][i].c)
             /\ ~ctx[stack[t][i].c].initializing /\ "concurrent" \notin CtxFlags(stack[t][i].c)
    BY <2>0
  <2>2. i \in Depth /\ i <= Len(stack[t])
    BY <1>3 DEF Depth
  <2>3. x \in Pl /\ fr[x] = stack[t][i]
    BY <1>2, <2>1, <2>2 DEF Pl
  <2>4. Counted(ctx, stack[t][i])
    BY <1>4, <2>1
  <2> QED BY <2>3, <2>4 DEF Holders
<1>6. ASSUME NEW x \in Holders(ctx, fr) PROVE x \in W
  <2>1. PICK t \in Threads, i \in Depth : x = <<t, i>>
    BY <1>6 DEF Holders, Pl
  <2>2. Counted(ctx, fr[<<t, i>>])
    BY <1>6, <2>1 DEF Holders
  <2>3. fr[<<t, i>>] # Null
    BY <2>2, NullAside DEF Counted
  <2>4. i <= Len(stack[t]) /\ fr[<<t, i>>] = stack[t][i]
    BY <1>2, <2>3
  <2>5. i \in 1..Len(stack[t])
    BY <1>3, <2>4 DEF Depth
  <2>6. HoldsBusy(stack[t][i]) /\ Single(stack[t][i].c)
             /\ ~ctx[stack[t][i].c].initializing /\ "concurrent" \notin CtxFlags(stack[t][i].c)
    BY <1>4, <2>2, <2>4
  <2> QED BY <2>1, <2>5, <2>6
<1>7. W = Holders(ctx, fr)
  BY <1>5, <1>6
<1> QED BY <1>7

\* The single-instance lock is recursive and exclusive: its count is the number
\* of calls its thread has in single-instance TAs, and no other thread has one,
\* as long as clients are disciplined (lock_single_instance,
\* unlock_single_instance, tee_ta_try_set_busy, tee_ta_clear_busy).
THEOREM SiLockCounts == Disciplined => (Spec => []SiCountMatches)
<1> SUFFICES ASSUME Disciplined
             PROVE  Spec => []SiCountMatches
  OBVIOUS
<1>1. Init => TurnInv
  BY InitTurn DEF TurnInv
<1>2. AInv /\ CoreInv /\ TurnInv /\ [Next]_vars => TurnInv'
  BY NextTurn
<1>3. ASSUME AInv, TurnInv PROVE SiCountMatches
  <2>1. TypeOK
    BY <1>3 DEF AInv
  <2>2. UNION {{<<t, i>> : i \in {j \in 1..Len(stack[t]) : /\ HoldsBusy(stack[t][j]) /\ Single(stack[t][j].c)
                                                           /\ ~ctx[stack[t][j].c].initializing
                                                           /\ "concurrent" \notin CtxFlags(stack[t][j].c)}} : t \in Threads}
              = Holders(ctx, fr)
    BY <2>1, HoldersAre
  <2> SUFFICES ASSUME fault = "none"
               PROVE  /\ Cardinality(Holders(ctx, fr)) = si.count
                      /\ \A x \in Holders(ctx, fr) : x[1] = si.thread
    BY <2>2 DEF SiCountMatches, FramesWith
  <2>3. SiInv
    BY <1>3 DEF TurnInv, Turn
  <2> QED BY <2>3 DEF SiInv
<1>4. Spec => [](AInv /\ CoreInv)
  BY CoreInvariance
<1> QED BY <1>1, <1>2, <1>3, <1>4, PTL DEF Spec

\* With lists L and sessions S: f closes s.
Closes(L, S, f, s) == f.op = "close" /\ Act(f) /\ Names(L, S, f, s)

\* The opener of s is on its way.
Opening(F, s) == \E x \in Pl : HalfOpen(F[x]) /\ F[x].s = s

\* Threads wait in a call.
WaitInv == \A i \in 1..Len(waitq) : stack[waitq[i].t] # <<>>

\* Every session has somebody who will close it, ...
LiveInv == \A s \in Sessions : sess[s].state = "live" =>
    s \in usable \/ Opening(fr, s) \/ \E x \in Pl : Closes(lists, sess, fr[x], s)
\* ... it is marked as unlinked by its close only, ...
UnlinkInv == \A s \in Sessions : sess[s].state = "live" /\ sess[s].unlink =>
    \E x \in Pl : fr[x].op = "close" /\ fr[x].pc = "wait_refc" /\ fr[x].s = s
\* ... has no reference but those of calls ...
ExactInv == \A s \in Sessions : s \in usable \/ Opening(fr, s) => sess[s].ref = Cardinality(Refs(fr, s))
\* ... and is locked by a call.
LockInv == \A s \in Sessions : sess[s].state = "live" /\ sess[s].lock # NoThread =>
    \E x \in Pl : Grip(fr[x]) /\ Ref(fr[x]) /\ fr[x].s = s

\* The sessions are in order.
SessTidy == LiveInv /\ UnlinkInv /\ ExactInv /\ LockInv

\* A context is busy for a call in it, a concurrent one never, ...
FlagInv ==
    /\ \A c \in Ctxs : ctx[c].state = "live" /\ ctx[c].busy => \E x \in Pl : HoldsBusy(fr[x]) /\ fr[x].c = c
    /\ \A c \in Ctxs : ctx[c].state # "unused" /\ "concurrent" \in Flags[ctx[c].u] => ~ctx[c].busy
\* ... is on tee_ctxes or being destroyed, has a session or is to be kept alive, ...
KeptInv ==
    /\ \A c \in Ctxs : ctx[c].state = "live" => On(c, ctxes) \/ \E x \in Pl : Ending(fr[x]) /\ fr[x].c = c
    /\ \A c \in Ctxs : On(c, ctxes) /\ ctx[c].ref = 0 => {"keep", "single"} \subseteq FlagsIn(ctx[c])
\* ... and is freed last, after its sessions.
EndInv ==
    /\ \A x \in Pl : Ending(fr[x]) => ctx[fr[x].c].state = "live"
    /\ \A c \in Ctxs : ctx[c].state = "freed" => lists[c] = <<>>

\* The contexts are in order.
CtxTidy == FlagInv /\ KeptInv /\ EndInv

\* What a step from f to g that frees no session does to who closes sessions, ...
LiveKeeps(f, g) ==
    /\ \A s \in usable : s \in usable' \/ Closes(lists, sess, g, s)
    /\ \A s \in usable' : s \in usable \/ (HalfOpen(f) /\ f.s = s)
    /\ HalfOpen(f) => f.s \in usable' \/ (HalfOpen(g) /\ g.s = f.s) \/ Closes(lists, sess, g, f.s)
    /\ HalfOpen(g) => HalfOpen(f) /\ g.s = f.s
    /\ f.op = "close" /\ Act(f) => g.op = "close" /\ Act(g) /\ g.own = f.own /\ g.id = f.id

\* ... to the marks, the references ...
RefKeeps(f, g) ==
    /\ \A s \in Sessions : sess'[s].unlink => sess[s].unlink \/ (g.op = "close" /\ g.pc = "wait_refc" /\ g.s = s)
    /\ f.op = "close" /\ f.pc = "wait_refc" => g.op = "close" /\ g.pc = "wait_refc" /\ g.s = f.s
    /\ \A s \in Sessions : s \in usable' \/ Opening(fr', s) => sess'[s].ref + Has(f, s) = sess[s].ref + Has(g, s)

\* ... and the locks.
LockKeeps(f, g) ==
    /\ \A s \in Sessions : \/ sess'[s].lock = sess[s].lock \/ sess'[s].lock = NoThread
                           \/ Grip(g) /\ Ref(g) /\ g.s = s
    /\ Grip(f) /\ Ref(f) => (Grip(g) /\ Ref(g) /\ g.s = f.s) \/ sess'[f.s].lock = NoThread

\* Sessions stay as they are.
Lasting == UNCHANGED lists /\ \A s \in Sessions : sess'[s].state = sess[s].state /\ sess'[s].id = sess[s].id

\* Such a step leaves the sessions in order.
LEMMA SessMove ==
    ASSUME AInv, AInv', fault = "none", fault' = "none", SessTidy, NEW p, NEW g, Moved(p, g), Lasting,
           LiveKeeps(fr[p], g), RefKeeps(fr[p], g), LockKeeps(fr[p], g)
    PROVE  SessTidy'
<1>1. TypeOK /\ Good /\ TypeOK'
  BY DEF AInv
<1>2. p \in Pl /\ fr'[p] = g /\ \A x \in Pl : x # p => fr'[x] = fr[x]
  BY DEF Moved
<1>3. PICK f : f = fr[p]
  OBVIOUS
<1>4. LiveKeeps(f, g) /\ RefKeeps(f, g) /\ LockKeeps(f, g)
  BY <1>3
<1>5. \A h : \A s \in Sessions : Closes(lists', sess', h, s) <=> Closes(lists, sess, h, s)
  BY DEF Lasting, Closes, Names
<1>6. ASSUME NEW s \in Sessions, s \in usable' \/ Opening(fr', s) PROVE s \in usable \/ Opening(fr, s)
  <2>1. CASE s \in usable'
    BY <1>2, <1>3, <1>4, <2>1 DEF LiveKeeps, Opening
  <2>2. CASE Opening(fr', s)
    <3>1. PICK x \in Pl : HalfOpen(fr'[x]) /\ fr'[x].s = s
      BY <2>2 DEF Opening
    <3> QED BY <1>2, <1>3, <1>4, <3>1 DEF LiveKeeps, Opening
  <2> QED BY <1>6, <2>1, <2>2
<1>7. LiveInv'
  <2> SUFFICES ASSUME NEW s \in Sessions, sess'[s].state = "live"
               PROVE  s \in usable' \/ Opening(fr', s) \/ \E x \in Pl : Closes(lists', sess', fr'[x], s)
    BY DEF LiveInv
  <2>1. sess[s].state = "live"
    BY DEF Lasting
  <2>2. s \in usable \/ Opening(fr, s) \/ \E x \in Pl : Closes(lists, sess, fr[x], s)
    BY <2>1 DEF SessTidy, LiveInv
  <2>3. CASE s \in usable
    BY <1>2, <1>4, <1>5, <2>3 DEF LiveKeeps
  <2>4. CASE Opening(fr, s)
    <3>1. PICK x \in Pl : HalfOpen(fr[x]) /\ fr[x].s = s
      BY <2>4 DEF Opening
    <3>2. CASE x = p
      BY <1>2, <1>3, <1>4, <1>5, <3>1, <3>2 DEF LiveKeeps, Opening
    <3>3. CASE x # p
      BY <1>2, <3>1, <3>3 DEF Opening
    <3> QED BY <3>2, <3>3
  <2>5. CASE \E x \in Pl : Closes(lists, sess, fr[x], s)
    <3>1. PICK x \in Pl : Closes(lists, sess, fr[x], s)
      BY <2>5
    <3>2. CASE x = p
      <4>1. Closes(lists, sess, g, s)
        BY <1>3, <1>4, <3>1, <3>2 DEF LiveKeeps, Closes, Names
      <4> QED BY <1>2, <1>5, <4>1
    <3>3. CASE x # p
      BY <1>2, <1>5, <3>1, <3>3
    <3> QED BY <3>2, <3>3
  <2> QED BY <2>2, <2>3, <2>4, <2>5
<1>8. UnlinkInv'
  <2> SUFFICES ASSUME NEW s \in Sessions, sess'[s].state = "live", sess'[s].unlink
               PROVE  \E x \in Pl : fr'[x].op = "close" /\ fr'[x].pc = "wait_refc" /\ fr'[x].s = s
    BY DEF UnlinkInv
  <2>1. sess[s].state = "live"
    BY DEF Lasting
  <2>2. CASE ~sess[s].unlink
    BY <1>2, <1>4, <2>2 DEF RefKeeps
  <2>3. CASE sess[s].unlink
    <3>1. PICK x \in Pl : fr[x].op = "close" /\ fr[x].pc = "wait_refc" /\ fr[x].s = s
      BY <2>1, <2>3 DEF SessTidy, UnlinkInv
    <3> QED BY <1>2, <1>3, <1>4, <3>1 DEF RefKeeps
  <2> QED BY <2>2, <2>3
<1>9. ExactInv'
  <2> SUFFICES ASSUME NEW s \in Sessions, s \in usable' \/ Opening(fr', s)
               PROVE  sess'[s].ref = Cardinality(Refs(fr', s))
    BY DEF ExactInv
  <2>1. sess[s].ref = Cardinality(Refs(fr, s))
    BY <1>6 DEF SessTidy, ExactInv
  <2>2. IsFiniteSet(Refs(fr, s))
    BY <1>1 DEF Good, RefInv
  <2>3. /\ Cardinality(Refs(fr, s)) \in Nat /\ Cardinality(Refs(fr', s)) \in Nat
        /\ Cardinality(Refs(fr', s)) + Has(fr[p], s) = Cardinality(Refs(fr, s)) + Has(g, s)
    BY <2>2, RefsCard
  <2>4. sess'[s].ref + Has(f, s) = sess[s].ref + Has(g, s)
    BY <1>4 DEF RefKeeps
  <2>5. Has(f, s) \in Nat /\ Has(g, s) \in Nat
    BY DEF Has
  <2>6. sess'[s].ref \in Nat
    BY <1>1 DEF TypeOK, Session
  <2> QED BY <1>3, <2>1, <2>3, <2>4, <2>5, <2>6
<1>10. LockInv'
  <2> SUFFICES ASSUME NEW s \in Sessions, sess'[s].state = "live", sess'[s].lock # NoThread
               PROVE  \E x \in Pl : Grip(fr'[x]) /\ Ref(fr'[x]) /\ fr'[x].s = s
    BY DEF LockInv
  <2>1. sess[s].state = "live"
    BY DEF Lasting
  <2>2. CASE Grip(g) /\ Ref(g) /\ g.s = s
    BY <1>2, <2>2
  <2>3. CASE sess'[s].lock = sess[s].lock
    <3>1. PICK x \in Pl : Grip(fr[x]) /\ Ref(fr[x]) /\ fr[x].s = s
      BY <2>1, <2>3 DEF SessTidy, LockInv
    <3> QED BY <1>2, <1>3, <1>4, <3>1 DEF LockKeeps
  <2> QED BY <1>4, <2>2, <2>3 DEF LockKeeps
<1> QED BY <1>7, <1>8, <1>9, <1>10 DEF SessTidy

\* Sessions stay as they are but for their contexts.
SessSame == \A s \in Sessions :
    /\ sess'[s].state = sess[s].state /\ sess'[s].id = sess[s].id /\ sess'[s].ref = sess[s].ref
    /\ sess'[s].lock = sess[s].lock /\ (sess'[s].unlink <=> sess[s].unlink)

\* g has of the session what f had.
AsBefore(f, g) ==
    /\ HalfOpen(g) <=> HalfOpen(f)
    /\ f.op = "close" /\ Act(f) => g.op = "close" /\ Act(g) /\ g.own = f.own /\ g.id = f.id
    /\ f.op = "close" /\ f.pc = "wait_refc" => g.op = "close" /\ g.pc = "wait_refc"
    /\ Ref(g) <=> Ref(f)
    /\ Ref(f) => g.s = f.s
    /\ Grip(f) /\ Ref(f) => Grip(g)

\* A step that leaves the sessions alone and what its call has of one.
LEMMA SessQuiet ==
    ASSUME AInv, AInv', fault = "none", fault' = "none", SessTidy, NEW p, NEW g, Moved(p, g), UNCHANGED <<lists, usable>>, SessSame,
           AsBefore(fr[p], g)
    PROVE  SessTidy'
<1>1. PICK f : f = fr[p]
  OBVIOUS
<1>2. AsBefore(f, g)
  BY <1>1
<1>3. Lasting
  BY DEF Lasting, SessSame
<1>4. HalfOpen(f) => Ref(f)
  BY DEF HalfOpen, Ref
<1>5. f.op = "close" /\ f.pc = "wait_refc" => Ref(f)
  BY DEF Ref
<1>6. LiveKeeps(f, g)
  BY <1>2, <1>4 DEF LiveKeeps, AsBefore
<1>7. LockKeeps(f, g)
  BY <1>2 DEF LockKeeps, AsBefore, SessSame
<1>8. RefKeeps(f, g)
  <2>1. \A s \in Sessions : Has(f, s) = Has(g, s)
    BY <1>2 DEF Has, AsBefore
  <2> QED BY <1>2, <1>5, <2>1 DEF RefKeeps, AsBefore, SessSame
<1> QED BY <1>1, <1>3, <1>6, <1>7, <1>8, SessMove

\* A call goes on by itself.
LEMMA GoesBefore ==
    ASSUME NEW f \in Frame, Shape(f), NEW g \in Frame, Goes(f, g), g.id = f.id
    PROVE  AsBefore(f, g)
<1>1. g.op = f.op /\ g.own = f.own /\ g.s = f.s
  BY DEF Goes
<1>2. f.op \in {"open", "invoke", "close", "cancel"}
  BY DEF Frame
<1>3. CASE f.op = "open"
  BY <1>1, <1>3 DEF Goes, AsBefore, HalfOpen, Act, Ref, Grip, Shape, OpenShape, LivePcs, BusyPcs, LeaveTa, AfterClear
<1>4. CASE f.op = "invoke"
  BY <1>1, <1>4 DEF Goes, AsBefore, HalfOpen, Act, Ref, Grip, Shape, InvokeShape, LivePcs, BusyPcs, EndPcs, LeaveTa, AfterClear
<1>5. CASE f.op = "close"
  BY <1>1, <1>5 DEF Goes, AsBefore, HalfOpen, Act, Ref, Grip, Shape, CloseShape, LivePcs, BusyPcs, EndPcs, LeaveTa, AfterClear
<1>6. CASE f.op = "cancel"
  BY <1>1, <1>6 DEF Goes, AsBefore, HalfOpen, Act, Ref, Grip, Shape, LivePcs, BusyPcs
<1> QED BY <1>2, <1>3, <1>4, <1>5, <1>6

\* The contexts after a step from f to g that makes, frees and destroys none.
CtxKeeps(f, g) ==
    /\ UNCHANGED ctxes
    /\ \A c \in Ctxs : /\ ctx'[c].state = ctx[c].state /\ ctx'[c].u = ctx[c].u /\ ctx'[c].ref = ctx[c].ref
                       /\ (ctx[c].loaded => ctx'[c].loaded) /\ (lists[c] = <<>> => lists'[c] = <<>>)
                       /\ ctx'[c].busy => ctx[c].busy \/ (HoldsBusy(g) /\ g.c = c /\ "concurrent" \notin Flags[ctx[c].u])
    /\ HoldsBusy(f) => (HoldsBusy(g) /\ g.c = f.c) \/ ~ctx'[f.c].busy
    /\ Ending(g) <=> Ending(f)
    /\ Ending(f) => g.c = f.c

\* Such a step leaves the contexts in order.
LEMMA CtxTidyMove ==
    ASSUME AInv, AInv', fault = "none", fault' = "none", CtxTidy, NEW p, NEW g, Moved(p, g), CtxKeeps(fr[p], g)
    PROVE  CtxTidy'
<1>1. TypeOK /\ Good /\ Good'
  BY DEF AInv
<1>2. p \in Pl /\ fr'[p] = g /\ \A x \in Pl : x # p => fr'[x] = fr[x]
  BY DEF Moved
<1>3. PICK f : f = fr[p]
  OBVIOUS
<1>4. CtxKeeps(f, g)
  BY <1>3
<1>5. \A c \in Ctxs : ctx[c].state # "unused" => FlagsIn(ctx[c]) \subseteq FlagsIn(ctx'[c])
  BY <1>4 DEF CtxKeeps, FlagsIn
<1>6. FlagInv'
  <2>1. ASSUME NEW c \in Ctxs, ctx'[c].state = "live", ctx'[c].busy
        PROVE  \E x \in Pl : HoldsBusy(fr'[x]) /\ fr'[x].c = c
    <3>1. CASE HoldsBusy(g) /\ g.c = c
      BY <1>2, <3>1
    <3>2. CASE ctx[c].busy /\ ~(HoldsBusy(g) /\ g.c = c)
      <4>1. ctx[c].state = "live"
        BY <1>4, <2>1 DEF CtxKeeps
      <4>2. PICK x \in Pl : HoldsBusy(fr[x]) /\ fr[x].c = c
        BY <3>2, <4>1 DEF CtxTidy, FlagInv
      <4>3. x # p
        BY <1>3, <1>4, <2>1, <3>2, <4>2 DEF CtxKeeps
      <4> QED BY <1>2, <4>2, <4>3
    <3> QED BY <1>4, <2>1, <3>1, <3>2 DEF CtxKeeps
  <2>2. ASSUME NEW c \in Ctxs, ctx'[c].state # "unused", "concurrent" \in Flags[ctx'[c].u] PROVE ~ctx'[c].busy
    <3>1. ctx[c].state # "unused" /\ "concurrent" \in Flags[ctx[c].u]
      BY <1>4, <2>2 DEF CtxKeeps
    <3>2. ~ctx[c].busy
      BY <3>1 DEF CtxTidy, FlagInv
    <3> QED BY <1>4, <3>1, <3>2 DEF CtxKeeps
  <2> QED BY <2>1, <2>2 DEF FlagInv
<1>7. KeptInv'
  <2>1. ASSUME NEW c \in Ctxs, ctx'[c].state = "live" PROVE On(c, ctxes') \/ \E x \in Pl : Ending(fr'[x]) /\ fr'[x].c = c
    <3>1. ctx[c].state = "live" /\ ctxes' = ctxes
      BY <1>4, <2>1 DEF CtxKeeps
    <3>2. CASE On(c, ctxes)
      BY <3>1, <3>2
    <3>3. CASE \E x \in Pl : Ending(fr[x]) /\ fr[x].c = c
      <4>1. PICK x \in Pl : Ending(fr[x]) /\ fr[x].c = c
        BY <3>3
      <4> QED BY <1>2, <1>3, <1>4, <4>1 DEF CtxKeeps
    <3> QED BY <3>1, <3>2, <3>3 DEF CtxTidy, KeptInv
  <2>2. ASSUME NEW c \in Ctxs, On(c, ctxes'), ctx'[c].ref = 0 PROVE {"keep", "single"} \subseteq FlagsIn(ctx'[c])
    <3>1. On(c, ctxes) /\ ctx[c].ref = 0
      BY <1>4, <2>2 DEF CtxKeeps
    <3>2. ctx[c].state # "unused"
      BY <1>1, <3>1 DEF Good, UsedInv
    <3>3. {"keep", "single"} \subseteq FlagsIn(ctx[c])
      BY <3>1 DEF CtxTidy, KeptInv
    <3> QED BY <1>5, <3>2, <3>3
  <2> QED BY <2>1, <2>2 DEF KeptInv
<1>8. EndInv'
  <2>1. ASSUME NEW x \in Pl, Ending(fr'[x]) PROVE ctx'[fr'[x].c].state = "live"
    <3>1. Ending(fr[x]) /\ fr'[x].c = fr[x].c
      BY <1>2, <1>3, <1>4, <2>1 DEF CtxKeeps
    <3>2. Uses(fr[x]) /\ Shape(fr[x])
      BY <1>1, <3>1 DEF Uses, Good, ShapeInv
    <3>3. fr[x].c \in Ctxs
      BY <3>2, ShapeSays
    <3> QED BY <1>4, <3>1, <3>3 DEF CtxKeeps, CtxTidy, EndInv
  <2>2. ASSUME NEW c \in Ctxs, ctx'[c].state = "freed" PROVE lists'[c] = <<>>
    BY <1>4, <2>2 DEF CtxKeeps, CtxTidy, EndInv
  <2> QED BY <2>1, <2>2 DEF EndInv
<1> QED BY <1>6, <1>7, <1>8 DEF CtxTidy

\* Sessions and contexts are in order.
Neat == SessTidy /\ CtxTidy

\* f is not in a TA and destroys none.
Idle(f) == ~HoldsBusy(f) /\ ~Ending(f)

\* Steps outside TAs.
LEMMA IdleMove ==
    ASSUME AInv, AInv', fault = "none", fault' = "none", Neat, NEW p, NEW g, Moved(p, g), Lasting, UNCHANGED <<ctx, ctxes>>,
           LiveKeeps(fr[p], g), RefKeeps(fr[p], g), LockKeeps(fr[p], g), Idle(fr[p]), Idle(g)
    PROVE  Neat'
<1>1. UNCHANGED lists
  BY DEF Lasting
<1>2. CtxKeeps(fr[p], g)
  BY <1>1 DEF CtxKeeps, Idle
<1> QED BY <1>2, SessMove, CtxTidyMove DEF Neat

\* Steps outside TAs that leave their session alone.
LEMMA IdleQuiet ==
    ASSUME AInv, AInv', fault = "none", fault' = "none", Neat, NEW p, NEW g, Moved(p, g), UNCHANGED <<lists, usable, ctx, ctxes>>, SessSame,
           AsBefore(fr[p], g), Idle(fr[p]), Idle(g)
    PROVE  Neat'
<1>1. CtxKeeps(fr[p], g)
  BY DEF CtxKeeps, Idle
<1> QED BY <1>1, SessQuiet, CtxTidyMove DEF Neat

\* A call goes on by itself.
LEMMA GoingTidy ==
    ASSUME AInv, AInv', fault' = "none", Neat, NEW t \in Threads, NEW g, Going(t, g), CtxKeeps(Top(t), g)
    PROVE  Neat'
<1>1. /\ fault = "none" /\ g \in Frame /\ Goes(Top(t), g) /\ g.id = Top(t).id /\ UNCHANGED <<sess, lists, usable>>
  BY DEF Going
<1>2. Moved(TopP(t), g) /\ fr[TopP(t)] = Top(t) /\ Top(t) \in Frame /\ Shape(Top(t))
  BY GoingMoves
<1>3. AsBefore(Top(t), g)
  BY <1>1, <1>2, GoesBefore
<1>4. SessSame
  BY <1>1 DEF SessSame
<1> QED BY <1>1, <1>2, <1>3, <1>4, SessQuiet, CtxTidyMove DEF Neat

\* The lists and contexts are left alone.
LEMMA GoingIdle ==
    ASSUME NEW t, NEW g, Going(t, g), UNCHANGED ctx, HoldsBusy(Top(t)) => HoldsBusy(g), Ending(g) <=> Ending(Top(t))
    PROVE  CtxKeeps(Top(t), g)
<1>1. UNCHANGED <<ctx, ctxes, lists>> /\ g.c = Top(t).c
  BY DEF Going, Goes
<1> QED BY <1>1 DEF CtxKeeps

\* tee_ta_try_set_busy leaves sessions and contexts in order, ...
LEMMA BusyTidy ==
    ASSUME AInv, AInv', fault' = "none", Neat, NEW t \in Threads,
           BusyConcurrent(t) \/ BusyWait(t) \/ SiWait(t) \/ BusyGranted(t) \/ BusyRefused(t)
    PROVE  Neat'
<1>0. \A f : f.pc \in BusyPcs \cup {"open_put"} => ~HoldsBusy(f) /\ ~Ending(f)
  BY DEF BusyPcs, HoldsBusy, Ending, EndPcs
<1>1. CASE BusyConcurrent(t)
  <2>1. PICK g : Going(t, g) /\ g.pc = "enter" /\ UNCHANGED ctx /\ Top(t).pc = "busy"
    BY <1>1, BusyConcurrentIs
  <2>2. ~HoldsBusy(Top(t)) /\ ~Ending(Top(t)) /\ ~Ending(g)
    BY <1>0, <2>1 DEF BusyPcs, Ending, EndPcs
  <2> QED BY <2>1, <2>2, GoingIdle, GoingTidy
<1>2. CASE BusyWait(t) \/ SiWait(t)
  <2>1. Exclusive(t) /\ \E pc \in BusyPcs : \E cv : WaitOn(t, pc, cv)
    BY <1>2 DEF BusyWait, SiWait, BusyPcs
  <2>2. PICK pc \in BusyPcs : \E cv : WaitOn(t, pc, cv)
    BY <2>1
  <2>3. PICK cv : WaitOn(t, pc, cv)
    BY <2>2
  <2>4. fault = "none" /\ stack[t] # <<>> /\ Top(t).pc \in BusyPcs
    BY <2>1, ExclusiveSays
  <2>5. PICK g : Going(t, g) /\ g.pc = pc /\ UNCHANGED ctx
    BY <2>3, <2>4, WaitOnIs
  <2>6. ~HoldsBusy(Top(t)) /\ ~Ending(Top(t)) /\ ~Ending(g)
    BY <1>0, <2>4, <2>5
  <2> QED BY <2>5, <2>6, GoingIdle, GoingTidy
<1>3. CASE BusyGranted(t)
  <2>1. PICK g : Granted(t, g)
    BY <1>3, BusyGrantedIs
  <2>2. /\ Going(t, g) /\ g.pc = "enter" /\ Exclusive(t) /\ CtxOnly(g.c) /\ (ctx'[g.c].loaded <=> ctx[g.c].loaded)
    BY <2>1 DEF Granted
  <2>3. /\ fault = "none" /\ Top(t).pc \in BusyPcs /\ NonConc(ctx[Top(t).c]) /\ ctx[Top(t).c].state = "live"
    BY <2>2, ExclusiveSays
  <2>4. g.c = Top(t).c /\ UNCHANGED <<ctxes, lists>>
    BY <2>2 DEF Going, Goes
  <2>5. HoldsBusy(g) /\ ~HoldsBusy(Top(t)) /\ ~Ending(Top(t)) /\ ~Ending(g)
    BY <1>0, <2>2, <2>3 DEF HoldsBusy, Ending, EndPcs
  <2>6. "concurrent" \notin Flags[ctx[g.c].u]
    <3>1. LoadInv /\ g.c \in Ctxs
      BY <2>2, <2>3 DEF AInv, Good, CtxOnly
    <3> QED BY <2>3, <2>4, <3>1 DEF LoadInv, NonConc, FlagsIn
  <2>7. CtxKeeps(Top(t), g)
    BY <2>2, <2>4, <2>5, <2>6 DEF CtxKeeps, CtxOnly
  <2> QED BY <2>2, <2>7, GoingTidy
<1>4. CASE BusyRefused(t)
  <2>1. PICK g : Refused(t, g)
    BY <1>4, BusyRefusedIs
  <2>2. Going(t, g) /\ g.pc = "open_put" /\ UNCHANGED ctx /\ Top(t).pc \in BusyPcs
    BY <2>1 DEF Refused
  <2>3. ~HoldsBusy(Top(t)) /\ ~Ending(Top(t)) /\ ~Ending(g)
    BY <1>0, <2>2
  <2> QED BY <2>2, <2>3, GoingIdle, GoingTidy
<1> QED BY <1>1, <1>2, <1>3, <1>4

\* ... and so do tee_ta_clear_busy ...
LEMMA ClearTidy ==
    ASSUME AInv, AInv', fault' = "none", Neat, NEW t \in Threads, ClearConcurrent(t) \/ ClearBusy(t)
    PROVE  Neat'
<1>0. \A f : f.pc \in {"open_put", "inv_post", "release", "clear"} => ~Ending(f)
  BY DEF Ending, EndPcs
<1>1. CASE ClearConcurrent(t)
  <2>1. PICK g : Going(t, g) /\ g.pc \in {"open_put", "inv_post", "release"} /\ UNCHANGED ctx /\ Top(t).pc = "clear" /\ ~NonConc(ctx[g.c])
    BY <1>1, ClearConcurrentIs
  <2>2. UNCHANGED <<ctxes, lists>> /\ g.c = Top(t).c
    BY <2>1 DEF Going, Goes
  <2>3. Top(t).c \in Ctxs /\ ctx[Top(t).c].state # "unused"
    <3>1. fault = "none" /\ TopP(t) \in Pl /\ fr[TopP(t)] = Top(t)
      BY <2>1, GoingMoves
    <3>2. HoldsBusy(fr[TopP(t)])
      BY <2>1, <3>1 DEF HoldsBusy
    <3> QED BY <3>1, <3>2, BusyUses
  <2>4. ~ctx[Top(t).c].busy
    <3>1. "concurrent" \in Flags[ctx[Top(t).c].u]
      BY <2>1, <2>2 DEF NonConc, FlagsIn
    <3> QED BY <2>3, <3>1 DEF Neat, CtxTidy, FlagInv
  <2>5. ~Ending(Top(t)) /\ ~Ending(g)
    BY <1>0, <2>1
  <2>6. CtxKeeps(Top(t), g)
    BY <2>1, <2>2, <2>4, <2>5 DEF CtxKeeps
  <2> QED BY <2>1, <2>6, GoingTidy
<1>2. CASE ClearBusy(t)
  <2>1. PICK g : Cleared(t, g)
    BY <1>2, ClearBusyIs
  <2>2. /\ Going(t, g) /\ g.pc \in {"open_put", "inv_post", "release"} /\ Top(t).pc = "clear" /\ CtxOnly(g.c)
        /\ ~ctx'[g.c].busy /\ (ctx'[g.c].loaded <=> ctx[g.c].loaded)
    BY <2>1 DEF Cleared
  <2>3. UNCHANGED <<ctxes, lists>> /\ g.c = Top(t).c
    BY <2>2 DEF Going, Goes
  <2>4. ~Ending(Top(t)) /\ ~Ending(g)
    BY <1>0, <2>2
  <2>5. CtxKeeps(Top(t), g)
    BY <2>2, <2>3, <2>4 DEF CtxKeeps, CtxOnly
  <2> QED BY <2>2, <2>5, GoingTidy
<1> QED BY <1>1, <1>2

\* ... and the steps in TAs ...
LEMMA TaTidy ==
    ASSUME AInv, AInv', fault' = "none", Neat, NEW t \in Threads, EnterTa(t) \/ TaReturn(t) \/ TaPanic(t)
    PROVE  Neat'
<1>1. \E g : /\ Going(t, g) /\ Same(Top(t), g) /\ Top(t).pc \in {"enter", "in_ta"}
             /\ g.pc = "in_ta" \/ g.pc = LeaveTa(Top(t))
             /\ (CtxOnly(g.c) /\ (ctx[g.c].loaded => ctx'[g.c].loaded) /\ (ctx'[g.c].busy <=> ctx[g.c].busy)) \/ UNCHANGED ctx
  <2>1. CASE EnterTa(t)
    <3>1. PICK g : Entered(t, g)
      BY <2>1, EnterTaIs
    <3> QED BY <3>1 DEF Entered
  <2>2. CASE TaReturn(t)
    <3>1. PICK g : Left(t, g) /\ UNCHANGED ctx
      BY <2>2, TaReturnIs
    <3> QED BY <3>1 DEF Left
  <2>3. CASE TaPanic(t)
    <3>1. PICK g : Left(t, g) /\ CtxOnly(g.c) /\ ctx'[g.c].loaded = ctx[g.c].loaded /\ ctx'[g.c].busy = ctx[g.c].busy
      BY <2>3, TaPanicIs
    <3> QED BY <3>1 DEF Left
  <2> QED BY <2>1, <2>2, <2>3
<1>2. PICK g : /\ Going(t, g) /\ Same(Top(t), g) /\ Top(t).pc \in {"enter", "in_ta"}
               /\ g.pc = "in_ta" \/ g.pc = LeaveTa(Top(t))
               /\ (CtxOnly(g.c) /\ (ctx[g.c].loaded => ctx'[g.c].loaded) /\ (ctx'[g.c].busy <=> ctx[g.c].busy)) \/ UNCHANGED ctx
  BY <1>1
<1>3. UNCHANGED <<ctxes, lists>> /\ g.c = Top(t).c /\ g.op = Top(t).op /\ g.via = Top(t).via
  BY <1>2 DEF Going, Goes
<1>4. Top(t) \in Frame /\ Shape(Top(t))
  BY <1>2, GoingMoves
<1>5. ~Ending(Top(t)) /\ ~Ending(g)
  BY <1>2 DEF Ending, EndPcs, LeaveTa
<1>6. HoldsBusy(g)
  BY <1>2, <1>3, <1>4 DEF HoldsBusy, LeaveTa, Shape, CloseShape, LivePcs
<1>7. CtxKeeps(Top(t), g)
  BY <1>2, <1>3, <1>5, <1>6 DEF CtxKeeps, CtxOnly
<1> QED BY <1>2, <1>7, GoingTidy

\* ... and the checks after them.
LEMMA PostTidy ==
    ASSUME AInv, AInv', fault' = "none", Neat, NEW t \in Threads, InvPost(t) \/ Destroy(t)
    PROVE  Neat'
<1>1. CASE InvPost(t)
  <2>1. PICK g : Going(t, g) /\ g.pc \in {"inv_destroy", "put"} /\ UNCHANGED ctx /\ Top(t).pc = "inv_post"
    BY <1>1, InvPostIs
  <2>2. ~HoldsBusy(Top(t)) /\ ~Ending(Top(t)) /\ ~Ending(g)
    BY <2>1 DEF Ending, EndPcs, HoldsBusy
  <2> QED BY <2>1, <2>2, GoingIdle, GoingTidy
<1>2. CASE Destroy(t)
  <2>1. PICK g : Going(t, g) /\ g.pc = "drain" /\ UNCHANGED ctx /\ Top(t).pc = "destroy"
    BY <1>2, DestroyIs
  <2>2. ~HoldsBusy(Top(t)) /\ Ending(Top(t)) /\ Ending(g)
    BY <2>1 DEF Ending, EndPcs, HoldsBusy
  <2> QED BY <2>1, <2>2, GoingIdle, GoingTidy
<1> QED BY <1>1, <1>2

\* There is no call at an empty place.
LEMMA NullIdle == Idle(Null) /\ ~HalfOpen(Null) /\ ~Act(Null) /\ ~Ref(Null) /\ ~Grip(Null) /\ Null.op # "close"
<1>1. Shape(Null) /\ ~Ref(Null) /\ ~Grip(Null) /\ ~HoldsBusy(Null) /\ ~Ending(Null)
  BY NullSays
<1>2. ~HalfOpen(Null) /\ ~Act(Null)
  BY <1>1, ActSays
<1> QED BY <1>1, <1>2 DEF Idle, Null

\* A call that has nothing of a session returns.
LEMMA ReturnTidy ==
    ASSUME AInv, AInv', fault = "none", fault' = "none", Neat, NEW t \in Threads, stack[t] # <<>>, Return(t),
           UNCHANGED <<sess, ctx, ctxes, lists, usable>>, ~HalfOpen(Top(t)), ~Ref(Top(t)), Idle(Top(t)),
           Top(t).op = "close" => ~Act(Top(t)) /\ Top(t).pc # "wait_refc"
    PROVE  Neat'
<1>1. stack \in [Threads -> Seq(Frame)] /\ fr[TopP(t)] = Top(t)
  BY AtSays
<1>2. Moved(TopP(t), Null)
  BY <1>1, MovePop
<1>3. SessSame
  BY DEF SessSame
<1>4. AsBefore(Top(t), Null)
  BY NullIdle DEF AsBefore
<1> QED BY <1>1, <1>2, <1>3, <1>4, NullIdle, IdleQuiet

\* A call begins that has nothing of a session yet.
LEMMA PushTidy ==
    ASSUME AInv, AInv', fault = "none", fault' = "none", Neat, NEW t \in Threads, NEW g \in Frame, Push(t, g),
           UNCHANGED <<sess, ctx, ctxes, lists>>, g.via = "null",
           \/ g.op = "open" /\ g.pc = "open_init"
           \/ g.op = "close" /\ g.pc \in {"find", "get"}
           \/ g.op \in {"invoke", "cancel"} /\ g.pc = "get",
           \A s \in usable : s \in usable' \/ Closes(lists, sess, g, s), usable' \subseteq usable
    PROVE  Neat'
<1>1. stack \in [Threads -> Seq(Frame)]
  BY DEF AInv, TypeOK
<1>2. PICK p \in Pl : Moved(p, g) /\ fr[p] = Null
  BY <1>1, MovePush
<1>3. Idle(g) /\ ~Ref(g) /\ ~HalfOpen(g) /\ ~Grip(g)
  <2>1. ~Ref(g) /\ ~Uses(g) /\ ~Grip(g) /\ ~HoldsBusy(g)
    BY CallSays
  <2> QED BY <2>1 DEF Idle, Uses, HalfOpen
<1>4. Lasting
  BY DEF Lasting
<1>5. LiveKeeps(Null, g)
  BY <1>3, NullIdle DEF LiveKeeps
<1>6. RefKeeps(Null, g)
  <2>1. \A s \in Sessions : Has(g, s) = 0 /\ Has(Null, s) = 0
    BY <1>3, NullIdle DEF Has
  <2> QED BY <2>1, NullIdle DEF RefKeeps
<1>7. LockKeeps(Null, g)
  BY NullIdle DEF LockKeeps
<1> QED BY <1>2, <1>3, <1>4, <1>5, <1>6, <1>7, NullIdle, IdleMove

\* A session that is being closed is marked by this close.
LEMMA Unmarked ==
    ASSUME AInv, fault = "none", Core, Neat, NEW x \in Pl, fr[x].op = "close", Act(fr[x]), NEW s \in Sessions,
           Names(lists, sess, fr[x], s), sess[s].unlink
    PROVE  fr[x].pc = "wait_refc"
<1>1. Good /\ ActInv /\ UnlinkInv
  BY DEF AInv, Core, Neat, SessTidy
<1>2. fr[x].own \in Owners /\ On(s, lists[fr[x].own]) /\ sess[s].id = fr[x].id
  BY <1>1, FrameSays DEF Good, Names
<1>3. sess[s].state = "live"
  BY <1>1, <1>2 DEF Good, HomeInv
<1>4. PICK y \in Pl : fr[y].op = "close" /\ fr[y].pc = "wait_refc" /\ fr[y].s = s
  BY <1>1, <1>3 DEF UnlinkInv
<1>5. Act(fr[y]) /\ Ref(fr[y])
  BY <1>4 DEF Act, Ref
<1>6. PICK r \in Sessions : Stake(fr[y], r)
  BY <1>1, <1>5 DEF ActInv, StakeInv
<1>7. r = s /\ On(s, lists[fr[y].own]) /\ sess[s].id = fr[y].id /\ fr[y].own \in Owners
  BY <1>1, <1>4, <1>5, <1>6, FrameSays DEF Stake, Names, Good
<1>8. fr[y].own = fr[x].own
  BY <1>1, <1>2, <1>7 DEF Good, HomeInv
<1>9. x = y
  BY <1>1, <1>2, <1>5, <1>7, <1>8 DEF ActInv, CloseInv
<1> QED BY <1>4, <1>9

\* A close finds its session.
LEMMA CloseFinds ==
    ASSUME AInv, fault = "none", Core, Neat, NEW x \in Pl, fr[x].op = "close", fr[x].pc \in {"find", "get"}, NEW s,
           s = FindIn(lists[fr[x].own], fr[x].id)
    PROVE  s \in Sessions /\ s # NoSess /\ Names(lists, sess, fr[x], s) /\ ~sess[s].unlink
<1>1. TypeOK /\ Good /\ ActInv
  BY DEF AInv, Core
<1>2. Act(fr[x])
  BY DEF Act
<1>3. PICK r \in Sessions : Stake(fr[x], r)
  BY <1>1, <1>2 DEF ActInv, StakeInv
<1>4. Names(lists, sess, fr[x], r) /\ fr[x].own \in Owners
  BY <1>1, <1>3, FrameSays DEF Stake, Good
<1>5. s = r
  BY <1>1, <1>4, FindIs DEF Names
<1>6. NoSess \notin Sessions
  BY TaManagerAssumption DEF Sessions
<1>7. ~sess[r].unlink
  BY <1>2, <1>4, Unmarked
<1> QED BY <1>3, <1>4, <1>5, <1>6, <1>7

\* Returning with nothing done, and looking a session up.
LEMMA NothingTidy ==
    ASSUME AInv, AInv', fault' = "none", Core, Neat, NEW t \in Threads, OpenFails(t) \/ Find(t) \/ GetNothing(t)
    PROVE  Neat'
<1>0. fault = "none" /\ stack[t] # <<>> /\ Top(t).pc \in {"open_init", "find", "get"} /\ UNCHANGED <<sess, ctx, ctxes, lists, usable>>
  BY DEF OpenFails, Find, GetNothing, At
<1>1. PICK f : f = Top(t)
  OBVIOUS
<1>2. TypeOK /\ f \in Frame /\ Shape(f) /\ TopP(t) \in Pl /\ fr[TopP(t)] = f
  BY <1>0, <1>1, AtSays
<1>3. Idle(f) /\ ~Ref(f) /\ ~HalfOpen(f)
  <2>1. f.pc = "open_init" <=> f.op = "open"
    BY <1>0, <1>1, <1>2 DEF Shape, OpenShape, InvokeShape, CloseShape, LivePcs, BusyPcs, EndPcs, Frame
  <2>2. f.op \in {"invoke", "cancel"} => f.pc = "get"
    BY <1>0, <1>1, <1>2 DEF Shape, InvokeShape, LivePcs, BusyPcs, EndPcs
  <2> QED BY <1>0, <1>1, <2>1, <2>2 DEF Idle, HoldsBusy, Ending, EndPcs, Ref, HalfOpen
<1>4. PICK s : s = FindIn(lists[f.own], f.id)
  OBVIOUS
<1>5. f.op = "close" => s # NoSess /\ ~sess[s].unlink
  <2>1. f.op = "close" => f.pc \in {"find", "get"}
    BY <1>0, <1>1, <1>2 DEF Shape, CloseShape, LivePcs, BusyPcs, EndPcs
  <2> QED BY <1>0, <1>2, <1>4, <2>1, CloseFinds
<1>6. CASE OpenFails(t)
  <2>1. f.op # "close" /\ Return(t)
    BY <1>1, <1>2, <1>6 DEF OpenFails, At, Shape, CloseShape, LivePcs, BusyPcs, EndPcs
  <2> QED BY <1>0, <1>1, <1>3, <2>1, ReturnTidy
<1>7. CASE GetNothing(t)
  <2>1. f.op # "close" /\ Return(t)
    BY <1>1, <1>4, <1>5, <1>7 DEF GetNothing
  <2> QED BY <1>0, <1>1, <1>3, <2>1, ReturnTidy
<1>8. CASE Find(t)
  <2>1. f.op = "close"
    BY <1>1, <1>2, <1>8 DEF Find, At, Shape, OpenShape, InvokeShape, LivePcs, BusyPcs, EndPcs, Frame
  <2>2. PICK g : Going(t, g) /\ g.pc = "get"
    BY <1>1, <1>4, <1>5, <1>8, <2>1, FindIsGet
  <2>3. ~Ending(g) /\ ~Ending(f) /\ ~HoldsBusy(f)
    BY <1>3, <2>2 DEF Idle, Ending, EndPcs
  <2> QED BY <1>0, <1>1, <2>2, <2>3, GoingIdle, GoingTidy
<1> QED BY <1>6, <1>7, <1>8

\* A client opens or uses a session, ...
LEMMA CallTidy ==
    ASSUME AInv, AInv', fault' = "none", Neat, NEW t \in Threads, CallOpen(t) \/ CallInvoke(t)
    PROVE  Neat'
<1>1. /\ CanCall(t) /\ UNCHANGED <<sess, ctx, ctxes, lists, usable>>
  BY DEF CallOpen, CallInvoke
<1>2. fault = "none" /\ TypeOK /\ Caller(t) \in Owners
  BY <1>1, CallerIs
<1>3. CASE CallOpen(t)
  <2>1. PICK u \in Uuids : Push(t, Call("open", Caller(t), u, 0))
    BY <1>3 DEF CallOpen
  <2>2. PICK g : g = Call("open", Caller(t), u, 0)
    OBVIOUS
  <2>3. 0 \in 0..MaxId
    BY TaManagerAssumption
  <2>4. g \in Frame /\ g.op = "open" /\ g.via = "null" /\ g.pc = "open_init"
    BY <1>2, <2>2, <2>3, CallIs
  <2> QED BY <1>1, <1>2, <2>1, <2>2, <2>4, PushTidy
<1>4. CASE CallInvoke(t)
  <2>1. PICK s \in usable, op \in {"invoke", "cancel"} : Push(t, Call(op, Caller(t), AnyUuid, sess[s].id))
    BY <1>4 DEF CallInvoke
  <2>2. PICK g : g = Call(op, Caller(t), AnyUuid, sess[s].id)
    OBVIOUS
  <2>3. sess[s].id \in 0..MaxId
    BY <1>2, <2>1 DEF TypeOK, Session
  <2>4. g \in Frame /\ g.op \in {"invoke", "cancel"} /\ g.via = "null" /\ g.pc = "get"
    BY <1>2, <2>2, <2>3, CallIs, AnyUuidIs
  <2> QED BY <1>1, <1>2, <2>1, <2>2, <2>4, PushTidy
<1> QED BY <1>3, <1>4

\* ... or closes it, or free_utc does.
LEMMA CloseTidy ==
    ASSUME AInv, AInv', fault' = "none", Neat, NEW t \in Threads, CallClose(t) \/ Drain(t)
    PROVE  Neat'
<1>1. \E s \in Sessions, g \in Frame :
         /\ fault = "none" /\ UNCHANGED <<sess, ctx, ctxes, lists>> /\ usable' = usable \ {s}
         /\ Push(t, g) /\ g.op = "close" /\ g.via = "null" /\ g.pc \in {"find", "get"} /\ g.id = sess[s].id /\ On(s, lists[g.own])
  <2>1. CASE CallClose(t)
    <3>1. PICK s \in usable :
             /\ CanCall(t) /\ s \in Range(lists[Caller(t)])
             /\ Push(t, Call("close", Caller(t), AnyUuid, sess[s].id)) /\ usable' = usable \ {s}
             /\ UNCHANGED <<sess, ctx, ctxes, lists>>
      BY <2>1 DEF CallClose
    <3>2. TypeOK /\ s \in Sessions /\ sess[s].id \in 0..MaxId /\ Caller(t) \in Owners /\ fault = "none"
      BY <3>1, CallerIs DEF TypeOK, Session
    <3>3. PICK g : g = Call("close", Caller(t), AnyUuid, sess[s].id)
      OBVIOUS
    <3>4. /\ g \in Frame /\ g.op = "close" /\ g.own = Caller(t) /\ g.via = "null" /\ g.pc = "find" /\ g.id = sess[s].id
      BY <3>2, <3>3, CallIs, AnyUuidIs
    <3>5. On(s, lists[g.own])
      <4>1. lists[g.own] \in Seq(Sessions) /\ s \in Range(lists[g.own])
        BY <3>1, <3>2, <3>4 DEF TypeOK
      <4> QED BY <4>1, RangeIs DEF On
    <3> QED BY <3>1, <3>2, <3>3, <3>4, <3>5
  <2>2. CASE Drain(t)
    <3>1. PICK c : c = Top(t).c
      OBVIOUS
    <3>2. PICK s : s = Head(lists[c])
      OBVIOUS
    <3>3. /\ fault = "none" /\ stack[t] # <<>> /\ Top(t).pc = "drain" /\ lists[c] # <<>>
          /\ Push(t, [Call("close", c, ctx[c].u, sess[s].id) EXCEPT !.pc = "get"]) /\ usable' = usable \ {s}
          /\ UNCHANGED <<sess, ctx, ctxes, lists>>
      BY <2>2, <3>1, <3>2 DEF Drain, At
    <3>4. Shape(Top(t)) /\ TypeOK
      BY <3>3, AtSays
    <3>5. c \in Ctxs /\ c \in Owners
      BY <3>1, <3>3, <3>4, ShapeSays DEF Uses, Ending, EndPcs, Owners
    <3>6. s \in Sessions /\ On(s, lists[c])
      <4>1. lists[c] \in Seq(Sessions)
        BY <3>4, <3>5 DEF TypeOK
      <4>2. lists[c] # <<>>
        BY <3>3
      <4>3. s = lists[c][1] /\ 1 \in 1..Len(lists[c])
        BY <3>2, <4>1, <4>2
      <4> QED BY <4>1, <4>3 DEF On
    <3>7. sess[s].id \in 0..MaxId /\ ctx[c].u \in Uuids
      BY <3>4, <3>5, <3>6 DEF TypeOK, Session, Context
    <3>8. PICK h : h = Call("close", c, ctx[c].u, sess[s].id)
      OBVIOUS
    <3>9. /\ h \in Frame /\ h.op = "close" /\ h.own = c /\ h.via = "null" /\ h.id = sess[s].id
      BY <3>5, <3>6, <3>7, <3>8, CallIs
    <3>10. PICK g : g = [h EXCEPT !.pc = "get"]
      OBVIOUS
    <3>11. /\ g \in Frame /\ g.op = "close" /\ g.own = c /\ g.via = "null" /\ g.pc = "get" /\ g.id = sess[s].id
      BY <3>9, <3>10, GotoIs DEF Pcs
    <3>12. Push(t, g)
      BY <3>3, <3>8, <3>10
    <3> QED BY <3>3, <3>6, <3>11, <3>12
  <2> QED BY <2>1, <2>2
<1>2. PICK s \in Sessions, g \in Frame :
         /\ fault = "none" /\ UNCHANGED <<sess, ctx, ctxes, lists>> /\ usable' = usable \ {s}
         /\ Push(t, g) /\ g.op = "close" /\ g.via = "null" /\ g.pc \in {"find", "get"} /\ g.id = sess[s].id /\ On(s, lists[g.own])
  BY <1>1
<1>3. Closes(lists, sess, g, s)
  BY <1>2 DEF Closes, Names, Act
<1>4. (\A r \in usable : r \in usable' \/ Closes(lists, sess, g, r)) /\ usable' \subseteq usable
  BY <1>2, <1>3
<1> QED BY <1>2, <1>4, PushTidy

\* The checks before a TA is entered.
LEMMA ChkTidy ==
    ASSUME AInv, AInv', fault' = "none", Neat, NEW t \in Threads, InvChk(t) \/ CloseChk(t)
    PROVE  Neat'
<1>1. PICK f : f = Top(t)
  OBVIOUS
<1>2. PICK c : c = sess[f.s].ctx
  OBVIOUS
<1>3. fault = "none" /\ stack[t] # <<>> /\ f.pc \in {"inv_chk", "close_chk"} /\ UNCHANGED <<sess, ctx, ctxes, lists, usable>>
  BY <1>1 DEF InvChk, CloseChk, At
<1>4. f \in Frame /\ Shape(f) /\ fr[TopP(t)] = f
  BY <1>1, <1>3, AtSays
<1>5. Idle(f)
  BY <1>3 DEF Idle, HoldsBusy, Ending, EndPcs
<1>6. \E g : /\ SetTop(t, g) /\ g.op = f.op /\ g.s = f.s /\ g.own = f.own /\ g.id = f.id
             /\ \/ f.op = "invoke" /\ g.pc \in {"put", "inv_destroy", "busy"}
                \/ f.op = "close" /\ g.pc = "busy"
                \/ f.op = "close" /\ g.pc = "unlink" /\ g.via # "live"
  <2>1. CASE InvChk(t)
    <3>1. PICK a : SetTop(t, [f EXCEPT !.c = c, !.pc = a]) /\ a \in {"put", "inv_destroy", "busy"}
      BY <1>1, <1>2, <2>1 DEF InvChk
    <3>2. PICK g : g = [f EXCEPT !.c = c, !.pc = a]
      OBVIOUS
    <3>3. g.op = f.op /\ g.pc = a /\ g.s = f.s /\ g.own = f.own /\ g.id = f.id
      BY <1>4, <3>2 DEF Frame
    <3>4. f.op = "invoke"
      BY <1>1, <1>4, <2>1 DEF InvChk, At, Shape, OpenShape, CloseShape, LivePcs, BusyPcs, EndPcs, Frame
    <3> QED BY <3>1, <3>2, <3>3, <3>4
  <2>2. CASE CloseChk(t)
    <3>1. PICK via : /\ SetTop(t, [f EXCEPT !.c = c, !.via = via, !.pc = IF via = "live" THEN "busy" ELSE "unlink"])
                     /\ via \in {"null", "dead", "live"}
      BY <1>1, <1>2, <2>2 DEF CloseChk
    <3>2. PICK a : a = IF via = "live" THEN "busy" ELSE "unlink"
      OBVIOUS
    <3>3. PICK g : g = [f EXCEPT !.c = c, !.via = via, !.pc = a]
      OBVIOUS
    <3>4. g.op = f.op /\ g.pc = a /\ g.via = via /\ g.s = f.s /\ g.own = f.own /\ g.id = f.id
      BY <1>4, <3>3 DEF Frame
    <3>5. f.op = "close"
      BY <1>1, <1>4, <2>2 DEF CloseChk, At, Shape, OpenShape, InvokeShape, LivePcs, BusyPcs, EndPcs, Frame
    <3>6. g.pc = "busy" \/ (g.pc = "unlink" /\ g.via # "live")
      BY <3>2, <3>4
    <3> QED BY <3>1, <3>2, <3>3, <3>4, <3>5, <3>6
  <2> QED BY <2>1, <2>2
<1>7. PICK g : /\ SetTop(t, g) /\ g.op = f.op /\ g.s = f.s /\ g.own = f.own /\ g.id = f.id
               /\ \/ f.op = "invoke" /\ g.pc \in {"put", "inv_destroy", "busy"}
                  \/ f.op = "close" /\ g.pc = "busy"
                  \/ f.op = "close" /\ g.pc = "unlink" /\ g.via # "live"
  BY <1>6
<1>8. Idle(g)
  BY <1>7 DEF Idle, HoldsBusy, Ending, EndPcs
<1>9. AsBefore(f, g)
  BY <1>3, <1>7 DEF AsBefore, HalfOpen, Act, Ref, Grip
<1>10. Moved(TopP(t), g)
  BY <1>3, <1>7, SetMoves
<1>11. SessSame
  BY <1>3 DEF SessSame
<1> QED BY <1>3, <1>4, <1>5, <1>8, <1>9, <1>10, <1>11, IdleQuiet

\* Only the references and the lock of s change.
Touched(s, k, l) ==
    /\ s \in Sessions /\ sess'[s].ref = k /\ sess'[s].lock = l
    /\ \A r \in Sessions : /\ sess'[r].state = sess[r].state /\ sess'[r].id = sess[r].id /\ (sess'[r].unlink <=> sess[r].unlink)
                           /\ r # s => sess'[r].ref = sess[r].ref /\ sess'[r].lock = sess[r].lock

\* The assignments that do so.
LEMMA TouchedBy ==
    ASSUME TypeOK, NEW s \in Sessions, NEW k, NEW l
    PROVE  /\ sess' = [sess EXCEPT ![s].ref = k] => Touched(s, k, sess[s].lock)
           /\ sess' = [sess EXCEPT ![s].lock = l] => Touched(s, sess[s].ref, l)
           /\ sess' = [sess EXCEPT ![s].ref = k, ![s].lock = l] => Touched(s, k, l)
<1>1. sess \in [Sessions -> Session]
  BY DEF TypeOK
<1>2. ASSUME sess' = [sess EXCEPT ![s].ref = k] PROVE Touched(s, k, sess[s].lock)
  BY <1>1, <1>2 DEF Touched, Session
<1>3. ASSUME sess' = [sess EXCEPT ![s].lock = l] PROVE Touched(s, sess[s].ref, l)
  BY <1>1, <1>3 DEF Touched, Session
<1>4. ASSUME sess' = [sess EXCEPT ![s].ref = k, ![s].lock = l] PROVE Touched(s, k, l)
  BY <1>1, <1>4 DEF Touched, Session
<1> QED BY <1>2, <1>3, <1>4

\* Nothing but waiters changes.
LEMMA NeatStill ==
    ASSUME Neat, UNCHANGED <<sess, ctx, ctxes, lists, stack, usable>>
    PROVE  Neat'
<1>1. fr' = fr
  BY DEF fr
<1> QED BY <1>1 DEF Neat, SessTidy, LiveInv, UnlinkInv, ExactInv, LockInv, CtxTidy, FlagInv, KeptInv, EndInv, Opening, Closes, Names, Refs, FlagsIn

\* A failed open goes on as the close of its session.
LEMMA InsteadTidy ==
    ASSUME AInv, AInv', fault = "none", fault' = "none", Core, Neat, NEW p, NEW g, Moved(p, g), HalfOpen(fr[p]), NEW k,
           Touched(fr[p].s, k, sess[fr[p].s].lock), UNCHANGED <<lists, usable, ctx, ctxes>>,
           g.op = "close", g.pc = "get", g.own = fr[p].own, g.id = sess[fr[p].s].id, Idle(fr[p])
    PROVE  Neat'
<1>1. PICK f : f = fr[p]
  OBVIOUS
<1>2. p \in Pl /\ fr'[p] = g /\ \A x \in Pl : x # p => fr'[x] = fr[x]
  BY DEF Moved
<1>3. PICK s : s = f.s
  OBVIOUS
<1>4. s \in Sessions /\ On(s, lists[f.own]) /\ f.op = "open"
  BY <1>1, <1>2, <1>3, HalfOn DEF HalfOpen
<1>5. ~HalfOpen(g) /\ ~Ref(g) /\ ~Grip(g) /\ Act(g) /\ Idle(g)
  BY DEF HalfOpen, Ref, Grip, Act, Idle, HoldsBusy, Ending, EndPcs
<1>6. Lasting
  BY <1>1, <1>3 DEF Lasting, Touched
<1>7. LiveKeeps(f, g)
  <2>1. Closes(lists, sess, g, s)
    BY <1>1, <1>3, <1>4, <1>5 DEF Closes, Names
  <2> QED BY <1>3, <1>4, <1>5, <2>1 DEF LiveKeeps
<1>8. LockKeeps(f, g)
  <2>1. ~Grip(f)
    BY <1>4 DEF Grip
  <2>2. Touched(s, k, sess[s].lock)
    BY <1>1, <1>3
  <2> QED BY <2>1, <2>2 DEF LockKeeps, Touched
<1>9. RefKeeps(f, g)
  <2>1. ASSUME NEW r \in Sessions, r \in usable' \/ Opening(fr', r) PROVE r # s
    <3>1. OpenInv /\ UsableInv
      BY DEF Core, ActInv
    <3>2. CASE r \in usable'
      BY <1>1, <1>2, <1>3, <3>1, <3>2 DEF UsableInv
    <3>3. CASE Opening(fr', r)
      <4>1. PICK x \in Pl : HalfOpen(fr'[x]) /\ fr'[x].s = r
        BY <3>3 DEF Opening
      <4>2. x # p /\ HalfOpen(fr[x]) /\ fr[x].s = r
        BY <1>2, <1>5, <4>1
      <4> QED BY <1>1, <1>2, <1>3, <3>1, <4>2 DEF OpenInv
    <3> QED BY <2>1, <3>2, <3>3
  <2>2. \A r \in Sessions : r # s => Has(f, r) = 0 /\ Has(g, r) = 0
    BY <1>3, <1>5 DEF Has
  <2>3. Touched(s, k, sess[s].lock)
    BY <1>1, <1>3
  <2> QED BY <1>4, <2>1, <2>2, <2>3 DEF RefKeeps, Touched
<1> QED BY <1>1, <1>2, <1>5, <1>6, <1>7, <1>8, <1>9, IdleMove

\* tee_ta_open_session after tee_ta_init_session.
LEMMA OpenChkTidy ==
    ASSUME AInv, AInv', fault' = "none", Core, Neat, NEW t \in Threads, OpenChk(t)
    PROVE  Neat'
<1>1. PICK f : f = Top(t)
  OBVIOUS
<1>2. PICK c : c = sess[f.s].ctx
  OBVIOUS
<1>3. /\ fault = "none" /\ stack[t] # <<>> /\ f.pc = "open_chk" /\ UNCHANGED <<sess, ctx, ctxes, lists, usable>>
      /\ SetTop(t, CloseInstead(f)) \/ SetTop(t, [f EXCEPT !.c = c, !.pc = "busy"])
  BY <1>1, <1>2 DEF OpenChk, At
<1>4. f \in Frame /\ Shape(f) /\ TopP(t) \in Pl /\ fr[TopP(t)] = f
  BY <1>1, <1>3, AtSays
<1>5. f.op = "open"
  BY <1>3, <1>4 DEF Shape, InvokeShape, CloseShape, LivePcs, BusyPcs, EndPcs, Frame
<1>6. Idle(f) /\ HalfOpen(f)
  BY <1>3, <1>5 DEF Idle, HoldsBusy, Ending, EndPcs, HalfOpen
<1>7. CASE SetTop(t, CloseInstead(f))
  <2>1. PICK g : g = CloseInstead(f)
    OBVIOUS
  <2>2. g.pc = "get" /\ g.op = "close" /\ g.own = f.own /\ g.id = sess[f.s].id
    BY <1>4, <2>1 DEF Frame, CloseInstead
  <2>3. Moved(TopP(t), g)
    BY <1>3, <1>7, <2>1, SetMoves
  <2>4. f.s \in Sessions
    BY <1>3, <1>4, <1>6, HalfOn
  <2>5. Touched(f.s, sess[f.s].ref, sess[f.s].lock)
    BY <1>3, <2>4 DEF Touched
  <2> QED BY <1>3, <1>4, <1>6, <2>2, <2>3, <2>5, InsteadTidy
<1>8. CASE SetTop(t, [f EXCEPT !.c = c, !.pc = "busy"])
  <2>1. PICK g : g = [f EXCEPT !.c = c, !.pc = "busy"]
    OBVIOUS
  <2>2. g.pc = "busy" /\ g.op = f.op /\ g.s = f.s
    BY <1>4, <2>1 DEF Frame
  <2>3. Moved(TopP(t), g)
    BY <1>3, <1>8, <2>1, SetMoves
  <2>4. Idle(g)
    BY <2>2 DEF Idle, HoldsBusy, Ending, EndPcs
  <2>5. AsBefore(f, g)
    BY <1>3, <1>5, <2>2 DEF AsBefore, HalfOpen, Ref, Grip
  <2>6. SessSame
    BY <1>3 DEF SessSame
  <2> QED BY <1>3, <1>4, <1>6, <2>3, <2>4, <2>5, <2>6, IdleQuiet
<1> QED BY <1>3, <1>7, <1>8

\* The end of tee_ta_open_session.
LEMMA OpenPutTidy ==
    ASSUME AInv, AInv', fault' = "none", Core, Neat, NEW t \in Threads, OpenPut(t)
    PROVE  Neat'
<1>1. PICK f : f = Top(t)
  OBVIOUS
<1>2. PICK n : n = sess[f.s].ref - 1
  OBVIOUS
<1>3. PICK g : g = CloseInstead(f)
  OBVIOUS
<1>4. /\ fault = "none" /\ stack[t] # <<>> /\ f.pc = "open_put" /\ UNCHANGED <<ctx, ctxes, lists>> /\ sess' = SessRef(f.s, -1)
      /\ \/ SetTop(t, g) /\ UNCHANGED usable
         \/ Return(t) /\ usable' = usable \cup {f.s}
  BY <1>1, <1>3 DEF OpenPut, At
<1>5. TypeOK /\ f \in Frame /\ Shape(f) /\ TopP(t) \in Pl /\ fr[TopP(t)] = f /\ stack \in [Threads -> Seq(Frame)]
  BY <1>1, <1>4, AtSays
<1>6. f.op = "open"
  BY <1>4, <1>5 DEF Shape, InvokeShape, CloseShape, LivePcs, BusyPcs, EndPcs, Frame
<1>7. Idle(f) /\ HalfOpen(f) /\ ~Grip(f) /\ Ref(f)
  BY <1>4, <1>6 DEF Idle, HoldsBusy, Ending, EndPcs, HalfOpen, Grip, Ref
<1>8. f.s \in Sessions
  BY <1>4, <1>5, <1>7, HalfOn
<1>9. Touched(f.s, n, sess[f.s].lock)
  <2>1. sess' = [sess EXCEPT ![f.s].ref = n]
    BY <1>2, <1>4 DEF SessRef
  <2> QED BY <1>5, <1>8, <2>1, TouchedBy
<1>10. CASE SetTop(t, g) /\ UNCHANGED usable
  <2>1. g.pc = "get" /\ g.op = "close" /\ g.own = f.own /\ g.id = sess[f.s].id
    BY <1>3, <1>5 DEF Frame, CloseInstead
  <2>2. Moved(TopP(t), g)
    BY <1>4, <1>10, SetMoves
  <2> QED BY <1>4, <1>5, <1>7, <1>9, <1>10, <2>1, <2>2, InsteadTidy
<1>11. CASE Return(t) /\ usable' = usable \cup {f.s}
  <2>1. Moved(TopP(t), Null)
    BY <1>4, <1>5, <1>11, MovePop
  <2>2. Lasting
    BY <1>4, <1>9 DEF Lasting, Touched
  <2>3. LiveKeeps(f, Null)
    BY <1>6, <1>7, <1>11, NullIdle DEF LiveKeeps
  <2>4. LockKeeps(f, Null)
    BY <1>7, <1>9 DEF LockKeeps, Touched
  <2>5. RefKeeps(f, Null)
    <3>1. \A s \in Sessions : Has(Null, s) = 0 /\ Has(f, s) = IF s = f.s THEN 1 ELSE 0
      BY <1>7, NullIdle DEF Has
    <3>2. \A s \in Sessions : sess[s].ref \in Nat
      BY <1>5 DEF TypeOK, Session
    <3>3. \A s \in Sessions : sess'[s].ref + Has(f, s) = sess[s].ref + Has(Null, s)
      BY <1>2, <1>9, <3>1, <3>2 DEF Touched
    <3> QED BY <1>6, <1>9, <3>3 DEF RefKeeps, Touched
  <2> QED BY <1>4, <1>5, <1>7, <2>1, <2>2, <2>3, <2>4, <2>5, NullIdle, IdleMove
<1> QED BY <1>4, <1>10, <1>11

\* tee_ta_get_session gives a reference, and the lock or a place in the queue for it, ...
LEMMA GetTidy ==
    ASSUME AInv, AInv', fault' = "none", Neat, NEW t \in Threads, Get(t)
    PROVE  Neat'
<1>1. PICK f : f = Top(t)
  OBVIOUS
<1>2. PICK s : s = FindIn(lists[f.own], f.id)
  OBVIOUS
<1>3. PICK n : n = sess[s].ref + 1
  OBVIOUS
<1>4. PICK a : a = AfterGet(f.op)
  OBVIOUS
<1>5. fault = "none" /\ stack[t] # <<>> /\ UNCHANGED <<ctx, ctxes, lists, usable>> /\ f.pc = "get" /\ s # NoSess
  BY <1>1, <1>2 DEF Get, At
<1>6. TypeOK /\ f \in Frame /\ Shape(f) /\ fr[TopP(t)] = f
  BY <1>1, <1>5, AtSays
<1>7. f.op \in {"invoke", "close", "cancel"}
  BY <1>5, <1>6 DEF Shape, OpenShape, LivePcs, BusyPcs, Frame
<1>8. s \in Sessions
  <2>1. f.own \in Owners
    BY <1>6 DEF Frame
  <2>2. TypeOK /\ s = FindIn(lists[f.own], f.id) /\ s # NoSess
    BY <1>2, <1>5, <1>6
  <2> QED BY <2>1, <2>2, FindIs
<1>9. \/ f.op # "cancel" /\ sess' = [sess EXCEPT ![s].ref = n] /\ SetTop(t, [f EXCEPT !.s = s, !.pc = "wait_lock"])
      \/ f.op # "cancel" /\ sess' = [sess EXCEPT ![s].ref = n, ![s].lock = t] /\ SetTop(t, [f EXCEPT !.s = s, !.pc = a])
      \/ f.op = "cancel" /\ sess' = [sess EXCEPT ![s].ref = n, ![s].lock = sess[s].lock] /\ SetTop(t, [f EXCEPT !.s = s, !.pc = a])
  <2>1. IF f.op # "cancel" /\ sess[s].lock # NoThread
        THEN sess' = SessRef(s, 1) /\ SetTop(t, [f EXCEPT !.s = s, !.pc = "wait_lock"])
        ELSE /\ sess' = [sess EXCEPT ![s].ref = @ + 1, ![s].lock = IF f.op # "cancel" THEN t ELSE @]
             /\ SetTop(t, [f EXCEPT !.s = s, !.pc = a])
    BY <1>1, <1>2, <1>4 DEF Get
  <2>2. CASE f.op # "cancel" /\ sess[s].lock # NoThread
    BY <1>3, <2>1, <2>2 DEF SessRef
  <2>3. CASE f.op # "cancel" /\ sess[s].lock = NoThread
    BY <1>3, <2>1, <2>3
  <2>4. CASE f.op = "cancel"
    BY <1>3, <2>1, <2>4
  <2> QED BY <2>2, <2>3, <2>4
<1>10. a = IF f.op = "invoke" THEN "inv_chk" ELSE IF f.op = "close" THEN "close_chk" ELSE "put"
  BY <1>4, <1>6, <1>7, AfterGetIs
<1>11. \E b, l : /\ Touched(s, n, l) /\ SetTop(t, [f EXCEPT !.s = s, !.pc = b])
                 /\ \/ b = "wait_lock" /\ l = sess[s].lock /\ f.op # "cancel"
                    \/ b = "inv_chk" /\ f.op = "invoke"
                    \/ b = "close_chk" /\ f.op = "close"
                    \/ b = "put" /\ l = sess[s].lock /\ f.op = "cancel"
  <2>1. CASE f.op # "cancel" /\ sess' = [sess EXCEPT ![s].ref = n] /\ SetTop(t, [f EXCEPT !.s = s, !.pc = "wait_lock"])
    <3>1. Touched(s, n, sess[s].lock)
      BY <1>6, <1>8, <2>1, TouchedBy
    <3> QED BY <2>1, <3>1
  <2>2. CASE f.op # "cancel" /\ sess' = [sess EXCEPT ![s].ref = n, ![s].lock = t] /\ SetTop(t, [f EXCEPT !.s = s, !.pc = a])
    <3>1. Touched(s, n, t)
      BY <1>6, <1>8, <2>2, TouchedBy
    <3> QED BY <1>7, <1>10, <2>2, <3>1
  <2>3. CASE f.op = "cancel" /\ sess' = [sess EXCEPT ![s].ref = n, ![s].lock = sess[s].lock] /\ SetTop(t, [f EXCEPT !.s = s, !.pc = a])
    <3>1. Touched(s, n, sess[s].lock)
      BY <1>6, <1>8, <2>3, TouchedBy
    <3> QED BY <1>10, <2>3, <3>1
  <2> QED BY <1>9, <2>1, <2>2, <2>3
<1>12. PICK b, l : /\ Touched(s, n, l) /\ SetTop(t, [f EXCEPT !.s = s, !.pc = b])
                   /\ \/ b = "wait_lock" /\ l = sess[s].lock /\ f.op # "cancel"
                      \/ b = "inv_chk" /\ f.op = "invoke"
                      \/ b = "close_chk" /\ f.op = "close"
                      \/ b = "put" /\ l = sess[s].lock /\ f.op = "cancel"
  BY <1>11
<1>13. PICK g : g = [f EXCEPT !.s = s, !.pc = b]
  OBVIOUS
<1>14. g.s = s /\ g.pc = b /\ g.op = f.op /\ g.own = f.own /\ g.id = f.id
  BY <1>6, <1>13 DEF Frame
<1>15. Moved(TopP(t), g)
  BY <1>5, <1>12, <1>13, SetMoves
<1>16. Idle(f) /\ Idle(g)
  BY <1>5, <1>12, <1>14 DEF Idle, HoldsBusy, Ending, EndPcs
<1>17. ~Ref(f) /\ ~HalfOpen(f) /\ ~HalfOpen(g) /\ Ref(g)
  BY <1>5, <1>7, <1>12, <1>14 DEF Ref, HalfOpen
<1>18. Lasting
  BY <1>5, <1>12 DEF Lasting, Touched
<1>19. LiveKeeps(f, g)
  <2>1. Act(g)
    BY <1>7, <1>12, <1>14 DEF Act
  <2> QED BY <1>5, <1>14, <1>17, <2>1 DEF LiveKeeps
<1>20. LockKeeps(f, g)
  <2>1. l = sess[s].lock \/ Grip(g)
    BY <1>12, <1>14 DEF Grip
  <2>2. \A r \in Sessions : r # s => sess'[r].lock = sess[r].lock
    BY <1>12 DEF Touched
  <2>3. sess'[s].lock = l
    BY <1>12 DEF Touched
  <2> QED BY <1>14, <1>17, <2>1, <2>2, <2>3 DEF LockKeeps
<1>21. RefKeeps(f, g)
  <2>1. \A r \in Sessions : Has(f, r) = 0 /\ Has(g, r) = IF r = s THEN 1 ELSE 0
    BY <1>14, <1>17 DEF Has
  <2>2. \A r \in Sessions : sess[r].ref \in Nat
    BY <1>6 DEF TypeOK, Session
  <2>3. \A r \in Sessions : sess'[r].ref + Has(f, r) = sess[r].ref + Has(g, r)
    BY <1>3, <1>12, <2>1, <2>2 DEF Touched
  <2>4. \A r \in Sessions : sess'[r].unlink => sess[r].unlink
    BY <1>12 DEF Touched
  <2> QED BY <1>5, <2>3, <2>4 DEF RefKeeps
<1> QED BY <1>5, <1>6, <1>15, <1>16, <1>18, <1>19, <1>20, <1>21, IdleMove

\* A call that has a reference drops it and returns.
LEMMA DropTidy ==
    ASSUME AInv, AInv', fault = "none", fault' = "none", Neat, NEW t \in Threads, stack[t] # <<>>, Return(t), NEW n, NEW l,
           Top(t).op \in {"invoke", "cancel"}, Ref(Top(t)), Idle(Top(t)), UNCHANGED <<ctx, ctxes, lists, usable>>,
           Touched(Top(t).s, n, l), n = sess[Top(t).s].ref - 1, l = sess[Top(t).s].lock \/ l = NoThread,
           Grip(Top(t)) => l = NoThread
    PROVE  Neat'
<1>1. PICK f : f = Top(t)
  OBVIOUS
<1>2. TypeOK /\ fr[TopP(t)] = f /\ stack \in [Threads -> Seq(Frame)]
  BY <1>1, AtSays
<1>3. Moved(TopP(t), Null)
  BY <1>2, MovePop
<1>4. Lasting
  BY DEF Lasting, Touched
<1>5. f.op # "close" /\ ~HalfOpen(f)
  BY <1>1 DEF HalfOpen
<1>6. LiveKeeps(f, Null)
  BY <1>5, NullIdle DEF LiveKeeps
<1>7. Touched(f.s, n, l) /\ n = sess[f.s].ref - 1
  BY <1>1
<1>8. LockKeeps(f, Null)
  <2>1. (l = sess[f.s].lock \/ l = NoThread) /\ (Grip(f) => l = NoThread)
    BY <1>1
  <2> QED BY <1>7, <2>1 DEF LockKeeps, Touched
<1>9. RefKeeps(f, Null)
  <2>1. \A s \in Sessions : Has(Null, s) = 0 /\ Has(f, s) = IF s = f.s THEN 1 ELSE 0
    BY <1>1, NullIdle DEF Has
  <2>2. \A s \in Sessions : sess[s].ref \in Nat
    BY <1>2 DEF TypeOK, Session
  <2>3. \A s \in Sessions : sess'[s].ref + Has(f, s) = sess[s].ref + Has(Null, s)
    BY <1>7, <2>1, <2>2 DEF Touched
  <2>4. \A r \in Sessions : sess'[r].unlink => sess[r].unlink
    BY <1>7 DEF Touched
  <2> QED BY <1>5, <2>3, <2>4 DEF RefKeeps
<1> QED BY <1>1, <1>2, <1>3, <1>4, <1>6, <1>8, <1>9, NullIdle, IdleMove

\* ... and after the wait the lock, or the call is turned away, ...
LEMMA GetWokenTidy ==
    ASSUME AInv, AInv', fault' = "none", Core, Neat, NEW t \in Threads, GetWoken(t)
    PROVE  Neat'
<1>1. PICK f : f = Top(t)
  OBVIOUS
<1>2. PICK n : n = sess[f.s].ref - 1
  OBVIOUS
<1>3. PICK a : a = AfterGet(f.op)
  OBVIOUS
<1>4. /\ fault = "none" /\ stack[t] # <<>> /\ f.pc = "wait_lock" /\ UNCHANGED <<ctx, ctxes, lists, usable>>
      /\ \/ sess' = SessRef(f.s, -1) /\ Return(t) /\ sess[f.s].unlink
         \/ UNCHANGED <<sess, stack>>
         \/ sess' = [sess EXCEPT ![f.s].lock = t] /\ SetTop(t, [f EXCEPT !.pc = a])
  BY <1>1, <1>3 DEF GetWoken, At, Goto
<1>5. TypeOK /\ f \in Frame /\ Shape(f) /\ TopP(t) \in Pl /\ fr[TopP(t)] = f /\ Good
  BY <1>1, <1>4, AtSays
<1>6. f.op \in {"invoke", "close"}
  BY <1>4, <1>5 DEF Shape, OpenShape, LivePcs, BusyPcs, Frame
<1>7. Idle(f) /\ Ref(f) /\ ~Grip(f) /\ Act(f)
  BY <1>4, <1>6 DEF Idle, HoldsBusy, Ending, EndPcs, Ref, Grip, Act
<1>8. f.s \in Sessions
  BY <1>5, <1>7, ShapeSays
<1>9. CASE sess' = SessRef(f.s, -1) /\ Return(t) /\ sess[f.s].unlink
  <2>1. f.op # "close"
    <3>1. ASSUME f.op = "close" PROVE FALSE
      <4>1. PICK r \in Sessions : Stake(f, r)
        BY <1>5, <1>7 DEF Core, ActInv, StakeInv
      <4>2. Names(lists, sess, f, f.s)
        BY <1>7, <4>1 DEF Stake
      <4>3. f.pc = "wait_refc"
        BY <1>4, <1>5, <1>7, <1>8, <1>9, <3>1, <4>2, Unmarked
      <4> QED BY <1>4, <4>3
    <3> QED BY <3>1
  <2>2. sess' = [sess EXCEPT ![f.s].ref = n]
    BY <1>2, <1>9 DEF SessRef
  <2>3. Touched(f.s, n, sess[f.s].lock)
    BY <1>5, <1>8, <2>2, TouchedBy
  <2>4. PICK l : l = sess[f.s].lock
    OBVIOUS
  <2>5. /\ Top(t).op \in {"invoke", "cancel"} /\ Ref(Top(t)) /\ Idle(Top(t)) /\ Touched(Top(t).s, n, l)
        /\ n = sess[Top(t).s].ref - 1 /\ (l = sess[Top(t).s].lock \/ l = NoThread) /\ (Grip(Top(t)) => l = NoThread) /\ Return(t)
    BY <1>1, <1>2, <1>6, <1>7, <1>9, <2>1, <2>3, <2>4
  <2>6. fault = "none" /\ stack[t] # <<>> /\ UNCHANGED <<ctx, ctxes, lists, usable>>
    BY <1>4
  <2> QED BY <2>5, <2>6, DropTidy
<1>10. CASE UNCHANGED <<sess, stack>>
  BY <1>4, <1>10, NeatStill
<1>11. CASE sess' = [sess EXCEPT ![f.s].lock = t] /\ SetTop(t, [f EXCEPT !.pc = a])
  <2>1. Touched(f.s, sess[f.s].ref, t)
    BY <1>5, <1>8, <1>11, TouchedBy
  <2>2. PICK g : g = [f EXCEPT !.pc = a]
    OBVIOUS
  <2>3. a = IF f.op = "invoke" THEN "inv_chk" ELSE "close_chk"
    BY <1>3, <1>5, <1>6, AfterGetIs
  <2>4. g.pc = a /\ g.op = f.op /\ g.s = f.s /\ g.own = f.own /\ g.id = f.id
    BY <1>5, <2>2 DEF Frame
  <2>5. Moved(TopP(t), g)
    BY <1>4, <1>11, <2>2, SetMoves
  <2>6. Idle(g) /\ Ref(g) /\ Grip(g) /\ Act(g) /\ ~HalfOpen(f) /\ ~HalfOpen(g)
    BY <1>6, <2>3, <2>4 DEF Idle, HoldsBusy, Ending, EndPcs, Ref, Grip, Act, HalfOpen
  <2>7. Lasting
    BY <1>4, <2>1 DEF Lasting, Touched
  <2>8. LiveKeeps(f, g)
    BY <1>4, <2>4, <2>6 DEF LiveKeeps
  <2>9. LockKeeps(f, g)
    BY <1>7, <2>1, <2>4, <2>6 DEF LockKeeps, Touched
  <2>10. RefKeeps(f, g)
    <3>1. \A r \in Sessions : Has(f, r) = Has(g, r) /\ sess'[r].ref = sess[r].ref
      BY <1>7, <2>1, <2>4, <2>6 DEF Has, Touched
    <3>2. \A r \in Sessions : sess'[r].unlink => sess[r].unlink
      BY <2>1 DEF Touched
    <3> QED BY <1>4, <3>1, <3>2 DEF RefKeeps
  <2> QED BY <1>4, <1>5, <1>7, <2>5, <2>6, <2>7, <2>8, <2>9, <2>10, IdleMove
<1> QED BY <1>4, <1>9, <1>10, <1>11

\* ... and tee_ta_put_session gives all back.
LEMMA PutTidy ==
    ASSUME AInv, AInv', fault' = "none", Neat, NEW t \in Threads, Put(t)
    PROVE  Neat'
<1>1. PICK s : s = Top(t).s
  OBVIOUS
<1>2. PICK l : l = IF sess[s].lock = t THEN NoThread ELSE sess[s].lock
  OBVIOUS
<1>3. PICK n : n = sess[s].ref - 1
  OBVIOUS
<1>4. fault = "none" /\ stack[t] # <<>> /\ Top(t).pc = "put" /\ Return(t) /\ UNCHANGED <<ctx, ctxes, lists, usable>>
  BY DEF Put, At
<1>5. sess' = [sess EXCEPT ![s].ref = n, ![s].lock = l]
  <2>1. sess' = [sess EXCEPT ![s].ref = @ - 1, ![s].lock = IF sess[s].lock = t THEN NoThread ELSE @]
    BY <1>1 DEF Put
  <2> QED BY <1>2, <1>3, <2>1
<1>6. PICK f : f = Top(t)
  OBVIOUS
<1>7. TypeOK /\ f \in Frame /\ Shape(f) /\ TopP(t) \in Pl /\ TopP(t)[1] = t /\ fr[TopP(t)] = f /\ Good
  BY <1>4, <1>6, AtSays
<1>8. f.op \in {"invoke", "cancel"}
  BY <1>4, <1>6, <1>7 DEF Shape, OpenShape, CloseShape, LivePcs, BusyPcs, EndPcs, Frame
<1>9. Ref(f) /\ Idle(f)
  BY <1>4, <1>6, <1>8 DEF Ref, Idle, HoldsBusy, Ending, EndPcs
<1>10. s \in Sessions
  BY <1>1, <1>6, <1>7, <1>9, ShapeSays
<1>11. Touched(s, n, l)
  BY <1>5, <1>7, <1>10, TouchedBy
<1>12. Grip(f) => sess[s].lock = t
  BY <1>1, <1>6, <1>7, <1>9 DEF Good, GripInv
<1>13. /\ Top(t).op \in {"invoke", "cancel"} /\ Ref(Top(t)) /\ Idle(Top(t)) /\ Touched(Top(t).s, n, l)
       /\ n = sess[Top(t).s].ref - 1 /\ (l = sess[Top(t).s].lock \/ l = NoThread) /\ (Grip(Top(t)) => l = NoThread)
  BY <1>1, <1>2, <1>3, <1>6, <1>8, <1>9, <1>11, <1>12
<1> QED BY <1>4, <1>13, DropTidy

\* A destroyer has a context.
LEMMA EndingCtx ==
    ASSUME AInv, fault = "none", NEW x \in Pl, Ending(fr[x])
    PROVE  fr[x].c \in Ctxs
<1>1. Uses(fr[x]) /\ Shape(fr[x])
  BY DEF Uses, AInv, Good, ShapeInv
<1> QED BY <1>1, ShapeSays

\* A call that was outside TAs begins to destroy a context that is no longer on tee_ctxes.
LEMMA EndsTidy ==
    ASSUME AInv, fault = "none", CtxTidy, NEW p, NEW g, Moved(p, g), NEW c \in Ctxs, ctx[c].state = "live", Ending(g), g.c = c,
           Idle(fr[p]), ~HoldsBusy(g), UNCHANGED lists, \A d \in Ctxs : On(d, ctxes') <=> On(d, ctxes) /\ d # c,
           \A d \in Ctxs : /\ ctx'[d].state = ctx[d].state /\ ctx'[d].u = ctx[d].u /\ (ctx'[d].loaded <=> ctx[d].loaded)
                           /\ (ctx'[d].busy <=> ctx[d].busy) /\ (d # c => ctx'[d].ref = ctx[d].ref)
    PROVE  CtxTidy'
<1>1. p \in Pl /\ fr'[p] = g /\ \A x \in Pl : x # p => fr'[x] = fr[x]
  BY DEF Moved
<1>2. ~HoldsBusy(fr[p]) /\ ~Ending(fr[p])
  BY DEF Idle
<1>3. FlagInv'
  <2>1. ASSUME NEW d \in Ctxs, ctx'[d].state = "live", ctx'[d].busy PROVE \E x \in Pl : HoldsBusy(fr'[x]) /\ fr'[x].c = d
    <3>1. PICK x \in Pl : HoldsBusy(fr[x]) /\ fr[x].c = d
      BY <2>1 DEF CtxTidy, FlagInv
    <3> QED BY <1>1, <1>2, <3>1
  <2>2. ASSUME NEW d \in Ctxs, ctx'[d].state # "unused", "concurrent" \in Flags[ctx'[d].u] PROVE ~ctx'[d].busy
    BY <2>2 DEF CtxTidy, FlagInv
  <2> QED BY <2>1, <2>2 DEF FlagInv
<1>4. KeptInv'
  <2>1. ASSUME NEW d \in Ctxs, ctx'[d].state = "live" PROVE On(d, ctxes') \/ \E x \in Pl : Ending(fr'[x]) /\ fr'[x].c = d
    <3>1. CASE d = c
      BY <1>1, <3>1
    <3>2. CASE d # c /\ ~On(d, ctxes)
      <4>1. PICK x \in Pl : Ending(fr[x]) /\ fr[x].c = d
        BY <2>1, <3>2 DEF CtxTidy, KeptInv
      <4> QED BY <1>1, <1>2, <4>1
    <3> QED BY <3>1, <3>2
  <2>2. ASSUME NEW d \in Ctxs, On(d, ctxes'), ctx'[d].ref = 0 PROVE {"keep", "single"} \subseteq FlagsIn(ctx'[d])
    <3>1. {"keep", "single"} \subseteq FlagsIn(ctx[d])
      BY <2>2 DEF CtxTidy, KeptInv
    <3> QED BY <3>1 DEF FlagsIn
  <2> QED BY <2>1, <2>2 DEF KeptInv
<1>5. EndInv'
  <2>1. ASSUME NEW x \in Pl, Ending(fr'[x]) PROVE ctx'[fr'[x].c].state = "live"
    <3>1. CASE x = p
      BY <1>1, <3>1
    <3>2. CASE x # p
      <4>1. Ending(fr[x]) /\ fr'[x].c = fr[x].c
        BY <1>1, <2>1, <3>2
      <4>2. ctx[fr[x].c].state = "live"
        BY <4>1 DEF CtxTidy, EndInv
      <4>3. fr[x].c \in Ctxs
        BY <4>1, EndingCtx
      <4> QED BY <4>1, <4>2, <4>3
    <3> QED BY <3>1, <3>2
  <2>2. \A d \in Ctxs : ctx'[d].state = "freed" => lists'[d] = <<>>
    BY DEF CtxTidy, EndInv
  <2> QED BY <2>1, <2>2 DEF EndInv
<1> QED BY <1>3, <1>4, <1>5 DEF CtxTidy

\* destroy_ta_ctx_from_session and the last close begin to destroy a context, ...
LEMMA DestroyTidy ==
    ASSUME AInv, AInv', fault' = "none", Neat, NEW t \in Threads, DestroyTaCtx(t)
    PROVE  Neat'
<1>1. PICK s \in Sessions, c \in Ctxs, g \in Frame :
             /\ fault = "none" /\ stack[t] # <<>> /\ Top(t).pc = "inv_destroy" /\ Top(t).op = "invoke"
             /\ s = Top(t).s /\ c = Top(t).c /\ sess[s].ctx = c /\ ctx[c].state = "live"
             /\ SetTop(t, g) /\ UNCHANGED <<ctx, lists, si, waitq, usable>>
             /\ g.op = "invoke" /\ g.pc = "destroy" /\ g.own = Top(t).own /\ g.s = s /\ g.c = c /\ g.via = "null"
             /\ g.id = Top(t).id
             /\ fault' = IF Cardinality(Referring(c) \ {s}) + 1 = ctx[c].ref THEN "none" ELSE "assert"
             /\ sess' \in [Sessions -> Session]
             /\ \A r \in Sessions : sess'[r] = IF r \in Referring(c) \ {s} THEN [sess[r] EXCEPT !.ctx = NoCtx] ELSE sess[r]
             /\ ctxes' = Without(ctxes, {c})
  BY DestroyTaCtxIs
<1>2. PICK f : f = Top(t)
  OBVIOUS
<1>3. fault = "none" /\ stack[t] # <<>> /\ SetTop(t, g) /\ UNCHANGED <<ctx, lists, usable>>
  BY <1>1
<1>4. TypeOK /\ fr[TopP(t)] = f
  BY <1>2, <1>3, AtSays
<1>5. f.pc = "inv_destroy" /\ f.op = "invoke" /\ f.s = g.s /\ g.op = "invoke" /\ g.pc = "destroy" /\ g.c = c /\ ctx[c].state = "live"
  BY <1>1, <1>2
<1>6. Moved(TopP(t), g)
  BY <1>3, SetMoves
<1>7. SessSame
  <2> SUFFICES ASSUME NEW r \in Sessions
               PROVE  /\ sess'[r].state = sess[r].state /\ sess'[r].id = sess[r].id /\ sess'[r].ref = sess[r].ref
                      /\ sess'[r].lock = sess[r].lock /\ (sess'[r].unlink <=> sess[r].unlink)
    BY DEF SessSame
  <2>1. sess[r] \in Session
    BY <1>4 DEF TypeOK
  <2>2. sess'[r] = sess[r] \/ sess'[r] = [sess[r] EXCEPT !.ctx = NoCtx]
    BY <1>1
  <2> QED BY <2>1, <2>2 DEF Session
<1>8. AsBefore(f, g)
  BY <1>5 DEF AsBefore, HalfOpen, Ref, Grip
<1>9. Idle(f) /\ Ending(g) /\ ~HoldsBusy(g)
  BY <1>5 DEF Idle, HoldsBusy, Ending, EndPcs
<1>10. \A d \in Ctxs : On(d, ctxes') <=> On(d, ctxes) /\ d # c
  <2>1. ctxes \in Seq(Ctxs) /\ ctxes' = Without(ctxes, {c})
    BY <1>1, <1>4 DEF TypeOK
  <2> QED BY <2>1, CtxesWithout
<1>11. SessTidy'
  BY <1>3, <1>4, <1>6, <1>7, <1>8, SessQuiet DEF Neat
<1>12. CtxTidy'
  BY <1>3, <1>4, <1>5, <1>6, <1>9, <1>10, EndsTidy DEF Neat
<1> QED BY <1>11, <1>12 DEF Neat

\* ... unless there are other sessions or it is kept alive, ...
LEMMA ReleaseTidy ==
    ASSUME AInv, AInv', fault' = "none", Neat, NEW t \in Threads, Release(t)
    PROVE  Neat'
<1>1. PICK p, f, c, g : Drops(t, p, f, c, g)
  BY ReleaseIs
<1>2. /\ fault = "none" /\ stack[t] # <<>> /\ f = Top(t) /\ p = TopP(t) /\ f.op = "close" /\ f.pc = "release"
      /\ c = f.c /\ c \in Ctxs /\ ctx[c].state = "live" /\ Moved(p, g) /\ UNCHANGED <<sess, lists, usable>>
  BY <1>1 DEF Drops
<1>3. /\ \A d \in Ctxs : d # c => ctx'[d] = ctx[d]
      /\ ctx'[c].state = ctx[c].state /\ ctx'[c].u = ctx[c].u /\ ctx'[c].loaded = ctx[c].loaded
      /\ ctx'[c].busy = ctx[c].busy /\ ctx'[c].ref = ctx[c].ref - 1 /\ ctx[c].ref \in Nat
  BY <1>1 DEF Drops
<1>4. /\ \/ /\ g.op = "close" /\ g.pc = "destroy" /\ g.c = c
            /\ \A d \in Ctxs : On(d, ctxes') <=> On(d, ctxes) /\ d # c
         \/ /\ ctx[c].ref # 1 \/ {"keep", "single"} \subseteq CtxFlags(c)
            /\ g = Null /\ UNCHANGED ctxes
  BY <1>1 DEF Drops
<1>5. fr[p] = f /\ p \in Pl
  BY <1>2, AtSays
<1>6. Idle(f) /\ ~Ref(f) /\ ~HalfOpen(f) /\ ~Act(f)
  BY <1>2 DEF Idle, HoldsBusy, Ending, EndPcs, Ref, HalfOpen, Act
<1>7. ~Ref(g) /\ ~HalfOpen(g)
  BY <1>4, NullIdle DEF Ref, HalfOpen
<1>8. SessTidy'
  <2>1. AsBefore(f, g)
    BY <1>2, <1>6, <1>7 DEF AsBefore
  <2>2. SessSame
    BY <1>2 DEF SessSame
  <2> QED BY <1>2, <1>5, <2>1, <2>2, SessQuiet DEF Neat
<1>9. \A d \in Ctxs : /\ ctx'[d].state = ctx[d].state /\ ctx'[d].u = ctx[d].u /\ (ctx'[d].loaded <=> ctx[d].loaded)
                      /\ (ctx'[d].busy <=> ctx[d].busy) /\ (d # c => ctx'[d].ref = ctx[d].ref)
  BY <1>3
<1>10. CASE g.op = "close" /\ g.pc = "destroy" /\ g.c = c /\ \A d \in Ctxs : On(d, ctxes') <=> On(d, ctxes) /\ d # c
  <2>1. Ending(g) /\ ~HoldsBusy(g)
    BY <1>10 DEF Ending, EndPcs, HoldsBusy
  <2>2. CtxTidy'
    BY <1>2, <1>5, <1>6, <1>9, <1>10, <2>1, EndsTidy DEF Neat
  <2> QED BY <1>8, <2>2 DEF Neat
<1>11. CASE (ctx[c].ref # 1 \/ {"keep", "single"} \subseteq CtxFlags(c)) /\ g = Null /\ UNCHANGED ctxes
  <2>1. fr'[p] = g /\ \A x \in Pl : x # p => fr'[x] = fr[x]
    BY <1>2 DEF Moved
  <2>2. ~HoldsBusy(g) /\ ~Ending(g) /\ ~HoldsBusy(f) /\ ~Ending(f)
    BY <1>6, <1>11, NullIdle DEF Idle
  <2>3. \A x \in Pl : (HoldsBusy(fr'[x]) <=> HoldsBusy(fr[x])) /\ (Ending(fr'[x]) <=> Ending(fr[x]))
    BY <1>5, <2>1, <2>2
  <2>4. \A x \in Pl : HoldsBusy(fr[x]) \/ Ending(fr[x]) => fr'[x] = fr[x]
    BY <1>5, <2>1, <2>2
  <2>5. FlagInv'
    BY <1>9, <2>3, <2>4 DEF FlagInv, Neat, CtxTidy
  <2>6. KeptInv'
    <3>1. \A d \in Ctxs : ctx'[d].state = "live" => On(d, ctxes') \/ \E x \in Pl : Ending(fr'[x]) /\ fr'[x].c = d
      BY <1>9, <1>11, <2>3, <2>4 DEF KeptInv, Neat, CtxTidy
    <3>2. ASSUME NEW d \in Ctxs, On(d, ctxes'), ctx'[d].ref = 0 PROVE {"keep", "single"} \subseteq FlagsIn(ctx'[d])
      <4>1. FlagsIn(ctx'[d]) = FlagsIn(ctx[d]) /\ CtxFlags(d) = FlagsIn(ctx[d])
        BY <1>9 DEF FlagsIn, CtxFlags
      <4>2. CASE d = c
        <5>1. ctx[c].ref = 1
          BY <1>3, <3>2, <4>2
        <5> QED BY <1>11, <4>1, <4>2, <5>1
      <4>3. CASE d # c
        BY <1>9, <1>11, <3>2, <4>1, <4>3 DEF KeptInv, Neat, CtxTidy
      <4> QED BY <4>2, <4>3
    <3> QED BY <3>1, <3>2 DEF KeptInv
  <2>7. EndInv'
    <3>1. ASSUME NEW x \in Pl, Ending(fr'[x]) PROVE ctx'[fr'[x].c].state = "live"
      <4>1. Ending(fr[x]) /\ fr'[x] = fr[x]
        BY <2>3, <2>4, <3>1
      <4>2. fr[x].c \in Ctxs
        BY <1>2, <4>1, EndingCtx
      <4> QED BY <1>9, <4>1, <4>2 DEF EndInv, Neat, CtxTidy
    <3>2. \A d \in Ctxs : ctx'[d].state = "freed" => lists'[d] = <<>>
      BY <1>2, <1>9 DEF EndInv, Neat, CtxTidy
    <3> QED BY <3>1, <3>2 DEF EndInv
  <2> QED BY <1>8, <2>5, <2>6, <2>7 DEF Neat, CtxTidy
<1> QED BY <1>4, <1>10, <1>11

\* ... and the context is freed.
LEMMA FreeCtxTidy ==
    ASSUME AInv, AInv', fault' = "none", Core, Neat, NEW t \in Threads, FreeCtx(t)
    PROVE  Neat'
<1>1. PICK f : f = Top(t)
  OBVIOUS
<1>2. PICK c : c = f.c
  OBVIOUS
<1>3. /\ fault = "none" /\ stack[t] # <<>> /\ f.pc = "drain" /\ lists[c] = <<>>
      /\ ctx' = [ctx EXCEPT ![c].state = "freed"]
      /\ \/ f.op = "invoke" /\ SetTop(t, [f EXCEPT !.pc = "put"]) /\ sess' = [sess EXCEPT ![f.s].ctx = NoCtx]
         \/ f.op # "invoke" /\ Return(t) /\ UNCHANGED sess
      /\ UNCHANGED <<ctxes, lists, usable>>
  BY <1>1, <1>2 DEF FreeCtx, At, Goto
<1>4. PICK p : p = TopP(t)
  OBVIOUS
<1>5. fault = "none" /\ stack[t] # <<>> /\ f.pc = "drain" /\ UNCHANGED <<ctxes, lists, usable>> /\ lists[c] = <<>>
  BY <1>3
<1>6. /\ TypeOK /\ Good /\ p \in Pl /\ fr[p] = f /\ f \in Frame /\ Shape(f) /\ stack \in [Threads -> Seq(Frame)]
  BY <1>1, <1>4, <1>5, AtSays
<1>7. f.op \in {"invoke", "close"} /\ Ending(f) /\ ~HoldsBusy(f)
  BY <1>5, <1>6 DEF Shape, OpenShape, LivePcs, BusyPcs, Frame, Ending, EndPcs, HoldsBusy
<1>8. c \in Ctxs
  BY <1>2, <1>5, <1>6, <1>7, EndingCtx
<1>9. /\ ctx'[c].state = "freed" /\ \A d \in Ctxs : d # c => ctx'[d] = ctx[d]
      /\ ctx'[c].u = ctx[c].u /\ ctx'[c].ref = ctx[c].ref /\ ctx'[c].loaded = ctx[c].loaded /\ ctx'[c].busy = ctx[c].busy
  <2>1. ctx \in [Ctxs -> Context] /\ ctx' = [ctx EXCEPT ![c].state = "freed"]
    BY <1>3, <1>6 DEF TypeOK
  <2> QED BY <1>8, <2>1 DEF Context
<1>10. \E g : Moved(p, g) /\ AsBefore(f, g) /\ SessSame /\ Idle(g)
  <2>1. CASE f.op = "invoke" /\ SetTop(t, [f EXCEPT !.pc = "put"]) /\ sess' = [sess EXCEPT ![f.s].ctx = NoCtx]
    <3>1. PICK g : g = [f EXCEPT !.pc = "put"]
      OBVIOUS
    <3>2. /\ g.op = "invoke" /\ g.pc = "put" /\ g.s = f.s
      BY <1>6, <2>1, <3>1, GotoIs DEF Pcs
    <3>3. Moved(p, g)
      BY <1>4, <1>5, <2>1, <3>1, SetMoves
    <3>4. AsBefore(f, g)
      BY <1>5, <2>1, <3>2 DEF AsBefore, HalfOpen, Ref, Grip
    <3>5. SessSame
      <4>1. sess \in [Sessions -> Session] /\ sess' = [sess EXCEPT ![f.s].ctx = NoCtx]
        BY <1>6, <2>1 DEF TypeOK
      <4> QED BY <4>1 DEF SessSame, Session
    <3>6. Idle(g)
      BY <3>2 DEF Idle, HoldsBusy, Ending, EndPcs
    <3> QED BY <3>3, <3>4, <3>5, <3>6
  <2>2. CASE f.op # "invoke" /\ Return(t) /\ UNCHANGED sess
    <3>1. Moved(p, Null)
      BY <1>4, <1>5, <1>6, <2>2, MovePop
    <3>2. AsBefore(f, Null)
      BY <1>5, <1>7, <2>2, NullIdle DEF AsBefore, HalfOpen, Ref, Act
    <3>3. SessSame
      BY <2>2 DEF SessSame
    <3> QED BY <3>1, <3>2, <3>3, NullIdle
  <2> QED BY <1>3, <2>1, <2>2
<1>11. PICK g : Moved(p, g) /\ AsBefore(f, g) /\ SessSame /\ Idle(g)
  BY <1>10
<1>12. SessTidy'
  BY <1>5, <1>6, <1>11, SessQuiet DEF Neat
<1>13. fr'[p] = g /\ \A x \in Pl : x # p => fr'[x] = fr[x]
  BY <1>11 DEF Moved
<1>14. FlagInv'
  <2>1. ASSUME NEW d \in Ctxs, ctx'[d].state = "live", ctx'[d].busy PROVE \E x \in Pl : HoldsBusy(fr'[x]) /\ fr'[x].c = d
    <3>1. d # c /\ ctx'[d] = ctx[d]
      BY <1>9, <2>1
    <3>2. PICK x \in Pl : HoldsBusy(fr[x]) /\ fr[x].c = d
      BY <2>1, <3>1 DEF Neat, CtxTidy, FlagInv
    <3> QED BY <1>6, <1>7, <1>13, <3>2
  <2>2. ASSUME NEW d \in Ctxs, ctx'[d].state # "unused", "concurrent" \in Flags[ctx'[d].u] PROVE ~ctx'[d].busy
    <3>1. ctx[c].state = "live"
      BY <1>2, <1>6, <1>7 DEF Neat, CtxTidy, EndInv
    <3> QED BY <1>9, <2>2, <3>1 DEF Neat, CtxTidy, FlagInv
  <2> QED BY <2>1, <2>2 DEF FlagInv
<1>15. KeptInv'
  <2>1. ASSUME NEW d \in Ctxs, ctx'[d].state = "live" PROVE On(d, ctxes') \/ \E x \in Pl : Ending(fr'[x]) /\ fr'[x].c = d
    <3>1. d # c /\ ctx'[d] = ctx[d]
      BY <1>9, <2>1
    <3>2. CASE On(d, ctxes)
      BY <1>5, <3>2
    <3>3. CASE ~On(d, ctxes)
      <4>1. PICK x \in Pl : Ending(fr[x]) /\ fr[x].c = d
        BY <2>1, <3>1, <3>3 DEF Neat, CtxTidy, KeptInv
      <4>2. x # p
        BY <1>2, <1>6, <3>1, <4>1
      <4> QED BY <1>13, <4>1, <4>2
    <3> QED BY <3>2, <3>3
  <2>2. ASSUME NEW d \in Ctxs, On(d, ctxes'), ctx'[d].ref = 0 PROVE {"keep", "single"} \subseteq FlagsIn(ctx'[d])
    <3>1. FlagsIn(ctx'[d]) = FlagsIn(ctx[d]) /\ ctx[d].ref = 0 /\ On(d, ctxes)
      BY <1>5, <1>9, <2>2 DEF FlagsIn
    <3> QED BY <3>1 DEF Neat, CtxTidy, KeptInv
  <2> QED BY <2>1, <2>2 DEF KeptInv
<1>16. EndInv'
  <2>1. ASSUME NEW x \in Pl, Ending(fr'[x]) PROVE ctx'[fr'[x].c].state = "live"
    <3>1. x # p /\ fr'[x] = fr[x]
      BY <1>11, <1>13, <2>1 DEF Idle
    <3>2. fr[x].c \in Ctxs /\ fr[x].c # c
      <4>1. fr[x].c \in Ctxs
        BY <1>5, <2>1, <3>1, EndingCtx
      <4> QED BY <1>2, <1>6, <1>7, <2>1, <3>1, <4>1 DEF Core, WholeInv
    <3> QED BY <1>9, <2>1, <3>1, <3>2 DEF Neat, CtxTidy, EndInv
  <2>2. \A d \in Ctxs : ctx'[d].state = "freed" => lists'[d] = <<>>
    BY <1>5, <1>9 DEF Neat, CtxTidy, EndInv
  <2> QED BY <2>1, <2>2 DEF EndInv
<1> QED BY <1>12, <1>14, <1>15, <1>16 DEF Neat, CtxTidy

\* tee_ta_unlink_session ends, and everything is in order.
LEMMA FreeTidy ==
    ASSUME AInv, AInv', fault = "none", fault' = "none", Core, Neat, NEW t \in Threads, stack[t] # <<>>,
           Top(t).op = "close", Top(t).pc \in {"unlink", "wait_refc"},
           FreeSession(t), NEW s, s = Top(t).s, \A r \in Sessions : r # s => sess'[r] = sess[r],
           sess'[s].state = "freed", sess'[s].id = sess[s].id, UNCHANGED <<ctx, ctxes, usable>>
    PROVE  Neat'
<1>1. PICK g : /\ Frees(Top(t), g) /\ Moved(TopP(t), g) /\ stack' \in [Threads -> Seq(Frame)]
               /\ lists' = Upd(lists, Top(t).own, Without(lists[Top(t).own], {Top(t).s}))
  BY FreeSessionIs
<1>2. PICK p : p = TopP(t)
  OBVIOUS
<1>3. PICK f : f = Top(t)
  OBVIOUS
<1>4. /\ TypeOK /\ Good /\ p \in Pl /\ fr[p] = f /\ f \in Frame /\ Shape(f)
  BY <1>2, <1>3, AtSays
<1>5. ~Ref(g) /\ ~Ending(g) /\ Ref(f) /\ s \in Sessions /\ f.own \in Owners /\ Frees(f, g)
  BY <1>1, <1>3, <1>4, FreesSays
<1>6. ~Act(g) /\ ~HalfOpen(g) /\ g.pc # "wait_refc"
  <2>1. CASE g = Null
    BY <2>1, NullSays, ActSays DEF Null
  <2>2. CASE g.op = "close" /\ g.pc \in {"clear", "release"}
    BY <2>2 DEF Act, HalfOpen
  <2> QED BY <1>5, <2>1, <2>2 DEF Frees
<1>7. Act(f) /\ f.op = "close" /\ ~Ending(f) /\ f.s = s /\ f.pc \in {"unlink", "wait_refc"}
  BY <1>3 DEF Act, Ending, EndPcs
<1>8. Moved(p, g) /\ fr'[p] = g /\ \A x \in Pl : x # p => fr'[x] = fr[x]
  BY <1>1, <1>2 DEF Moved
<1>9. PICK w : w = f.own
  OBVIOUS
<1>10. Stake(f, s) /\ On(s, lists[w]) /\ sess[s].id = f.id /\ s \notin usable
  <2>1. PICK r \in Sessions : Stake(f, r)
    BY <1>4, <1>7 DEF Core, ActInv, StakeInv
  <2>2. r = s
    BY <1>5, <1>7, <2>1 DEF Stake
  <2> QED BY <1>7, <1>9, <2>1, <2>2 DEF Stake, Names
<1>11. PICK m : m = Without(lists[w], {s})
  OBVIOUS
<1>12. lists \in [Owners -> Seq(Sessions)] /\ w \in Owners /\ lists[w] \in Seq(Sessions)
  BY <1>4, <1>5, <1>9 DEF TypeOK
<1>13. \A d \in Sessions : On(d, lists[w]) /\ d # s => On(d, m)
  <2>1. /\ Without(lists[w], {s}) \in Seq(Sessions)
        /\ \A e \in Sessions : (\E k \in 1..Len(Without(lists[w], {s})) : Without(lists[w], {s})[k] = e)
                              <=> (e \notin {s} /\ \E k \in 1..Len(lists[w]) : lists[w][k] = e)
    BY <1>12, WithoutFacts, Zenon
  <2>2. \A e \in Sessions : (\E k \in 1..Len(m) : m[k] = e) <=> (e \notin {s} /\ \E k \in 1..Len(lists[w]) : lists[w][k] = e)
    BY <1>11, <2>1
  <2> QED BY <2>2 DEF On
<1>14. lists' = Upd(lists, w, m)
  BY <1>1, <1>3, <1>7, <1>9, <1>11
<1>15. lists'[w] = m /\ \A o \in Owners : o # w => lists'[o] = lists[o]
  BY <1>12, <1>14 DEF Upd
<1>16. \A o \in Owners : \A r \in Sessions : On(r, lists[o]) /\ r # s => On(r, lists'[o])
  BY <1>13, <1>15
<1>17. ASSUME NEW r \in Sessions, sess'[r].state = "live" PROVE r # s /\ sess'[r] = sess[r] /\ sess[r].state = "live"
  BY <1>17
<1>18. ASSUME NEW r \in Sessions, Opening(fr', r) PROVE Opening(fr, r) /\ r # s
  <2>1. PICK x \in Pl : HalfOpen(fr'[x]) /\ fr'[x].s = r
    BY <1>18 DEF Opening
  <2>2. fr'[x] = fr[x]
    BY <1>6, <1>8, <2>1
  <2>3. HalfOpen(fr[x]) /\ fr[x].s = r
    BY <2>1, <2>2
  <2>4. Stake(fr[p], s) /\ Act(fr[p])
    BY <1>4, <1>7, <1>10
  <2>5. fr[x].s # s
    BY <1>4, <1>5, <2>3, <2>4, HalfApart
  <2> QED BY <2>3, <2>5 DEF Opening
<1>19. LiveInv'
  <2> SUFFICES ASSUME NEW r \in Sessions, sess'[r].state = "live"
               PROVE  r \in usable' \/ Opening(fr', r) \/ \E x \in Pl : Closes(lists', sess', fr'[x], r)
    BY DEF LiveInv
  <2>1. r # s /\ sess'[r] = sess[r] /\ sess[r].state = "live"
    BY <1>17
  <2>2. r \in usable \/ Opening(fr, r) \/ \E x \in Pl : Closes(lists, sess, fr[x], r)
    BY <2>1 DEF Neat, SessTidy, LiveInv
  <2>3. CASE Opening(fr, r)
    <3>1. PICK x \in Pl : HalfOpen(fr[x]) /\ fr[x].s = r
      BY <2>3 DEF Opening
    <3>2. x # p
      BY <1>4, <1>7, <2>1, <3>1
    <3> QED BY <1>8, <3>1, <3>2 DEF Opening
  <2>4. CASE \E x \in Pl : Closes(lists, sess, fr[x], r)
    <3>1. PICK x \in Pl : Closes(lists, sess, fr[x], r)
      BY <2>4
    <3>2. On(r, lists[fr[x].own]) /\ sess[r].id = fr[x].id
      BY <3>1 DEF Closes, Names
    <3>3. x # p
      <4> SUFFICES ASSUME x = p PROVE FALSE
        OBVIOUS
      <4>1. On(r, lists[w]) /\ sess[r].id = sess[s].id
        BY <1>4, <1>9, <1>10, <3>2
      <4> QED BY <1>4, <1>5, <1>10, <1>12, <2>1, <4>1, OneNamed
    <3>4. fr[x].own \in Owners
      BY <1>4, FrameSays DEF Good
    <3>5. On(r, lists'[fr[x].own])
      BY <1>16, <2>1, <3>2, <3>4
    <3>6. Closes(lists', sess', fr[x], r)
      BY <2>1, <3>1, <3>5 DEF Closes, Names
    <3> QED BY <1>8, <3>3, <3>6
  <2> QED BY <2>2, <2>3, <2>4
<1>20. UnlinkInv'
  <2> SUFFICES ASSUME NEW r \in Sessions, sess'[r].state = "live", sess'[r].unlink
               PROVE  \E x \in Pl : fr'[x].op = "close" /\ fr'[x].pc = "wait_refc" /\ fr'[x].s = r
    BY DEF UnlinkInv
  <2>1. r # s /\ sess'[r] = sess[r] /\ sess[r].state = "live"
    BY <1>17
  <2>2. PICK x \in Pl : fr[x].op = "close" /\ fr[x].pc = "wait_refc" /\ fr[x].s = r
    BY <2>1 DEF Neat, SessTidy, UnlinkInv
  <2>3. x # p
    BY <1>4, <1>7, <2>1, <2>2
  <2> QED BY <1>8, <2>2, <2>3
<1>21. ExactInv'
  <2> SUFFICES ASSUME NEW r \in Sessions, r \in usable' \/ Opening(fr', r)
               PROVE  sess'[r].ref = Cardinality(Refs(fr', r))
    BY DEF ExactInv
  <2>1. r # s /\ (r \in usable \/ Opening(fr, r))
    BY <1>10, <1>18
  <2>2. sess'[r] = sess[r] /\ sess[r].ref = Cardinality(Refs(fr, r))
    BY <2>1 DEF Neat, SessTidy, ExactInv
  <2>3. IsFiniteSet(Refs(fr, r))
    BY <1>4 DEF Good, RefInv
  <2>4. /\ Cardinality(Refs(fr, r)) \in Nat /\ Cardinality(Refs(fr', r)) \in Nat
        /\ Cardinality(Refs(fr', r)) + Has(fr[p], r) = Cardinality(Refs(fr, r)) + Has(g, r)
    BY <1>8, <2>3, RefsCard
  <2>5. Has(fr[p], r) = 0 /\ Has(g, r) = 0
    BY <1>4, <1>5, <1>7, <2>1 DEF Has
  <2> QED BY <2>2, <2>4, <2>5
<1>22. LockInv'
  <2> SUFFICES ASSUME NEW r \in Sessions, sess'[r].state = "live", sess'[r].lock # NoThread
               PROVE  \E x \in Pl : Grip(fr'[x]) /\ Ref(fr'[x]) /\ fr'[x].s = r
    BY DEF LockInv
  <2>1. r # s /\ sess'[r] = sess[r] /\ sess[r].state = "live"
    BY <1>17
  <2>2. PICK x \in Pl : Grip(fr[x]) /\ Ref(fr[x]) /\ fr[x].s = r
    BY <2>1 DEF Neat, SessTidy, LockInv
  <2>3. x # p
    BY <1>4, <1>7, <2>1, <2>2
  <2> QED BY <1>8, <2>2, <2>3
<1>23. CtxKeeps(f, g)
  <2>1. \A c \in Ctxs : lists[c] = <<>> => lists'[c] = <<>>
    <3> SUFFICES ASSUME NEW c \in Ctxs, lists[c] = <<>>
                 PROVE  lists'[c] = <<>>
      OBVIOUS
    <3>1. c \in Owners
      BY DEF Owners
    <3>2. c # w
      BY <1>10 DEF On
    <3> QED BY <1>15, <3>1, <3>2
  <2>2. HoldsBusy(f) => HoldsBusy(g) /\ g.c = f.c
    <3> SUFFICES ASSUME HoldsBusy(f) PROVE HoldsBusy(g) /\ g.c = f.c
      OBVIOUS
    <3>1. f.via = "live"
      BY <1>7 DEF HoldsBusy
    <3> QED BY <1>5, <3>1 DEF Frees, HoldsBusy
  <2> QED BY <1>5, <1>7, <2>1, <2>2 DEF CtxKeeps
<1>24. CtxTidy'
  BY <1>4, <1>8, <1>23, CtxTidyMove DEF Neat
<1> QED BY <1>19, <1>20, <1>21, <1>22, <1>24 DEF Neat, SessTidy

\* tee_ta_unlink_session leaves everything in order ...
LEMMA UnlinkTidy ==
    ASSUME AInv, AInv', fault' = "none", Core, Neat, NEW t \in Threads, Unlink(t)
    PROVE  Neat'
<1>1. PICK f : f = Top(t)
  OBVIOUS
<1>2. PICK s : s = f.s
  OBVIOUS
<1>4. PICK e : e = [sess[s] EXCEPT !.unlink = TRUE]
  OBVIOUS
<1>5. PICK S : S = [sess EXCEPT ![s].unlink = TRUE]
  OBVIOUS
<1>6. /\ fault = "none" /\ stack[t] # <<>> /\ f.pc = "unlink" /\ UNCHANGED <<ctx, ctxes, usable>>
      /\ \/ sess' = S /\ Goto(t, "wait_refc") /\ UNCHANGED lists
         \/ sess' = [S EXCEPT ![s].state = "freed"] /\ FreeSession(t)
  BY <1>1, <1>2, <1>5 DEF Unlink, At
<1>7. f \in Frame /\ Shape(f) /\ TypeOK /\ fr[TopP(t)] = f
  BY <1>1, <1>6, AtSays
<1>8. f.op = "close" /\ s \in Sessions
  BY <1>2, <1>6, <1>7 DEF Shape, OpenShape, InvokeShape, CloseShape, LivePcs, BusyPcs, EndPcs, Frame
<1>9. sess[s] \in Session /\ sess \in [Sessions -> Session]
  BY <1>7, <1>8 DEF TypeOK
<1>10. e \in Session /\ e.id = sess[s].id /\ e.state = sess[s].state /\ e.ref = sess[s].ref /\ e.lock = sess[s].lock
  BY <1>4, <1>9 DEF Session
<1>11. S = Upd(sess, s, e)
  BY <1>4, <1>5, <1>9 DEF Upd
<1>12. S \in [Sessions -> Session] /\ S[s] = e /\ \A r \in Sessions : r # s => S[r] = sess[r]
  BY <1>8, <1>9, <1>10, <1>11 DEF Upd
<1>13. fault = "none" /\ stack[t] # <<>> /\ UNCHANGED <<ctx, ctxes, usable>>
  BY <1>6
<1>15. CASE sess' = S /\ Goto(t, "wait_refc") /\ UNCHANGED lists
  <2>1. PICK g : g = [f EXCEPT !.pc = "wait_refc"]
    OBVIOUS
  <2>2. /\ g \in Frame /\ g.pc = "wait_refc" /\ g.op = "close" /\ g.own = f.own /\ g.s = f.s /\ g.c = f.c
        /\ g.via = f.via /\ g.id = f.id
    BY <1>7, <1>8, <2>1 DEF Frame, Pcs
  <2>3. SetTop(t, g) /\ UNCHANGED lists
    BY <1>1, <1>15, <2>1 DEF Goto
  <2>4. Moved(TopP(t), g)
    BY <1>13, <2>2, <2>3, SetMoves
  <2>5. sess'[s] = e /\ \A r \in Sessions : r # s => sess'[r] = sess[r]
    BY <1>12, <1>15
  <2>6. \A r \in Sessions : sess'[r].state = sess[r].state /\ sess'[r].id = sess[r].id /\ sess'[r].ref = sess[r].ref /\ sess'[r].lock = sess[r].lock
    BY <1>10, <2>5
  <2>7. ~HalfOpen(f) /\ ~HalfOpen(g) /\ Act(g) /\ Act(f) /\ Grip(f) /\ Grip(g) /\ Ref(f) /\ Ref(g) /\ ~Ending(f) /\ ~Ending(g)
    BY <1>6, <1>8, <2>2 DEF HalfOpen, Act, Grip, Ref, Ending, EndPcs
  <2>8. LiveKeeps(f, g)
    BY <1>13, <2>2, <2>7 DEF LiveKeeps
  <2>9. RefKeeps(f, g)
    <3>1. \A r \in Sessions : Has(f, r) = Has(g, r)
      BY <2>2, <2>7 DEF Has
    <3>2. \A r \in Sessions : sess'[r].unlink => sess[r].unlink \/ r = s
      BY <2>5
    <3> QED BY <1>2, <1>6, <2>2, <2>6, <3>1, <3>2 DEF RefKeeps
  <2>10. LockKeeps(f, g)
    BY <2>2, <2>6, <2>7 DEF LockKeeps
  <2>11. CtxKeeps(f, g)
    <3>1. HoldsBusy(f) => HoldsBusy(g)
      BY <1>6, <2>2 DEF HoldsBusy
    <3> QED BY <1>13, <2>2, <2>3, <2>7, <3>1 DEF CtxKeeps
  <2>12. Lasting
    BY <2>3, <2>6 DEF Lasting
  <2> QED BY <1>7, <1>13, <2>4, <2>8, <2>9, <2>10, <2>11, <2>12, SessMove, CtxTidyMove DEF Neat
<1>16. CASE sess' = [S EXCEPT ![s].state = "freed"] /\ FreeSession(t)
  <2>2. PICK d : d = [e EXCEPT !.state = "freed"]
    OBVIOUS
  <2>3. d \in Session /\ d.state = "freed" /\ d.id = sess[s].id
    BY <1>10, <2>2 DEF Session
  <2>4. sess' = Upd(S, s, d)
    BY <1>12, <1>16, <2>2 DEF Upd
  <2>5. sess'[s] = d /\ \A r \in Sessions : r # s => sess'[r] = sess[r]
    BY <1>8, <1>12, <2>3, <2>4 DEF Upd
  <2>6. FreeSession(t) /\ Top(t).op = "close" /\ Top(t).pc \in {"unlink", "wait_refc"} /\ s = Top(t).s
    BY <1>1, <1>2, <1>6, <1>8, <1>16
  <2>7. sess'[s].state = "freed" /\ sess'[s].id = sess[s].id
    BY <2>3, <2>5
  <2> QED BY <1>13, <2>5, <2>6, <2>7, FreeTidy
<1> QED BY <1>6, <1>15, <1>16

\* ... and so does a thread that wakes up in it.
LEMMA UnlinkWokenTidy ==
    ASSUME AInv, AInv', fault' = "none", Core, Neat, NEW t \in Threads, UnlinkWoken(t)
    PROVE  Neat'
<1>1. PICK f : f = Top(t)
  OBVIOUS
<1>2. PICK s : s = f.s
  OBVIOUS
<1>3. /\ fault = "none" /\ stack[t] # <<>> /\ f.pc = "wait_refc" /\ UNCHANGED <<ctx, ctxes, usable>>
      /\ \/ UNCHANGED <<sess, lists, stack>>
         \/ sess' = [sess EXCEPT ![s].state = "freed"] /\ FreeSession(t)
  BY <1>1, <1>2 DEF UnlinkWoken, At
<1>4. f \in Frame /\ Shape(f) /\ TypeOK
  BY <1>1, <1>3, AtSays
<1>5. f.op = "close" /\ s \in Sessions
  BY <1>2, <1>3, <1>4 DEF Shape, OpenShape, InvokeShape, CloseShape, LivePcs, BusyPcs, EndPcs, Frame
<1>7. CASE UNCHANGED <<sess, lists, stack>>
  BY <1>3, <1>7, NeatStill
<1>8. CASE sess' = [sess EXCEPT ![s].state = "freed"] /\ FreeSession(t)
  <2>1. sess[s] \in Session /\ sess \in [Sessions -> Session]
    BY <1>4, <1>5 DEF TypeOK
  <2>2. PICK d : d = [sess[s] EXCEPT !.state = "freed"]
    OBVIOUS
  <2>3. d \in Session /\ d.state = "freed" /\ d.id = sess[s].id
    BY <2>1, <2>2 DEF Session
  <2>4. sess' = Upd(sess, s, d)
    BY <1>8, <2>1, <2>2 DEF Upd
  <2>5. sess'[s] = d /\ \A r \in Sessions : r # s => sess'[r] = sess[r]
    BY <1>5, <2>1, <2>3, <2>4 DEF Upd
  <2>6. FreeSession(t) /\ Top(t).op = "close" /\ Top(t).pc \in {"unlink", "wait_refc"} /\ s = Top(t).s
        /\ fault = "none" /\ stack[t] # <<>> /\ UNCHANGED <<ctx, ctxes, usable>>
    BY <1>1, <1>2, <1>3, <1>5, <1>8
  <2>7. sess'[s].state = "freed" /\ sess'[s].id = sess[s].id
    BY <2>3, <2>5
  <2> QED BY <2>5, <2>6, <2>7, FreeTidy
<1> QED BY <1>3, <1>7, <1>8

\* A call from a TA finds the context of the TA alive.
LEMMA OwnerLives ==
    ASSUME AInv, fault = "none", Core, EndInv, NEW x \in Pl, fr[x] # Null, fr[x].own \in Ctxs
    PROVE  ctx[fr[x].own].state = "live"
<1>1. Good /\ TypeOK
  BY DEF AInv
<1>2. PICK y : y = <<x[1], x[2] - 1>>
  OBVIOUS
<1>3. fr[x].own # NW
  BY DEF NW, Ctxs
<1>4. x[2] > 1 /\ fr[y].pc \in {"in_ta", "drain"} /\ fr[y].c = fr[x].own
  BY <1>1, <1>2, <1>3 DEF Good, StackInv
<1>5. y \in Pl
  BY <1>2, <1>4 DEF Pl, Depth
<1>6. CASE fr[y].pc = "in_ta"
  <2>1. HoldsBusy(fr[y])
    BY <1>6 DEF HoldsBusy
  <2>2. Uses(fr[y]) /\ ~Ending(fr[y])
    BY <1>5, <2>1, BusyUses
  <2> QED BY <1>1, <1>4, <1>5, <2>2 DEF Core, WholeInv, Good, UsedInv
<1>7. CASE fr[y].pc = "drain"
  BY <1>4, <1>5, <1>7 DEF EndInv, Ending, EndPcs
<1> QED BY <1>4, <1>6, <1>7

\* The context of a new session is on tee_ctxes and in nobody's way.
NewFair(c) ==
    /\ ctx[c].state # "freed" /\ ctx'[c].state = "live" /\ ctx'[c].ref # 0
    /\ ctx'[c].busy => ctx[c].state = "live" /\ ctx[c].busy /\ ctx'[c].u = ctx[c].u

\* A new session leaves everything in order.
LEMMA NewTidy ==
    ASSUME AInv, AInv', fault = "none", fault' = "none", Core, Neat, NEW t \in Threads, stack[t] # <<>>, Top(t).pc = "open_init",
           NEW c \in Ctxs, NewSession(t, c), UNCHANGED usable,
           \A d \in Ctxs : d # c => ctx'[d] = ctx[d], \A d \in Ctxs : On(d, ctxes') <=> On(d, ctxes) \/ d = c, NewFair(c)
    PROVE  Neat'
<1>1. PICK s \in Sessions, g \in Frame :
              /\ sess[s].state = "unused" /\ SetTop(t, g)
              /\ sess' \in [Sessions -> Session] /\ \A r \in Sessions : r # s => sess'[r] = sess[r]
              /\ sess'[s].state = "live" /\ sess'[s].ctx = c /\ sess'[s].ref = 1 /\ sess'[s].lock = NoThread
              /\ ~sess'[s].unlink /\ sess'[s].id # 0
              /\ lists' \in [Owners -> Seq(Sessions)] /\ lists'[g.own] = Append(lists[g.own], s)
              /\ \A o \in Owners : o # g.own => lists'[o] = lists[o]
              /\ \A r \in Sessions : On(r, lists[g.own]) => sess[r].id # sess'[s].id
              /\ g.op = "open" /\ g.pc = "open_chk" /\ g.own = Top(t).own /\ g.own \in Owners /\ g.s = s
              /\ g.via = "null" /\ Top(t).op = "open"
  BY NewSessionIs
<1>2. PICK p : p = TopP(t)
  OBVIOUS
<1>3. PICK f : f = Top(t)
  OBVIOUS
<1>4. TypeOK /\ Good /\ stack \in [Threads -> Seq(Frame)] /\ p \in Pl /\ fr[p] = f /\ f # Null
  BY <1>2, <1>3, AtSays
<1>5. Moved(p, g)
  <2>1. SetTop(t, g)
    BY <1>1
  <2> QED BY <1>2, <1>4, <2>1, MoveSet
<1>6. fr'[p] = g /\ \A x \in Pl : x # p => fr'[x] = fr[x]
  BY <1>5 DEF Moved
<1>7. /\ sess[s].state = "unused" /\ (\A r \in Sessions : r # s => sess'[r] = sess[r])
      /\ sess'[s].ref = 1 /\ sess'[s].lock = NoThread /\ ~sess'[s].unlink
  BY <1>1
<1>8. f.op = "open" /\ f.pc = "open_init" /\ g.op = "open" /\ g.pc = "open_chk" /\ g.s = s /\ g.own = f.own /\ g.own \in Owners
  BY <1>1, <1>3
<1>9. /\ ~Ref(f) /\ ~HalfOpen(f) /\ ~Act(f) /\ ~HoldsBusy(f) /\ ~Ending(f)
      /\ Ref(g) /\ HalfOpen(g) /\ ~HoldsBusy(g) /\ ~Ending(g)
  BY <1>8 DEF Ref, HalfOpen, Act, HoldsBusy, Ending, EndPcs
<1>10. \A o \in Owners : \A r \in Sessions : On(r, lists[o]) => r # s /\ On(r, lists'[o])
  <2> SUFFICES ASSUME NEW o \in Owners, NEW r \in Sessions, On(r, lists[o])
               PROVE  r # s /\ On(r, lists'[o])
    OBVIOUS
  <2>1. r # s
    BY <1>4, <1>7 DEF Good, HomeInv
  <2>2. CASE o # g.own
    BY <1>1, <2>1, <2>2
  <2>3. CASE o = g.own
    <3>1. lists[o] \in Seq(Sessions) /\ lists'[o] = Append(lists[o], s)
      BY <1>1, <1>4, <2>3 DEF TypeOK
    <3>2. On(r, lists'[o])
      BY <3>1, OnAppend
    <3> QED BY <2>1, <3>2
  <2> QED BY <2>1, <2>2, <2>3
<1>11. \A x \in Pl : Ref(fr[x]) => fr[x].s # s
  BY <1>4, <1>7, FrameSays DEF Good
<1>12. s \notin usable
  BY <1>10 DEF Core, ActInv, UsableInv
<1>13. Opening(fr', s)
  BY <1>4, <1>6, <1>8, <1>9 DEF Opening
<1>14. \A x \in Pl : HalfOpen(fr[x]) \/ Act(fr[x]) \/ Ref(fr[x]) \/ HoldsBusy(fr[x]) \/ Ending(fr[x]) => fr'[x] = fr[x]
  BY <1>4, <1>6, <1>9
<1>15. LiveInv'
  <2> SUFFICES ASSUME NEW r \in Sessions, sess'[r].state = "live", r # s
               PROVE  r \in usable' \/ Opening(fr', r) \/ \E x \in Pl : Closes(lists', sess', fr'[x], r)
    BY <1>13 DEF LiveInv
  <2>1. sess'[r] = sess[r] /\ sess[r].state = "live"
    BY <1>7
  <2>2. r \in usable \/ Opening(fr, r) \/ \E x \in Pl : Closes(lists, sess, fr[x], r)
    BY <2>1 DEF Neat, SessTidy, LiveInv
  <2>3. CASE Opening(fr, r)
    BY <1>14, <2>3 DEF Opening
  <2>4. CASE \E x \in Pl : Closes(lists, sess, fr[x], r)
    <3>1. PICK x \in Pl : Closes(lists, sess, fr[x], r)
      BY <2>4
    <3>2. fr'[x] = fr[x] /\ fr[x].own \in Owners
      BY <1>4, <1>14, <3>1, FrameSays DEF Closes, Good
    <3>3. On(r, lists'[fr[x].own])
      BY <1>10, <3>1, <3>2 DEF Closes, Names
    <3>4. Closes(lists', sess', fr'[x], r)
      BY <2>1, <3>1, <3>2, <3>3 DEF Closes, Names
    <3> QED BY <3>4
  <2> QED BY <2>2, <2>3, <2>4
<1>16. UnlinkInv'
  <2> SUFFICES ASSUME NEW r \in Sessions, sess'[r].state = "live", sess'[r].unlink
               PROVE  \E x \in Pl : fr'[x].op = "close" /\ fr'[x].pc = "wait_refc" /\ fr'[x].s = r
    BY DEF UnlinkInv
  <2>1. r # s /\ sess'[r] = sess[r]
    BY <1>7
  <2>2. PICK x \in Pl : fr[x].op = "close" /\ fr[x].pc = "wait_refc" /\ fr[x].s = r
    BY <2>1 DEF Neat, SessTidy, UnlinkInv
  <2>3. Act(fr[x])
    BY <2>2 DEF Act
  <2> QED BY <1>14, <2>2, <2>3
<1>17. ExactInv'
  <2> SUFFICES ASSUME NEW r \in Sessions, r \in usable' \/ Opening(fr', r)
               PROVE  sess'[r].ref = Cardinality(Refs(fr', r))
    BY DEF ExactInv
  <2>1. IsFiniteSet(Refs(fr, r))
    BY <1>4 DEF Good, RefInv
  <2>2. /\ Cardinality(Refs(fr, r)) \in Nat /\ Cardinality(Refs(fr', r)) \in Nat
        /\ Cardinality(Refs(fr', r)) + Has(fr[p], r) = Cardinality(Refs(fr, r)) + Has(g, r)
    BY <1>5, <2>1, RefsCard
  <2>3. CASE r = s
    <3>1. Refs(fr, s) = {}
      BY <1>11 DEF Refs
    <3>2. Cardinality(Refs(fr, r)) = 0
      BY <2>3, <3>1, FS_EmptySet
    <3>3. Has(fr[p], r) = 0 /\ Has(g, r) = 1
      BY <1>4, <1>8, <1>9, <2>3 DEF Has
    <3> QED BY <1>7, <2>2, <2>3, <3>2, <3>3
  <2>4. CASE r # s
    <3>1. r \in usable \/ Opening(fr, r)
      <4>1. CASE Opening(fr', r)
        <5>1. PICK x \in Pl : HalfOpen(fr'[x]) /\ fr'[x].s = r
          BY <4>1 DEF Opening
        <5>2. fr'[x] = fr[x]
          BY <1>6, <1>8, <2>4, <5>1
        <5> QED BY <5>1, <5>2 DEF Opening
      <4> QED BY <4>1
    <3>2. sess'[r] = sess[r] /\ sess[r].ref = Cardinality(Refs(fr, r))
      BY <1>7, <2>4, <3>1 DEF Neat, SessTidy, ExactInv
    <3>3. Has(fr[p], r) = 0 /\ Has(g, r) = 0
      BY <1>4, <1>8, <1>9, <2>4 DEF Has
    <3> QED BY <2>2, <3>2, <3>3
  <2> QED BY <2>3, <2>4
<1>18. LockInv'
  <2> SUFFICES ASSUME NEW r \in Sessions, sess'[r].state = "live", sess'[r].lock # NoThread
               PROVE  \E x \in Pl : Grip(fr'[x]) /\ Ref(fr'[x]) /\ fr'[x].s = r
    BY DEF LockInv
  <2>1. r # s /\ sess'[r] = sess[r]
    BY <1>7
  <2>2. PICK x \in Pl : Grip(fr[x]) /\ Ref(fr[x]) /\ fr[x].s = r
    BY <2>1 DEF Neat, SessTidy, LockInv
  <2> QED BY <1>14, <2>2
<1>19. FlagInv'
  <2>1. ASSUME NEW d \in Ctxs, ctx'[d].state = "live", ctx'[d].busy
        PROVE  \E x \in Pl : HoldsBusy(fr'[x]) /\ fr'[x].c = d
    <3>1. ctx[d].state = "live" /\ ctx[d].busy
      BY <2>1 DEF NewFair
    <3>2. PICK x \in Pl : HoldsBusy(fr[x]) /\ fr[x].c = d
      BY <3>1 DEF Neat, CtxTidy, FlagInv
    <3> QED BY <1>14, <3>2
  <2>2. ASSUME NEW d \in Ctxs, ctx'[d].state # "unused", "concurrent" \in Flags[ctx'[d].u], ctx'[d].busy PROVE FALSE
    <3>1. ctx[d].state # "unused" /\ ctx[d].busy /\ ctx'[d].u = ctx[d].u
      BY <2>2 DEF NewFair
    <3> QED BY <2>2, <3>1 DEF Neat, CtxTidy, FlagInv
  <2> QED BY <2>1, <2>2 DEF FlagInv
<1>20. KeptInv'
  <2>1. ASSUME NEW d \in Ctxs, ctx'[d].state = "live" PROVE On(d, ctxes') \/ \E x \in Pl : Ending(fr'[x]) /\ fr'[x].c = d
    <3>1. CASE d = c
      BY <3>1
    <3>2. CASE d # c
      <4>1. ctx[d].state = "live"
        BY <2>1, <3>2
      <4>2. On(d, ctxes) \/ \E x \in Pl : Ending(fr[x]) /\ fr[x].c = d
        BY <4>1 DEF Neat, CtxTidy, KeptInv
      <4> QED BY <1>14, <4>2
    <3> QED BY <3>1, <3>2
  <2>2. ASSUME NEW d \in Ctxs, On(d, ctxes'), ctx'[d].ref = 0 PROVE {"keep", "single"} \subseteq FlagsIn(ctx'[d])
    <3>1. d # c
      BY <2>2 DEF NewFair
    <3>2. ctx'[d] = ctx[d] /\ On(d, ctxes)
      BY <2>2, <3>1
    <3> QED BY <2>2, <3>2 DEF Neat, CtxTidy, KeptInv
  <2> QED BY <2>1, <2>2 DEF KeptInv
<1>21. EndInv'
  <2>1. ASSUME NEW x \in Pl, Ending(fr'[x]) PROVE ctx'[fr'[x].c].state = "live"
    <3>1. fr'[x] = fr[x] /\ Ending(fr[x])
      BY <1>6, <1>9, <2>1
    <3>2. ctx[fr[x].c].state = "live"
      BY <3>1 DEF Neat, CtxTidy, EndInv
    <3>3. Uses(fr[x])
      BY <3>1 DEF Uses
    <3>4. fr[x].c \in Ctxs
      BY <1>4, <3>3, FrameSays DEF Good
    <3> QED BY <3>1, <3>2, <3>4 DEF NewFair
  <2>2. ASSUME NEW d \in Ctxs, ctx'[d].state = "freed" PROVE lists'[d] = <<>>
    <3>1. d # c /\ ctx[d].state = "freed" /\ d \in Owners
      BY <2>2 DEF NewFair, Owners
    <3>2. lists[d] = <<>>
      BY <3>1 DEF Neat, CtxTidy, EndInv
    <3>3. d # g.own
      BY <1>4, <1>8, <3>1, OwnerLives DEF Neat, CtxTidy
    <3> QED BY <1>1, <3>1, <3>2, <3>3
  <2> QED BY <2>1, <2>2 DEF EndInv
<1> QED BY <1>15, <1>16, <1>17, <1>18, <1>19, <1>20, <1>21 DEF Neat, SessTidy, CtxTidy

\* tee_ta_init_session_with_context leaves everything in order ...
LEMMA OpenReuseTidy ==
    ASSUME AInv, AInv', fault' = "none", Core, Neat, NEW t \in Threads, OpenReuse(t)
    PROVE  Neat'
<1>1. PICK c : c = CtxFind(Top(t).u)
  OBVIOUS
<1>2. /\ fault = "none" /\ stack[t] # <<>> /\ Top(t).pc = "open_init" /\ Shareable(c)
      /\ ctx' = [ctx EXCEPT ![c].ref = @ + 1] /\ NewSession(t, c)
      /\ UNCHANGED <<ctxes, usable>>
  BY <1>1 DEF OpenReuse, At
<1>3. TypeOK /\ Good
  BY <1>2, AtSays
<1>4. c \in Ctxs /\ On(c, ctxes)
  BY <1>1, <1>2, <1>3, CtxFindIs DEF Shareable
<1>5. PICK e : e = [ctx[c] EXCEPT !.ref = @ + 1]
  OBVIOUS
<1>6. ctx \in [Ctxs -> Context] /\ ctx[c] \in Context
  BY <1>3, <1>4 DEF TypeOK
<1>7. e.u = ctx[c].u /\ e.ref = ctx[c].ref + 1 /\ e.state = ctx[c].state /\ ctx[c].ref \in Nat
  BY <1>5, <1>6 DEF Context
<1>8. e.busy = ctx[c].busy
  BY <1>5, <1>6 DEF Context
<1>9. ctx'[c] = e /\ \A d \in Ctxs : d # c => ctx'[d] = ctx[d]
  BY <1>2, <1>4, <1>5, <1>6
<1>10. ctx[c].state = "live"
  BY <1>3, <1>4 DEF Good, UsedInv
<1>11. NewFair(c)
  <2>1. e.ref # 0
    BY <1>7
  <2>2. ctx'[c].busy => ctx[c].busy
    BY <1>8, <1>9
  <2> QED BY <1>7, <1>9, <1>10, <2>1, <2>2 DEF NewFair
<1>12. fault = "none" /\ stack[t] # <<>> /\ Top(t).pc = "open_init" /\ NewSession(t, c) /\ UNCHANGED <<ctxes, usable>>
  BY <1>2
<1> QED BY <1>4, <1>9, <1>11, <1>12, NewTidy

\* ... and so does a new context.
LEMMA OpenLoadTidy ==
    ASSUME AInv, AInv', fault' = "none", Core, Neat, NEW t \in Threads, OpenLoad(t)
    PROVE  Neat'
<1>1. PICK c \in Ctxs : Loads(t, c)
  BY OpenLoadIs
<1>2. /\ fault = "none" /\ stack[t] # <<>> /\ Top(t).pc = "open_init" /\ NewSession(t, c)
      /\ UNCHANGED usable /\ ctx[c].state = "unused" /\ ctxes' = Append(ctxes, c)
      /\ (\A d \in Ctxs : d # c => ctx'[d] = ctx[d])
  BY <1>1 DEF Loads
<1>3. ctx'[c].ref = 1 /\ ctx'[c].state = "live"
  BY <1>1 DEF Loads
<1>4. ~ctx'[c].busy
  BY <1>1 DEF Loads
<1>5. ctxes \in Seq(Ctxs)
  BY DEF AInv, TypeOK
<1>6. \A d \in Ctxs : On(d, ctxes') <=> On(d, ctxes) \/ d = c
  BY <1>2, <1>5, OnAppend
<1>7. NewFair(c)
  BY <1>2, <1>3, <1>4 DEF NewFair
<1> QED BY <1>2, <1>6, <1>7, NewTidy

\* t has changed its own calls only, ...
Own(t) == \A v \in Threads : v # t => stack'[v] = stack[v]
\* ... every waiter of q has been waiting, ...
Fewer(q) == \A k \in 1..Len(q) : \E j \in 1..Len(waitq) : q[k] = waitq[j]
\* ... or t has begun to wait, in a call.
Queues(t) ==
    /\ stack'[t] # <<>>
    /\ \A k \in 1..Len(waitq') : waitq'[k].t = t \/ \E j \in 1..Len(waitq) : waitq'[k] = waitq[j]

\* What a step of t does to the waiters.
Waits(t) == Own(t) /\ ~Waiting(t) /\ (Fewer(waitq') \/ Queues(t))

\* Then threads wait in a call.
LEMMA WaitMove ==
    ASSUME AInv, AInv', WaitInv, NEW t \in Threads, Waits(t)
    PROVE  WaitInv'
<1> SUFFICES ASSUME NEW k \in 1..Len(waitq')
             PROVE  stack'[waitq'[k].t] # <<>>
  BY DEF WaitInv
<1>1. waitq \in Seq(Waiters)
  BY DEF AInv, TypeOK, Waiters
<1>2. CASE \E j \in 1..Len(waitq) : waitq'[k] = waitq[j]
  <2>1. PICK j \in 1..Len(waitq) : waitq'[k] = waitq[j]
    BY <1>2
  <2>2. waitq[j] \in Waiters
    BY <1>1
  <2>3. waitq[j].t \in Threads /\ waitq[j].t # t /\ stack[waitq[j].t] # <<>>
    BY <2>2 DEF Waiters, Waits, Waiting, WaitInv
  <2> QED BY <2>1, <2>3 DEF Waits, Own
<1>3. CASE ~\E j \in 1..Len(waitq) : waitq'[k] = waitq[j]
  BY <1>3 DEF Waits, Fewer, Queues
<1> QED BY <1>2, <1>3

\* What changes a stack changes the one of its thread.
LEMMA StackOwn ==
    ASSUME TypeOK, NEW t \in Threads
    PROVE  /\ \A f : SetTop(t, f) => Own(t)
           /\ \A pc : Goto(t, pc) => Own(t)
           /\ \A f : Push(t, f) => Own(t)
           /\ Return(t) => Own(t)
           /\ UNCHANGED stack => Own(t)
<1>1. stack \in [Threads -> Seq(Frame)]
  BY DEF TypeOK
<1>2. \A e : stack' = [stack EXCEPT ![t] = e] => Own(t)
  BY <1>1 DEF Own
<1>3. \A f : SetTop(t, f) => Own(t)
  BY <1>2 DEF SetTop
<1>4. \A pc : Goto(t, pc) => Own(t)
  BY <1>3 DEF Goto
<1>5. \A f : Push(t, f) => Own(t)
  BY <1>2 DEF Push
<1>6. Return(t) => Own(t)
  BY <1>2 DEF Return
<1>7. UNCHANGED stack => Own(t)
  BY DEF Own
<1> QED BY <1>3, <1>4, <1>5, <1>6, <1>7

\* Signals and broadcasts wake threads up.
LEMMA FewerIs ==
    ASSUME TypeOK
    PROVE  /\ waitq \in Seq(Waiters) /\ Fewer(waitq)
           /\ \A cv : Signal(waitq, cv) \in Seq(Waiters) /\ Fewer(Signal(waitq, cv))
           /\ \A cv, dv : Fewer(Signal(Signal(waitq, cv), dv))
           /\ \A cv : Broadcast(waitq, cv) \in Seq(Waiters) /\ Fewer(Broadcast(waitq, cv))
<1>1. waitq \in Seq(Waiters)
  BY DEF TypeOK, Waiters
<1>2. ASSUME NEW cv PROVE Signal(waitq, cv) \in Seq(Waiters) /\ Fewer(Signal(waitq, cv))
  BY <1>1, SignalFacts DEF Fewer
<1>3. ASSUME NEW cv, NEW dv PROVE Fewer(Signal(Signal(waitq, cv), dv))
  <2>1. PICK q : q = Signal(waitq, cv)
    OBVIOUS
  <2>2. q \in Seq(Waiters) /\ Fewer(q)
    BY <1>2, <2>1
  <2>3. \A k \in 1..Len(Signal(q, dv)) : \E j \in 1..Len(q) : Signal(q, dv)[k] = q[j]
    BY <2>2, SignalFacts
  <2>4. Fewer(Signal(q, dv))
    BY <2>2, <2>3 DEF Fewer
  <2> QED BY <2>1, <2>4
<1>4. ASSUME NEW cv PROVE Broadcast(waitq, cv) \in Seq(Waiters) /\ Fewer(Broadcast(waitq, cv))
  BY <1>1, BroadcastFacts DEF Fewer
<1>5. Fewer(waitq)
  BY DEF Fewer
<1> QED BY <1>1, <1>2, <1>3, <1>4, <1>5

\* A thread joins the waiters.
LEMMA QueuesIs ==
    ASSUME NEW t \in Threads, NEW q \in Seq(Waiters), Fewer(q), NEW cv, waitq' = Wait(q, t, cv), stack'[t] # <<>>
    PROVE  Queues(t)
<1>1. PICK w : w = [t |-> t, cv |-> cv]
  OBVIOUS
<1>2. waitq' = Append(q, w) /\ w.t = t
  BY <1>1 DEF Wait
<1>3. \A k \in 1..Len(waitq') : waitq'[k] = w \/ \E i \in 1..Len(q) : waitq'[k] = q[i]
  <2> SUFFICES ASSUME NEW k \in 1..Len(waitq')
               PROVE  waitq'[k] = w \/ \E i \in 1..Len(q) : waitq'[k] = q[i]
    OBVIOUS
  <2>1. Len(waitq') = Len(q) + 1 /\ Len(q) \in Nat /\ k \in Nat
    BY <1>2
  <2>2. CASE k = Len(q) + 1
    BY <1>2, <2>2
  <2>3. CASE k # Len(q) + 1
    <3>1. k \in 1..Len(q)
      BY <2>1, <2>3
    <3>2. waitq'[k] = q[k]
      BY <1>2, <3>1
    <3> QED BY <3>1, <3>2
  <2> QED BY <2>2, <2>3
<1> QED BY <1>2, <1>3 DEF Queues, Fewer

\* The innermost call stays a call.
LEMMA StaysIn ==
    ASSUME AInv, AInv', fault = "none", NEW t \in Threads, stack[t] # <<>>, NEW g, SetTop(t, g)
    PROVE  stack'[t] # <<>>
<1>1. g \in Frame /\ stack \in [Threads -> Seq(Frame)]
  BY SetMoves DEF AInv, TypeOK
<1> QED BY <1>1, MoveSet

\* Most steps leave the waiters alone, ...
LEMMA LeavesWaiters ==
    ASSUME AInv, NEW t \in Threads,
           \/ CallOpen(t) \/ CallInvoke(t) \/ CallClose(t)
           \/ OpenReuse(t) \/ OpenLoad(t) \/ OpenFails(t) \/ OpenChk(t)
           \/ BusyConcurrent(t) \/ BusyGranted(t) \/ ClearConcurrent(t)
           \/ EnterTa(t) \/ TaReturn(t) \/ TaPanic(t) \/ Find(t) \/ GetNothing(t)
           \/ InvChk(t) \/ InvPost(t) \/ DestroyTaCtx(t) \/ CloseChk(t) \/ Release(t)
           \/ Destroy(t) \/ Drain(t) \/ FreeCtx(t) \/ CheckParamsFails(t)
    PROVE  Waits(t)
<1>1. TypeOK
  BY DEF AInv
<1>2. /\ \A f : SetTop(t, f) => Own(t)
      /\ \A pc : Goto(t, pc) => Own(t)
      /\ \A f : Push(t, f) => Own(t)
      /\ Return(t) => Own(t)
  BY <1>1, StackOwn
<1>3. \A pc : At(t, pc) => ~Waiting(t)
  BY DEF At
<1>4. CanCall(t) => ~Waiting(t)
  BY DEF CanCall
<1>5. Exclusive(t) => ~Waiting(t)
  BY <1>3 DEF Exclusive
<1>6. \A c : NewSession(t, c) => Own(t)
  BY <1>2 DEF NewSession
<1>7. ASSUME Own(t), ~Waiting(t), UNCHANGED waitq PROVE Waits(t)
  BY <1>7 DEF Waits, Fewer
<1>8. CASE CallOpen(t) \/ CallInvoke(t) \/ CallClose(t)
  BY <1>2, <1>4, <1>7, <1>8 DEF CallOpen, CallInvoke, CallClose
<1>9. CASE OpenReuse(t) \/ OpenLoad(t) \/ OpenFails(t) \/ OpenChk(t)
  BY <1>2, <1>3, <1>6, <1>7, <1>9 DEF OpenReuse, OpenLoad, OpenFails, OpenChk
<1>10. CASE BusyConcurrent(t) \/ BusyGranted(t) \/ ClearConcurrent(t)
  BY <1>2, <1>3, <1>5, <1>7, <1>10 DEF BusyConcurrent, BusyGranted, ClearConcurrent
<1>11. CASE EnterTa(t) \/ TaReturn(t) \/ TaPanic(t) \/ Find(t) \/ GetNothing(t)
  BY <1>2, <1>3, <1>7, <1>11 DEF EnterTa, TaReturn, TaPanic, Find, GetNothing
<1>12. CASE InvChk(t) \/ InvPost(t) \/ DestroyTaCtx(t) \/ CloseChk(t) \/ Release(t)
  BY <1>2, <1>3, <1>7, <1>12 DEF InvChk, InvPost, DestroyTaCtx, CloseChk, Release
<1>13. CASE Destroy(t) \/ Drain(t) \/ FreeCtx(t) \/ CheckParamsFails(t)
  BY <1>2, <1>3, <1>7, <1>13 DEF Destroy, Drain, FreeCtx, CheckParamsFails
<1> QED BY <1>8, <1>9, <1>10, <1>11, <1>12, <1>13

\* ... some wake threads up, ...
LEMMA WakesWaiters ==
    ASSUME AInv, NEW t \in Threads, OpenPut(t) \/ BusyRefused(t) \/ ClearBusy(t) \/ Put(t)
    PROVE  Waits(t)
<1>1. TypeOK
  BY DEF AInv
<1>2. /\ \A f : SetTop(t, f) => Own(t)
      /\ \A pc : Goto(t, pc) => Own(t)
      /\ Return(t) => Own(t)
  BY <1>1, StackOwn
<1>3. \A pc : At(t, pc) => ~Waiting(t)
  BY DEF At
<1>4. Exclusive(t) => ~Waiting(t)
  BY <1>3 DEF Exclusive
<1>5. ASSUME Own(t), ~Waiting(t), Fewer(waitq') PROVE Waits(t)
  BY <1>5 DEF Waits
<1>6. Fewer(waitq) /\ (\A cv : Fewer(Signal(waitq, cv))) /\ \A cv, dv : Fewer(Signal(Signal(waitq, cv), dv))
  BY <1>1, FewerIs
<1>7. /\ \A s : Fewer(SignalRefc(waitq, s))
      /\ \A s, cv : Fewer(SignalRefc(Signal(waitq, cv), s))
  BY <1>6 DEF SignalRefc
<1>8. CASE OpenPut(t)
  BY <1>2, <1>3, <1>5, <1>7, <1>8 DEF OpenPut
<1>9. CASE BusyRefused(t)
  <2>1. waitq' = Signal(waitq, SiCv) \/ waitq' = waitq
    BY <1>9 DEF BusyRefused
  <2>2. Own(t) /\ ~Waiting(t)
    BY <1>2, <1>4, <1>9 DEF BusyRefused
  <2> QED BY <1>5, <1>6, <2>1, <2>2
<1>10. CASE ClearBusy(t)
  <2>1. PICK cv : cv = BusyCv(Deref(Top(t)))
    OBVIOUS
  <2>2. waitq' = Signal(Signal(waitq, cv), SiCv) \/ waitq' = Signal(waitq, cv)
    BY <1>10, <2>1 DEF ClearBusy
  <2>3. Own(t) /\ ~Waiting(t)
    BY <1>2, <1>3, <1>10 DEF ClearBusy
  <2> QED BY <1>5, <1>6, <2>2, <2>3
<1>11. CASE Put(t)
  <2>1. PICK s : s = Top(t).s
    OBVIOUS
  <2>2. waitq' = SignalRefc(Signal(waitq, LockCv(s)), s) \/ waitq' = SignalRefc(waitq, s)
    BY <1>11, <2>1 DEF Put
  <2>3. Own(t) /\ ~Waiting(t)
    BY <1>2, <1>3, <1>11 DEF Put
  <2> QED BY <1>5, <1>7, <2>2, <2>3
<1> QED BY <1>8, <1>9, <1>10, <1>11

\* ... and in others the thread waits or wakes threads up.
LEMMA JoinsWaiters ==
    ASSUME AInv, AInv', fault = "none", NEW t \in Threads,
           BusyWait(t) \/ SiWait(t) \/ Get(t) \/ GetWoken(t) \/ Unlink(t) \/ UnlinkWoken(t)
    PROVE  Waits(t)
<1>1. TypeOK
  BY DEF AInv
<1>2. /\ \A f : SetTop(t, f) => Own(t)
      /\ \A pc : Goto(t, pc) => Own(t)
      /\ Return(t) => Own(t)
      /\ UNCHANGED stack => Own(t)
  BY <1>1, StackOwn
<1>3. \A pc : At(t, pc) => ~Waiting(t) /\ stack[t] # <<>>
  BY DEF At
<1>4. Exclusive(t) => ~Waiting(t) /\ stack[t] # <<>>
  BY <1>3 DEF Exclusive
<1>5. /\ waitq \in Seq(Waiters) /\ Fewer(waitq) /\ (\A cv : Fewer(Signal(waitq, cv)))
      /\ \A cv : Broadcast(waitq, cv) \in Seq(Waiters) /\ Fewer(Broadcast(waitq, cv))
  BY <1>1, FewerIs
<1>6. ASSUME Own(t), ~Waiting(t), Fewer(waitq') PROVE Waits(t)
  BY <1>6 DEF Waits
<1>7. ASSUME NEW q, q \in Seq(Waiters), Fewer(q), NEW cv, waitq' = Wait(q, t, cv), stack[t] # <<>>, ~Waiting(t),
             \/ \E f : SetTop(t, f)
             \/ UNCHANGED stack
      PROVE  Waits(t)
  <2>1. Own(t)
    BY <1>2, <1>7
  <2>2. stack'[t] # <<>>
    BY <1>7, StaysIn
  <2>3. Queues(t)
    BY <1>7, <2>2, QueuesIs
  <2> QED BY <1>7, <2>1, <2>3 DEF Waits
<1>8. ASSUME NEW cv, waitq' = Wait(waitq, t, cv), stack[t] # <<>>, ~Waiting(t), (\E f : SetTop(t, f)) \/ UNCHANGED stack
      PROVE  Waits(t)
  BY <1>5, <1>7, <1>8
<1>9. \A pc : Goto(t, pc) => \E f : SetTop(t, f)
  BY DEF Goto
<1>10. CASE BusyWait(t) \/ SiWait(t)
  <2>1. \E pc, cv : WaitOn(t, pc, cv)
    BY <1>10 DEF BusyWait, SiWait
  <2>2. stack[t] # <<>> /\ ~Waiting(t)
    BY <1>4, <1>10 DEF BusyWait, SiWait
  <2>3. PICK pc, cv : WaitOn(t, pc, cv)
    BY <2>1
  <2>4. waitq' = Wait(waitq, t, cv) /\ \E f : SetTop(t, f)
    BY <1>9, <2>3 DEF WaitOn
  <2> QED BY <1>8, <2>2, <2>4
<1>11. CASE Get(t)
  <2>1. PICK s : s = FindIn(lists[Top(t).own], Top(t).id)
    OBVIOUS
  <2>2. stack[t] # <<>> /\ ~Waiting(t)
    BY <1>3, <1>11 DEF Get
  <2>3. \E f : SetTop(t, f)
    BY <1>11 DEF Get
  <2>4. waitq' = Wait(waitq, t, LockCv(s)) \/ waitq' = waitq
    BY <1>11, <2>1 DEF Get
  <2> QED BY <1>2, <1>5, <1>6, <1>8, <2>2, <2>3, <2>4
<1>12. CASE GetWoken(t)
  <2>1. PICK s : s = Top(t).s
    OBVIOUS
  <2>2. stack[t] # <<>> /\ ~Waiting(t)
    BY <1>3, <1>12 DEF GetWoken
  <2>3. \/ waitq' = SignalRefc(waitq, s) /\ Return(t)
        \/ waitq' = Wait(waitq, t, LockCv(s)) /\ UNCHANGED stack
        \/ Goto(t, AfterGet(Top(t).op)) /\ UNCHANGED waitq
    BY <1>12, <2>1 DEF GetWoken
  <2>4. Fewer(SignalRefc(waitq, s))
    BY <1>5 DEF SignalRefc
  <2> QED BY <1>2, <1>5, <1>6, <1>8, <2>2, <2>3, <2>4
<1>13. FreeSession(t) => Own(t)
  <2>1. FreeSession(t) => Return(t) \/ \E pc : Goto(t, pc)
    BY DEF FreeSession
  <2> QED BY <1>2, <2>1
<1>14. CASE Unlink(t)
  <2>1. PICK s : s = Top(t).s
    OBVIOUS
  <2>2. PICK q : q = Broadcast(waitq, LockCv(s))
    OBVIOUS
  <2>3. q \in Seq(Waiters) /\ Fewer(q)
    BY <1>5, <2>2
  <2>4. stack[t] # <<>> /\ ~Waiting(t)
    BY <1>3, <1>14 DEF Unlink
  <2>5. \/ waitq' = Wait(q, t, RefcCv(s)) /\ Goto(t, "wait_refc")
        \/ waitq' = q /\ FreeSession(t)
    BY <1>14, <2>1, <2>2 DEF Unlink
  <2>6. CASE waitq' = Wait(q, t, RefcCv(s)) /\ Goto(t, "wait_refc")
    BY <1>7, <1>9, <2>3, <2>4, <2>6
  <2>7. CASE waitq' = q /\ FreeSession(t)
    BY <1>6, <1>13, <2>3, <2>4, <2>7
  <2> QED BY <2>5, <2>6, <2>7
<1>15. CASE UnlinkWoken(t)
  <2>1. PICK s : s = Top(t).s
    OBVIOUS
  <2>2. stack[t] # <<>> /\ ~Waiting(t)
    BY <1>3, <1>15 DEF UnlinkWoken
  <2>3. \/ waitq' = Wait(waitq, t, RefcCv(s)) /\ UNCHANGED stack
        \/ waitq' = waitq /\ FreeSession(t)
    BY <1>15, <2>1 DEF UnlinkWoken
  <2> QED BY <1>5, <1>6, <1>8, <1>13, <2>2, <2>3
<1> QED BY <1>10, <1>11, <1>12, <1>14, <1>15

\* Every step leaves threads waiting in calls only.
LEMMA StepWaits ==
    ASSUME AInv, AInv', fault = "none", NEW t \in Threads, Step(t) \/ CallOpen(t) \/ CallInvoke(t) \/ CallClose(t)
    PROVE  Waits(t)
<1>1. CASE CallOpen(t) \/ CallInvoke(t) \/ CallClose(t)
  BY <1>1, LeavesWaiters
<1>2. CASE Step(t)
  <2>1. \/ OpenReuse(t) \/ OpenLoad(t) \/ OpenFails(t) \/ OpenChk(t)
        \/ BusyConcurrent(t) \/ BusyGranted(t) \/ ClearConcurrent(t)
        \/ EnterTa(t) \/ TaReturn(t) \/ TaPanic(t) \/ Find(t) \/ GetNothing(t)
        \/ InvChk(t) \/ InvPost(t) \/ DestroyTaCtx(t) \/ CloseChk(t) \/ Release(t)
        \/ Destroy(t) \/ Drain(t) \/ FreeCtx(t) \/ CheckParamsFails(t)
        \/ OpenPut(t) \/ BusyRefused(t) \/ ClearBusy(t) \/ Put(t)
        \/ BusyWait(t) \/ SiWait(t) \/ Get(t) \/ GetWoken(t) \/ Unlink(t) \/ UnlinkWoken(t)
    BY <1>2 DEF Step
  <2> QED BY <2>1, LeavesWaiters, WakesWaiters, JoinsWaiters
<1> QED BY <1>1, <1>2

\* Everything is in order at first.
LEMMA InitTidy == ASSUME Init PROVE WaitInv /\ Neat
<1>1. \A x \in Pl : fr[x] = Null
  BY InitFr
<1>2. usable = {} /\ (\A s \in Sessions : sess[s] = NullSession) /\ (\A c \in Ctxs : ctx[c] = NullContext)
  BY DEF Init
<1>3. (\A s \in Sessions : sess[s].state = "unused") /\ (\A c \in Ctxs : ctx[c].state = "unused")
  BY <1>2 DEF NullSession, NullContext
<1>4. WaitInv
  BY DEF Init, WaitInv
<1>5. ~HalfOpen(Null) /\ ~Ending(Null)
  BY NullIdle, NullSays
<1>6. SessTidy
  BY <1>1, <1>2, <1>3, <1>5 DEF SessTidy, LiveInv, UnlinkInv, ExactInv, LockInv, Opening
<1>7. ctxes = <<>>
  BY DEF Init
<1>8. \A c \in Ctxs : ~On(c, ctxes)
  BY <1>7 DEF On
<1>9. CtxTidy
  BY <1>1, <1>3, <1>5, <1>8 DEF CtxTidy, FlagInv, KeptInv, EndInv
<1> QED BY <1>4, <1>6, <1>9 DEF Neat

\* Every step of the core leaves everything in order.
LEMMA StepTidy ==
    ASSUME AInv, AInv', fault' = "none", Core, Neat, Disciplined, NEW t \in Threads, Step(t)
    PROVE  Neat'
<1>1. CASE OpenReuse(t) \/ OpenLoad(t) \/ OpenFails(t) \/ OpenChk(t) \/ OpenPut(t)
  BY <1>1, OpenReuseTidy, OpenLoadTidy, NothingTidy, OpenChkTidy, OpenPutTidy
<1>2. CASE BusyConcurrent(t) \/ BusyWait(t) \/ SiWait(t) \/ BusyGranted(t) \/ BusyRefused(t) \/ ClearConcurrent(t) \/ ClearBusy(t)
  BY <1>2, BusyTidy, ClearTidy
<1>3. CASE EnterTa(t) \/ TaReturn(t) \/ TaPanic(t)
  BY <1>3, TaTidy
<1>4. CASE Find(t) \/ GetNothing(t) \/ Get(t) \/ GetWoken(t) \/ Put(t)
  BY <1>4, NothingTidy, GetTidy, GetWokenTidy, PutTidy
<1>5. CASE InvChk(t) \/ InvPost(t) \/ DestroyTaCtx(t)
  BY <1>5, ChkTidy, PostTidy, DestroyTidy
<1>6. CASE CloseChk(t) \/ Unlink(t) \/ UnlinkWoken(t) \/ Release(t)
  BY <1>6, ChkTidy, UnlinkTidy, UnlinkWokenTidy, ReleaseTidy
<1>7. CASE Destroy(t) \/ Drain(t) \/ FreeCtx(t)
  BY <1>7, PostTidy, CloseTidy, FreeCtxTidy
<1>8. ~CheckParamsFails(t)
  BY DEF CheckParamsFails, Disciplined
<1> QED BY <1>1, <1>2, <1>3, <1>4, <1>5, <1>6, <1>7, <1>8 DEF Step

\* Everything is in order until a fault.
TidyInv == fault = "none" => WaitInv /\ Neat

\* Every step keeps it so.
LEMMA NextTidy ==
    ASSUME AInv, CoreInv, TidyInv, Disciplined, [Next]_vars
    PROVE  TidyInv'
<1> SUFFICES ASSUME fault' = "none"
             PROVE  WaitInv' /\ Neat'
  BY DEF TidyInv
<1>1. AInv'
  BY NextA
<1>2. CASE Next
  <2>1. PICK t \in Threads : Step(t) \/ CallOpen(t) \/ CallInvoke(t) \/ CallClose(t)
    BY <1>2 DEF Next
  <2>2. fault = "none" /\ Core /\ WaitInv /\ Neat
    BY <2>1, StepsGo DEF CoreInv, TidyInv
  <2>3. Waits(t)
    BY <1>1, <2>1, <2>2, StepWaits
  <2>4. WaitInv'
    BY <1>1, <2>2, <2>3, WaitMove
  <2>5. Neat'
    BY <1>1, <2>1, <2>2, StepTidy, CallTidy, CloseTidy
  <2> QED BY <2>4, <2>5
<1>3. CASE UNCHANGED vars
  <2>1. UNCHANGED <<sess, ctx, ctxes, lists, stack, usable, fault>> /\ UNCHANGED waitq
    BY <1>3 DEF vars
  <2>2. WaitInv /\ Neat
    BY <2>1 DEF TidyInv
  <2>3. Neat'
    BY <2>1, <2>2, NeatStill
  <2> QED BY <2>1, <2>2, <2>3 DEF WaitInv
<1> QED BY <1>2, <1>3

\* Calls that have all returned leave nothing behind: no lock, no waiter, no
\* busy flag, no session that nobody can close and no context that should have
\* been destroyed, as long as clients are disciplined (tee_ta_put_session,
\* tee_ta_clear_busy, tee_ta_unlink_session, tee_ta_close_session, free_utc).
THEOREM NothingStays == Disciplined => (Spec => []NothingLeftBehind)
<1> SUFFICES ASSUME Disciplined
             PROVE  Spec => []NothingLeftBehind
  OBVIOUS
<1>1. Init => TurnInv /\ TidyInv
  BY InitTurn, InitTidy DEF TurnInv, TidyInv
<1>2. AInv /\ CoreInv /\ TurnInv /\ TidyInv /\ [Next]_vars => TurnInv' /\ TidyInv'
  BY NextTurn, NextTidy
<1>3. ASSUME AInv, TurnInv, TidyInv PROVE NothingLeftBehind
  <2> SUFFICES ASSUME fault = "none", \A t \in Threads : stack[t] = <<>>
               PROVE  /\ waitq = <<>> /\ si.thread = NoThread
                      /\ \A s \in Sessions : sess[s].state = "live" =>
                            s \in usable /\ sess[s].ref = 0 /\ sess[s].lock = NoThread
                      /\ \A c \in Ctxs : ctx[c].state = "live" =>
                            /\ ~ctx[c].busy
                            /\ ctx[c].ref = 0 => {"keep", "single"} \subseteq CtxFlags(c)
                      /\ \A c \in Ctxs : ctx[c].state = "freed" => lists[c] = <<>>
    BY DEF NothingLeftBehind
  <2>1. Turn /\ WaitInv /\ SessTidy /\ CtxTidy /\ TypeOK
    BY <1>3 DEF TurnInv, TidyInv, Neat, AInv
  <2>2. stack \in [Threads -> Seq(Frame)] /\ waitq \in Seq(Waiters)
    BY <2>1 DEF TypeOK, Waiters
  <2>3. ASSUME NEW x \in Pl PROVE fr[x] = Null
    <3>1. PICK v \in Threads, i \in Depth : x = <<v, i>>
      BY DEF Pl
    <3>2. fr[<<v, i>>] = IF i <= Len(stack[v]) THEN stack[v][i] ELSE Null
      BY <2>2, FrIs
    <3>3. Len(stack[v]) = 0
      OBVIOUS
    <3> QED BY <3>1, <3>2, <3>3 DEF Depth
  <2>4. /\ ~HoldsBusy(Null) /\ ~Ending(Null) /\ ~HalfOpen(Null) /\ ~Grip(Null) /\ ~Ref(Null) /\ Null.op # "close"
    BY NullIdle, NullSays
  <2>5. waitq = <<>>
    <3>1. ASSUME NEW i \in 1..Len(waitq) PROVE FALSE
      <4>1. waitq[i] \in Waiters
        BY <2>2
      <4>2. waitq[i].t \in Threads
        BY <4>1 DEF Waiters
      <4> QED BY <2>1, <4>2 DEF WaitInv
    <3>2. Len(waitq) = 0
      BY <2>2, <3>1
    <3> QED BY <2>2, <3>2
  <2>6. si.thread = NoThread
    <3>1. Holders(ctx, fr) = {}
      BY <2>3, <2>4 DEF Holders, Counted
    <3>2. Cardinality(Holders(ctx, fr)) = 0
      BY <3>1, FS_EmptySet
    <3> QED BY <2>1, <3>2 DEF Turn, SiInv
  <2>7. ASSUME NEW s \in Sessions, sess[s].state = "live" PROVE s \in usable /\ sess[s].ref = 0 /\ sess[s].lock = NoThread
    <3>1. ~Opening(fr, s)
      BY <2>3, <2>4 DEF Opening
    <3>2. s \in usable
      BY <2>1, <2>3, <2>4, <2>7, <3>1 DEF SessTidy, LiveInv, Closes
    <3>3. Refs(fr, s) = {}
      BY <2>3, <2>4 DEF Refs
    <3>4. sess[s].ref = 0
      BY <2>1, <3>2, <3>3, FS_EmptySet DEF SessTidy, ExactInv
    <3>5. sess[s].lock = NoThread
      BY <2>1, <2>3, <2>4, <2>7 DEF SessTidy, LockInv
    <3> QED BY <3>2, <3>4, <3>5
  <2>8. ASSUME NEW c \in Ctxs, ctx[c].state = "live"
        PROVE  ~ctx[c].busy /\ (ctx[c].ref = 0 => {"keep", "single"} \subseteq CtxFlags(c))
    <3>1. ~ctx[c].busy
      BY <2>1, <2>3, <2>4, <2>8 DEF CtxTidy, FlagInv
    <3>2. On(c, ctxes)
      BY <2>1, <2>3, <2>4, <2>8 DEF CtxTidy, KeptInv
    <3>3. CtxFlags(c) = FlagsIn(ctx[c])
      BY DEF CtxFlags, FlagsIn
    <3>4. ctx[c].ref = 0 => {"keep", "single"} \subseteq FlagsIn(ctx[c])
      BY <2>1, <3>2 DEF CtxTidy, KeptInv
    <3> QED BY <3>1, <3>3, <3>4
  <2>9. \A c \in Ctxs : ctx[c].state = "freed" => lists[c] = <<>>
    BY <2>1 DEF CtxTidy, EndInv
  <2> QED BY <2>5, <2>6, <2>7, <2>8, <2>9
<1>4. Spec => [](AInv /\ CoreInv)
  BY CoreInvariance
<1> QED BY <1>1, <1>2, <1>3, <1>4, PTL DEF Spec
==============================================================================
